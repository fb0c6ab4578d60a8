------------------------------ MODULE TempFile ------------------------------
(***************************************************************************)
(* .temp.json: keys with slashes and nested objects merge into one tree of *)
(* temperatures, which Resolve walks for the path of a source file.        *)
(*                                                                         *)
(* A key is the sequence of its segments, so "./a" is <<".", "a">> and     *)
(* "a/" is <<"a", "">>.  The JSON document is a function from sequences of *)
(* keys to values; the tree is a function from paths to temperatures.      *)
(***************************************************************************)
EXTENDS Naturals, Sequences, FiniteSets, SequencesExt

CONSTANTS
    Keys,         \* keys of the JSON objects
    Temps,        \* temperatures in [0, 1]
    SeedPaths,    \* paths of source files
    MaxSeedKeys   \* bound: keys of a document

VARIABLE raw      \* the decoded .temp.json

NoTemperature == "none"   \* an entry without temperature
Object == "object"
Unusable == "unusable"    \* a number out of range, or neither number nor object

ASSUME TempFileAssumption ==
    /\ Keys \subseteq Seq(STRING) \ {<< >>}
    /\ SeedPaths \subseteq Seq(STRING)
    /\ MaxSeedKeys \in Nat
    /\ Temps \cap {NoTemperature, Object, Unusable} = {}

TempFileInit == raw = [at \in {<< >>} |-> Object]

AddKey(at, key, value) ==
    /\ Cardinality(DOMAIN raw) <= MaxSeedKeys
    /\ raw[at] = Object /\ Append(at, key) \notin DOMAIN raw
    /\ raw' = [u \in DOMAIN raw \cup {Append(at, key)} |->
                   IF u = Append(at, key) THEN value ELSE raw[u]]

TempFileNext ==
    \E at \in DOMAIN raw, key \in Keys, value \in Temps \cup {Object, Unusable} :
        AddKey(at, key, value)

TempFileSpec == TempFileInit /\ [][TempFileNext]_raw

-----------------------------------------------------------------------------
\* A tree always has its root; a failed load has no tree.
Failed == [p \in {} |-> NoTemperature]
NewEntry == [p \in {<< >>} |-> NoTemperature]

HasChildren(tree, p) == \E q \in DOMAIN tree : IsStrictPrefix(p, q)

\* Faulty: an entry with children takes a temperature.
TempConflictOneSided(dst, p, src, q) ==
    dst[p] # NoTemperature /\ (src[q] # NoTemperature \/ HasChildren(src, q))

TempConflict(dst, p, src, q) ==
    IF dst[p] # NoTemperature THEN src[q] # NoTemperature \/ HasChildren(src, q)
                              ELSE src[q] # NoTemperature /\ HasChildren(dst, p)

\* The segments of a key: one leading "./" and one trailing "/" are dropped.
Segments(key) ==
    LET bare == IF Len(key) > 1 /\ Head(key) = "." THEN Tail(key) ELSE key
    IN  IF Len(bare) > 1 /\ Last(bare) = "" THEN Front(bare) ELSE bare

ValidKey(key) == \A i \in DOMAIN Segments(key) : Segments(key)[i] \notin {"", ".", ".."}

\* insertKey and mergeEntry.
InsertKey(tree, leaf, key) ==
    LET path == Segments(key)
        prefixes == {SubSeq(path, 1, i) : i \in 0..Len(path)}
        grafted == {path \o q : q \in DOMAIN leaf}
        below(p) == SubSeq(p, Len(path) + 1, Len(p))
        conflict ==
            \/ \E p \in DOMAIN tree \cap (prefixes \ {path}) : tree[p] # NoTemperature
            \/ \E p \in DOMAIN tree \cap grafted : TempConflict(tree, p, leaf, below(p))
    IN  IF tree = Failed \/ leaf = Failed \/ ~ValidKey(key) \/ conflict THEN Failed
        ELSE [p \in DOMAIN tree \cup prefixes \cup grafted |->
                 IF p \in grafted /\ leaf[below(p)] # NoTemperature THEN leaf[below(p)]
                 ELSE IF p \in DOMAIN tree THEN tree[p] ELSE NoTemperature]

\* buildEntry: the trees that can result of the keys of an object and the trees of their
\* values, as Go visits the keys in any order.
BuildEntry(keys, leaves) ==
    LET built[done \in SUBSET keys] ==
            IF done = {} THEN {NewEntry}
            ELSE UNION {{InsertKey(tree, leaf, k) : tree \in built[done \ {k}], leaf \in leaves[k]} :
                           k \in done}
    IN  built[keys]

KeysOf(at) == {k \in Keys : Append(at, k) \in DOMAIN raw}

ParseValue ==
    LET parse[at \in DOMAIN raw] ==
            IF raw[at] = Object
            THEN BuildEntry(KeysOf(at), [k \in KeysOf(at) |-> parse[Append(at, k)]])
            ELSE IF raw[at] = Unusable THEN {Failed}
            ELSE {[p \in {<< >>} |-> raw[at]]}
    IN  parse

Load == ParseValue[<< >>]

\* Resolve: the segments of a file's path from the root, with the last "*" seen.
Resolve(tree, path) ==
    LET after[i \in 0..Len(path)] ==
            IF i = 0 THEN [done |-> FALSE, temp |-> NoTemperature]
            ELSE IF after[i - 1].done THEN after[i - 1]
            ELSE LET glob == Append(SubSeq(path, 1, i - 1), "*")
                     child == SubSeq(path, 1, i)
                     fallback == IF glob \in DOMAIN tree /\ tree[glob] # NoTemperature
                                 THEN tree[glob] ELSE after[i - 1].temp
                 IN  IF child \notin DOMAIN tree THEN [done |-> TRUE, temp |-> fallback]
                     ELSE IF tree[child] # NoTemperature THEN [done |-> TRUE, temp |-> tree[child]]
                     ELSE [done |-> FALSE, temp |-> fallback]
    IN  after[Len(path)].temp

-----------------------------------------------------------------------------
\* The path a value of the document is about, and the values that are temperatures.
Located(at) == FlattenSeq([i \in DOMAIN at |-> Segments(at[i])])
Values == DOMAIN raw \ {<< >>}
TempsAt(path) == {raw[v] : v \in {u \in Values : raw[u] \in Temps /\ Located(u) = path}}

Invalid == \E v \in Values : raw[v] = Unusable \/ ~ValidKey(Last(v))

\* A path with a temperature and another value below it, or with two temperatures.
Ambiguous ==
    \E v, w \in Values :
        /\ v # w /\ raw[v] \in Temps
        /\ \/ IsStrictPrefix(Located(v), Located(w))
           \/ Located(v) = Located(w) /\ raw[w] \in Temps

\* The temperature of the file or of a directory above it; failing that, of the "*"
\* nearest to the file.
Seeded(path, temp) ==
    LET keyed == {i \in 1..Len(path) : TempsAt(SubSeq(path, 1, i)) # {}}
        globs == {i \in 0..(Len(path) - 1) : TempsAt(Append(SubSeq(path, 1, i), "*")) # {}}
    IN  \/ \E i \in keyed : temp \in TempsAt(SubSeq(path, 1, i))
        \/ /\ keyed = {}
           /\ \E i \in globs : /\ \A j \in globs : j <= i
                               /\ temp \in TempsAt(Append(SubSeq(path, 1, i), "*"))
        \/ keyed = {} /\ globs = {} /\ temp = NoTemperature

\* In whatever order the keys are visited, a document loads unless a key or value is
\* invalid or a path is given a temperature twice, and a file is seeded with what the keys
\* say of its path, however they are spelled and nested.  Two temperatures that agree are
\* refused like two that do not, where README.md:500 speaks of disagreeing values only.
LoadFollowsTheKeys ==
    \A tree \in Load :
        /\ tree = Failed <=> Invalid \/ Ambiguous
        /\ tree # Failed => \A path \in SeedPaths : Seeded(path, Resolve(tree, path))

=============================================================================
