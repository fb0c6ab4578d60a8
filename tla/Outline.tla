------------------------------ MODULE Outline ------------------------------
(***************************************************************************)
(* How a compile turns Markdown files into a tree with identities:         *)
(* parseMarkdown's stack of open sections, file after file, and the        *)
(* sibling numbers wireIdentity hashes into node ids.  SourceTree builds   *)
(* on the result: an id is a source file and a position in this tree.      *)
(* A YAML preamble is a tree of its own, its promoted values below it.     *)
(*                                                                         *)
(* The blocks of the files arrive one at a time, in any order of the files.*)
(* Nodes are numbered in the order they are made, which is the order of    *)
(* parser.Flatten.                                                         *)
(***************************************************************************)
EXTENDS Naturals, Sequences, FiniteSets

CONSTANTS
    Files,      \* source files of the compile
    MaxLevel,   \* deepest heading
    MaxNodes    \* bound: nodes of the compile

ASSUME OutlineAssumption == MaxLevel \in Nat \ {0} /\ MaxNodes \in Nat

Levels == 1..MaxLevel
NoLevel == 0        \* the level of a node that is no heading
NoParent == 0

VARIABLES
    out,     \* nodes made: source file, heading level, parent's number, whether of the preamble
    stack,   \* open sections: node number and level, the sentinel first
    file,    \* the file being parsed
    todo     \* files to parse

vars == <<out, stack, file, todo>>

Sentinel == [node |-> NoParent, level |-> 0]
Frames == [node : Nat, level : Nat]
NodeRecords == [file : Files, level : Levels \cup {NoLevel}, parent : Nat, front : BOOLEAN]

Init ==
    /\ out = << >>
    /\ stack = <<Sentinel>>
    /\ \E f \in Files : file = f /\ todo = Files \ {f}

-----------------------------------------------------------------------------
\* Faulty: a section at the heading's own level stays open.
KeptToo(level) == {s \in 1..Len(stack) : stack[s].level <= level}

\* popSections: sections at the new heading's level or deeper are closed.
Kept(level) == {s \in 1..Len(stack) : s = 1 \/ stack[s].level < level}
PopSections(level) ==
    SubSeq(stack, 1, CHOOSE s \in Kept(level) : \A t \in Kept(level) : t <= s)

\* Faulty: levels are counted from one too many.
AttachDeeper(open, level) ==
    out' = Append(out, [file |-> file, level |-> level + 1, parent |-> open[Len(open)].node,
                        front |-> FALSE])

\* attachNode: the node goes under the innermost open section.
AttachNode(open, level) ==
    out' = Append(out, [file |-> file, level |-> level, parent |-> open[Len(open)].node,
                        front |-> FALSE])

\* A preamble is a root node; it opens no section.
Preamble ==
    /\ Len(out) < MaxNodes
    /\ \A k \in 1..Len(out) : out[k].file # file
    /\ out' = Append(out, [file |-> file, level |-> NoLevel, parent |-> NoParent, front |-> TRUE])
    /\ UNCHANGED <<stack, file, todo>>

\* A promoted value of a YAML preamble, below the preamble or a promoted map p: buildNode
\* makes a map's values depth first, before the body of the file is parsed.
FrontValue(p) ==
    /\ Len(out) < MaxNodes
    /\ out[p].file = file /\ out[p].front
    /\ \A j \in (p + 1)..Len(out) : out[j].front /\ out[j].parent >= p
    /\ out' = Append(out, [file |-> file, level |-> NoLevel, parent |-> p, front |-> TRUE])
    /\ UNCHANGED <<stack, file, todo>>

Heading(level) ==
    /\ Len(out) < MaxNodes
    /\ LET open == PopSections(level)
       IN  /\ AttachNode(open, level)
           /\ stack' = Append(open, [node |-> Len(out) + 1, level |-> level])
    /\ UNCHANGED <<file, todo>>

\* Any other block with content; a block without content makes no node.
Block ==
    /\ Len(out) < MaxNodes
    /\ AttachNode(stack, NoLevel)
    /\ UNCHANGED <<stack, file, todo>>

NextFile(f) ==
    /\ f \in todo
    /\ file' = f
    /\ todo' = todo \ {f}
    /\ stack' = <<Sentinel>>
    /\ UNCHANGED out

Next ==
    \/ Preamble \/ Block
    \/ \E p \in 1..Len(out) : FrontValue(p)
    \/ \E level \in Levels : Heading(level)
    \/ \E f \in Files : NextFile(f)

Spec == Init /\ [][Next]_vars

-----------------------------------------------------------------------------
\* Faulty: siblings are counted per level, or roots across files.
SiblingsOfLevel(k) ==
    {j \in 1..(k - 1) : /\ out[j].parent = out[k].parent
                        /\ out[j].file = out[k].file
                        /\ out[j].level = out[k].level}

SiblingsOfAnyFile(k) == {j \in 1..(k - 1) : out[j].parent = out[k].parent}

\* wireIdentity: roots are numbered per file, other nodes below their parent.
SiblingsBefore(k) ==
    {j \in 1..(k - 1) : /\ out[j].parent = out[k].parent
                        /\ out[k].parent = NoParent => out[j].file = out[k].file}
SiblingIndex(k) == Cardinality(SiblingsBefore(k))

\* IdentifyNode: an injective hash of the file, the parent's id and the sibling index.
Identity ==
    LET id[k \in 1..Len(out)] ==
            IF out[k].parent = NoParent THEN <<out[k].file, SiblingIndex(k)>>
                                        ELSE Append(id[out[k].parent], SiblingIndex(k))
    IN  id

-----------------------------------------------------------------------------
\* Every variable has its type.
TypeOK ==
    /\ out \in Seq(NodeRecords)
    /\ stack \in Seq(Frames)
    /\ file \in Files
    /\ todo \in SUBSET Files

\* Earlier headings of k's file that enclose a node of k's level.
Enclosing(k) ==
    {j \in 1..(k - 1) : /\ out[j].file = out[k].file
                        /\ out[j].level # NoLevel
                        /\ out[k].level # NoLevel => out[j].level < out[k].level}

\* The parent of a heading or a block is the nearest earlier heading of its file that
\* encloses it: the stack never forgets an open section and never keeps a closed one, and
\* nothing of the body lands below the preamble.
ParentIsNearestHeading ==
    \A k \in 1..Len(out) :
        \/ out[k].front
        \/ out[k].parent = NoParent /\ Enclosing(k) = {}
        \/ out[k].parent \in Enclosing(k) /\ \A j \in Enclosing(k) : j <= out[k].parent

\* Two nodes of a compile never get the same id.
IdentitiesAreUnique ==
    \A j, k \in 1..Len(out) : Identity[j] = Identity[k] => j = k

\* The id of a node of one file does not depend on which other files are compiled with
\* it nor on their order: counting only its own file's nodes gives the same numbers.
\* A rescan of one file and a compile of the directory agree on its ids.
IdentityIsPerFile ==
    \A k \in 1..Len(out) :
        SiblingsBefore(k) = {j \in 1..(k - 1) : out[j].file = out[k].file
                                                /\ out[j].parent = out[k].parent}
=============================================================================
