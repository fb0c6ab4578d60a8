---------------------------- MODULE MCAlgorithms ----------------------------
(***************************************************************************)
(* The algorithms of one call, each checked on inputs that grow a piece at *)
(* a time, and the query engine with a commit between its reads.  A        *)
(* behaviour has one subject; the variables of the others stay as they are *)
(* initially.                                                              *)
(***************************************************************************)
EXTENDS Outline, Split, IgnoreRules, TempFile, SearchQuery, Query, TLC

VARIABLE subject   \* the algorithm that is fed

InputSymmetry == Permutations(Files) \cup Permutations(Temps)

\* Directories d, d/d and v, with a document in each and a file of no parser.
TreeDirectories == {<<"d">>, <<"d", "d">>, <<"v">>}
TreeDocuments == {<<"f">>, <<"d", "f">>, <<"d", "d", "f">>, <<"d", "x">>, <<"v", "f">>}
TreeGlobs == {{"d"}, {"f"}, AnyDepth}

\* "a", "./a", "a/", "a/b", "*" and "..".
SeedKeys == {<<"a">>, <<".", "a">>, <<"a", "">>, <<"a", "b">>, <<"*">>, <<"..">>}
SeedFiles == {<<"a">>, <<"b">>, <<"a", "b">>, <<"a", "c">>, <<"c", "b">>}

\* A root, two nodes below it, and one below the first of them.
Family == "root" :> NoNode @@ "left" :> "root" @@ "right" :> "root" @@ "leaf" :> "left"

algorithms == <<vars, data, rules, raw, query, engineVars, subject>>

AlgorithmsInit ==
    /\ Init /\ SplitInit /\ IgnoreInit /\ TempFileInit /\ QueryInit /\ EngineInit
    /\ subject \in {"outline", "split", "ignore", "tempfile", "query", "engine"}
    /\ subject # "split" => data[Root] = "map"
    /\ subject # "engine" => \A n \in Nodes : table[n] = NoRow

Feed(what) == subject = what /\ UNCHANGED subject

AlgorithmsNext ==
    \/ Next /\ Feed("outline") /\ UNCHANGED <<data, rules, raw, query, engineVars>>
    \/ SplitNext /\ Feed("split") /\ UNCHANGED <<vars, rules, raw, query, engineVars>>
    \/ IgnoreNext /\ Feed("ignore") /\ UNCHANGED <<vars, data, raw, query, engineVars>>
    \/ TempFileNext /\ Feed("tempfile") /\ UNCHANGED <<vars, data, rules, query, engineVars>>
    \/ QueryNext /\ Feed("query") /\ UNCHANGED <<vars, data, rules, raw, engineVars>>
    \/ EngineNext /\ Feed("engine") /\ UNCHANGED <<vars, data, rules, raw, query>>

AlgorithmsSpec == AlgorithmsInit /\ [][AlgorithmsNext]_algorithms
=============================================================================
