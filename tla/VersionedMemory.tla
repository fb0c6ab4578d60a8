-------------------------- MODULE VersionedMemory --------------------------
(***************************************************************************)
(* What the version history promises its readers: the memory is a map from *)
(* node ids to contents, every change of it is one step, and that step     *)
(* appends one record with, for every node it changes and for no other,    *)
(* the content before and after.  MemoryDelta and MemoryHistory read the   *)
(* records; replaying them gives the memory, and replaying them backwards  *)
(* undoes them.                                                            *)
(***************************************************************************)
EXTENDS Naturals, Sequences

CONSTANTS Ids, Values, None

VARIABLES memory, history

Changes(before, after) ==
    [n \in Ids |-> [old |-> IF before[n] = after[n] THEN None ELSE before[n],
                    new |-> IF before[n] = after[n] THEN None ELSE after[n]]]

Init ==
    /\ memory = [n \in Ids |-> None]
    /\ history = << >>

Change ==
    /\ memory' \in [Ids -> Values \cup {None}]
    /\ memory' # memory
    /\ history' = Append(history, Changes(memory, memory'))

Spec == Init /\ [][Change]_<<memory, history>>

=============================================================================
