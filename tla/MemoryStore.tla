---------------------------- MODULE MemoryStore ----------------------------
(***************************************************************************)
(* The SQLite store and the emitter: table nodes, the snapshots with their *)
(* diffs, and the HEAD cursor.  An emission is what one call of            *)
(* emitter.Emit is given; Commit is the transaction it runs.  Every other  *)
(* component changes this state through Commit only.                       *)
(*                                                                         *)
(* diffs rows and the upserted node of a delta come from the same parsed   *)
(* node, so a delta carries that node's row; a snapshot has at most one    *)
(* delta per node id (DiffFlat makes one per distinct id).                 *)
(***************************************************************************)
EXTENDS SourceTree, Sequences

CONSTANTS
    NoContent,     \* old_content of an "add"
    SourceArg      \* serve's --source as written: RootDir, or a relative path to it

\* A missing old_content is no content.
ASSUME MemoryStoreAssumption == NoContent \notin Contents

VARIABLES
    nodes,     \* table nodes
    log,       \* tables snapshots and diffs, in the order of snapshots.id
    head       \* cursors.snapshot_id of HEAD, 0 when there is no such row

storeVars == <<nodes, log, head>>

NoRoot == "none"       \* compile_root of a snapshot that no compile made
CompileRoots == Dirs \cup {NoRoot, SourceArg}

NoDelta == [op |-> "none", old |-> NoContent, row |-> NoRow]
Deltas == {NoDelta}
    \cup [op : {"add"}, old : {NoContent}, row : Rows]
    \cup [op : {"mod"}, old : Contents,    row : Rows]
    \cup [op : {"rem"}, old : Contents,    row : {NoRow}]

\* The hashed pairs: xxhash of the sorted list is taken to be injective.
CursorHashes == [kind : {"nodes", "rem"}, pairs : SUBSET (NodeIds \X Contents)]

Emissions == [deltas : [NodeIds -> Deltas], cursor : CursorHashes, root : CompileRoots]
Snapshots == [deltas : [NodeIds -> Deltas], cursor : CursorHashes,
              root : CompileRoots, parent : Nat]

StoreInit ==
    /\ nodes = EmptyTable
    /\ log = << >>
    /\ head = 0

-----------------------------------------------------------------------------
\* pkg/diff

DiffFlat(flat, prev) ==
    [n \in NodeIds |->
        IF flat[n] # NoRow
        THEN IF prev[n] = NoRow
             THEN [op |-> "add", old |-> NoContent, row |-> flat[n]]
             ELSE IF prev[n].content # flat[n].content
             THEN [op |-> "mod", old |-> prev[n].content, row |-> flat[n]]
             ELSE NoDelta
        ELSE IF prev[n] # NoRow
             THEN [op |-> "rem", old |-> prev[n].content, row |-> NoRow]
             ELSE NoDelta]

\* kind keeps apart the hashes of compiled nodes and those reconcileDeleted
\* makes of "rem:" entries.
CursorHashFlat(kind, flat) ==
    [kind |-> kind, pairs |-> {<<n, flat[n].content>> : n \in Live(flat)}]

-----------------------------------------------------------------------------
\* Reads

\* Nodes with one of the given source files.
GetNodesByFiles(srcs) ==
    [n \in NodeIds |->
        IF nodes[n] # NoRow /\ nodes[n].source \in srcs THEN nodes[n] ELSE NoRow]

\* Snapshot i is the latest one with a delta for node n.
LatestFor(n, i) ==
    /\ i \in 1..Len(log)
    /\ log[i].deltas[n].op # "none"
    /\ \A j \in 1..Len(log) : j > i => log[j].deltas[n].op = "none"

\* Nodes whose latest delta was made under the given compile root.
GetNodesByCompileRoot(root) ==
    [n \in NodeIds |->
        IF /\ nodes[n] # NoRow
           /\ \E i \in 1..Len(log) : LatestFor(n, i) /\ log[i].root = root
        THEN nodes[n] ELSE NoRow]

-----------------------------------------------------------------------------
\* The emission's transaction

Upserted(deltas) == {n \in NodeIds : deltas[n].op \in {"add", "mod"}}
Removed(deltas)  == {n \in NodeIds : deltas[n].op = "rem"}

\* Faulty: ON CONFLICT DO NOTHING.
InsertNodes(table, deltas) ==
    [n \in NodeIds |-> IF n \in Upserted(deltas) /\ table[n] = NoRow THEN deltas[n].row
                                                                     ELSE table[n]]

UpsertNodes(table, deltas) ==
    [n \in NodeIds |-> IF n \in Upserted(deltas) THEN deltas[n].row ELSE table[n]]

ClosedUnderChildren(table, S) ==
    \A n \in Live(table) : table[n].parent \in S => n \in S

\* ON DELETE CASCADE: the least set of rows that holds D and the children of its rows.
Cascade(table, D) ==
    {n \in Live(table) :
        \A S \in SUBSET Live(table) :
            (D \cap Live(table) \subseteq S /\ ClosedUnderChildren(table, S)) => n \in S}

\* Faulty: no cascade.
DeleteOnly(table, D) == [n \in NodeIds |-> IF n \in D THEN NoRow ELSE table[n]]

DeleteNodes(table, D) ==
    [n \in NodeIds |-> IF n \in Cascade(table, D) THEN NoRow ELSE table[n]]

ApplyDeltas(table, deltas) ==
    DeleteNodes(UpsertNodes(table, deltas), Removed(deltas))

\* len(o.deltas) # 0
HasDeltas(e) == \E n \in NodeIds : e.deltas[n].op # "none"

\* parent_id REFERENCES nodes(id): parents are upserted before their children.
ForeignKeysHold(e) ==
    \A n \in Upserted(e.deltas) :
        LET parent == e.deltas[n].row.parent
        IN  parent # NoNode => parent \in Live(nodes) \cup Upserted(e.deltas)

\* cursor_hash ... UNIQUE
CursorIsNew(e) == \A i \in 1..Len(log) : log[i].cursor # e.cursor

\* CreateSnapshotTx, InsertDiffTx, AdvanceCursorTx: the snapshot's parent is HEAD.
Snapshot(e) == [deltas |-> e.deltas, cursor |-> e.cursor, root |-> e.root,
                parent |-> head]

Commit(e) ==
    /\ HasDeltas(e)
    /\ ForeignKeysHold(e)
    /\ CursorIsNew(e)
    /\ nodes' = ApplyDeltas(nodes, e.deltas)
    /\ log' = Append(log, Snapshot(e))
    /\ head' = Len(log) + 1

\* The transaction rolls back: a constraint fails.
ConstraintFails(e) == HasDeltas(e) /\ ~(ForeignKeysHold(e) /\ CursorIsNew(e))

-----------------------------------------------------------------------------
\* The table, the snapshots and HEAD have the shapes of the schema.
StoreTypeOK ==
    /\ nodes \in Tables
    /\ log \in Seq(Snapshots)
    /\ head \in Nat

\* No row's parent_id dangles after any upsert, removal and cascade.
ParentsLive == \A n \in Live(nodes) : nodes[n].parent \in Live(nodes) \cup {NoNode}

\* Every live node is the one its latest diff recorded: the newest diff of a node's
\* history is what MemoryFetch returns.
LogCoversNodes ==
    \A n \in Live(nodes) : \E i \in 1..Len(log) :
        /\ LatestFor(n, i)
        /\ log[i].deltas[n].op # "rem"
        /\ log[i].deltas[n].row = nodes[n]

=============================================================================
