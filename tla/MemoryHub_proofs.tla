-------------------------- MODULE MemoryHub_proofs --------------------------
(***************************************************************************)
(* Theorems of MemoryHub for any set of processes, any files and documents *)
(* and any bounds.                                                         *)
(***************************************************************************)
EXTENDS MemoryHub, TLAPS

-----------------------------------------------------------------------------
\* What the operators of the store return

\* The empty table is a table.
LEMMA EmptyTableType == EmptyTable \in Tables
BY DEF EmptyTable, Tables

\* The diff of two tables has one well-formed delta per node.
LEMMA DiffFlatType ==
    ASSUME NEW flat \in Tables, NEW prev \in Tables
    PROVE  DiffFlat(flat, prev) \in [NodeIds -> Deltas]
<1>1. \A n \in NodeIds : /\ flat[n] # NoRow => flat[n] \in Rows
                         /\ prev[n] # NoRow => prev[n] \in Rows
  BY DEF Tables
<1>2. \A r \in Rows : r.content \in Contents
  BY DEF Rows
<1> QED
  BY <1>1, <1>2 DEF DiffFlat, Deltas

\* A cursor hash covers pairs of a node and its content.
LEMMA CursorHashFlatType ==
    ASSUME NEW kind \in {"nodes", "rem"}, NEW flat \in Tables
    PROVE  CursorHashFlat(kind, flat) \in CursorHashes
<1>1. \A n \in Live(flat) : n \in NodeIds /\ flat[n] \in Rows
  BY DEF Live, Tables
<1>2. \A n \in Live(flat) : flat[n].content \in Contents
  BY <1>1 DEF Rows
<1> QED
  BY <1>1, <1>2 DEF CursorHashFlat, CursorHashes

\* What the store's queries return, and what is removed from it, are tables.
LEMMA ReadTypes ==
    ASSUME nodes \in Tables
    PROVE  /\ \A srcs : GetNodesByFiles(srcs) \in Tables
           /\ \A root : GetNodesByCompileRoot(root) \in Tables
<1>1. \A n \in NodeIds : nodes[n] \in Rows \cup {NoRow}
  BY DEF Tables
<1>2. \A srcs : GetNodesByFiles(srcs) \in Tables
  BY <1>1 DEF GetNodesByFiles, Tables
<1>3. \A root : GetNodesByCompileRoot(root) \in Tables
  BY <1>1 DEF GetNodesByCompileRoot, Tables
<1> QED
  BY <1>2, <1>3

\* The rows of a compile whose files lie under its root.
LEMMA FlattenType ==
    ASSUME NEW root, NEW fs \in SUBSET Under(root), NEW docs \in [fs -> Docs]
    PROVE  Flatten(root, fs, docs) \in Tables
<1> DEFINE Has(n, f) == n[1] = Rel(root, f) /\ n[2] \in DOMAIN docs[f]
           Row(n, f) == [parent  |-> IF ParentPos[n[2]] = NoPos THEN NoNode
                                     ELSE <<n[1], ParentPos[n[2]]>>,
                         source  |-> n[1],
                         content |-> docs[f][n[2]]]
<1>1. \A n \in NodeIds, f \in fs : Has(n, f) => Row(n, f) \in Rows
  <2> SUFFICES ASSUME NEW n \in NodeIds, NEW f \in fs, Has(n, f)
               PROVE  Row(n, f) \in Rows
    OBVIOUS
  <2>1. docs[f] \in Docs
    OBVIOUS
  <2>2. n[2] \in Positions /\ docs[f][n[2]] \in Contents
    BY <2>1, SourceTreeAssumption
  <2>3. n[1] \in FileSources
    BY DEF Under, FileSources
  <2>4. ParentPos[n[2]] # NoPos => <<n[1], ParentPos[n[2]]>> \in NodeIds
    BY <2>2, <2>3, SourceTreeAssumption DEF NodeIds
  <2> QED
    BY <2>2, <2>3, <2>4 DEF Rows, Sources
<1>2. \A n \in NodeIds : Flatten(root, fs, docs)[n] \in Rows \cup {NoRow}
  <2> SUFFICES ASSUME NEW n \in NodeIds
               PROVE  Flatten(root, fs, docs)[n] \in Rows \cup {NoRow}
    OBVIOUS
  <2>1. CASE \E f \in fs : Has(n, f)
    <3> DEFINE g == CHOOSE f \in fs : Has(n, f)
    <3>1. g \in fs /\ Has(n, g)
      BY <2>1
    <3>2. Flatten(root, fs, docs)[n] = Row(n, g)
      BY <2>1 DEF Flatten
    <3> QED
      BY <3>1, <3>2, <1>1
  <2>2. CASE ~\E f \in fs : Has(n, f)
    BY <2>2 DEF Flatten
  <2> QED
    BY <2>1, <2>2
<1>3. Flatten(root, fs, docs) = [n \in NodeIds |-> Flatten(root, fs, docs)[n]]
  BY DEF Flatten
<1> QED
  BY <1>2, <1>3 DEF Tables

\* Applying deltas to a table gives a table.
LEMMA ApplyDeltasType ==
    ASSUME NEW table \in Tables, NEW deltas \in [NodeIds -> Deltas]
    PROVE  /\ UpsertNodes(table, deltas) \in Tables
           /\ ApplyDeltas(table, deltas) \in Tables
<1>1. \A n \in Upserted(deltas) : deltas[n].row \in Rows
  BY DEF Upserted, Deltas, NoDelta
<1>2. UpsertNodes(table, deltas) \in Tables
  BY <1>1 DEF UpsertNodes, Tables
<1> QED
  BY <1>2 DEF ApplyDeltas, DeleteNodes, Tables

-----------------------------------------------------------------------------
\* What a commit does to the store

\* Commit keeps the types of the store.
LEMMA CommitType ==
    ASSUME StoreTypeOK, NEW e \in Emissions, Commit(e)
    PROVE  StoreTypeOK'
<1>1. e.deltas \in [NodeIds -> Deltas] /\ e.cursor \in CursorHashes /\ e.root \in CompileRoots
  BY DEF Emissions
<1>2. nodes' \in Tables
  BY <1>1, ApplyDeltasType DEF Commit, StoreTypeOK
<1>3. Snapshot(e) \in Snapshots
  BY <1>1 DEF Snapshot, Snapshots, StoreTypeOK
<1>4. log' \in Seq(Snapshots)
  BY <1>3 DEF Commit, StoreTypeOK
<1>5. head' \in Nat
  BY DEF Commit, StoreTypeOK
<1> QED
  BY <1>2, <1>4, <1>5 DEF StoreTypeOK

\* A row is live after the commit exactly when it was upserted or live and the
\* cascade of the removals does not reach it, and then it has the upserted row.
LEMMA CommitNodes ==
    ASSUME StoreTypeOK, NEW e \in Emissions, Commit(e), NEW n \in NodeIds
    PROVE  LET table == UpsertNodes(nodes, e.deltas)
           IN  /\ n \in Cascade(table, Removed(e.deltas)) => nodes'[n] = NoRow
               /\ n \notin Cascade(table, Removed(e.deltas)) => nodes'[n] = table[n]
BY DEF Commit, ApplyDeltas, DeleteNodes

\* The cascade holds every live row that is to be removed and every live child of
\* its members.
LEMMA CascadeIsClosed ==
    ASSUME NEW table \in Tables, NEW D
    PROVE  /\ D \cap Live(table) \subseteq Cascade(table, D)
           /\ ClosedUnderChildren(table, Cascade(table, D))
<1>1. D \cap Live(table) \subseteq Cascade(table, D)
  BY DEF Cascade
<1>2. ASSUME NEW n \in Live(table), table[n].parent \in Cascade(table, D)
      PROVE  n \in Cascade(table, D)
  <2>1. ASSUME NEW S \in SUBSET Live(table),
               D \cap Live(table) \subseteq S, ClosedUnderChildren(table, S)
        PROVE  n \in S
    <3>1. table[n].parent \in S
      BY <1>2, <2>1 DEF Cascade
    <3> QED
      BY <3>1, <2>1 DEF ClosedUnderChildren
  <2> QED
    BY <2>1 DEF Cascade
<1> QED
  BY <1>1, <1>2 DEF ClosedUnderChildren

\* The rows a commit upserts are rows, and what was live stays live until the cascade.
LEMMA UpsertedAreLive ==
    ASSUME StoreTypeOK, NEW e \in Emissions
    PROVE  LET table == UpsertNodes(nodes, e.deltas)
           IN  Live(nodes) \cup Upserted(e.deltas) = Live(table)
<1>1. \A n \in Upserted(e.deltas) : n \in NodeIds /\ e.deltas[n].row \in Rows
  BY DEF Upserted, Emissions, Deltas, NoDelta
<1> QED
  BY <1>1, SourceTreeAssumption DEF UpsertNodes, Live

\* A commit leaves no dangling parent: what loses its parent goes with the cascade.
LEMMA CommitKeepsParents ==
    ASSUME StoreTypeOK, ParentsLive, NEW e \in Emissions, Commit(e)
    PROVE  ParentsLive'
<1> DEFINE table == UpsertNodes(nodes, e.deltas)
           gone == Cascade(table, Removed(e.deltas))
<1>1. table \in Tables
  BY ApplyDeltasType DEF Emissions, StoreTypeOK
<1>2. \A n \in NodeIds : nodes'[n] = IF n \in gone THEN NoRow ELSE table[n]
  BY CommitNodes
<1> SUFFICES ASSUME NEW n \in NodeIds, nodes'[n] # NoRow, nodes'[n].parent # NoNode
             PROVE  nodes'[n].parent \in Live(nodes)'
  BY DEF ParentsLive, Live
<1>3. n \notin gone /\ nodes'[n] = table[n] /\ n \in Live(table)
  BY <1>2 DEF Live
<1>4. table[n].parent \in Live(table)
  <2>1. CASE n \in Upserted(e.deltas)
    <3>1. table[n] = e.deltas[n].row
      BY <2>1 DEF UpsertNodes
    <3> QED
      BY <2>1, <3>1, <1>3, UpsertedAreLive DEF Commit, ForeignKeysHold
  <2>2. CASE n \notin Upserted(e.deltas)
    <3>1. table[n] = nodes[n] /\ n \in Live(nodes)
      BY <2>2, <1>3 DEF UpsertNodes, Live
    <3> QED
      BY <3>1, <1>3, UpsertedAreLive DEF ParentsLive
  <2> QED
    BY <2>1, <2>2
<1>5. table[n].parent \notin gone
  BY <1>1, <1>3, CascadeIsClosed DEF ClosedUnderChildren
<1> QED
  BY <1>2, <1>3, <1>4, <1>5 DEF Live

\* After a commit every live node still has its row in its latest delta.
LEMMA CommitKeepsCover ==
    ASSUME StoreTypeOK, LogCoversNodes, NEW e \in Emissions, Commit(e)
    PROVE  LogCoversNodes'
<1> DEFINE table == UpsertNodes(nodes, e.deltas)
           gone == Cascade(table, Removed(e.deltas))
           last == Len(log) + 1
<1>1. table \in Tables
  BY ApplyDeltasType DEF Emissions, StoreTypeOK
<1>2. \A n \in NodeIds : nodes'[n] = IF n \in gone THEN NoRow ELSE table[n]
  BY CommitNodes
<1>3. /\ Len(log) \in Nat
      /\ Len(log') = last
      /\ \A i \in 1..Len(log) : log'[i] = log[i]
      /\ log'[last].deltas = e.deltas
  BY DEF Commit, StoreTypeOK, Snapshot
<1> SUFFICES ASSUME NEW n \in NodeIds, nodes'[n] # NoRow
             PROVE  \E i \in 1..last : /\ LatestFor(n, i)'
                                       /\ log'[i].deltas[n].op # "rem"
                                       /\ log'[i].deltas[n].row = nodes'[n]
  BY <1>3 DEF LogCoversNodes, Live
<1>4. n \notin gone /\ nodes'[n] = table[n] /\ n \in Live(table)
  BY <1>2 DEF Live
<1>5. CASE n \in Upserted(e.deltas)
  <2>1. e.deltas[n].op \in {"add", "mod"} /\ e.deltas[n].row = nodes'[n]
    BY <1>4, <1>5 DEF Upserted, UpsertNodes
  <2>2. PICK k \in 1..last : k = last
    BY <1>3
  <2>3. LatestFor(n, k)'
    BY <2>1, <2>2, <1>3 DEF LatestFor
  <2> QED
    BY <2>1, <2>2, <2>3, <1>3
<1>6. CASE n \notin Upserted(e.deltas)
  <2>1. nodes'[n] = nodes[n] /\ n \in Live(nodes)
    BY <1>4, <1>6 DEF UpsertNodes, Live
  <2>2. n \notin Removed(e.deltas)
    BY <1>1, <1>4, CascadeIsClosed
  <2>3. e.deltas[n].op = "none"
    BY <1>6, <2>2 DEF Upserted, Removed, Emissions, Deltas, NoDelta
  <2>4. PICK i \in 1..Len(log) : /\ LatestFor(n, i)
                                 /\ log[i].deltas[n].op # "rem"
                                 /\ log[i].deltas[n].row = nodes[n]
    BY <2>1 DEF LogCoversNodes
  <2>5. LatestFor(n, i)'
    <3>1. i \in 1..last /\ log'[i].deltas[n].op # "none"
      BY <2>4, <1>3 DEF LatestFor
    <3>2. ASSUME NEW j \in 1..last, j > i
          PROVE  log'[j].deltas[n].op = "none"
      <4>1. CASE j = last
        BY <4>1, <2>3, <1>3
      <4>2. CASE j # last
        <5>1. j \in 1..Len(log) /\ log'[j] = log[j]
          BY <4>2, <1>3
        <5>2. log[j].deltas[n].op = "none"
          BY <5>1, <3>2, <2>4 DEF LatestFor
        <5> QED
          BY <5>1, <5>2
      <4> QED
        BY <4>1, <4>2
    <3> QED
      BY <3>1, <3>2, <1>3 DEF LatestFor
  <2> QED
    BY <2>1, <2>4, <2>5, <1>3
<1> QED
  BY <1>5, <1>6

-----------------------------------------------------------------------------
\* The emissions that operations plan are well formed

\* The values for "no emission planned" are emissions and tasks.
LEMMA NoTaskType == NoEmission \in Emissions /\ NoTask \in Tasks
<1>1. [n \in NodeIds |-> NoDelta] \in [NodeIds -> Deltas]
  BY DEF Deltas
<1>2. NoEmission \in Emissions
  BY <1>1, EmptyTableType, CursorHashFlatType DEF NoEmission, Emissions, CompileRoots
<1> QED
  BY <1>2 DEF NoTask, Tasks

\* A compile plans a well-formed emission.
LEMMA CompileEmissionType ==
    ASSUME NEW label \in CompileRoots, NEW flat \in Tables, NEW prev \in Tables
    PROVE  CompileEmission(label, flat, prev) \in Emissions
BY DiffFlatType, CursorHashFlatType DEF CompileEmission, Emissions

\* A write that could not read its node plans a well-formed emission.
LEMMA UnreadWriteType ==
    ASSUME NEW n \in NodeIds, NEW payload \in Contents
    PROVE  CompileEmission(NoRoot, [EmptyTable EXCEPT ![n] = NewNote(payload)], EmptyTable)
               \in Emissions
<1>1. NewNote(payload) \in Rows
  BY DEF Rows, NewNote, Sources
<1>2. [EmptyTable EXCEPT ![n] = NewNote(payload)] \in Tables
  BY <1>1 DEF EmptyTable, Tables
<1> QED
  BY <1>2, EmptyTableType, CompileEmissionType DEF CompileRoots

\* Files that can be read give docs.
LEMMA ReadType ==
    ASSUME NEW fs, Readable(fs)
    PROVE  Read(fs) \in [fs -> Docs]
BY DEF Readable, Read

\* Compiling some files plans a well-formed emission.
LEMMA CompileFilesType ==
    ASSUME nodes \in Tables, NEW root, NEW label \in CompileRoots,
           NEW fs \in SUBSET Under(root), Readable(fs)
    PROVE  CompileFiles(root, label, fs) \in Emissions
BY FlattenType, ReadType, ReadTypes, CompileEmissionType DEF CompileFiles

\* Compiling a directory plans a well-formed emission.
LEMMA CompileDirType ==
    ASSUME nodes \in Tables, NEW dir \in Dirs, Readable(OnDisk(Under(dir)))
    PROVE  CompileDir(dir) \in Emissions
<1>1. OnDisk(Under(dir)) \in SUBSET Under(dir) /\ dir \in CompileRoots
  BY DEF OnDisk, CompileRoots
<1> QED
  BY <1>1, FlattenType, ReadType, ReadTypes, CompileEmissionType DEF CompileDir

\* Changing one node plans a well-formed emission.
LEMMA NodeChangeType ==
    ASSUME nodes \in Tables, NEW n \in NodeIds, NEW row \in Rows
    PROVE  NodeChange(n, row) \in Emissions
<1> DEFINE flat == [EmptyTable EXCEPT ![n] = row]
           prev == [EmptyTable EXCEPT ![n] = nodes[n]]
<1>1. flat \in Tables /\ prev \in Tables
  BY DEF EmptyTable, Tables
<1>2. DiffFlat(flat, prev) \in [NodeIds -> Deltas] /\ CursorHashFlat("nodes", flat) \in CursorHashes
  BY <1>1, DiffFlatType, CursorHashFlatType
<1> QED
  BY <1>2 DEF NodeChange, Emissions, CompileRoots

\* MemoryWrite makes a row.
LEMMA WrittenRowType ==
    ASSUME nodes \in Tables, NEW n \in NodeIds, NEW payload \in Contents
    PROVE  /\ nodes[n] # NoRow => [nodes[n] EXCEPT !.content = payload] \in Rows
           /\ NewNote(payload) \in Rows
BY DEF Tables, Rows, NewNote, Sources

-----------------------------------------------------------------------------
\* The effect of a tool call and of the end of an emission on the types

\* The values for "no scan" and "no mtime recorded" have their types.
LEMMA NoScanType == NoScan \in Scans /\ [f \in Files |-> 0] \in [Files -> Times]
<1>1. 0 \in Times
  BY MemoryHubAssumption DEF Times
<1> QED
  BY <1>1 DEF NoScan, Scans

\* A tool call keeps the types.
LEMMA CallType ==
    ASSUME TypeOK, NEW p \in Procs, NEW tool, NEW e \in Emissions, Call(p, tool, e)
    PROVE  TypeOK'
<1>1. Task("tool", e) \in Tasks
  BY DEF Task, Tasks, Kinds
<1>2. task' \in [Procs -> [Goroutines -> Tasks]]
  BY <1>1 DEF TypeOK, Call, Goroutines
<1>3. calls' \in 0..MaxCalls
  BY MemoryHubAssumption DEF TypeOK, Call
<1>4. opMu' \in [Procs -> Goroutines \cup {"free"}]
  BY DEF TypeOK, Call, OpMuLock, Goroutines
<1> QED
  BY <1>2, <1>3, <1>4 DEF TypeOK, Call, StoreTypeOK, storeVars

\* A rescan that moves on to another stage keeps its type.
LEMMA StageType ==
    ASSUME NEW s \in Scans, NEW stage \in {"purged", "purging", "compiling"}
    PROVE  [s EXCEPT !.stage = stage] \in Scans
BY DEF Scans

\* The end of an emission keeps the types.
LEMMA FinishType ==
    ASSUME TypeOK, StoreTypeOK', NEW p \in Procs, NEW g \in Goroutines, NEW ok \in BOOLEAN,
           task[p][g].kind # "none", Finish(p, g, ok)
    PROVE  TypeOK'
<1> DEFINE kind == task[p][g].kind
<1>1. kind \in Kinds
  BY DEF TypeOK, Tasks
<1>2. task' \in [Procs -> [Goroutines -> Tasks]]
  BY NoTaskType DEF TypeOK, Finish
<1>3. serving' \in [Procs -> {"down", "starting", "up"}]
  BY DEF TypeOK, Finish
<1>4. scan' \in [Procs -> Scans]
  <2>1. scan[p] \in Scans
    BY DEF TypeOK
  <2>2. [scan[p] EXCEPT !.stage = "purged"] \in Scans
    BY <2>1, StageType
  <2> QED
    BY <2>2, NoScanType DEF TypeOK, Finish
<1>5. modTimes' \in [Procs -> [Files -> Times]]
  <2>1. scan[p].pending \in [Files -> Times]
    BY DEF TypeOK, Scans
  <2> QED
    BY <2>1 DEF TypeOK, Finish
<1>6. opMu' \in [Procs -> Goroutines \cup {"free"}]
  BY DEF TypeOK, Finish, OpMuUnlock
<1>7. failed' \in [Procs -> SUBSET Kinds]
  BY <1>1 DEF TypeOK, Finish
<1> QED
  BY <1>2, <1>3, <1>4, <1>5, <1>6, <1>7 DEF TypeOK, Finish

-----------------------------------------------------------------------------
\* Every action keeps the types

\* The initial state has the types.
LEMMA InitType == Init => TypeOK
<1> SUFFICES ASSUME Init PROVE TypeOK
  OBVIOUS
<1>1. StoreTypeOK
  BY EmptyTableType DEF Init, StoreInit, StoreTypeOK
<1>2. \A doc \in Docs \cup {Bad, Absent}, t \in Times :
          File(doc, t) \in [doc : Docs \cup {Bad, Absent}, mtime : Times]
  BY MemoryHubAssumption DEF File, Times
<1>3. now \in Times /\ disk \in [Files -> [doc : Docs \cup {Bad, Absent}, mtime : Times]]
  <2>1. OldTime + 1 \in Times /\ now = OldTime + 1
    BY MemoryHubAssumption DEF Init, Times, OldTime
  <2> HIDE DEF Times
  <2>2. PICK docs \in [Files -> Docs \cup {Bad, Absent}] :
            disk = [f \in Files |-> File(docs[f], OldTime + 1)]
    BY DEF Init
  <2> QED
    BY <1>2, <2>1, <2>2
<1>4. /\ modTimes \in [Procs -> [Files -> Times]]
      /\ scan \in [Procs -> Scans]
      /\ task \in [Procs -> [Goroutines -> Tasks]]
  BY NoScanType, NoTaskType DEF Init, NoTasks
<1>5. calls \in 0..MaxCalls /\ crashes \in 0..MaxCrashes
  BY MemoryHubAssumption DEF Init
<1> QED
  BY <1>1, <1>3, <1>4, <1>5 DEF Init, TypeOK

\* Startup keeps the types.
LEMMA StartType ==
    ASSUME TypeOK, NEW p \in Procs, Start(p)
    PROVE  TypeOK'
<1>1. Under(RootDir) = Files /\ RootDir \in Dirs
  BY DEF Under, Dirs
<1>2. Readable(OnDisk(Files)) => Task("initial", CompileDir(RootDir)) \in Tasks
  BY <1>1, CompileDirType DEF Task, Tasks, Kinds, TypeOK, StoreTypeOK
<1>3. task' \in [Procs -> [Goroutines -> Tasks]]
  BY <1>2, NoTaskType DEF TypeOK, Start, Goroutines
<1>4. failed' \in [Procs -> SUBSET Kinds]
  BY DEF TypeOK, Start, Kinds
<1>5. serving' \in [Procs -> {"down", "starting", "up"}]
  BY DEF TypeOK, Start
<1> QED
  BY <1>3, <1>4, <1>5 DEF TypeOK, Start, StoreTypeOK, storeVars

\* A crash keeps the types.
LEMMA CrashType ==
    ASSUME TypeOK, NEW p \in Procs, Crash(p)
    PROVE  TypeOK'
<1>1. task' \in [Procs -> [Goroutines -> Tasks]]
  BY NoTaskType DEF TypeOK, Crash, NoTasks
<1>2. scan' \in [Procs -> Scans] /\ modTimes' \in [Procs -> [Files -> Times]]
  BY NoScanType DEF TypeOK, Crash
<1>3. crashes' \in 0..MaxCrashes
  BY MemoryHubAssumption DEF TypeOK, Crash
<1>4. /\ opMu' \in [Procs -> Goroutines \cup {"free"}]
      /\ serving' \in [Procs -> {"down", "starting", "up"}]
  BY DEF TypeOK, Crash
<1> QED
  BY <1>1, <1>2, <1>3, <1>4 DEF TypeOK, Crash, StoreTypeOK, storeVars

\* The steps of the rescan loop keep the types.
LEMMA ScanType ==
    ASSUME TypeOK, NEW p \in Procs, ScanStep(p)
    PROVE  TypeOK'
<1>1. CASE ScanWalk(p)
  <2> DEFINE seen == OnDisk(Files)
             changed == {f \in seen : Settled(f) /\ Changed(p, f)}
             deleted == {f \in Files : modTimes[p][f] # 0 /\ f \notin seen}
             walked == [stage   |-> "walked",
                        deleted |-> deleted,
                        pending |-> [f \in Files |-> IF f \in changed THEN disk[f].mtime ELSE 0]]
  <2>1. 0 \in Times /\ \A f \in Files : disk[f].mtime \in Times
    BY MemoryHubAssumption DEF TypeOK, Times
  <2>2. walked.pending \in [Files -> Times] /\ walked \in Scans
    BY <2>1 DEF Scans
  <2>3. scan' = [scan EXCEPT ![p] = walked]
    BY <1>1 DEF ScanWalk
  <2>4. modTimes' \in [Procs -> [Files -> Times]]
    BY <1>1, <2>1 DEF ScanWalk, TypeOK
  <2> QED
    BY <1>1, <2>2, <2>3, <2>4 DEF ScanWalk, TypeOK, StoreTypeOK, storeVars
<1>2. CASE ScanLock(p)
  <2> DEFINE gone == GetNodesByFiles({Rel(RootDir, f) : f \in scan[p].deleted})
             e == [deltas |-> DiffFlat(EmptyTable, gone),
                   cursor |-> CursorHashFlat("rem", gone),
                   root   |-> NoRoot]
  <2>1. e \in Emissions
    <3>1. gone \in Tables
      BY ReadTypes DEF TypeOK, StoreTypeOK
    <3>2. DiffFlat(EmptyTable, gone) \in [NodeIds -> Deltas]
      BY <3>1, EmptyTableType, DiffFlatType
    <3>3. CursorHashFlat("rem", gone) \in CursorHashes
      BY <3>1, CursorHashFlatType
    <3> QED
      BY <3>2, <3>3 DEF Emissions, CompileRoots
  <2>2. Task("purge", e) \in Tasks
    BY <2>1 DEF Task, Tasks, Kinds
  <2>3. /\ task' = task \/ task' = [task EXCEPT ![p]["rescan"] = Task("purge", e)]
        /\ \E stage \in {"purged", "purging"} : scan' = [scan EXCEPT ![p].stage = stage]
    BY <1>2 DEF ScanLock
  <2> HIDE DEF e, gone
  <2>4. task' \in [Procs -> [Goroutines -> Tasks]]
    <3>1. task \in [Procs -> [Goroutines -> Tasks]] /\ "rescan" \in Goroutines
      BY DEF TypeOK, Goroutines
    <3> QED
      BY <3>1, <2>2, <2>3
  <2>5. scan' \in [Procs -> Scans]
    <3>1. PICK stage \in {"purged", "purging"} : scan' = [scan EXCEPT ![p].stage = stage]
      BY <2>3
    <3>2. scan \in [Procs -> Scans]
      BY DEF TypeOK
    <3>3. [scan[p] EXCEPT !.stage = stage] \in Scans
      BY <3>2, StageType
    <3> QED
      BY <3>1, <3>2, <3>3
  <2>6. opMu' \in [Procs -> Goroutines \cup {"free"}]
    BY <1>2 DEF ScanLock, OpMuLock, TypeOK, Goroutines
  <2> QED
    BY <1>2, <2>4, <2>5, <2>6 DEF ScanLock, TypeOK, StoreTypeOK, storeVars
<1>3. CASE ScanNoChange(p)
  BY <1>3, NoScanType DEF ScanNoChange, OpMuUnlock, TypeOK, StoreTypeOK, storeVars
<1>4. CASE ScanCompile(p)
  <2> DEFINE changed == {f \in Files : scan[p].pending[f] # 0}
             compile == Task("rescan", CompileFiles(RootDir, SourceArg, changed))
  <2>1. Readable(changed) => compile \in Tasks
    <3>1. changed \in SUBSET Under(RootDir) /\ SourceArg \in CompileRoots
      BY DEF Under, CompileRoots
    <3> QED
      BY <3>1, CompileFilesType DEF Task, Tasks, Kinds, TypeOK, StoreTypeOK
  <2>2. CASE /\ Readable(changed)
             /\ task' = [task EXCEPT ![p]["rescan"] = compile]
             /\ scan' = [scan EXCEPT ![p].stage = "compiling"]
             /\ UNCHANGED <<opMu, failed>>
    <3>1. /\ task' = [task EXCEPT ![p]["rescan"] = compile]
          /\ scan' = [scan EXCEPT ![p].stage = "compiling"]
          /\ UNCHANGED <<opMu, failed>>
      BY <2>2
    <3>2. task' \in [Procs -> [Goroutines -> Tasks]]
      BY <3>1, <2>1, <2>2 DEF TypeOK, Goroutines
    <3>3. scan' \in [Procs -> Scans]
      <4>1. [scan[p] EXCEPT !.stage = "compiling"] \in Scans
        BY StageType DEF TypeOK
      <4> QED
        BY <3>1, <4>1 DEF TypeOK
    <3> QED
      BY <1>4, <3>1, <3>2, <3>3 DEF ScanCompile, TypeOK, StoreTypeOK, storeVars
  <2>3. CASE /\ scan' = [scan EXCEPT ![p] = NoScan]
             /\ OpMuUnlock(p, "rescan")
             /\ failed' = [failed EXCEPT ![p] = @ \cup {"rescan"}]
             /\ UNCHANGED task
    <3>1. /\ scan' = [scan EXCEPT ![p] = NoScan]
          /\ OpMuUnlock(p, "rescan")
          /\ failed' = [failed EXCEPT ![p] = @ \cup {"rescan"}]
          /\ UNCHANGED task
      BY <2>3
    <3>2. scan' \in [Procs -> Scans] /\ opMu' \in [Procs -> Goroutines \cup {"free"}]
      BY <3>1, NoScanType DEF OpMuUnlock, TypeOK
    <3>3. failed' \in [Procs -> SUBSET Kinds]
      BY <3>1 DEF TypeOK, Kinds
    <3> QED
      BY <1>4, <3>1, <3>2, <3>3 DEF ScanCompile, TypeOK, StoreTypeOK, storeVars
  <2> QED
    BY <1>4, <2>2, <2>3 DEF ScanCompile
<1>5. CASE ScanLoadFails(p)
  <2>1. scan' \in [Procs -> Scans]
    <3>1. scan \in [Procs -> Scans]
      BY DEF TypeOK
    <3>2. [scan[p] EXCEPT !.stage = "purged"] \in Scans
      BY <3>1, StageType
    <3> QED
      BY <1>5, <3>1, <3>2 DEF ScanLoadFails
  <2>2. opMu' \in [Procs -> Goroutines \cup {"free"}] /\ failed' \in [Procs -> SUBSET Kinds]
    BY <1>5 DEF ScanLoadFails, OpMuLock, TypeOK, Goroutines, Kinds
  <2> QED
    BY <1>5, <2>1, <2>2 DEF ScanLoadFails, TypeOK, StoreTypeOK, storeVars
<1> QED
  BY <1>1, <1>2, <1>3, <1>4, <1>5 DEF ScanStep

\* The tools keep the types.
LEMMA ToolType ==
    ASSUME TypeOK, NEW p \in Procs, ToolStep(p)
    PROVE  TypeOK'
<1>0. nodes \in Tables
  BY DEF TypeOK, StoreTypeOK
<1>1. ASSUME NEW n \in NodeIds, NEW payload \in Contents, HandleWrite(p, n, payload)
      PROVE  TypeOK'
  BY <1>0, <1>1, WrittenRowType, NodeChangeType, CallType DEF HandleWrite
<1>2. ASSUME NEW n \in NodeIds, NEW summary \in Contents, HandleSummarize(p, n, summary)
      PROVE  TypeOK'
  BY <1>0, <1>2, WrittenRowType, NodeChangeType, CallType DEF HandleSummarize
<1>3. ASSUME NEW dir \in DirTargets, HandleCompileDir(p, dir)
      PROVE  TypeOK'
  BY <1>0, <1>3, MemoryHubAssumption, CompileDirType, CallType DEF HandleCompileDir
<1>4. ASSUME NEW f \in FileTargets, HandleCompileFile(p, f)
      PROVE  TypeOK'
  <2>1. f.dir \in CompileRoots /\ {f} \in SUBSET Under(f.dir)
    BY MemoryHubAssumption DEF CompileRoots, Dirs, Under
  <2> QED
    BY <1>0, <1>4, <2>1, CompileFilesType, CallType DEF HandleCompileFile
<1>5. ASSUME NEW n \in NodeIds, NEW payload \in Contents, HandleWriteUnread(p, n, payload)
      PROVE  TypeOK'
  BY <1>5, UnreadWriteType, CallType DEF HandleWriteUnread
<1>6. \A payload \in Contents : <<WriteSource, payload>> \in NodeIds
  BY DEF NodeIds
<1> QED
  BY <1>1, <1>2, <1>3, <1>4, <1>5, <1>6, MemoryHubAssumption DEF ToolStep

\* Emissions keep the types.
LEMMA EmitType ==
    ASSUME TypeOK, NEW p \in Procs, EmitStep(p)
    PROVE  TypeOK'
<1>1. PICK g \in Goroutines :
          Emit(p, g) \/ EmitNothing(p, g) \/ EmitFails(p, g) \/ EmitBusy(p, g)
  BY DEF EmitStep
<1>2. task[p][g].emission \in Emissions
  BY DEF TypeOK, Tasks
<1>3. StoreTypeOK'
  BY <1>1, <1>2, CommitType
  DEF TypeOK, Emit, EmitNothing, EmitFails, EmitBusy, StoreTypeOK, storeVars
<1>4. \E ok \in BOOLEAN : task[p][g].kind # "none" /\ Finish(p, g, ok)
  BY <1>1 DEF Emit, EmitNothing, EmitFails, EmitBusy
<1> QED
  BY <1>3, <1>4, FinishType

\* Every step keeps the types.
LEMMA NextType == TypeOK /\ [Next]_vars => TypeOK'
<1> SUFFICES ASSUME TypeOK, [Next]_vars PROVE TypeOK'
  OBVIOUS
<1>1. CASE Tick
  BY <1>1, MemoryHubAssumption DEF Tick, TypeOK, Times, StoreTypeOK, storeVars, procVars
<1>2. CASE UserStep
  <2>1. PICK f \in Files, doc \in Docs \cup {Bad, Absent} : EditFile(f, doc) \/ RestoreFile(f, doc)
    BY <1>2 DEF UserStep
  <2>2. ASSUME NEW t \in Times
        PROVE  File(doc, t) \in [doc : Docs \cup {Bad, Absent}, mtime : Times]
    BY MemoryHubAssumption DEF File, TypeOK, Times
  <2>3. now \in Times /\ OldTime \in Times
    BY MemoryHubAssumption DEF TypeOK, Times, OldTime
  <2>4. CASE EditFile(f, doc)
    BY <2>4, <2>2, <2>3 DEF EditFile, TypeOK, StoreTypeOK, storeVars, procVars
  <2>5. CASE RestoreFile(f, doc)
    <3>1. calls + 1 \in 0..MaxCalls
      BY <2>5, MemoryHubAssumption DEF RestoreFile, TypeOK
    <3> QED
      BY <2>5, <2>2, <2>3, <3>1 DEF RestoreFile, TypeOK, StoreTypeOK, storeVars, procVars
  <2> QED
    BY <2>1, <2>4, <2>5
<1>3. CASE \E p \in Procs : Start(p) \/ Crash(p) \/ ScanStep(p) \/ ToolStep(p) \/ EmitStep(p)
  BY <1>3, StartType, CrashType, ScanType, ToolType, EmitType
<1>4. CASE UNCHANGED vars
  BY <1>4 DEF vars, storeVars, procVars, TypeOK, StoreTypeOK
<1> QED
  BY <1>1, <1>2, <1>3, <1>4 DEF Next

\* Every variable keeps its type: in particular every emission an operation plans is
\* well formed, whatever it read.
THEOREM TypeCorrect == Spec => []TypeOK
BY InitType, NextType, PTL DEF Spec

-----------------------------------------------------------------------------
\* The store changes by commits of well-formed emissions only, so its invariants
\* follow from what one commit does.

\* A step either leaves the store alone or commits a well-formed emission.
LEMMA StoreSteps ==
    ASSUME TypeOK, [Next]_vars
    PROVE  UNCHANGED storeVars \/ \E e \in Emissions : Commit(e)
<1>1. CASE Tick \/ UserStep
  BY <1>1 DEF Tick, UserStep, EditFile, RestoreFile
<1>2. ASSUME NEW p \in Procs, Start(p) \/ Crash(p) \/ ScanStep(p) \/ ToolStep(p)
      PROVE  UNCHANGED storeVars
  BY <1>2 DEF Start, Crash, ScanStep, ScanWalk, ScanLock, ScanLoadFails, ScanNoChange,
              ScanCompile, ToolStep, HandleWrite, HandleWriteUnread, HandleSummarize,
              HandleCompileDir, HandleCompileFile, Call
<1>3. ASSUME NEW p \in Procs, NEW g \in Goroutines,
             Emit(p, g) \/ EmitNothing(p, g) \/ EmitFails(p, g) \/ EmitBusy(p, g)
      PROVE  UNCHANGED storeVars \/ \E e \in Emissions : Commit(e)
  <2>1. task[p][g].emission \in Emissions
    BY DEF TypeOK, Tasks
  <2> QED
    BY <1>3, <2>1 DEF Emit, EmitNothing, EmitFails, EmitBusy
<1>4. CASE UNCHANGED vars
  BY <1>4 DEF vars
<1> QED
  BY <1>1, <1>2, <1>3, <1>4 DEF Next, EmitStep

\* What the two invariants need of each other: nothing but the types.
StoreInv == TypeOK /\ ParentsLive /\ LogCoversNodes

\* The store's invariant holds whatever operations commit.
LEMMA StoreInvHolds == Spec => []StoreInv
<1>1. Init => StoreInv
  <2> SUFFICES ASSUME Init PROVE ParentsLive /\ LogCoversNodes
    BY InitType DEF StoreInv
  <2>1. Live(nodes) = {} /\ log = << >> /\ head = 0
    BY DEF Init, StoreInit, Live, EmptyTable
  <2> QED
    BY <2>1 DEF ParentsLive, LogCoversNodes
<1>2. StoreInv /\ [Next]_vars => StoreInv'
  <2> SUFFICES ASSUME StoreInv, [Next]_vars
               PROVE  (ParentsLive /\ LogCoversNodes)'
    BY NextType DEF StoreInv
  <2>1. CASE UNCHANGED storeVars
    <3>1. nodes' = nodes /\ log' = log /\ head' = head
      BY <2>1 DEF storeVars
    <3> QED
      BY <3>1 DEF StoreInv, ParentsLive, LogCoversNodes, LatestFor, Live
  <2>2. CASE \E e \in Emissions : Commit(e)
    <3>1. PICK e \in Emissions : Commit(e)
      BY <2>2
    <3>2. StoreTypeOK
      BY DEF StoreInv, TypeOK
    <3> QED
      BY <3>1, <3>2, CommitKeepsParents, CommitKeepsCover DEF StoreInv
  <2> QED
    BY <2>1, <2>2, StoreSteps DEF StoreInv
<1> QED
  BY <1>1, <1>2, PTL DEF Spec

\* No upsert, removal or cascade of any operation leaves a row whose parent is gone.
THEOREM ParentsStayLive == Spec => []ParentsLive
BY StoreInvHolds, PTL DEF StoreInv

\* Every live node equals what the latest diff recorded for it, so MemoryDelta and
\* MemoryHistory never miss the current state of a node that MemoryFetch returns.
THEOREM LogCoversTheNodes == Spec => []LogCoversNodes
BY StoreInvHolds, PTL DEF StoreInv

=============================================================================
