------------------------ MODULE SingleServer_proofs ------------------------
(***************************************************************************)
(* Theorems of MemoryHub that need Store.OpMu: in every process at most one *)
(* operation is between its reads and its emission, and with one server    *)
(* the store is then, at the emission, as the operation read it.           *)
(***************************************************************************)
EXTENDS MemoryHub_proofs

Pending(p, g) == task[p][g].kind # "none"

\* What the stages of the loop, the handlers and startup say about OpMu.
OpMuDiscipline(p) ==
    /\ task[p]["tool"].kind \in {"none", "tool"}
    /\ task[p]["rescan"].kind # "tool"
    /\ Pending(p, "tool") <=> opMu[p] = "tool"
    /\ Pending(p, "tool") => serving[p] = "up"
    /\ task[p]["rescan"].kind = "initial" <=> serving[p] = "starting"
    /\ task[p]["rescan"].kind = "purge" <=> scan[p].stage = "purging"
    /\ task[p]["rescan"].kind = "rescan" <=> scan[p].stage = "compiling"
    /\ opMu[p] = "rescan" <=> scan[p].stage \in {"purging", "purged", "compiling"}
    /\ serving[p] # "up" => scan[p].stage = "idle"

OpMuInv == \A p \in Procs : OpMuDiscipline(p)

\* One process never has two operations between their reads and their emissions.
OneEmissionAtATime == \A p \in Procs : ~(Pending(p, "rescan") /\ Pending(p, "tool"))

-----------------------------------------------------------------------------
\* Where a node of the table belongs: its source file and its parent follow from its id.
ParentOf(n) ==
    IF n[1] = WriteSource \/ ParentPos[n[2]] = NoPos THEN NoNode
                                                     ELSE <<n[1], ParentPos[n[2]]>>
Placed(n, row) == row.source = n[1] /\ row.parent = ParentOf(n)

PlacedTable(table) == \A n \in Live(table) : Placed(n, table[n])
PlacedDeltas(deltas) == \A n \in Upserted(deltas) : Placed(n, deltas[n].row)

PlacedInv ==
    /\ PlacedTable(nodes)
    /\ \A p \in Procs, g \in Goroutines :
           Pending(p, g) => PlacedDeltas(task[p][g].emission.deltas)

\* The deltas say what committing them does to the table as it is.
Fits(deltas) ==
    /\ \A n \in NodeIds :
        /\ deltas[n].op = "add" => nodes[n] = NoRow
        /\ deltas[n].op = "mod" => /\ nodes[n] # NoRow
                                   /\ nodes[n].content = deltas[n].old
                                   /\ deltas[n].row.content # deltas[n].old
        /\ deltas[n].op = "rem" => nodes[n] # NoRow /\ nodes[n].content = deltas[n].old
    /\ ClosedUnderChildren(UpsertNodes(nodes, deltas), Removed(deltas))

FitsInv ==
    \A p \in Procs, g \in Goroutines : Pending(p, g) => Fits(task[p][g].emission.deltas)

-----------------------------------------------------------------------------
\* OpMu

\* Initially no process runs and nothing is planned.
LEMMA InitOpMu == Init => OpMuInv
BY DEF Init, OpMuInv, OpMuDiscipline, Pending, NoTasks, NoTask, NoScan, Goroutines

\* Startup and a crash leave OpMu free, and an initial compile has no competitor.
LEMMA StartStopOpMu ==
    ASSUME TypeOK, OpMuInv, NEW p \in Procs, Start(p) \/ Crash(p)
    PROVE  OpMuInv'
<1> SUFFICES ASSUME NEW q \in Procs PROVE OpMuDiscipline(q)'
  BY DEF OpMuInv
<1>0. OpMuDiscipline(q) /\ OpMuDiscipline(p)
  BY DEF OpMuInv
<1>1. CASE Start(p)
  BY <1>0, <1>1 DEF Start, OpMuDiscipline, Pending, TypeOK, Goroutines, Task, NoTask
<1>2. CASE Crash(p)
  BY <1>0, <1>2 DEF Crash, OpMuDiscipline, Pending, TypeOK, Goroutines, NoTasks, NoTask, NoScan
<1> QED
  BY <1>1, <1>2

\* The rescan loop plans its purge and its compile under OpMu.
LEMMA ScanOpMu ==
    ASSUME TypeOK, OpMuInv, NEW p \in Procs, ScanStep(p)
    PROVE  OpMuInv'
<1> SUFFICES ASSUME NEW q \in Procs PROVE OpMuDiscipline(q)'
  BY DEF OpMuInv
<1>0. OpMuDiscipline(q) /\ OpMuDiscipline(p)
  BY DEF OpMuInv
<1>1. CASE ScanWalk(p)
  BY <1>0, <1>1 DEF ScanWalk, OpMuDiscipline, Pending, TypeOK
<1>2. CASE ScanLock(p)
  <2>1. opMu[p] = "free" /\ scan[p].stage = "walked" /\ opMu' = [opMu EXCEPT ![p] = "rescan"]
    BY <1>2 DEF ScanLock, OpMuLock
  <2>2. \/ /\ scan' = [scan EXCEPT ![p].stage = "purged"]
           /\ task' = task
        \/ \E e : /\ scan' = [scan EXCEPT ![p].stage = "purging"]
                  /\ task' = [task EXCEPT ![p]["rescan"] = Task("purge", e)]
    BY <1>2 DEF ScanLock
  <2>3. serving' = serving
    BY <1>2 DEF ScanLock
  <2> QED
    BY <1>0, <2>1, <2>2, <2>3 DEF OpMuDiscipline, Pending, TypeOK, Scans, Goroutines, Task
<1>3. CASE ScanNoChange(p)
  BY <1>0, <1>3 DEF ScanNoChange, OpMuUnlock, OpMuDiscipline, Pending, TypeOK, NoScan
<1>4. CASE ScanCompile(p)
  <2>1. scan[p].stage = "purged" /\ serving' = serving
    BY <1>4 DEF ScanCompile
  <2>2. \/ \E e : /\ scan' = [scan EXCEPT ![p].stage = "compiling"]
                  /\ task' = [task EXCEPT ![p]["rescan"] = Task("rescan", e)]
                  /\ opMu' = opMu
        \/ /\ scan' = [scan EXCEPT ![p] = NoScan]
           /\ task' = task
           /\ OpMuUnlock(p, "rescan")
    BY <1>4 DEF ScanCompile
  <2> QED
    BY <1>0, <2>1, <2>2
    DEF OpMuUnlock, OpMuDiscipline, Pending, TypeOK, Scans, Goroutines, Task, NoScan
<1>5. CASE ScanLoadFails(p)
  <2>1. /\ opMu[p] = "free" /\ scan[p].stage = "walked" /\ opMu' = [opMu EXCEPT ![p] = "rescan"]
        /\ scan' = [scan EXCEPT ![p].stage = "purged"] /\ task' = task /\ serving' = serving
    BY <1>5 DEF ScanLoadFails, OpMuLock
  <2> QED
    BY <1>0, <2>1 DEF OpMuDiscipline, Pending, TypeOK, Scans, Goroutines
<1> QED
  BY <1>1, <1>2, <1>3, <1>4, <1>5 DEF ScanStep

\* A tool call plans its emission under OpMu.
LEMMA ToolOpMu ==
    ASSUME TypeOK, OpMuInv, NEW p \in Procs, ToolStep(p)
    PROVE  OpMuInv'
<1>1. PICK tool, e : Call(p, tool, e)
  BY DEF ToolStep, HandleWrite, HandleWriteUnread, HandleSummarize, HandleCompileDir,
         HandleCompileFile
<1> SUFFICES ASSUME NEW q \in Procs PROVE OpMuDiscipline(q)'
  BY DEF OpMuInv
<1>2. OpMuDiscipline(q) /\ OpMuDiscipline(p)
  BY DEF OpMuInv
<1> QED
  BY <1>1, <1>2 DEF Call, OpMuLock, OpMuDiscipline, Pending, TypeOK, Goroutines, Task

\* The end of an emission releases OpMu, except after a purge.
LEMMA EmitOpMu ==
    ASSUME TypeOK, OpMuInv, NEW p \in Procs, EmitStep(p)
    PROVE  OpMuInv'
<1>1. PICK g \in Goroutines, ok \in BOOLEAN : Pending(p, g) /\ Finish(p, g, ok)
  BY DEF EmitStep, Emit, EmitNothing, EmitFails, EmitBusy, Pending
<1> SUFFICES ASSUME NEW q \in Procs PROVE OpMuDiscipline(q)'
  BY DEF OpMuInv
<1>2. OpMuDiscipline(q) /\ OpMuDiscipline(p)
  BY DEF OpMuInv
<1>3. task[p][g].kind \in Kinds
  BY <1>1 DEF TypeOK, Tasks, Pending
<1>4. CASE g = "rescan"
  BY <1>1, <1>2, <1>3, <1>4
  DEF Finish, OpMuUnlock, OpMuDiscipline, Pending, TypeOK, Scans, Goroutines, NoTask, NoScan, Kinds
<1>5. CASE g = "tool"
  BY <1>1, <1>2, <1>3, <1>5
  DEF Finish, OpMuUnlock, OpMuDiscipline, Pending, TypeOK, Scans, Goroutines, NoTask, NoScan, Kinds
<1> QED
  BY <1>4, <1>5 DEF Goroutines

\* Every step keeps OpMu's discipline.
LEMMA NextOpMu == TypeOK /\ OpMuInv /\ [Next]_vars => OpMuInv'
<1> SUFFICES ASSUME TypeOK, OpMuInv, [Next]_vars PROVE OpMuInv'
  OBVIOUS
<1>1. CASE Tick \/ UserStep \/ UNCHANGED vars
  <2>1. UNCHANGED procVars
    BY <1>1 DEF Tick, UserStep, EditFile, RestoreFile, vars
  <2> QED
    BY <2>1 DEF procVars, OpMuInv, OpMuDiscipline, Pending
<1>2. CASE \E p \in Procs : Start(p) \/ Crash(p) \/ ScanStep(p) \/ ToolStep(p) \/ EmitStep(p)
  BY <1>2, StartStopOpMu, ScanOpMu, ToolOpMu, EmitOpMu
<1> QED
  BY <1>1, <1>2 DEF Next

\* The discipline excludes two planned emissions.
LEMMA Exclusion == TypeOK /\ OpMuInv => OneEmissionAtATime
<1> SUFFICES ASSUME TypeOK, NEW p \in Procs, OpMuDiscipline(p),
                    Pending(p, "rescan"), Pending(p, "tool")
             PROVE  FALSE
  BY DEF OpMuInv, OneEmissionAtATime
<1>1. task[p]["rescan"].kind \in {"initial", "purge", "rescan", "tool"}
  BY DEF TypeOK, Tasks, Kinds, Goroutines, Pending
<1> QED
  BY <1>1 DEF OpMuDiscipline

\* Whatever the number of servers, OpMu keeps the rescan loop, the tools and the initial
\* compile of one process apart between their reads and their emissions.
THEOREM OpMuSerialises == Spec => []OneEmissionAtATime
BY Exclusion, InitOpMu, NextOpMu, TypeCorrect, PTL DEF Spec

-----------------------------------------------------------------------------
\* Operations plan their emissions from the store as it is

\* An emission of the write tools for one node (emitNodeChange).
PlansNode(e) ==
    \E n \in NodeIds, c \in Contents :
        /\ nodes[n] # NoRow \/ n = <<WriteSource, c>> \/ StaleAnchors
        /\ e = NodeChange(n, IF nodes[n] # NoRow THEN [nodes[n] EXCEPT !.content = c]
                                                 ELSE NewNote(c))

\* No MemoryWrite fails to read the node it changes.
NodesAreRead == ~ReadErrors \/ "MemoryWrite" \notin Tools

\* An emission of a MemoryWrite that could not read its node.
PlansUnread(e) ==
    /\ ~NodesAreRead
    /\ \E n \in NodeIds, c \in Contents :
           e.deltas = DiffFlat([EmptyTable EXCEPT ![n] = NewNote(c)], EmptyTable)

\* An emission of a directory compile; the initial one finds no node in the store.
PlansDir(e) ==
    \E dir \in Dirs :
        /\ dir \in DirTargets \/ Live(nodes) = {}
        /\ Readable(OnDisk(Under(dir)))
        /\ e = CompileDir(dir)

\* An emission of a compile of some files.
PlansFiles(e) ==
    \E root, label : \E fs \in SUBSET Under(root) :
        Readable(fs) /\ e = CompileFiles(root, label, fs)

\* The emission of reconcileDeleted.
PlansPurge(e) == \E srcs : e.deltas = DiffFlat(EmptyTable, GetNodesByFiles(srcs))

Plans(e) == PlansNode(e) \/ PlansUnread(e) \/ PlansDir(e) \/ PlansFiles(e) \/ PlansPurge(e)

\* A planned emission was planned in this step, from an unchanged store, or before.
LEMMA TaskSteps ==
    ASSUME TypeOK, [Next]_vars, NEW q \in Procs, NEW h \in Goroutines, Pending(q, h)'
    PROVE  \/ task'[q][h] = task[q][h]
           \/ UNCHANGED storeVars /\ Plans(task'[q][h].emission)
<1>1. CASE Tick \/ UserStep \/ UNCHANGED vars
  BY <1>1 DEF Tick, UserStep, EditFile, RestoreFile, vars, procVars
<1>2. ASSUME NEW p \in Procs, Start(p)
      PROVE  \/ task'[q][h] = task[q][h]
             \/ UNCHANGED storeVars /\ Plans(task'[q][h].emission)
  <2>1. CASE q = p /\ h = "rescan"
    <3>1. task'[q][h] = IF Live(nodes) = {} /\ OnDisk(Files) # {} /\ Readable(OnDisk(Files))
                        THEN Task("initial", CompileDir(RootDir)) ELSE NoTask
      BY <1>2, <2>1 DEF Start, TypeOK, Goroutines
    <3>2. NoTask.kind = "none"
      BY DEF NoTask
    <3>3. Under(RootDir) = Files /\ RootDir \in Dirs
      BY DEF Under, Dirs
    <3>4. PlansDir(task'[q][h].emission)
      BY <3>1, <3>2, <3>3 DEF Pending, PlansDir, Task
    <3> QED
      BY <1>2, <3>4 DEF Start, Plans
  <2>2. CASE ~(q = p /\ h = "rescan")
    BY <1>2, <2>2 DEF Start, TypeOK, Goroutines
  <2> QED
    BY <2>1, <2>2
<1>3. ASSUME NEW p \in Procs, Crash(p)
      PROVE  task'[q][h] = task[q][h]
  <2>1. q # p
    BY <1>3 DEF Crash, TypeOK, Pending, NoTasks, NoTask
  <2> QED
    BY <1>3, <2>1 DEF Crash, TypeOK
<1>4. ASSUME NEW p \in Procs, ScanStep(p)
      PROVE  \/ task'[q][h] = task[q][h]
             \/ UNCHANGED storeVars /\ Plans(task'[q][h].emission)
  <2>1. CASE ScanWalk(p) \/ ScanLoadFails(p) \/ ScanNoChange(p)
    BY <2>1 DEF ScanWalk, ScanLoadFails, ScanNoChange
  <2>2. CASE ScanLock(p)
    <3>1. PICK e : /\ PlansPurge(e)
                   /\ task' = task \/ task' = [task EXCEPT ![p]["rescan"] = Task("purge", e)]
      BY <2>2 DEF ScanLock, PlansPurge
    <3>2. "rescan" \in Goroutines /\ Task("purge", e).emission = e
      BY DEF Goroutines, Task
    <3>3. task'[q][h] = task[q][h] \/ task'[q][h] = Task("purge", e)
      BY <3>1, <3>2 DEF TypeOK
    <3> QED
      BY <2>2, <3>1, <3>2, <3>3 DEF ScanLock, Plans
  <2>3. CASE ScanCompile(p)
    <3> DEFINE changed == {f \in Files : scan[p].pending[f] # 0}
    <3>1. changed \in SUBSET Under(RootDir)
      BY DEF Under
    <3>2. \/ task' = task
          \/ \E e : PlansFiles(e) /\ task' = [task EXCEPT ![p]["rescan"] = Task("rescan", e)]
      BY <2>3, <3>1 DEF ScanCompile, PlansFiles
    <3>3. ASSUME NEW e, PlansFiles(e), task' = [task EXCEPT ![p]["rescan"] = Task("rescan", e)]
          PROVE  task'[q][h] = task[q][h] \/ Plans(task'[q][h].emission)
      <4>1. "rescan" \in Goroutines /\ Task("rescan", e).emission = e
        BY DEF Goroutines, Task
      <4>2. task'[q][h] = task[q][h] \/ task'[q][h] = Task("rescan", e)
        BY <3>3, <4>1 DEF TypeOK
      <4> QED
        BY <3>3, <4>1, <4>2 DEF Plans
    <3> QED
      BY <2>3, <3>2, <3>3 DEF ScanCompile
  <2> QED
    BY <1>4, <2>1, <2>2, <2>3 DEF ScanStep
<1>5. ASSUME NEW p \in Procs, ToolStep(p)
      PROVE  \/ task'[q][h] = task[q][h]
             \/ UNCHANGED storeVars /\ Plans(task'[q][h].emission)
  <2>1. ASSUME NEW tool, NEW e, Call(p, tool, e), Plans(e)
        PROVE  \/ task'[q][h] = task[q][h]
               \/ UNCHANGED storeVars /\ Plans(task'[q][h].emission)
    <3>1. task'[q][h] = task[q][h] \/ task'[q][h].emission = e
      BY <2>1 DEF Call, TypeOK, Goroutines, Task
    <3> QED
      BY <2>1, <3>1 DEF Call
  <2>2. ASSUME NEW n \in NodeIds, NEW c \in Contents, HandleWrite(p, n, c),
               nodes[n] # NoRow \/ n = <<WriteSource, c>> \/ StaleAnchors
        PROVE  \E tool, e : Call(p, tool, e) /\ Plans(e)
    BY <2>2 DEF HandleWrite, Plans, PlansNode
  <2>3. ASSUME NEW n \in NodeIds, NEW c \in Contents, HandleSummarize(p, n, c)
        PROVE  \E tool, e : Call(p, tool, e) /\ Plans(e)
    BY <2>3 DEF HandleSummarize, Plans, PlansNode
  <2>4. ASSUME NEW dir \in DirTargets, HandleCompileDir(p, dir)
        PROVE  \E tool, e : Call(p, tool, e) /\ Plans(e)
    BY <2>4, MemoryHubAssumption DEF HandleCompileDir, Plans, PlansDir
  <2>5. ASSUME NEW f \in FileTargets, HandleCompileFile(p, f)
        PROVE  \E tool, e : Call(p, tool, e) /\ Plans(e)
    <3>1. {f} \in SUBSET Under(f.dir)
      BY MemoryHubAssumption DEF Under
    <3> QED
      BY <2>5, <3>1 DEF HandleCompileFile, Plans, PlansFiles
  <2>6. \A c \in Contents : <<WriteSource, c>> \in NodeIds
    BY DEF NodeIds
  <2>7. ASSUME NEW n \in NodeIds, NEW c \in Contents, HandleWriteUnread(p, n, c)
        PROVE  \E tool, e : Call(p, tool, e) /\ Plans(e)
    <3> DEFINE e == CompileEmission(NoRoot, [EmptyTable EXCEPT ![n] = NewNote(c)], EmptyTable)
    <3>1. Call(p, "MemoryWrite", e) /\ ~NodesAreRead
      BY <2>7 DEF HandleWriteUnread, Call, NodesAreRead
    <3>2. e.deltas = DiffFlat([EmptyTable EXCEPT ![n] = NewNote(c)], EmptyTable)
      BY DEF CompileEmission
    <3>3. PlansUnread(e)
      BY <3>1, <3>2 DEF PlansUnread
    <3> QED
      BY <3>1, <3>3 DEF Plans
  <2>8. \E tool, e : Call(p, tool, e) /\ Plans(e)
    BY <1>5, <2>2, <2>3, <2>4, <2>5, <2>6, <2>7, MemoryHubAssumption DEF ToolStep, Usable
  <2> QED
    BY <2>1, <2>8
<1>6. ASSUME NEW p \in Procs, EmitStep(p)
      PROVE  task'[q][h] = task[q][h]
  <2>1. PICK g \in Goroutines : task' = [task EXCEPT ![p][g] = NoTask]
    BY <1>6 DEF EmitStep, Emit, EmitNothing, EmitFails, EmitBusy, Finish
  <2>2. ~(q = p /\ h = g)
    BY <2>1 DEF Pending, TypeOK, NoTask
  <2> QED
    BY <2>1, <2>2 DEF TypeOK
<1> QED
  BY <1>1, <1>2, <1>3, <1>4, <1>5, <1>6 DEF Next

\* A step that changes the store commits a planned emission.
LEMMA StoreCommits ==
    ASSUME TypeOK, [Next]_vars
    PROVE  \/ UNCHANGED storeVars
           \/ \E p \in Procs, g \in Goroutines :
                  Pending(p, g) /\ Commit(task[p][g].emission) /\ Finish(p, g, TRUE)
<1>1. CASE Tick \/ UserStep \/ UNCHANGED vars
  BY <1>1 DEF Tick, UserStep, EditFile, RestoreFile, vars
<1>2. ASSUME NEW p \in Procs, Start(p) \/ Crash(p) \/ ScanStep(p) \/ ToolStep(p)
      PROVE  UNCHANGED storeVars
  BY <1>2 DEF Start, Crash, ScanStep, ScanWalk, ScanLock, ScanLoadFails, ScanNoChange,
              ScanCompile, ToolStep, HandleWrite, HandleWriteUnread, HandleSummarize,
              HandleCompileDir, HandleCompileFile, Call
<1>3. ASSUME NEW p \in Procs, NEW g \in Goroutines,
             EmitNothing(p, g) \/ EmitFails(p, g) \/ EmitBusy(p, g)
      PROVE  UNCHANGED storeVars
  BY <1>3 DEF EmitNothing, EmitFails, EmitBusy
<1>4. ASSUME NEW p \in Procs, NEW g \in Goroutines, Emit(p, g)
      PROVE  Pending(p, g) /\ Commit(task[p][g].emission) /\ Finish(p, g, TRUE)
  BY <1>4 DEF Emit, Pending
<1> QED
  BY <1>1, <1>2, <1>3, <1>4 DEF Next, EmitStep

\* There is at most one server process.
OneServer == \A p, q \in Procs : p = q

\* With one server, the end of an emission leaves no other one planned.
LEMMA SoleEmission ==
    ASSUME TypeOK, OpMuInv, OneServer, NEW p \in Procs, NEW g \in Goroutines, Pending(p, g),
           task' = [task EXCEPT ![p][g] = NoTask]
    PROVE  \A q \in Procs, h \in Goroutines : ~Pending(q, h)'
<1>1. \A h \in Goroutines : h # g => ~Pending(p, h)
  BY Exclusion DEF OneEmissionAtATime, Goroutines
<1>2. \A h \in Goroutines : ~Pending(p, h)'
  BY <1>1 DEF TypeOK, Pending, NoTask
<1> QED
  BY <1>2 DEF OneServer

\* With one server, a step that changes the store commits the only planned emission.
LEMMA SoleCommit ==
    ASSUME TypeOK, OpMuInv, OneServer, [Next]_vars
    PROVE  UNCHANGED storeVars \/ \A q \in Procs, h \in Goroutines : ~Pending(q, h)'
BY StoreCommits, SoleEmission DEF Finish

-----------------------------------------------------------------------------
\* What a diff of two tables says

\* A delta of DiffFlat tells whether the node is in the two tables, and where its
\* content comes from.
LEMMA DiffFlatCases ==
    ASSUME NEW flat, NEW prev, NEW n \in NodeIds
    PROVE  LET d == DiffFlat(flat, prev)[n]
           IN  /\ d.op \in {"none", "add", "mod", "rem"}
               /\ d.op = "add" <=> flat[n] # NoRow /\ prev[n] = NoRow
               /\ d.op = "mod" <=> /\ flat[n] # NoRow /\ prev[n] # NoRow
                                   /\ prev[n].content # flat[n].content
               /\ d.op = "rem" <=> flat[n] = NoRow /\ prev[n] # NoRow
               /\ d.op \in {"add", "mod"} => d.row = flat[n]
               /\ d.op \in {"mod", "rem"} => d.old = prev[n].content
BY DEF DiffFlat, NoDelta

\* A table whose rows are where their ids say, each with its parent.
TreeTable(flat) ==
    \A n \in Live(flat) : Placed(n, flat[n]) /\ ParentOf(n) \in Live(flat) \cup {NoNode}

\* What a compile parses is a tree: DocPositions gives every node its parent.
LEMMA FlattenTree ==
    ASSUME NEW root, NEW fs \in SUBSET Under(root), NEW docs \in [fs -> Docs]
    PROVE  /\ TreeTable(Flatten(root, fs, docs))
           /\ \A n \in Live(Flatten(root, fs, docs)) : \E f \in fs : n[1] = Rel(root, f)
<1> DEFINE Has(n, f) == n[1] = Rel(root, f) /\ n[2] \in DOMAIN docs[f]
           flat == Flatten(root, fs, docs)
<1>1. ASSUME NEW n \in NodeIds
      PROVE  /\ flat[n] # NoRow <=> \E f \in fs : Has(n, f)
             /\ flat[n] # NoRow => /\ flat[n].source = n[1]
                                   /\ flat[n].parent = IF ParentPos[n[2]] = NoPos THEN NoNode
                                                       ELSE <<n[1], ParentPos[n[2]]>>
  <2>1. CASE \E f \in fs : Has(n, f)
    <3>1. flat[n] \in Rows
      <4>1. flat[n] \in Rows \cup {NoRow}
        BY FlattenType DEF Tables
      <4>2. PICK f : flat[n] = [parent  |-> IF ParentPos[n[2]] = NoPos THEN NoNode
                                            ELSE <<n[1], ParentPos[n[2]]>>,
                                source  |-> n[1],
                                content |-> docs[f][n[2]]]
                     /\ f \in fs /\ Has(n, f)
        BY <2>1 DEF Flatten
      <4>3. docs[f] \in Docs
        BY <4>2
      <4>4. n[2] \in Positions /\ docs[f][n[2]] \in Contents
        BY <4>2, <4>3, SourceTreeAssumption
      <4>5. n[1] \in FileSources
        BY <4>2 DEF Under, FileSources
      <4>6. ParentPos[n[2]] # NoPos => <<n[1], ParentPos[n[2]]>> \in NodeIds
        BY <4>4, <4>5, SourceTreeAssumption DEF NodeIds
      <4> QED
        BY <4>2, <4>4, <4>5, <4>6 DEF Rows, Sources
    <3> QED
      BY <2>1, <3>1, SourceTreeAssumption DEF Flatten
  <2>2. CASE ~\E f \in fs : Has(n, f)
    BY <2>2 DEF Flatten
  <2> QED
    BY <2>1, <2>2
<1> SUFFICES ASSUME NEW n \in Live(flat)
             PROVE  /\ Placed(n, flat[n])
                    /\ ParentOf(n) \in Live(flat) \cup {NoNode}
                    /\ \E f \in fs : n[1] = Rel(root, f)
  BY DEF TreeTable
<1>2. n \in NodeIds /\ flat[n] # NoRow
  BY DEF Live
<1>3. PICK f \in fs : Has(n, f)
  BY <1>1, <1>2
<1>4. n[1] \in FileSources /\ n[1] # WriteSource
  BY <1>3, SourceTreeAssumption DEF Under, FileSources
<1>5. Placed(n, flat[n])
  BY <1>1, <1>2, <1>4 DEF Placed, ParentOf
<1>6. ASSUME ParentPos[n[2]] # NoPos
      PROVE  <<n[1], ParentPos[n[2]]>> \in Live(flat)
  <2>1. docs[f] \in Docs
    OBVIOUS
  <2>2. n[2] \in Positions /\ ParentPos[n[2]] \in DOMAIN docs[f] /\ ParentPos[n[2]] \in Positions
    BY <1>3, <1>6, <2>1, SourceTreeAssumption DEF DocPositions
  <2>3. <<n[1], ParentPos[n[2]]>> \in NodeIds
    BY <1>4, <2>2 DEF NodeIds
  <2>4. Has(<<n[1], ParentPos[n[2]]>>, f)
    BY <1>3, <2>2
  <2> QED
    BY <1>1, <2>3, <2>4 DEF Live
<1> QED
  BY <1>3, <1>4, <1>5, <1>6 DEF ParentOf

-----------------------------------------------------------------------------
\* Foreign keys

\* A diff against rows of the store upserts no row without its parent.
LEMMA DiffForeignKeys ==
    ASSUME NEW flat, TreeTable(flat), NEW prev, NEW e, e.deltas = DiffFlat(flat, prev),
           \A n \in NodeIds : prev[n] # NoRow => nodes[n] # NoRow
    PROVE  ForeignKeysHold(e)
<1> SUFFICES ASSUME NEW n \in Upserted(e.deltas), e.deltas[n].row.parent # NoNode
             PROVE  e.deltas[n].row.parent \in Live(nodes) \cup Upserted(e.deltas)
  BY DEF ForeignKeysHold
<1>1. n \in NodeIds /\ flat[n] # NoRow /\ e.deltas[n].row = flat[n]
  BY DiffFlatCases DEF Upserted
<1>2. flat[n].parent \in Live(flat)
  BY <1>1 DEF TreeTable, Placed, Live
<1>3. ASSUME NEW m \in Live(flat)
      PROVE  m \in Live(nodes) \cup Upserted(e.deltas)
  <2>1. m \in NodeIds /\ flat[m] # NoRow
    BY DEF Live
  <2>2. CASE prev[m] = NoRow
    BY <2>1, <2>2, DiffFlatCases DEF Upserted
  <2>3. CASE prev[m] # NoRow
    BY <2>1, <2>3 DEF Live
  <2> QED
    BY <2>2, <2>3
<1> QED
  BY <1>1, <1>2, <1>3

\* A note or a changed node keeps the parent the store has for it.
LEMMA NodeForeignKeys ==
    ASSUME nodes \in Tables, ParentsLive, NEW e, PlansNode(e)
    PROVE  ForeignKeysHold(e)
<1>1. PICK n \in NodeIds, c \in Contents :
          e = NodeChange(n, IF nodes[n] # NoRow THEN [nodes[n] EXCEPT !.content = c]
                                                ELSE NewNote(c))
  BY DEF PlansNode
<1> DEFINE row == IF nodes[n] # NoRow THEN [nodes[n] EXCEPT !.content = c] ELSE NewNote(c)
           flat == [EmptyTable EXCEPT ![n] = row]
           prev == [EmptyTable EXCEPT ![n] = nodes[n]]
<1>2. e.deltas = DiffFlat(flat, prev)
  BY <1>1 DEF NodeChange
<1>3. \A m \in NodeIds : m # n => flat[m] = NoRow
  BY DEF EmptyTable
<1>4. flat[n] = row
  BY DEF EmptyTable
<1>5. row.parent \in Live(nodes) \cup {NoNode}
  <2>1. CASE nodes[n] = NoRow
    BY <2>1 DEF NewNote
  <2>2. CASE nodes[n] # NoRow
    <3>1. nodes[n] \in Rows /\ n \in Live(nodes)
      BY <2>2 DEF Tables, Live
    <3>2. row.parent = nodes[n].parent
      BY <2>2, <3>1 DEF Rows
    <3> QED
      BY <3>1, <3>2 DEF ParentsLive
  <2> QED
    BY <2>1, <2>2
<1> HIDE DEF row, flat, prev
<1>6. \A m \in Upserted(e.deltas) : m = n /\ e.deltas[m].row = row
  BY <1>2, <1>3, <1>4, DiffFlatCases DEF Upserted
<1> QED
  BY <1>5, <1>6 DEF ForeignKeysHold

\* The files of a directory compile lie under its root and can be read.
LEMMA CompiledFiles ==
    ASSUME NEW root, NEW fs \in SUBSET Under(root), Readable(fs)
    PROVE  /\ Flatten(root, fs, Read(fs)) \in Tables
           /\ TreeTable(Flatten(root, fs, Read(fs)))
           /\ \A n \in Live(Flatten(root, fs, Read(fs))) : \E f \in fs : n[1] = Rel(root, f)
BY ReadType, FlattenType, FlattenTree

\* When an emission is planned, its foreign keys hold.
LEMMA PlansForeignKeys ==
    ASSUME nodes \in Tables, ParentsLive, NEW e, Plans(e)
    PROVE  ForeignKeysHold(e)
<1>1. CASE PlansNode(e)
  BY <1>1, NodeForeignKeys
<1>2. CASE PlansDir(e)
  <2>1. PICK dir \in Dirs : Readable(OnDisk(Under(dir))) /\ e = CompileDir(dir)
    BY <1>2 DEF PlansDir
  <2> DEFINE fs == OnDisk(Under(dir))
             flat == Flatten(dir, fs, Read(fs))
  <2>2. TreeTable(flat)
    BY <2>1, CompiledFiles DEF OnDisk
  <2>3. e.deltas = DiffFlat(flat, GetNodesByCompileRoot(dir))
    BY <2>1 DEF CompileDir, CompileEmission
  <2>4. \A n \in NodeIds : GetNodesByCompileRoot(dir)[n] # NoRow => nodes[n] # NoRow
    BY DEF GetNodesByCompileRoot
  <2> QED
    BY <2>2, <2>3, <2>4, DiffForeignKeys
<1>3. CASE PlansFiles(e)
  <2>0. PICK root, label : \E fs \in SUBSET Under(root) :
            Readable(fs) /\ e = CompileFiles(root, label, fs)
    BY <1>3 DEF PlansFiles
  <2>1. PICK fs \in SUBSET Under(root) : Readable(fs) /\ e = CompileFiles(root, label, fs)
    BY <2>0
  <2> DEFINE flat == Flatten(root, fs, Read(fs))
             srcs == {flat[n].source : n \in Live(flat)}
  <2>2. TreeTable(flat)
    BY <2>1, CompiledFiles
  <2>3. e.deltas = DiffFlat(flat, GetNodesByFiles(srcs))
    BY <2>1 DEF CompileFiles, CompileEmission
  <2>4. \A n \in NodeIds : GetNodesByFiles(srcs)[n] # NoRow => nodes[n] # NoRow
    BY DEF GetNodesByFiles
  <2> QED
    BY <2>2, <2>3, <2>4, DiffForeignKeys
<1>4. CASE PlansPurge(e)
  <2>1. PICK srcs : e.deltas = DiffFlat(EmptyTable, GetNodesByFiles(srcs))
    BY <1>4 DEF PlansPurge
  <2>2. TreeTable(EmptyTable)
    BY DEF TreeTable, EmptyTable, Live
  <2>3. \A n \in NodeIds : GetNodesByFiles(srcs)[n] # NoRow => nodes[n] # NoRow
    BY DEF GetNodesByFiles
  <2> QED
    BY <2>1, <2>2, <2>3, DiffForeignKeys
<1>5. CASE PlansUnread(e)
  <2>1. PICK n \in NodeIds, c \in Contents :
            e.deltas = DiffFlat([EmptyTable EXCEPT ![n] = NewNote(c)], EmptyTable)
    BY <1>5 DEF PlansUnread
  <2> DEFINE flat == [EmptyTable EXCEPT ![n] = NewNote(c)]
  <2>2. \A m \in NodeIds : flat[m] # NoRow => flat[m].parent = NoNode
    BY DEF EmptyTable, NewNote
  <2>3. e.deltas = DiffFlat(flat, EmptyTable)
    BY <2>1
  <2> HIDE DEF flat
  <2>4. \A m \in Upserted(e.deltas) : e.deltas[m].row.parent = NoNode
    BY <2>2, <2>3, DiffFlatCases DEF Upserted
  <2> QED
    BY <2>4 DEF ForeignKeysHold
<1> QED
  BY <1>1, <1>2, <1>3, <1>4, <1>5 DEF Plans

\* With one server every step keeps the foreign keys of the planned emission.
LEMMA NextForeignKeys ==
    ASSUME StoreInv, OpMuInv, OneServer, NoForeignKeyFailure, [Next]_vars
    PROVE  NoForeignKeyFailure'
<1> SUFFICES ASSUME NEW q \in Procs, NEW h \in Goroutines, Pending(q, h)'
             PROVE  ForeignKeysHold(task[q][h].emission)'
  BY DEF NoForeignKeyFailure, Pending
<1>1. UNCHANGED storeVars
  BY SoleCommit DEF StoreInv
<1>2. CASE task'[q][h] = task[q][h]
  <2>1. ForeignKeysHold(task[q][h].emission)
    BY <1>2 DEF NoForeignKeyFailure, Pending
  <2> QED
    BY <1>1, <1>2, <2>1 DEF ForeignKeysHold, storeVars, Live
<1>3. CASE Plans(task'[q][h].emission)
  <2>1. ForeignKeysHold(task'[q][h].emission)
    BY <1>3, PlansForeignKeys DEF StoreInv, TypeOK, StoreTypeOK
  <2> QED
    BY <1>1, <2>1 DEF ForeignKeysHold, storeVars, Live
<1> QED
  BY <1>2, <1>3, TaskSteps DEF StoreInv

\* With one server no emission ever fails a foreign key: OpMu keeps the store as the
\* operation read it, so every upserted row still finds its parent at the commit.
THEOREM ForeignKeysNeverFail == OneServer => (Spec => []NoForeignKeyFailure)
<1> SUFFICES ASSUME OneServer PROVE Spec => []NoForeignKeyFailure
  OBVIOUS
<1>1. Init => NoForeignKeyFailure
  BY DEF Init, NoForeignKeyFailure, NoTasks, NoTask, Goroutines
<1>2. StoreInv /\ OpMuInv /\ NoForeignKeyFailure /\ [Next]_vars => NoForeignKeyFailure'
  BY NextForeignKeys
<1>3. StoreInv /\ OpMuInv /\ [Next]_vars => OpMuInv'
  BY NextOpMu DEF StoreInv
<1> QED
  BY <1>1, <1>2, <1>3, InitOpMu, StoreInvHolds, PTL DEF Spec

-----------------------------------------------------------------------------
\* A node's id determines its place

\* What a planned emission upserts is where its id says.
LEMMA PlansPlaced ==
    ASSUME nodes \in Tables, ~StaleAnchors, NodesAreRead, PlacedTable(nodes), NEW e, Plans(e)
    PROVE  PlacedDeltas(e.deltas)
<1>0. ASSUME NEW flat, TreeTable(flat), NEW prev, e.deltas = DiffFlat(flat, prev)
      PROVE  PlacedDeltas(e.deltas)
  BY <1>0, DiffFlatCases DEF PlacedDeltas, Upserted, TreeTable, Live
<1>1. CASE PlansNode(e)
  <2>1. PICK n \in NodeIds, c \in Contents :
            /\ nodes[n] # NoRow \/ n = <<WriteSource, c>>
            /\ e = NodeChange(n, IF nodes[n] # NoRow THEN [nodes[n] EXCEPT !.content = c]
                                                     ELSE NewNote(c))
    BY <1>1 DEF PlansNode
  <2> DEFINE row == IF nodes[n] # NoRow THEN [nodes[n] EXCEPT !.content = c] ELSE NewNote(c)
             flat == [EmptyTable EXCEPT ![n] = row]
             prev == [EmptyTable EXCEPT ![n] = nodes[n]]
  <2>2. Placed(n, row)
    <3>1. CASE nodes[n] # NoRow
      <4>1. nodes[n] \in Rows /\ Placed(n, nodes[n])
        BY <3>1 DEF Tables, PlacedTable, Live
      <4> QED
        BY <3>1, <4>1 DEF Rows, Placed
    <3>2. CASE nodes[n] = NoRow
      BY <2>1, <3>2 DEF NewNote, Placed, ParentOf
    <3> QED
      BY <3>1, <3>2
  <2>3. e.deltas = DiffFlat(flat, prev)
    BY <2>1 DEF NodeChange
  <2>4. flat[n] = row /\ \A m \in NodeIds : m # n => flat[m] = NoRow
    BY DEF EmptyTable
  <2> HIDE DEF row, flat, prev
  <2> QED
    BY <2>2, <2>3, <2>4, DiffFlatCases DEF PlacedDeltas, Upserted
<1>2. CASE PlansDir(e)
  <2>1. PICK dir \in Dirs : Readable(OnDisk(Under(dir))) /\ e = CompileDir(dir)
    BY <1>2 DEF PlansDir
  <2>2. TreeTable(Flatten(dir, OnDisk(Under(dir)), Read(OnDisk(Under(dir)))))
    BY <2>1, CompiledFiles DEF OnDisk
  <2> QED
    BY <1>0, <2>1, <2>2 DEF CompileDir, CompileEmission
<1>3. CASE PlansFiles(e)
  <2>0. PICK root, label : \E fs \in SUBSET Under(root) :
            Readable(fs) /\ e = CompileFiles(root, label, fs)
    BY <1>3 DEF PlansFiles
  <2>1. PICK fs \in SUBSET Under(root) : Readable(fs) /\ e = CompileFiles(root, label, fs)
    BY <2>0
  <2>2. TreeTable(Flatten(root, fs, Read(fs)))
    BY <2>1, CompiledFiles
  <2> QED
    BY <1>0, <2>1, <2>2 DEF CompileFiles, CompileEmission
<1>4. CASE PlansPurge(e)
  <2>1. TreeTable(EmptyTable)
    BY DEF TreeTable, EmptyTable, Live
  <2> QED
    BY <1>0, <1>4, <2>1 DEF PlansPurge
<1> QED
  BY <1>1, <1>2, <1>3, <1>4 DEF Plans, PlansUnread

\* With placed deltas a commit leaves a placed table.
LEMMA CommitPlaced ==
    ASSUME StoreTypeOK, PlacedTable(nodes), NEW e \in Emissions, PlacedDeltas(e.deltas), Commit(e)
    PROVE  PlacedTable(nodes)'
<1> SUFFICES ASSUME NEW n \in NodeIds, nodes'[n] # NoRow PROVE Placed(n, nodes'[n])
  BY DEF PlacedTable, Live, Placed, ParentOf
<1>1. nodes'[n] = UpsertNodes(nodes, e.deltas)[n]
  BY CommitNodes
<1> QED
  BY <1>1 DEF UpsertNodes, PlacedTable, PlacedDeltas, Live

\* Every step keeps the rows and the planned ones where their ids say.
LEMMA NextPlaced ==
    ASSUME TypeOK, ~StaleAnchors, NodesAreRead, PlacedInv, [Next]_vars
    PROVE  PlacedInv'
<1>1. PlacedTable(nodes)'
  <2>1. CASE UNCHANGED storeVars
    BY <2>1 DEF PlacedInv, PlacedTable, storeVars, Live, Placed, ParentOf
  <2>2. ASSUME NEW p \in Procs, NEW g \in Goroutines, Pending(p, g), Commit(task[p][g].emission)
        PROVE  PlacedTable(nodes)'
    <3>1. task[p][g].emission \in Emissions /\ StoreTypeOK
      BY DEF TypeOK, Tasks
    <3> QED
      BY <2>2, <3>1, CommitPlaced DEF PlacedInv
  <2> QED
    BY <2>1, <2>2, StoreCommits
<1>2. ASSUME NEW q \in Procs, NEW h \in Goroutines, Pending(q, h)'
      PROVE  PlacedDeltas(task'[q][h].emission.deltas)
  <2>1. CASE task'[q][h] = task[q][h]
    BY <1>2, <2>1 DEF PlacedInv, Pending
  <2>2. CASE Plans(task'[q][h].emission)
    BY <2>2, PlansPlaced DEF PlacedInv, TypeOK, StoreTypeOK
  <2> QED
    BY <1>2, <2>1, <2>2, TaskSteps
<1>3. \A p \in Procs, g \in Goroutines :
          Pending(p, g)' => PlacedDeltas(task[p][g].emission.deltas)'
  BY <1>2 DEF PlacedDeltas, Upserted, Placed, ParentOf
<1> QED
  BY <1>1, <1>3 DEF PlacedInv

\* The source_file and the parent of every row of table nodes follow from the row's id.
RowsFollowIds == PlacedTable(nodes)

\* Whatever servers compile, write and purge, rows follow their ids: two compiles of a
\* file agree on its tree.  Clients pass no ids of nodes that are gone, and no MemoryWrite
\* fails to read its node (a note with such an id has no file).
THEOREM IdsPlaceRows == ~StaleAnchors /\ NodesAreRead => (Spec => []RowsFollowIds)
<1> SUFFICES ASSUME ~StaleAnchors, NodesAreRead PROVE Spec => []RowsFollowIds
  OBVIOUS
<1>1. Init => PlacedInv
  BY DEF Init, StoreInit, PlacedInv, PlacedTable, Live, EmptyTable, Pending, NoTasks, NoTask
<1>2. TypeOK /\ PlacedInv /\ [Next]_vars => PlacedInv'
  BY NextPlaced
<1>3. PlacedInv => RowsFollowIds
  BY DEF PlacedInv, RowsFollowIds
<1> QED
  BY <1>1, <1>2, <1>3, TypeCorrect, PTL DEF Spec

-----------------------------------------------------------------------------
\* With one server the deltas of a planned emission are the change its commit makes

\* A diff of a tree against the rows of its source files says what to change.
LEMMA DiffFits ==
    ASSUME nodes \in Tables, PlacedTable(nodes), NEW flat, TreeTable(flat),
           NEW srcs, \A n \in Live(flat) : n[1] \in srcs
    PROVE  Fits(DiffFlat(flat, GetNodesByFiles(srcs)))
<1> DEFINE prev == GetNodesByFiles(srcs)
           deltas == DiffFlat(flat, prev)
           table == UpsertNodes(nodes, deltas)
<1>1. \A n \in NodeIds : prev[n] = IF nodes[n] # NoRow /\ n[1] \in srcs THEN nodes[n] ELSE NoRow
  BY DEF GetNodesByFiles, PlacedTable, Placed, Live
<1> HIDE DEF prev
<1>2. ASSUME NEW n \in NodeIds
      PROVE  /\ deltas[n].op = "add" => nodes[n] = NoRow
             /\ deltas[n].op = "mod" => /\ nodes[n] # NoRow
                                        /\ nodes[n].content = deltas[n].old
                                        /\ deltas[n].row.content # deltas[n].old
             /\ deltas[n].op = "rem" => nodes[n] # NoRow /\ nodes[n].content = deltas[n].old
  BY <1>1, DiffFlatCases DEF Live
<1>3. ASSUME NEW m \in Live(table), table[m].parent \in Removed(deltas)
      PROVE  m \in Removed(deltas)
  <2> DEFINE n == table[m].parent
  <2>1. n \in NodeIds /\ flat[n] = NoRow /\ nodes[n] # NoRow /\ n[1] \in srcs
    BY <1>1, <1>3, DiffFlatCases DEF Removed
  <2>2. m \in NodeIds /\ table[m] # NoRow
    BY DEF Live
  <2>3. Placed(m, table[m])
    <3>1. CASE m \in Upserted(deltas)
      <4>1. table[m] = flat[m] /\ flat[m] # NoRow
        BY <2>2, <3>1, DiffFlatCases DEF UpsertNodes, Upserted
      <4> QED
        BY <2>2, <4>1 DEF TreeTable, Live
    <3>2. CASE m \notin Upserted(deltas)
      BY <2>2, <3>2 DEF UpsertNodes, PlacedTable, Live
    <3> QED
      BY <3>1, <3>2
  <2>4. n = ParentOf(m) /\ n # NoNode
    BY <2>1, <2>3, SourceTreeAssumption DEF Placed
  <2>5. n[1] = m[1]
    BY <2>4 DEF ParentOf
  <2>6. flat[m] = NoRow
    BY <2>1, <2>2, <2>4 DEF TreeTable, Live
  <2>7. nodes[m] # NoRow
    <3>1. m \notin Upserted(deltas)
      BY <2>6, DiffFlatCases DEF Upserted
    <3> QED
      BY <2>2, <3>1 DEF UpsertNodes
  <2>8. prev[m] # NoRow
    BY <1>1, <2>1, <2>2, <2>5, <2>7
  <2> QED
    BY <2>2, <2>6, <2>8, DiffFlatCases DEF Removed
<1>4. ClosedUnderChildren(table, Removed(deltas))
  BY <1>3 DEF ClosedUnderChildren
<1> QED
  BY <1>2, <1>4 DEF Fits, prev

\* A change of one node says what to change.
LEMMA NodeFits ==
    ASSUME nodes \in Tables, NEW e, PlansNode(e)
    PROVE  Fits(e.deltas)
<1>1. PICK n \in NodeIds, c \in Contents :
          e = NodeChange(n, IF nodes[n] # NoRow THEN [nodes[n] EXCEPT !.content = c]
                                                ELSE NewNote(c))
  BY DEF PlansNode
<1> DEFINE row == IF nodes[n] # NoRow THEN [nodes[n] EXCEPT !.content = c] ELSE NewNote(c)
           flat == [EmptyTable EXCEPT ![n] = row]
           prev == [EmptyTable EXCEPT ![n] = nodes[n]]
<1>2. e.deltas = DiffFlat(flat, prev)
  BY <1>1 DEF NodeChange
<1>3. row # NoRow
  <2>1. row \in Rows
    BY WrittenRowType
  <2> QED
    BY <2>1, SourceTreeAssumption
<1>4. /\ flat[n] = row /\ prev[n] = nodes[n]
      /\ \A m \in NodeIds : m # n => flat[m] = NoRow /\ prev[m] = NoRow
  BY DEF EmptyTable
<1> HIDE DEF row, flat, prev
<1>5. Removed(e.deltas) = {}
  BY <1>2, <1>3, <1>4, DiffFlatCases DEF Removed
<1>6. ClosedUnderChildren(UpsertNodes(nodes, e.deltas), Removed(e.deltas))
  BY <1>5 DEF ClosedUnderChildren
<1>7. \A m \in NodeIds :
        /\ e.deltas[m].op = "add" => nodes[m] = NoRow
        /\ e.deltas[m].op = "mod" => /\ nodes[m] # NoRow
                                     /\ nodes[m].content = e.deltas[m].old
                                     /\ e.deltas[m].row.content # e.deltas[m].old
        /\ e.deltas[m].op = "rem" => nodes[m] # NoRow /\ nodes[m].content = e.deltas[m].old
  BY <1>2, <1>3, <1>4, DiffFlatCases
<1> QED
  BY <1>6, <1>7 DEF Fits

\* When an emission is planned, its deltas say what its commit would change.
LEMMA PlansFit ==
    ASSUME nodes \in Tables, PlacedTable(nodes), DirTargets = {}, NodesAreRead, NEW e, Plans(e)
    PROVE  Fits(e.deltas)
<1>1. CASE PlansNode(e)
  BY <1>1, NodeFits
<1>2. CASE PlansDir(e)
  <2>1. PICK dir \in Dirs : Readable(OnDisk(Under(dir))) /\ e = CompileDir(dir) /\ Live(nodes) = {}
    BY <1>2 DEF PlansDir
  <2> DEFINE fs == OnDisk(Under(dir))
             flat == Flatten(dir, fs, Read(fs))
             srcs == {n[1] : n \in Live(flat)}
  <2>2. TreeTable(flat)
    BY <2>1, CompiledFiles DEF OnDisk
  <2>3. GetNodesByCompileRoot(dir) = GetNodesByFiles(srcs)
    BY <2>1 DEF GetNodesByCompileRoot, GetNodesByFiles, Live
  <2>4. e.deltas = DiffFlat(flat, GetNodesByFiles(srcs))
    BY <2>1, <2>3 DEF CompileDir, CompileEmission
  <2> QED
    BY <2>2, <2>4, DiffFits
<1>3. CASE PlansFiles(e)
  <2>0. PICK root, label : \E fs \in SUBSET Under(root) :
            Readable(fs) /\ e = CompileFiles(root, label, fs)
    BY <1>3 DEF PlansFiles
  <2>1. PICK fs \in SUBSET Under(root) : Readable(fs) /\ e = CompileFiles(root, label, fs)
    BY <2>0
  <2> DEFINE flat == Flatten(root, fs, Read(fs))
             srcs == {flat[n].source : n \in Live(flat)}
  <2>2. TreeTable(flat)
    BY <2>1, CompiledFiles
  <2>3. \A n \in Live(flat) : n[1] \in srcs
    BY <2>2 DEF TreeTable, Placed
  <2>4. e.deltas = DiffFlat(flat, GetNodesByFiles(srcs))
    BY <2>1 DEF CompileFiles, CompileEmission
  <2> QED
    BY <2>2, <2>3, <2>4, DiffFits
<1>4. CASE PlansPurge(e)
  <2>1. TreeTable(EmptyTable) /\ Live(EmptyTable) = {}
    BY DEF TreeTable, EmptyTable, Live
  <2> QED
    BY <1>4, <2>1, DiffFits DEF PlansPurge
<1> QED
  BY <1>1, <1>2, <1>3, <1>4 DEF Plans, PlansUnread

\* The conditions under which the history is exact: one server, no directory compiles
\* (they diff against one compile root only), no ids of nodes that are gone, and no
\* MemoryWrite that fails to read its node (its diff is an "add" without the old content).
ExactConditions == OneServer /\ ~StaleAnchors /\ DirTargets = {} /\ NodesAreRead

\* With one server every step keeps the planned deltas true of the store.
LEMMA NextFits ==
    ASSUME TypeOK, OpMuInv, PlacedInv, FitsInv, ExactConditions, [Next]_vars
    PROVE  FitsInv'
<1> SUFFICES ASSUME NEW q \in Procs, NEW h \in Goroutines, Pending(q, h)'
             PROVE  Fits(task[q][h].emission.deltas)'
  BY DEF FitsInv
<1>1. UNCHANGED storeVars
  BY SoleCommit DEF ExactConditions
<1>2. CASE task'[q][h] = task[q][h]
  <2>1. Fits(task[q][h].emission.deltas)
    BY <1>2 DEF FitsInv, Pending
  <2> QED
    BY <1>1, <1>2, <2>1
    DEF Fits, storeVars, Live, ClosedUnderChildren, UpsertNodes, Removed, Upserted
<1>3. CASE Plans(task'[q][h].emission)
  <2>1. Fits(task'[q][h].emission.deltas)
    BY <1>3, PlansFit DEF ExactConditions, PlacedInv, TypeOK, StoreTypeOK
  <2> QED
    BY <1>1, <2>1
    DEF Fits, storeVars, Live, ClosedUnderChildren, UpsertNodes, Removed, Upserted
<1> QED
  BY <1>2, <1>3, TaskSteps

\* A commit of deltas that fit does what they say: its cascade removes nothing else.
LEMMA FittingCommit ==
    ASSUME StoreTypeOK, NEW e \in Emissions, Fits(e.deltas), Commit(e), NEW n \in NodeIds
    PROVE  nodes'[n] = IF n \in Upserted(e.deltas) THEN e.deltas[n].row
                       ELSE IF n \in Removed(e.deltas) THEN NoRow ELSE nodes[n]
<1> DEFINE table == UpsertNodes(nodes, e.deltas)
           gone == Removed(e.deltas)
<1>1. table \in Tables
  BY ApplyDeltasType DEF Emissions, StoreTypeOK
<1>2. gone \subseteq Live(nodes) /\ \A m \in gone : m \notin Upserted(e.deltas)
  BY DEF Fits, Removed, Upserted, Live
<1>3. gone \in SUBSET Live(table)
  BY <1>2 DEF UpsertNodes, Live
<1>4. ClosedUnderChildren(table, gone)
  BY DEF Fits
<1>5. Cascade(table, gone) = gone
  <2>1. Cascade(table, gone) \subseteq gone
    BY <1>3, <1>4 DEF Cascade
  <2>2. gone \subseteq Cascade(table, gone)
    BY <1>1, <1>3, CascadeIsClosed
  <2> QED
    BY <2>1, <2>2
<1>6. nodes'[n] = IF n \in gone THEN NoRow ELSE table[n]
  BY <1>5, CommitNodes
<1> QED
  BY <1>2, <1>6 DEF UpsertNodes

-----------------------------------------------------------------------------
\* The version history

\* What a delta of a fitting emission records for a node.
Recorded(delta) ==
    [old |-> delta.old, new |-> IF delta.row = NoRow THEN NoContent ELSE delta.row.content]

\* A committed delta records the content of its node before and after the commit, and
\* nothing when the content stays.
LEMMA DeltaIsExact ==
    ASSUME StoreTypeOK, NEW e \in Emissions, Fits(e.deltas), Commit(e), NEW n \in NodeIds
    PROVE  /\ Recorded(e.deltas[n]) =
                  [old |-> IF Memory[n] = Memory'[n] THEN NoContent ELSE Memory[n],
                   new |-> IF Memory[n] = Memory'[n] THEN NoContent ELSE Memory'[n]]
           /\ Memory'[n] \in Contents \cup {NoContent}
           /\ e.deltas[n].op # "none" => Memory'[n] # Memory[n]
<1> DEFINE d == e.deltas[n]
<1>1. d \in Deltas
  BY DEF Emissions
<1>2. /\ Memory[n] = IF nodes[n] = NoRow THEN NoContent ELSE nodes[n].content
      /\ Memory'[n] = IF nodes'[n] = NoRow THEN NoContent ELSE nodes'[n].content
  BY DEF Memory
<1>3. nodes[n] # NoRow => nodes[n].content \in Contents
  BY DEF StoreTypeOK, Tables, Rows
<1>4. nodes'[n] = IF n \in Upserted(e.deltas) THEN d.row
                  ELSE IF n \in Removed(e.deltas) THEN NoRow ELSE nodes[n]
  BY FittingCommit
<1>5. \A r \in Rows : r # NoRow /\ r.content \in Contents
  BY SourceTreeAssumption DEF Rows
<1>6. CASE d = NoDelta
  <2>1. nodes'[n] = nodes[n] /\ d.op = "none" /\ d.old = NoContent /\ d.row = NoRow
    BY <1>4, <1>6 DEF NoDelta, Upserted, Removed
  <2> QED
    BY <1>2, <1>3, <2>1 DEF Recorded
<1>7. CASE d \in [op : {"add"}, old : {NoContent}, row : Rows]
  <2>1. d.op = "add" /\ d.old = NoContent /\ d.row \in Rows
    BY <1>7
  <2>2. nodes'[n] = d.row /\ nodes[n] = NoRow
    BY <1>4, <2>1 DEF Upserted, Fits
  <2> QED
    BY <1>2, <1>5, <2>1, <2>2, MemoryStoreAssumption DEF Recorded
<1>8. CASE d \in [op : {"mod"}, old : Contents, row : Rows]
  <2>1. d.op = "mod" /\ d.old \in Contents /\ d.row \in Rows
    BY <1>8
  <2>2. nodes'[n] = d.row /\ nodes[n] # NoRow /\ nodes[n].content = d.old /\ d.row.content # d.old
    BY <1>4, <2>1 DEF Upserted, Fits
  <2> QED
    BY <1>2, <1>5, <2>1, <2>2 DEF Recorded
<1>9. CASE d \in [op : {"rem"}, old : Contents, row : {NoRow}]
  <2>1. d.op = "rem" /\ d.old \in Contents /\ d.row = NoRow
    BY <1>9
  <2>2. nodes'[n] = NoRow /\ nodes[n] # NoRow /\ nodes[n].content = d.old
    BY <1>4, <2>1 DEF Upserted, Removed, Fits
  <2> QED
    BY <1>2, <2>1, <2>2, MemoryStoreAssumption DEF Recorded
<1> QED
  BY <1>1, <1>6, <1>7, <1>8, <1>9 DEF Deltas

\* A commit of deltas that fit is one exact change of the versioned memory.
LEMMA CommitIsExact ==
    ASSUME StoreTypeOK, NEW e \in Emissions, Fits(e.deltas), Commit(e)
    PROVE  VM!Change
<1>1. Memory' \in [NodeIds -> Contents \cup {NoContent}]
  BY DeltaIsExact DEF Memory
<1>2. Memory' # Memory
  BY DeltaIsExact DEF Commit, HasDeltas
<1> DEFINE Line(snapshot) == [n \in NodeIds |-> Recorded(snapshot.deltas[n])]
<1>3. Line(Snapshot(e)) = VM!Changes(Memory, Memory')
  BY DeltaIsExact DEF Snapshot, VM!Changes
<1>4. History = [i \in 1..Len(log) |-> Line(log[i])]
  BY DEF History, Recorded
<1>5. History' = [i \in 1..Len(log') |-> Line(log'[i])]
  BY DEF History, Recorded
<1>6. /\ Len(log) \in Nat /\ Len(log') = Len(log) + 1
      /\ \A i \in 1..Len(log) : log'[i] = log[i]
      /\ log'[Len(log) + 1] = Snapshot(e)
  BY DEF Commit, StoreTypeOK
<1>7. Len(History) = Len(log) /\ History \in Seq({Line(log[i]) : i \in 1..Len(log)})
  BY <1>4, <1>6
<1> HIDE DEF Line
<1>8. History' = Append(History, Line(Snapshot(e)))
  BY <1>4, <1>5, <1>6, <1>7
<1> QED
  BY <1>1, <1>2, <1>3, <1>8 DEF VM!Change

\* The version history is exact when one server runs, for any files, documents, edits,
\* crashes and races of its loop with its tools: every change of the memory is one
\* snapshot, with the content before and after of the nodes it changes and of no other.
THEOREM HistoryRefinement == ExactConditions => (Spec => HistoryIsExact)
<1> SUFFICES ASSUME ExactConditions PROVE Spec => HistoryIsExact
  OBVIOUS
<1> DEFINE Inv == TypeOK /\ OpMuInv /\ PlacedInv /\ FitsInv
<1>1. Init => Inv
  <2> SUFFICES ASSUME Init PROVE PlacedInv /\ FitsInv
    BY InitType, InitOpMu
  <2>1. Live(nodes) = {} /\ \A p \in Procs, g \in Goroutines : ~Pending(p, g)
    BY DEF Init, StoreInit, Live, EmptyTable, Pending, NoTasks, NoTask
  <2> QED
    BY <2>1 DEF PlacedInv, PlacedTable, FitsInv
<1>2. Inv /\ [Next]_vars => Inv'
  BY NextType, NextOpMu, NextPlaced, NextFits DEF ExactConditions
<1>3. Init => VM!Init
  <2> SUFFICES ASSUME Init PROVE VM!Init
    OBVIOUS
  <2>1. Memory = [n \in NodeIds |-> NoContent]
    BY DEF Init, StoreInit, EmptyTable, Memory
  <2>2. History = << >>
    BY DEF Init, StoreInit, History
  <2> QED
    BY <2>1, <2>2 DEF VM!Init
<1>4. Inv /\ [Next]_vars => [VM!Change]_<<Memory, History>>
  <2> SUFFICES ASSUME Inv, [Next]_vars PROVE [VM!Change]_<<Memory, History>>
    OBVIOUS
  <2>1. CASE UNCHANGED storeVars
    BY <2>1 DEF storeVars, Memory, History
  <2>2. ASSUME NEW p \in Procs, NEW g \in Goroutines, Pending(p, g), Commit(task[p][g].emission)
        PROVE  VM!Change
    <3>1. task[p][g].emission \in Emissions /\ StoreTypeOK
      BY DEF TypeOK, Tasks
    <3> QED
      BY <2>2, <3>1, CommitIsExact DEF FitsInv
  <2> QED
    BY <2>1, <2>2, StoreCommits
<1> QED
  BY <1>1, <1>2, <1>3, <1>4, PTL DEF Spec, HistoryIsExact, VM!Spec

-----------------------------------------------------------------------------
\* Files the loop skips

\* The conditions under which the loop alone makes the rows of files: one server, and
\* tools that only write notes; and a settle time, as RescanLoop has (500ms).
LoopConditions ==
    /\ OneServer /\ NodesAreRead /\ ~StaleAnchors
    /\ DirTargets = {} /\ FileTargets = {} /\ Anchors = {} /\ Settle # 0

\* File f has nodes and was last written at time t by an edit.
Fresh(f, t) ==
    /\ disk[f].doc \in Docs
    /\ Live(Parsed(f)) # {}
    /\ disk[f].mtime = t
    /\ t # OldTime

\* What the loop records lies in the past: a later edit has a later mtime.
TimesInv ==
    /\ now > OldTime
    /\ \A f \in Files :
        /\ disk[f].doc # Absent => disk[f].mtime # 0
        /\ \A p \in Procs :
            /\ modTimes[p][f] < now
            /\ scan[p].pending[f] < now
            /\ serving[p] # "up" => modTimes[p][f] = 0
            /\ f \in scan[p].deleted => modTimes[p][f] = 0 /\ scan[p].pending[f] = 0

ChangedFiles(p) == {f \in Files : scan[p].pending[f] # 0}

\* The deltas are about nodes of the files fs.
Touches(deltas, fs) ==
    \A n \in NodeIds : deltas[n].op # "none" => \E f \in fs : n[1] = Rel(RootDir, f)

\* A purge is about the files the walk found deleted.
PurgePlan(p) ==
    task[p]["rescan"].kind = "purge"
        => Touches(task[p]["rescan"].emission.deltas, scan[p].deleted)

\* A compile is about the files the walk found changed, and brings each to what it is
\* on disk unless it was edited since.
CompilePlan(p) ==
    LET deltas == task[p]["rescan"].emission.deltas
    IN  task[p]["rescan"].kind = "rescan"
        => /\ Touches(deltas, ChangedFiles(p))
           /\ \A f \in ChangedFiles(p), n \in NodeIds :
                  Fresh(f, scan[p].pending[f]) /\ n[1] = Rel(RootDir, f)
                  => deltas[n] = DiffFlat(Parsed(f), NodesOf(f))[n]

\* A tool call writes notes only.
NotePlan(p) ==
    Pending(p, "tool") =>
        \A n \in NodeIds :
            task[p]["tool"].emission.deltas[n].op # "none" => n[1] = WriteSource

LoopInv == \A p \in Procs : PurgePlan(p) /\ CompilePlan(p) /\ NotePlan(p)

\* A file whose recorded mtime is the one on disk is in the store as it is on disk.
SkipInv ==
    \A p \in Procs, f \in Files : Fresh(f, modTimes[p][f]) => NodesOf(f) = Parsed(f)

\* The source_file of a rescan tells its file.
LEMMA RelInjective ==
    ASSUME NEW f \in Files, NEW g \in Files, Rel(RootDir, f) = Rel(RootDir, g)
    PROVE  f = g
<1>1. f = [dir |-> f.dir, base |-> f.base] /\ g = [dir |-> g.dir, base |-> g.base]
  BY SourceTreeAssumption
<1>2. f.dir = g.dir /\ f.base = g.base
  <2>1. CASE f.dir = RootDir /\ g.dir = RootDir
    BY <2>1 DEF Rel
  <2>2. CASE f.dir # RootDir /\ g.dir # RootDir
    BY <2>2 DEF Rel
  <2>3. CASE f.dir = RootDir /\ g.dir # RootDir
    BY <2>3 DEF Rel
  <2>4. CASE f.dir # RootDir /\ g.dir = RootDir
    BY <2>4 DEF Rel
  <2> QED
    BY <2>1, <2>2, <2>3, <2>4
<1> QED
  BY <1>1, <1>2

\* The rows of a file in a placed table are those whose id names it.
LEMMA NodesOfFile ==
    ASSUME PlacedTable(nodes), NEW f \in Files, NEW n \in NodeIds
    PROVE  NodesOf(f)[n] = IF n[1] = Rel(RootDir, f) THEN nodes[n] ELSE NoRow
BY DEF NodesOf, GetNodesByFiles, PlacedTable, Placed, Live

\* What a file parses to is a tree of nodes whose ids name it.
LEMMA ParsedFile ==
    ASSUME NEW f \in Files, disk[f].doc \in Docs
    PROVE  /\ Parsed(f) \in Tables
           /\ TreeTable(Parsed(f))
           /\ \A n \in Live(Parsed(f)) : n[1] = Rel(RootDir, f)
<1>1. {f} \in SUBSET Under(RootDir) /\ Readable({f})
  BY DEF Under, Readable
<1> QED
  BY <1>1, CompiledFiles DEF Parsed

\* A compile of several files gives each the rows it has alone.
LEMMA FlattenAgrees ==
    ASSUME NEW fs \in SUBSET Files, NEW f \in fs, NEW n \in NodeIds, n[1] = Rel(RootDir, f)
    PROVE  Flatten(RootDir, fs, Read(fs))[n] = Parsed(f)[n]
<1> DEFINE Has(g) == n[1] = Rel(RootDir, g) /\ n[2] \in DOMAIN disk[g].doc
           Row(g) == [parent  |-> IF ParentPos[n[2]] = NoPos THEN NoNode
                                  ELSE <<n[1], ParentPos[n[2]]>>,
                      source  |-> n[1],
                      content |-> disk[g].doc[n[2]]]
<1>1. \A g \in fs : Has(g) => g = f
  BY RelInjective
<1>2. ASSUME NEW gs \in SUBSET fs, f \in gs
      PROVE  Flatten(RootDir, gs, Read(gs))[n] = IF Has(f) THEN Row(f) ELSE NoRow
  <2>1. \A g \in gs : Read(gs)[g] = disk[g].doc
    BY DEF Read
  <2>2. CASE Has(f)
    <3>1. (CHOOSE g \in gs : n[1] = Rel(RootDir, g) /\ n[2] \in DOMAIN Read(gs)[g]) = f
      BY <1>1, <1>2, <2>1, <2>2
    <3> QED
      BY <1>2, <2>1, <2>2, <3>1 DEF Flatten
  <2>3. CASE ~Has(f)
    <3>1. ~\E g \in gs : n[1] = Rel(RootDir, g) /\ n[2] \in DOMAIN Read(gs)[g]
      BY <1>1, <1>2, <2>1, <2>3
    <3> QED
      BY <2>3, <3>1 DEF Flatten
  <2> QED
    BY <2>2, <2>3
<1> QED
  BY <1>2 DEF Parsed

\* Deltas bring the nodes of file f to what f parses to.
LEMMA DiffBringsParsed ==
    ASSUME nodes \in Tables, PlacedTable(nodes), NEW f \in Files, disk[f].doc \in Docs,
           NEW n \in NodeIds, n[1] = Rel(RootDir, f),
           NEW d, d = DiffFlat(Parsed(f), NodesOf(f))[n]
    PROVE  Parsed(f)[n] = IF d.op \in {"add", "mod"} THEN d.row
                          ELSE IF d.op = "rem" THEN NoRow ELSE nodes[n]
<1>1. NodesOf(f)[n] = nodes[n]
  BY NodesOfFile
<1>2. CASE d.op # "none"
  BY <1>1, <1>2, DiffFlatCases
<1>3. CASE d.op = "none"
  <2>1. \/ Parsed(f)[n] = NoRow /\ nodes[n] = NoRow
        \/ /\ Parsed(f)[n] # NoRow /\ nodes[n] # NoRow
           /\ nodes[n].content = Parsed(f)[n].content
    BY <1>1, <1>3, DiffFlatCases
  <2>2. ASSUME Parsed(f)[n] # NoRow, nodes[n] # NoRow, nodes[n].content = Parsed(f)[n].content
        PROVE  Parsed(f)[n] = nodes[n]
    <3>1. Parsed(f)[n] \in Rows /\ Placed(n, Parsed(f)[n])
      BY <2>2, ParsedFile DEF Tables, TreeTable, Live
    <3>2. nodes[n] \in Rows /\ Placed(n, nodes[n])
      BY <2>2 DEF Tables, PlacedTable, Live
    <3> QED
      BY <2>2, <3>1, <3>2 DEF Placed, Rows
  <2> QED
    BY <1>3, <2>1, <2>2
<1> QED
  BY <1>2, <1>3

-----------------------------------------------------------------------------
\* The loop's records and plans

\* The times are natural numbers.
LEMMA TimesAreNat ==
    ASSUME TypeOK
    PROVE  /\ now \in Nat /\ OldTime \in Nat
           /\ \A f \in Files : disk[f].mtime \in Nat
           /\ \A p \in Procs, f \in Files : modTimes[p][f] \in Nat /\ scan[p].pending[f] \in Nat
BY MemoryHubAssumption DEF TypeOK, Times, Scans, OldTime

\* Users write files now or with an old mtime, never with one in the future.
LEMMA UserTimes ==
    ASSUME TypeOK, TimesInv, Tick \/ UserStep
    PROVE  TimesInv'
<1>1. CASE Tick
  BY <1>1, TimesAreNat DEF Tick, TimesInv, procVars, OldTime
<1>2. CASE UserStep
  <2>1. PICK f \in Files, doc \in Docs \cup {Bad, Absent} : EditFile(f, doc) \/ RestoreFile(f, doc)
    BY <1>2 DEF UserStep
  <2>2. \E t \in {now, OldTime} : disk' = [disk EXCEPT ![f] = File(doc, t)]
    BY <2>1 DEF EditFile, RestoreFile
  <2>3. \A g \in Files : disk'[g].doc # Absent => disk'[g].mtime # 0
    BY <2>2, TimesAreNat DEF TypeOK, TimesInv, File, OldTime
  <2>4. now' = now /\ UNCHANGED procVars
    BY <2>1 DEF EditFile, RestoreFile
  <2> QED
    BY <2>3, <2>4 DEF TimesInv, procVars, OldTime
<1> QED
  BY <1>1, <1>2

\* The walk takes only files that have settled, so what it records has passed.
LEMMA WalkTimes ==
    ASSUME TypeOK, TimesInv, Settle # 0, NEW p \in Procs, ScanWalk(p)
    PROVE  TimesInv'
<1> DEFINE seen == OnDisk(Files)
           changed == {f \in seen : Settled(f) /\ Changed(p, f)}
           deleted == {f \in Files : modTimes[p][f] # 0 /\ f \notin seen}
           pending == [f \in Files |-> IF f \in changed THEN disk[f].mtime ELSE 0]
<1>1. scan' = [scan EXCEPT ![p] = [stage |-> "walked", deleted |-> deleted, pending |-> pending]]
  BY DEF ScanWalk
<1>2. /\ modTimes' = [modTimes EXCEPT ![p] = [f \in Files |-> IF f \in deleted THEN 0 ELSE @[f]]]
      /\ serving[p] = "up" /\ UNCHANGED <<now, disk, serving>>
  BY DEF ScanWalk
<1>3. \A f \in Files : /\ pending[f] < now
                       /\ f \in deleted => pending[f] = 0
  <2> SUFFICES ASSUME NEW f \in Files
               PROVE  pending[f] < now /\ (f \in deleted => pending[f] = 0)
    OBVIOUS
  <2>1. now \in Nat /\ 0 < now /\ disk[f].mtime \in Nat
    BY TimesAreNat DEF TimesInv, OldTime
  <2>2. Settled(f) => disk[f].mtime < now
    BY <2>1, MemoryHubAssumption DEF Settled
  <2>3. pending[f] = IF f \in changed THEN disk[f].mtime ELSE 0
    OBVIOUS
  <2>4. f \in deleted => f \notin changed
    OBVIOUS
  <2>5. f \in changed => Settled(f)
    OBVIOUS
  <2> HIDE DEF pending, deleted, changed
  <2> QED
    BY <2>1, <2>2, <2>3, <2>4, <2>5
<1> HIDE DEF pending, deleted
<1> SUFFICES ASSUME NEW f \in Files, NEW q \in Procs
             PROVE  /\ modTimes'[q][f] < now
                    /\ scan'[q].pending[f] < now
                    /\ serving[q] # "up" => modTimes'[q][f] = 0
                    /\ f \in scan'[q].deleted => modTimes'[q][f] = 0 /\ scan'[q].pending[f] = 0
  BY <1>2 DEF TimesInv, OldTime
<1>4. /\ modTimes[q][f] < now /\ 0 < now
      /\ scan[q].pending[f] < now
      /\ serving[q] # "up" => modTimes[q][f] = 0
      /\ f \in scan[q].deleted => modTimes[q][f] = 0 /\ scan[q].pending[f] = 0
  BY TimesAreNat DEF TimesInv, OldTime
<1>5. CASE q = p
  <2>1. scan'[q].pending = pending /\ scan'[q].deleted = deleted
    BY <1>1, <1>5 DEF TypeOK
  <2>2. modTimes'[q][f] = IF f \in deleted THEN 0 ELSE modTimes[q][f]
    BY <1>2, <1>5 DEF TypeOK
  <2> QED
    BY <1>2, <1>3, <1>4, <1>5, <2>1, <2>2
<1>6. CASE q # p
  <2>1. scan'[q] = scan[q] /\ modTimes'[q] = modTimes[q]
    BY <1>1, <1>2, <1>6 DEF TypeOK
  <2> QED
    BY <1>4, <2>1
<1> QED
  BY <1>5, <1>6

\* The other steps of a process record nothing but what a walk noted.
LEMMA ProcTimes ==
    ASSUME TypeOK, OpMuInv, TimesInv, NEW p \in Procs,
           \/ Start(p) \/ Crash(p)
           \/ ScanLock(p) \/ ScanLoadFails(p) \/ ScanNoChange(p) \/ ScanCompile(p)
           \/ ToolStep(p) \/ EmitStep(p)
    PROVE  TimesInv'
<1>0. now' = now /\ disk' = disk
  BY DEF Start, Crash, ScanLock, ScanLoadFails, ScanNoChange, ScanCompile, ToolStep,
         HandleWrite, HandleWriteUnread,
         HandleSummarize, HandleCompileDir, HandleCompileFile, Call, EmitStep, Emit,
         EmitNothing, EmitFails, EmitBusy, Finish
<1> SUFFICES ASSUME NEW f \in Files, NEW q \in Procs
             PROVE  /\ modTimes'[q][f] < now
                    /\ scan'[q].pending[f] < now
                    /\ serving'[q] # "up" => modTimes'[q][f] = 0
                    /\ f \in scan'[q].deleted => modTimes'[q][f] = 0 /\ scan'[q].pending[f] = 0
  BY <1>0 DEF TimesInv, OldTime
<1>1. /\ modTimes[q][f] < now /\ 0 < now
      /\ scan[q].pending[f] < now
      /\ serving[q] # "up" => modTimes[q][f] = 0
      /\ f \in scan[q].deleted => modTimes[q][f] = 0 /\ scan[q].pending[f] = 0
  BY TimesAreNat DEF TimesInv, OldTime
<1>2. NoScan.deleted = {} /\ NoScan.pending[f] = 0
  BY DEF NoScan
<1>3. CASE Start(p)
  BY <1>1, <1>3 DEF Start, TypeOK
<1>4. CASE Crash(p)
  BY <1>1, <1>2, <1>4 DEF Crash, TypeOK
<1>5. CASE ScanLock(p) \/ ScanLoadFails(p) \/ ScanNoChange(p) \/ ScanCompile(p)
  <2>1. UNCHANGED <<modTimes, serving>>
    BY <1>5 DEF ScanLock, ScanLoadFails, ScanNoChange, ScanCompile
  <2>2. \/ scan' = [scan EXCEPT ![p] = NoScan]
        \/ \E stage : scan' = [scan EXCEPT ![p].stage = stage]
    BY <1>5 DEF ScanLock, ScanLoadFails, ScanNoChange, ScanCompile
  <2>3. \/ scan'[q] = NoScan
        \/ scan'[q].deleted = scan[q].deleted /\ scan'[q].pending = scan[q].pending
    <3>1. CASE scan' = [scan EXCEPT ![p] = NoScan]
      BY <3>1 DEF TypeOK
    <3>2. ASSUME NEW stage, scan' = [scan EXCEPT ![p].stage = stage]
          PROVE  scan'[q].deleted = scan[q].deleted /\ scan'[q].pending = scan[q].pending
      BY <3>2 DEF TypeOK, Scans
    <3> QED
      BY <2>2, <3>1, <3>2
  <2> QED
    BY <1>1, <1>2, <2>1, <2>3
<1>6. CASE ToolStep(p)
  <2>1. UNCHANGED <<modTimes, serving, scan>>
    BY <1>6 DEF ToolStep, HandleWrite, HandleWriteUnread, HandleSummarize,
                HandleCompileDir, HandleCompileFile, Call
  <2> QED
    BY <1>1, <2>1
<1>7. CASE EmitStep(p)
  <2>1. PICK g \in Goroutines, ok \in BOOLEAN : Pending(p, g) /\ Finish(p, g, ok)
    BY <1>7 DEF EmitStep, Emit, EmitNothing, EmitFails, EmitBusy, Pending
  <2>2. CASE q # p
    <3>1. scan'[q] = scan[q] /\ modTimes'[q] = modTimes[q] /\ serving'[q] = serving[q]
      BY <2>1, <2>2 DEF Finish, TypeOK
    <3> QED
      BY <1>1, <3>1
  <2>3. CASE q = p /\ task[p][g].kind = "rescan"
    <3>1. scan'[q] = NoScan /\ serving'[q] = serving[q] /\ serving[q] = "up"
      BY <2>1, <2>3 DEF Finish, TypeOK, OpMuInv, OpMuDiscipline, Pending, Goroutines
    <3>2. modTimes'[q][f] \in {modTimes[q][f], scan[q].pending[f]}
      BY <2>1, <2>3 DEF Finish, TypeOK
    <3> QED
      BY <1>1, <1>2, <3>1, <3>2
  <2>4. CASE q = p /\ task[p][g].kind # "rescan"
    <3>1. modTimes'[q] = modTimes[q]
      BY <2>1, <2>4 DEF Finish, TypeOK
    <3>2. scan'[q].deleted = scan[q].deleted /\ scan'[q].pending = scan[q].pending
      BY <2>1, <2>4 DEF Finish, TypeOK, Scans
    <3>3. serving'[q] # "up" => serving[q] # "up"
      BY <2>1, <2>4 DEF Finish, TypeOK, OpMuInv, OpMuDiscipline, Pending, Goroutines
    <3> QED
      BY <1>1, <3>1, <3>2, <3>3
  <2> QED
    BY <2>2, <2>3, <2>4
<1> QED
  BY <1>3, <1>4, <1>5, <1>6, <1>7

\* Every step keeps the loop's records in the past.
LEMMA NextTimes ==
    ASSUME TypeOK, OpMuInv, TimesInv, Settle # 0, [Next]_vars
    PROVE  TimesInv'
<1>1. CASE UNCHANGED vars
  BY <1>1 DEF vars, procVars, TimesInv, OldTime
<1> QED
  BY <1>1, UserTimes, WalkTimes, ProcTimes DEF Next, ScanStep

\* A fresh file was not written in this step.
LEMMA FreshStays ==
    ASSUME TypeOK, TimesInv, [Next]_vars, NEW f \in Files, NEW t, t < now, Fresh(f, t)'
    PROVE  disk'[f] = disk[f] /\ Fresh(f, t) /\ Parsed(f)' = Parsed(f)
<1>1. disk'[f] = disk[f]
  <2>1. CASE UserStep
    <3>1. PICK g \in Files, doc \in Docs \cup {Bad, Absent} : EditFile(g, doc) \/ RestoreFile(g, doc)
      BY <2>1 DEF UserStep
    <3>2. PICK u \in {now, OldTime} : disk' = [disk EXCEPT ![g] = File(doc, u)]
      BY <3>1 DEF EditFile, RestoreFile
    <3>3. CASE g = f
      <4>1. disk'[f] = File(doc, u)
        BY <3>2, <3>3 DEF TypeOK
      <4>2. disk'[f].doc # Absent /\ disk'[f].mtime = t /\ t # OldTime
        BY SourceTreeAssumption DEF Fresh, OldTime
      <4>3. t = now
        BY <4>1, <4>2 DEF File
      <4> QED
        BY <4>3, TimesAreNat
    <3>4. CASE g # f
      BY <3>2, <3>4 DEF TypeOK
    <3> QED
      BY <3>3, <3>4
  <2>2. CASE ~UserStep
    <3>1. CASE Tick \/ UNCHANGED vars
      BY <3>1 DEF Tick, vars
    <3>2. ASSUME NEW p \in Procs, Start(p) \/ Crash(p) \/ ScanStep(p)
          PROVE  disk' = disk
      BY <3>2 DEF Start, Crash, ScanStep, ScanWalk, ScanLock, ScanLoadFails, ScanNoChange,
                  ScanCompile
    <3>3. ASSUME NEW p \in Procs, ToolStep(p)
          PROVE  disk' = disk
      BY <3>3 DEF ToolStep, HandleWrite, HandleWriteUnread, HandleSummarize,
                  HandleCompileDir, HandleCompileFile, Call
    <3>4. ASSUME NEW p \in Procs, EmitStep(p)
          PROVE  disk' = disk
      BY <3>4 DEF EmitStep, Emit, EmitNothing, EmitFails, EmitBusy, Finish
    <3> QED
      BY <2>2, <3>1, <3>2, <3>3, <3>4 DEF Next
  <2> QED
    BY <2>1, <2>2
<1>2. Parsed(f)' = Parsed(f)
  BY <1>1 DEF Parsed, Read, Flatten
<1> QED
  BY <1>1, <1>2 DEF Fresh, OldTime, Live

\* A plan of a compile outlives steps that keep its rows and its scan.
LEMMA PlanStays ==
    ASSUME TypeOK, TimesInv, [Next]_vars, NEW p \in Procs, CompilePlan(p),
           nodes' = nodes, task'[p]["rescan"] = task[p]["rescan"], scan'[p] = scan[p]
    PROVE  CompilePlan(p)'
<1> SUFFICES ASSUME task[p]["rescan"].kind = "rescan"
             PROVE  LET deltas == task[p]["rescan"].emission.deltas
                    IN  /\ Touches(deltas, ChangedFiles(p))
                        /\ \A f \in ChangedFiles(p), n \in NodeIds :
                              Fresh(f, scan[p].pending[f])' /\ n[1] = Rel(RootDir, f)
                              => deltas[n] = DiffFlat(Parsed(f)', NodesOf(f)')[n]
  BY DEF CompilePlan, Touches, ChangedFiles, DiffFlat
<1>1. \A f \in Files : NodesOf(f)' = NodesOf(f)
  BY DEF NodesOf, GetNodesByFiles
<1>2. \A f \in ChangedFiles(p) : f \in Files /\ scan[p].pending[f] < now
  BY DEF ChangedFiles, TimesInv
<1>3. \A f \in ChangedFiles(p) : Fresh(f, scan[p].pending[f])'
          => Fresh(f, scan[p].pending[f]) /\ Parsed(f)' = Parsed(f)
  BY <1>2, FreshStays DEF Fresh
<1> QED
  BY <1>1, <1>2, <1>3 DEF CompilePlan

\* reconcileDeleted plans removals of nodes of the deleted files.
LEMMA PurgePlanned ==
    ASSUME nodes \in Tables, PlacedTable(nodes), NEW fs \in SUBSET Files
    PROVE  Touches(DiffFlat(EmptyTable, GetNodesByFiles({Rel(RootDir, f) : f \in fs})), fs)
<1> DEFINE gone == GetNodesByFiles({Rel(RootDir, f) : f \in fs})
<1> SUFFICES ASSUME NEW n \in NodeIds, DiffFlat(EmptyTable, gone)[n].op # "none"
             PROVE  \E f \in fs : n[1] = Rel(RootDir, f)
  BY DEF Touches
<1>1. EmptyTable[n] = NoRow
  BY DEF EmptyTable
<1>2. gone[n] # NoRow
  BY <1>1, DiffFlatCases
<1> QED
  BY <1>2 DEF GetNodesByFiles, PlacedTable, Placed, Live

\* A compile of changed files plans, for each of them that has nodes, what it lacks.
LEMMA CompilePlanned ==
    ASSUME nodes \in Tables, PlacedTable(nodes), NEW fs \in SUBSET Files, Readable(fs)
    PROVE  LET deltas == CompileFiles(RootDir, SourceArg, fs).deltas
           IN  /\ Touches(deltas, fs)
               /\ \A f \in fs, n \in NodeIds :
                      Live(Parsed(f)) # {} /\ n[1] = Rel(RootDir, f)
                      => deltas[n] = DiffFlat(Parsed(f), NodesOf(f))[n]
<1> DEFINE flat == Flatten(RootDir, fs, Read(fs))
           srcs == {flat[n].source : n \in Live(flat)}
           prev == GetNodesByFiles(srcs)
           deltas == DiffFlat(flat, prev)
<1>1. CompileFiles(RootDir, SourceArg, fs).deltas = deltas
  BY DEF CompileFiles, CompileEmission
<1>2. fs \in SUBSET Under(RootDir)
  BY DEF Under
<1>3. TreeTable(flat) /\ \A n \in Live(flat) : \E f \in fs : n[1] = Rel(RootDir, f)
  BY <1>2, CompiledFiles
<1>4. srcs = {n[1] : n \in Live(flat)}
  BY <1>3 DEF TreeTable, Placed
<1>5. \A n \in NodeIds : prev[n] = IF nodes[n] # NoRow /\ n[1] \in srcs THEN nodes[n] ELSE NoRow
  BY DEF GetNodesByFiles, PlacedTable, Placed, Live
<1>6. \A f \in fs : disk[f].doc \in Docs
  BY DEF Readable
<1>7. \A f \in fs, n \in NodeIds : n[1] = Rel(RootDir, f) => flat[n] = Parsed(f)[n]
  BY FlattenAgrees
<1> HIDE DEF flat, srcs, prev
<1>8. ASSUME NEW n \in NodeIds, deltas[n].op # "none"
      PROVE  \E f \in fs : n[1] = Rel(RootDir, f)
  <2>1. flat[n] # NoRow \/ prev[n] # NoRow
    BY <1>8, DiffFlatCases
  <2> QED
    BY <1>3, <1>4, <1>5, <2>1 DEF Live
<1>9. ASSUME NEW f \in fs, NEW n \in NodeIds, Live(Parsed(f)) # {}, n[1] = Rel(RootDir, f)
      PROVE  deltas[n] = DiffFlat(Parsed(f), NodesOf(f))[n]
  <2>1. PICK m \in Live(Parsed(f)) : TRUE
    BY <1>9
  <2>2. m \in NodeIds /\ Parsed(f)[m] # NoRow /\ m[1] = Rel(RootDir, f)
    BY <1>6, ParsedFile DEF Live
  <2>3. m \in Live(flat) /\ n[1] \in srcs
    BY <1>4, <1>7, <1>9, <2>2 DEF Live
  <2>4. flat[n] = Parsed(f)[n] /\ prev[n] = nodes[n]
    BY <1>5, <1>7, <1>9, <2>3
  <2>5. NodesOf(f)[n] = nodes[n]
    BY <1>9, NodesOfFile
  <2> QED
    BY <2>4, <2>5 DEF DiffFlat
<1> QED
  BY <1>1, <1>8, <1>9 DEF Touches

\* A tool call that may not name a node writes a note.
LEMMA NotePlanned ==
    ASSUME TypeOK, LoopConditions, NEW p \in Procs, ToolStep(p)
    PROVE  \E tool, c : Call(p, tool, NodeChange(<<WriteSource, c>>,
                                 IF nodes[<<WriteSource, c>>] # NoRow
                                 THEN [nodes[<<WriteSource, c>>] EXCEPT !.content = c]
                                 ELSE NewNote(c)))
BY DEF LoopConditions, NodesAreRead, ToolStep, HandleWrite, HandleWriteUnread, Call

\* Every step keeps the plans of the loop and of the tools.
LEMMA NextLoop ==
    ASSUME TypeOK, OpMuInv, PlacedInv, TimesInv, LoopInv, LoopConditions, [Next]_vars
    PROVE  LoopInv'
<1> SUFFICES ASSUME NEW p \in Procs PROVE (PurgePlan(p) /\ CompilePlan(p) /\ NotePlan(p))'
  BY DEF LoopInv
<1>0. /\ PurgePlan(p) /\ CompilePlan(p) /\ NotePlan(p)
      /\ OpMuDiscipline(p)
      /\ \A q \in Procs : q = p
      /\ "rescan" \in Goroutines /\ "tool" \in Goroutines /\ "rescan" # "tool"
      /\ nodes \in Tables /\ PlacedTable(nodes)
  BY DEF LoopInv, OpMuInv, LoopConditions, OneServer, Goroutines, PlacedInv, TypeOK, StoreTypeOK
<1>1. CASE UNCHANGED <<task, scan, nodes>>
  <2>1. PurgePlan(p)' /\ NotePlan(p)'
    BY <1>0, <1>1 DEF PurgePlan, NotePlan, Touches, Pending
  <2> QED
    BY <1>0, <1>1, <2>1, PlanStays
<1>2. CASE ~Pending(p, "rescan")' /\ ~Pending(p, "tool")'
  BY <1>2 DEF PurgePlan, CompilePlan, NotePlan, Pending
<1>3. CASE Start(p)
  <2>1. task'[p]["rescan"].kind \in {"initial", "none"} /\ task'[p]["tool"] = task[p]["tool"]
    BY <1>0, <1>3 DEF Start, TypeOK, Task, NoTask
  <2> QED
    BY <1>0, <2>1 DEF PurgePlan, CompilePlan, NotePlan, Pending
<1>4. CASE Crash(p)
  <2>1. ~Pending(p, "rescan")' /\ ~Pending(p, "tool")'
    BY <1>0, <1>4 DEF Crash, TypeOK, NoTasks, NoTask, Pending
  <2> QED
    BY <1>2, <2>1
<1>5. CASE ScanWalk(p) \/ ScanLoadFails(p) \/ ScanNoChange(p)
  <2>1. task' = task /\ task[p]["rescan"].kind \notin {"purge", "rescan"}
    BY <1>0, <1>5 DEF ScanWalk, ScanLoadFails, ScanNoChange, OpMuDiscipline
  <2> QED
    BY <1>0, <2>1 DEF PurgePlan, CompilePlan, NotePlan, Pending
<1>6. CASE ScanLock(p)
  <2> DEFINE gone == GetNodesByFiles({Rel(RootDir, f) : f \in scan[p].deleted})
             e == [deltas |-> DiffFlat(EmptyTable, gone),
                   cursor |-> CursorHashFlat("rem", gone),
                   root   |-> NoRoot]
  <2>1. /\ \E stage \in {"purged", "purging"} : scan' = [scan EXCEPT ![p].stage = stage]
        /\ task' = task \/ task' = [task EXCEPT ![p]["rescan"] = Task("purge", e)]
    BY <1>6 DEF ScanLock
  <2>0. e.deltas = DiffFlat(EmptyTable, gone)
    OBVIOUS
  <2> HIDE DEF e
  <2>2. scan'[p].deleted = scan[p].deleted /\ scan[p].deleted \in SUBSET Files
    BY <2>1 DEF TypeOK, Scans
  <2>3. Touches(e.deltas, scan'[p].deleted)
    BY <1>0, <2>0, <2>2, PurgePlanned
  <2>4. ~Pending(p, "tool") /\ task[p]["rescan"].kind \notin {"purge", "rescan"}
    BY <1>0, <1>6 DEF ScanLock, OpMuLock, OpMuDiscipline
  <2>5. /\ task'[p]["tool"] = task[p]["tool"]
        /\ task'[p]["rescan"] = task[p]["rescan"] \/ task'[p]["rescan"] = Task("purge", e)
    BY <1>0, <2>1 DEF TypeOK
  <2>6. Task("purge", e).kind = "purge" /\ Task("purge", e).emission = e
    BY DEF Task
  <2> QED
    BY <2>3, <2>4, <2>5, <2>6 DEF PurgePlan, CompilePlan, NotePlan, Pending, Touches
<1>7. CASE ScanCompile(p)
  <2> DEFINE fs == ChangedFiles(p)
             e == CompileFiles(RootDir, SourceArg, fs)
  <2>1. ~Pending(p, "tool") /\ task[p]["rescan"].kind \notin {"purge", "rescan"}
    BY <1>0, <1>7 DEF ScanCompile, OpMuDiscipline
  <2>2. CASE task' = task
    BY <2>1, <2>2 DEF PurgePlan, CompilePlan, NotePlan, Pending
  <2>3. CASE /\ task' = [task EXCEPT ![p]["rescan"] = Task("rescan", e)]
             /\ scan' = [scan EXCEPT ![p].stage = "compiling"]
             /\ Readable(fs)
    <3>1. /\ scan'[p].pending = scan[p].pending
          /\ ChangedFiles(p)' = fs /\ fs \in SUBSET Files
      BY <2>3 DEF TypeOK, Scans, ChangedFiles
    <3>2. /\ Touches(e.deltas, fs)
          /\ \A f \in fs, n \in NodeIds :
                Live(Parsed(f)) # {} /\ n[1] = Rel(RootDir, f)
                => e.deltas[n] = DiffFlat(Parsed(f), NodesOf(f))[n]
      BY <1>0, <2>3, <3>1, CompilePlanned
    <3>3. nodes' = nodes /\ disk' = disk
      BY <1>7 DEF ScanCompile, storeVars
    <3>4. \A f \in Files : Parsed(f)' = Parsed(f) /\ NodesOf(f)' = NodesOf(f)
      BY <3>3 DEF Parsed, Read, NodesOf, GetNodesByFiles
    <3> HIDE DEF e, fs
    <3>5. task'[p]["tool"] = task[p]["tool"] /\ task'[p]["rescan"] = Task("rescan", e)
      BY <1>0, <2>3 DEF TypeOK
    <3>6. Task("rescan", e).kind = "rescan" /\ Task("rescan", e).emission = e
      BY DEF Task
    <3>7. CompilePlan(p)'
      <4> SUFFICES /\ Touches(e.deltas, fs)
                   /\ \A f \in fs, n \in NodeIds :
                          Fresh(f, scan[p].pending[f])' /\ n[1] = Rel(RootDir, f)
                          => e.deltas[n] = DiffFlat(Parsed(f), NodesOf(f))[n]'
        BY <3>1, <3>5, <3>6 DEF CompilePlan, Touches
      <4>1. \A f \in fs : Fresh(f, scan[p].pending[f])' => Live(Parsed(f)) # {}
        BY <3>1, <3>4 DEF Fresh, Live
      <4>2. \A f \in fs : DiffFlat(Parsed(f), NodesOf(f))' = DiffFlat(Parsed(f), NodesOf(f))
        BY <3>1, <3>4 DEF DiffFlat
      <4> QED
        BY <3>1, <3>2, <4>1, <4>2
    <3> QED
      BY <2>1, <3>5, <3>6, <3>7 DEF PurgePlan, NotePlan, Pending
  <2> QED
    BY <1>7, <2>2, <2>3 DEF ScanCompile, ChangedFiles
<1>8. CASE ToolStep(p)
  <2>1. PICK tool, c : Call(p, tool, NodeChange(<<WriteSource, c>>,
                                 IF nodes[<<WriteSource, c>>] # NoRow
                                 THEN [nodes[<<WriteSource, c>>] EXCEPT !.content = c]
                                 ELSE NewNote(c)))
    BY <1>8, NotePlanned
  <2> DEFINE m == <<WriteSource, c>>
             row == IF nodes[m] # NoRow THEN [nodes[m] EXCEPT !.content = c] ELSE NewNote(c)
             flat == [EmptyTable EXCEPT ![m] = row]
             prev == [EmptyTable EXCEPT ![m] = nodes[m]]
             e == NodeChange(m, row)
  <2>2. e.deltas = DiffFlat(flat, prev)
    BY DEF NodeChange
  <2>3. \A n \in NodeIds : n[1] # WriteSource => flat[n] = NoRow /\ prev[n] = NoRow
    BY DEF EmptyTable
  <2>4. Call(p, tool, e)
    BY <2>1
  <2> HIDE DEF flat, prev, e, row
  <2>5. \A n \in NodeIds : e.deltas[n].op # "none" => n[1] = WriteSource
    BY <2>2, <2>3, DiffFlatCases
  <2>6. task'[p]["tool"] = Task("tool", e) /\ task'[p]["rescan"] = task[p]["rescan"]
    BY <1>0, <2>4 DEF Call, TypeOK
  <2>7. Task("tool", e).emission = e
    BY DEF Task
  <2>8. task[p]["rescan"].kind \notin {"purge", "rescan"}
    BY <1>0, <2>4 DEF Call, OpMuLock, OpMuDiscipline
  <2> QED
    BY <2>5, <2>6, <2>7, <2>8 DEF PurgePlan, CompilePlan, NotePlan
<1>9. CASE EmitStep(p)
  <2>1. PICK g \in Goroutines : Pending(p, g) /\ task' = [task EXCEPT ![p][g] = NoTask]
    BY <1>9 DEF EmitStep, Emit, EmitNothing, EmitFails, EmitBusy, Finish, Pending
  <2> QED
    BY <1>0, <1>2, <2>1, SoleEmission DEF LoopConditions
<1>10. CASE Tick \/ UserStep \/ UNCHANGED vars
  <2>1. UNCHANGED <<task, scan, nodes>>
    BY <1>10 DEF Tick, UserStep, EditFile, RestoreFile, vars, procVars, storeVars
  <2> QED
    BY <1>1, <2>1
<1> QED
  BY <1>0, <1>3, <1>4, <1>5, <1>6, <1>7, <1>8, <1>9, <1>10 DEF Next, ScanStep

\* What the deltas of an emission make of a table's row.
Applied(d, row) == IF d.op \in {"add", "mod"} THEN d.row ELSE IF d.op = "rem" THEN NoRow ELSE row

\* The end of an emission leaves every file that the loop will skip as it is on disk.
LEMMA FinishSkips ==
    ASSUME TypeOK, OpMuInv, PlacedInv, PlacedInv', TimesInv, LoopInv, SkipInv, [Next]_vars,
           NEW p \in Procs, NEW g \in Goroutines, Pending(p, g), NEW ok \in BOOLEAN, Finish(p, g, ok),
           \/ ok /\ \A n \in NodeIds : nodes'[n] = Applied(task[p][g].emission.deltas[n], nodes[n])
           \/ ~ok /\ nodes' = nodes,
           NEW f \in Files, Fresh(f, modTimes[p][f])'
    PROVE  NodesOf(f)' = Parsed(f)'
<1> DEFINE kind == task[p][g].kind
           deltas == task[p][g].emission.deltas
<1>1. \A n \in NodeIds : /\ NodesOf(f)[n] = IF n[1] = Rel(RootDir, f) THEN nodes[n] ELSE NoRow
                         /\ NodesOf(f)'[n] = IF n[1] = Rel(RootDir, f) THEN nodes'[n] ELSE NoRow
  <2>1. PlacedTable(nodes) /\ PlacedTable(nodes)'
    BY DEF PlacedInv
  <2> QED
    BY <2>1 DEF NodesOf, GetNodesByFiles, PlacedTable, Placed, Live
<1>2. /\ NodesOf(f) = [n \in NodeIds |-> NodesOf(f)[n]]
      /\ NodesOf(f)' = [n \in NodeIds |-> NodesOf(f)'[n]]
      /\ Parsed(f) = [n \in NodeIds |-> Parsed(f)[n]]
  BY DEF NodesOf, GetNodesByFiles, Parsed, Flatten
<1>3. disk' = disk /\ Parsed(f)' = Parsed(f)
  <2>1. disk' = disk
    BY DEF Finish
  <2> QED
    BY <2>1 DEF Parsed, Read
<1>4. Fresh(f, modTimes'[p][f]) /\ modTimes'[p][f] # 0 /\ disk[f].doc \in Docs
  <2>1. Fresh(f, modTimes'[p][f])
    BY <1>3 DEF Fresh, Live, OldTime
  <2> QED
    BY <2>1, SourceTreeAssumption DEF Fresh, TimesInv
<1>5. ASSUME modTimes'[p][f] = modTimes[p][f],
             \A n \in NodeIds : n[1] = Rel(RootDir, f) => nodes'[n] = nodes[n]
      PROVE  NodesOf(f)' = Parsed(f)'
  <2>1. NodesOf(f)' = NodesOf(f)
    BY <1>1, <1>2, <1>5
  <2>2. NodesOf(f) = Parsed(f)
    BY <1>4, <1>5 DEF SkipInv
  <2> QED
    BY <1>3, <2>1, <2>2
<1>6. CASE ~ok
  <2>1. modTimes'[p][f] = modTimes[p][f]
    BY <1>6 DEF Finish, TypeOK
  <2> QED
    BY <1>5, <1>6, <2>1
<1>7. CASE ok /\ kind # "rescan"
  <2>1. modTimes'[p][f] = modTimes[p][f]
    BY <1>7 DEF Finish, TypeOK
  <2>2. ASSUME NEW n \in NodeIds, n[1] = Rel(RootDir, f)
        PROVE  deltas[n].op = "none"
    <3>1. CASE g = "tool"
      <4>1. n[1] \in FileSources
        BY <2>2 DEF FileSources
      <4> QED
        BY <3>1, <4>1, SourceTreeAssumption DEF LoopInv, NotePlan
    <3>2. CASE g = "rescan" /\ kind = "purge"
      <4>1. f \notin scan[p].deleted
        BY <1>4, <2>1 DEF TimesInv
      <4>2. scan[p].deleted \in SUBSET Files /\ Touches(deltas, scan[p].deleted)
        BY <3>2 DEF TypeOK, Scans, LoopInv, PurgePlan
      <4> QED
        BY <2>2, <4>1, <4>2, RelInjective DEF Touches
    <3>3. CASE g = "rescan" /\ kind = "initial"
      <4>1. serving[p] # "up"
        BY <3>3 DEF OpMuInv, OpMuDiscipline
      <4> QED
        BY <1>4, <2>1, <4>1 DEF TimesInv
    <3> QED
      BY <1>7, <3>1, <3>2, <3>3 DEF TypeOK, Tasks, Kinds, Goroutines, OpMuInv, OpMuDiscipline, Pending
  <2> QED
    BY <1>5, <1>7, <2>1, <2>2 DEF Applied
<1>8. CASE ok /\ kind = "rescan"
  <2>1. g = "rescan" /\ CompilePlan(p)
    BY <1>8 DEF OpMuInv, OpMuDiscipline, Goroutines, LoopInv
  <2>2. modTimes'[p][f] = IF scan[p].pending[f] # 0 THEN scan[p].pending[f] ELSE modTimes[p][f]
    BY <1>8 DEF Finish, TypeOK
  <2>3. CASE scan[p].pending[f] = 0
    <3>1. ASSUME NEW n \in NodeIds, n[1] = Rel(RootDir, f)
          PROVE  deltas[n].op = "none"
      BY <1>8, <2>1, <2>3, <3>1, RelInjective DEF CompilePlan, Touches, ChangedFiles
    <3> QED
      BY <1>5, <1>8, <2>2, <2>3, <3>1 DEF Applied
  <2>4. CASE scan[p].pending[f] # 0
    <3>1. Fresh(f, scan[p].pending[f]) /\ f \in ChangedFiles(p)
      BY <1>4, <2>2, <2>4 DEF ChangedFiles
    <3>2. ASSUME NEW n \in NodeIds, n[1] = Rel(RootDir, f)
          PROVE  nodes'[n] = Parsed(f)[n]
      <4>1. deltas[n] = DiffFlat(Parsed(f), NodesOf(f))[n]
        BY <1>8, <2>1, <3>1, <3>2 DEF CompilePlan
      <4>2. nodes'[n] = Applied(deltas[n], nodes[n])
        BY <1>8
      <4>3. nodes \in Tables /\ PlacedTable(nodes)
        BY DEF TypeOK, StoreTypeOK, PlacedInv
      <4> QED
        BY <1>4, <3>2, <4>1, <4>2, <4>3, DiffBringsParsed DEF Applied
    <3>3. ASSUME NEW n \in NodeIds, n[1] # Rel(RootDir, f)
          PROVE  Parsed(f)[n] = NoRow
      BY <1>4, <3>3, ParsedFile DEF Live
    <3>4. \A n \in NodeIds : NodesOf(f)'[n] = Parsed(f)[n]
      BY <1>1, <3>2, <3>3
    <3>5. NodesOf(f)' = Parsed(f)
      BY <1>2, <3>4
    <3> QED
      BY <1>3, <3>5
  <2> QED
    BY <2>3, <2>4
<1> QED
  BY <1>6, <1>7, <1>8

\* Every step keeps the skipped files as they are on disk.
LEMMA NextSkip ==
    ASSUME TypeOK, OpMuInv, PlacedInv, PlacedInv', FitsInv, TimesInv, LoopInv, SkipInv,
           LoopConditions, [Next]_vars
    PROVE  SkipInv'
<1> SUFFICES ASSUME NEW p \in Procs, NEW f \in Files, Fresh(f, modTimes[p][f])'
             PROVE  NodesOf(f)' = Parsed(f)'
  BY DEF SkipInv
<1>1. \A q \in Procs : q = p
  BY DEF LoopConditions, OneServer
<1>2. modTimes[p][f] \in Nat /\ modTimes[p][f] < now
  BY TimesAreNat DEF TimesInv
<1>3. CASE nodes' = nodes /\ modTimes'[p][f] = modTimes[p][f]
  <2>1. Fresh(f, modTimes[p][f]) /\ Parsed(f)' = Parsed(f)
    <3>1. PICK t : t = modTimes[p][f]
      OBVIOUS
    <3>2. Fresh(f, t)'
      BY <1>3, <3>1 DEF Fresh
    <3> QED
      BY <1>2, <3>1, <3>2, FreshStays
  <2>2. NodesOf(f)' = NodesOf(f)
    BY <1>3 DEF NodesOf, GetNodesByFiles
  <2> QED
    BY <2>1, <2>2 DEF SkipInv
<1>4. CASE modTimes'[p][f] = 0
  <2>1. disk'[f].doc # Absent /\ disk'[f].mtime = 0
    BY <1>4, SourceTreeAssumption DEF Fresh
  <2>2. TimesInv'
    BY NextTimes DEF LoopConditions
  <2> QED
    BY <2>1, <2>2 DEF TimesInv
<1>5. CASE Tick \/ UserStep \/ UNCHANGED vars
  BY <1>3, <1>5 DEF Tick, UserStep, EditFile, RestoreFile, vars, procVars, storeVars
<1>6. CASE Start(p) \/ ScanLock(p) \/ ScanLoadFails(p) \/ ScanNoChange(p) \/ ScanCompile(p)
  BY <1>3, <1>6 DEF Start, ScanLock, ScanLoadFails, ScanNoChange, ScanCompile, storeVars
<1>7. CASE ToolStep(p)
  BY <1>3, <1>7, NotePlanned DEF Call, storeVars
<1>8. CASE Crash(p)
  BY <1>4, <1>8 DEF Crash, TypeOK
<1>9. CASE ScanWalk(p)
  <2>1. modTimes'[p][f] \in {0, modTimes[p][f]}
    BY <1>9 DEF ScanWalk, TypeOK
  <2> QED
    BY <1>3, <1>4, <1>9, <2>1 DEF ScanWalk, storeVars
<1>10. ASSUME NEW g \in Goroutines,
              Emit(p, g) \/ EmitNothing(p, g) \/ EmitFails(p, g) \/ EmitBusy(p, g)
       PROVE  NodesOf(f)' = Parsed(f)'
  <2> DEFINE deltas == task[p][g].emission.deltas
  <2>1. Pending(p, g) /\ task[p][g].emission \in Emissions /\ StoreTypeOK
    BY <1>10 DEF Emit, EmitNothing, EmitFails, EmitBusy, Pending, TypeOK, Tasks
  <2>2. CASE Emit(p, g)
    <3>1. \A n \in NodeIds : nodes'[n] = Applied(deltas[n], nodes[n])
      BY <2>1, <2>2, FittingCommit DEF Emit, FitsInv, Applied, Upserted, Removed
    <3> QED
      BY <2>1, <2>2, <3>1, FinishSkips DEF Emit
  <2>3. CASE EmitNothing(p, g)
    <3>1. \A n \in NodeIds : nodes'[n] = Applied(deltas[n], nodes[n])
      BY <2>3 DEF EmitNothing, HasDeltas, Applied, storeVars
    <3> QED
      BY <2>1, <2>3, <3>1, FinishSkips DEF EmitNothing
  <2>4. CASE EmitFails(p, g) \/ EmitBusy(p, g)
    <3>1. nodes' = nodes /\ Finish(p, g, FALSE)
      BY <2>4 DEF EmitFails, EmitBusy, storeVars
    <3> QED
      BY <2>1, <3>1, FinishSkips
  <2> QED
    BY <1>10, <2>2, <2>3, <2>4
<1> QED
  BY <1>1, <1>5, <1>6, <1>7, <1>8, <1>9, <1>10 DEF Next, ScanStep, EmitStep

\* When one server runs and its tools write only notes, a file whose mtime is the
\* recorded one is in the store exactly as it is on disk, for any edits, restores,
\* crashes and errors between the walk, the lock, the reads and the commit.
THEOREM SkippedFilesStayStored == LoopConditions => (Spec => []SkippedFilesAreStored)
<1> SUFFICES ASSUME LoopConditions PROVE Spec => []SkippedFilesAreStored
  OBVIOUS
<1>0. ExactConditions /\ Settle # 0
  BY DEF LoopConditions, ExactConditions
<1> DEFINE Inv == TypeOK /\ OpMuInv /\ PlacedInv /\ FitsInv /\ TimesInv /\ LoopInv /\ SkipInv
<1>1. Init => Inv
  <2> SUFFICES ASSUME Init PROVE PlacedInv /\ FitsInv /\ TimesInv /\ LoopInv /\ SkipInv
    BY InitType, InitOpMu
  <2>1. Live(nodes) = {} /\ \A p \in Procs, g \in Goroutines : ~Pending(p, g)
    BY DEF Init, StoreInit, Live, EmptyTable, Pending, NoTasks, NoTask
  <2>2. PlacedInv /\ FitsInv /\ LoopInv
    BY <2>1 DEF PlacedInv, PlacedTable, FitsInv, LoopInv, PurgePlan, CompilePlan, NotePlan,
                Pending, Goroutines
  <2>3. \A p \in Procs, f \in Files : modTimes[p][f] = 0
    BY DEF Init
  <2>4. TimesInv
    <3>1. now = 2 /\ \A f \in Files : disk[f].doc # Absent => disk[f].mtime = 2
      BY DEF Init, File, OldTime
    <3>2. \A p \in Procs : scan[p].deleted = {} /\ \A f \in Files : scan[p].pending[f] = 0
      BY DEF Init, NoScan
    <3> QED
      BY <2>3, <3>1, <3>2 DEF TimesInv, OldTime
  <2>5. SkipInv
    BY <2>3, <2>4, SourceTreeAssumption DEF SkipInv, Fresh, TimesInv
  <2> QED
    BY <2>2, <2>4, <2>5
<1>2. Inv /\ [Next]_vars => Inv'
  <2> SUFFICES ASSUME Inv, [Next]_vars PROVE Inv'
    OBVIOUS
  <2>1. TypeOK' /\ OpMuInv'
    BY NextType, NextOpMu
  <2>2. PlacedInv' /\ FitsInv' /\ TimesInv' /\ LoopInv'
    BY <1>0, NextPlaced, NextFits, NextTimes, NextLoop DEF ExactConditions
  <2>3. SkipInv'
    BY <2>2, NextSkip
  <2> QED
    BY <2>1, <2>2, <2>3
<1>3. Inv => SkippedFilesAreStored
  <2> SUFFICES ASSUME Inv, NEW p \in Procs, NEW f \in Files,
                      disk[f].doc \in Docs, Live(Parsed(f)) # {},
                      modTimes[p][f] = disk[f].mtime, ~Backdated(f)
               PROVE  NodesOf(f) = Parsed(f)
    BY DEF SkippedFilesAreStored
  <2>1. disk[f].mtime # OldTime
    BY TimesAreNat DEF Backdated
  <2> QED
    BY <2>1 DEF SkipInv, Fresh
<1> QED
  BY <1>1, <1>2, <1>3, PTL DEF Spec

=============================================================================
