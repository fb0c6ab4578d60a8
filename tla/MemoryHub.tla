----------------------------- MODULE MemoryHub -----------------------------
(***************************************************************************)
(* `remindb serve` processes over one database and one source directory:   *)
(* the rescan loop, the tools that write (MemoryWrite, MemorySummarize,    *)
(* MemoryCompile), startup with the initial compile, and crashes, while    *)
(* users edit and delete the files.                                        *)
(*                                                                         *)
(* In a process the rescan goroutine and a tool handler take OpMu around   *)
(* "read the store, diff, emit".  An operation has a step that reads and   *)
(* plans an emission and a step that commits it or fails; steps of other   *)
(* processes and of the users come between.  The file reads of one compile *)
(* are one step: files are independent and users edit them in any order.   *)
(***************************************************************************)
EXTENDS MemoryStore

CONSTANTS
    Procs,         \* server processes
    Tools,         \* the write tools clients call in an instance
    Anchors,       \* node ids clients pass as anchor or node_id
    StaleAnchors,  \* whether clients also pass ids of nodes that are gone
    ReadErrors,    \* whether statements that read the store may fail
    DirTargets,    \* directories clients pass to MemoryCompile
    FileTargets,   \* files clients pass to MemoryCompile
    Settle,        \* RescanLoop.settle, in ticks of the files' mtime
    Edits,         \* pairs <<file, doc>>: what users make of which file
    Archive,       \* pairs <<file, doc>>: the old copies users restore
    MaxTime,       \* bound: users stop editing at this time
    MaxCalls,      \* bound: tool calls and restores
    MaxCrashes     \* bound: crashes

VARIABLES
    now,           \* the clock of the files and of the processes
    disk,          \* per file: what it parses to and its mtime
    serving,       \* per process: "down", "starting" or "up"
    modTimes,      \* per process: RescanLoop.modTimes, 0 for no entry
    scan,          \* per process: the rescan in progress
    opMu,          \* per process: which goroutine holds Store.OpMu, or "free"
    task,          \* per process and goroutine: the planned emission
    failed,        \* per process: kinds of operations that logged or returned an error
    calls, crashes \* bounded counters

procVars == <<serving, modTimes, scan, opMu, task, failed>>
vars == <<storeVars, now, disk, procVars, calls, crashes>>

Times == 0..MaxTime

NoScan == [stage |-> "idle", deleted |-> {}, pending |-> [f \in Files |-> 0]]
Scans == [stage : {"idle", "walked", "purging", "purged", "compiling"},
          deleted : SUBSET Files, pending : [Files -> Times]]

NoEmission == [deltas |-> [n \in NodeIds |-> NoDelta],
               cursor |-> CursorHashFlat("nodes", EmptyTable),
               root   |-> NoRoot]
Goroutines == {"rescan", "tool"}
Kinds == {"initial", "purge", "rescan", "tool"}
NoTask == [kind |-> "none", emission |-> NoEmission]
NoTasks == [g \in Goroutines |-> NoTask]
Task(kind, e) == [kind |-> kind, emission |-> e]
Tasks == [kind : Kinds \cup {"none"}, emission : Emissions]

ASSUME MemoryHubAssumption ==
    /\ Edits \subseteq Files \X (Docs \cup {Bad, Absent})
    /\ Archive \subseteq Files \X Docs
    /\ MaxTime \in Nat \ {0, 1} /\ MaxCalls \in Nat /\ MaxCrashes \in Nat /\ Settle \in Nat
    /\ Anchors \subseteq NodeIds
    /\ DirTargets \subseteq Dirs
    /\ FileTargets \subseteq Files
    /\ StaleAnchors \in BOOLEAN /\ ReadErrors \in BOOLEAN

\* Archived copies were last written at OldTime, before anything else happens.
OldTime == 1

\* A file last written at time t; a file that does not exist has no mtime.
File(doc, t) == [doc |-> doc, mtime |-> IF doc = Absent THEN 0 ELSE t]

Init ==
    /\ StoreInit
    /\ now = OldTime + 1
    /\ \E docs \in [Files -> Docs \cup {Bad, Absent}] :
        /\ \A f \in Files : <<f, docs[f]>> \in Edits
        /\ disk = [f \in Files |-> File(docs[f], OldTime + 1)]
    /\ serving = [p \in Procs |-> "down"]
    /\ modTimes = [p \in Procs |-> [f \in Files |-> 0]]
    /\ scan = [p \in Procs |-> NoScan]
    /\ opMu = [p \in Procs |-> "free"]
    /\ task = [p \in Procs |-> NoTasks]
    /\ failed = [p \in Procs |-> {}]
    /\ calls = 0
    /\ crashes = 0

-----------------------------------------------------------------------------
\* The environment: users and time

Tick ==
    /\ now < MaxTime
    /\ now' = now + 1
    /\ UNCHANGED <<storeVars, disk, procVars, calls, crashes>>

EditFile(f, doc) ==
    /\ now < MaxTime
    /\ <<f, doc>> \in Edits
    /\ disk[f].doc # doc
    /\ disk' = [disk EXCEPT ![f] = File(doc, now)]
    /\ UNCHANGED <<storeVars, now, procVars, calls, crashes>>

\* An archive is unpacked or a backup restored: the old copy comes with its old mtime.
RestoreFile(f, doc) ==
    /\ now < MaxTime
    /\ <<f, doc>> \in Archive
    /\ calls < MaxCalls
    /\ calls' = calls + 1
    /\ disk' = [disk EXCEPT ![f] = File(doc, OldTime)]
    /\ UNCHANGED <<storeVars, now, procVars, crashes>>

-----------------------------------------------------------------------------
\* Compilation

OnDisk(fs) == {f \in fs : disk[f].doc # Absent}
Readable(fs) == \A f \in fs : disk[f].doc \in Docs
Read(fs) == [f \in fs |-> disk[f].doc]

CompileEmission(label, flat, prev) ==
    [deltas |-> DiffFlat(flat, prev), cursor |-> CursorHashFlat("nodes", flat), root |-> label]

\* compiler.Compile of some paths: the previous state is that of the source files
\* the parsed nodes have (a file that parses to no node has none).
CompileFiles(root, label, fs) ==
    LET flat == Flatten(root, fs, Read(fs))
    IN  CompileEmission(label, flat, GetNodesByFiles({flat[n].source : n \in Live(flat)}))

\* compiler.CompileDir: the previous state is that of the compile root.
CompileDir(root) ==
    LET fs == OnDisk(Under(root))
    IN  CompileEmission(root, Flatten(root, fs, Read(fs)), GetNodesByCompileRoot(root))

-----------------------------------------------------------------------------
\* Startup and crash

\* MaybeInitialCompile, then the rescan loop and the tools are served.  A file that
\* cannot be parsed stops the startup.
Start(p) ==
    /\ serving[p] = "down"
    /\ LET fs == OnDisk(Files)
           compiles == Live(nodes) = {} /\ fs # {}
       IN  /\ serving' = [serving EXCEPT ![p] = IF ~compiles THEN "up"
                                                ELSE IF Readable(fs) THEN "starting"
                                                ELSE "down"]
           /\ task' = [task EXCEPT ![p]["rescan"] = IF compiles /\ Readable(fs)
                                                    THEN Task("initial", CompileDir(RootDir))
                                                    ELSE NoTask]
           /\ failed' = [failed EXCEPT ![p] = IF compiles /\ ~Readable(fs)
                                              THEN {"initial"} ELSE {}]
    /\ UNCHANGED <<storeVars, now, disk, modTimes, scan, opMu, calls, crashes>>

\* Everything but the database is lost; an uncommitted transaction is rolled back.
Crash(p) ==
    /\ crashes < MaxCrashes
    /\ serving[p] # "down"
    /\ crashes' = crashes + 1
    /\ serving' = [serving EXCEPT ![p] = "down"]
    /\ modTimes' = [modTimes EXCEPT ![p] = [f \in Files |-> 0]]
    /\ scan' = [scan EXCEPT ![p] = NoScan]
    /\ opMu' = [opMu EXCEPT ![p] = "free"]
    /\ task' = [task EXCEPT ![p] = NoTasks]
    /\ UNCHANGED <<storeVars, now, disk, failed, calls>>

OpMuLock(p, g) == opMu[p] = "free" /\ opMu' = [opMu EXCEPT ![p] = g]
OpMuUnlock(p, g) == opMu' = [opMu EXCEPT ![p] = IF @ = g THEN "free" ELSE @]

-----------------------------------------------------------------------------
\* The rescan loop

Settled(f) == now - disk[f].mtime >= Settle

Changed(p, f) == disk[f].mtime > modTimes[p][f]

\* The walk, before OpMu is taken.  Entries of files that are gone leave modTimes here.
\* A scan that finds no file changed or deleted, and one whose walk ends in an error,
\* change nothing and are left out.
ScanWalk(p) ==
    /\ serving[p] = "up"
    /\ scan[p].stage = "idle"
    /\ LET seen    == OnDisk(Files)
           changed == {f \in seen : Settled(f) /\ Changed(p, f)}
           deleted == {f \in Files : modTimes[p][f] # 0 /\ f \notin seen}
       IN  /\ changed \cup deleted # {}
           /\ scan' = [scan EXCEPT ![p] =
                  [stage   |-> "walked",
                   deleted |-> deleted,
                   pending |-> [f \in Files |-> IF f \in changed THEN disk[f].mtime ELSE 0]]]
           /\ modTimes' = [modTimes EXCEPT ![p] =
                  [f \in Files |-> IF f \in deleted THEN 0 ELSE @[f]]]
    /\ UNCHANGED <<storeVars, now, disk, serving, opMu, task, failed, calls, crashes>>

\* Faulty: deleted files are forgotten without a purge.
ScanLockNoPurge(p) ==
    /\ scan[p].stage = "walked"
    /\ OpMuLock(p, "rescan")
    /\ scan' = [scan EXCEPT ![p].stage = "purged"]
    /\ UNCHANGED <<storeVars, now, disk, serving, modTimes, task, failed, calls, crashes>>

\* OpMu.Lock and reconcileDeleted up to its emission.
ScanLock(p) ==
    /\ scan[p].stage = "walked"
    /\ OpMuLock(p, "rescan")
    /\ LET gone == GetNodesByFiles({Rel(RootDir, f) : f \in scan[p].deleted})
           e == [deltas |-> DiffFlat(EmptyTable, gone),
                 cursor |-> CursorHashFlat("rem", gone),
                 root   |-> NoRoot]
       IN  IF Live(gone) = {}
           THEN /\ scan' = [scan EXCEPT ![p].stage = "purged"]
                /\ UNCHANGED task
           ELSE /\ scan' = [scan EXCEPT ![p].stage = "purging"]
                /\ task' = [task EXCEPT ![p]["rescan"] = Task("purge", e)]
    /\ UNCHANGED <<storeVars, now, disk, serving, modTimes, failed, calls, crashes>>

\* OpMu.Lock, and the nodes of the deleted files cannot be loaded: the loop goes on.
ScanLoadFails(p) ==
    /\ ReadErrors
    /\ scan[p].stage = "walked"
    /\ scan[p].deleted # {}
    /\ OpMuLock(p, "rescan")
    /\ scan' = [scan EXCEPT ![p].stage = "purged"]
    /\ failed' = [failed EXCEPT ![p] = @ \cup {"purge"}]
    /\ UNCHANGED <<storeVars, now, disk, serving, modTimes, task, calls, crashes>>

\* Nothing changed: OpMu is released.
ScanNoChange(p) ==
    /\ scan[p].stage = "purged"
    /\ \A f \in Files : scan[p].pending[f] = 0
    /\ scan' = [scan EXCEPT ![p] = NoScan]
    /\ OpMuUnlock(p, "rescan")
    /\ UNCHANGED <<storeVars, now, disk, serving, modTimes, task, failed, calls, crashes>>

\* compiler.Compile of the changed files up to its emission, or its failure when one
\* of them cannot be read or parsed, or the previous nodes cannot be loaded.
ScanCompile(p) ==
    LET changed == {f \in Files : scan[p].pending[f] # 0}
    IN  /\ scan[p].stage = "purged"
        /\ changed # {}
        /\ \/ /\ Readable(changed)
              /\ scan' = [scan EXCEPT ![p].stage = "compiling"]
              /\ task' = [task EXCEPT ![p]["rescan"] =
                     Task("rescan", CompileFiles(RootDir, SourceArg, changed))]
              /\ UNCHANGED <<opMu, failed>>
           \/ /\ ReadErrors \/ ~Readable(changed)
              /\ scan' = [scan EXCEPT ![p] = NoScan]
              /\ OpMuUnlock(p, "rescan")
              /\ failed' = [failed EXCEPT ![p] = @ \cup {"rescan"}]
              /\ UNCHANGED task
        /\ UNCHANGED <<storeVars, now, disk, serving, modTimes, calls, crashes>>

-----------------------------------------------------------------------------
\* The tools

\* Faulty: the handler does not take OpMu.
CallWithoutOpMu(p, tool, e) ==
    /\ tool \in Tools
    /\ serving[p] = "up"
    /\ calls < MaxCalls
    /\ task[p]["tool"].kind = "none"
    /\ calls' = calls + 1
    /\ task' = [task EXCEPT ![p]["tool"] = Task("tool", e)]
    /\ UNCHANGED <<storeVars, now, disk, serving, modTimes, scan, opMu, failed, crashes>>

\* A tool call that plans emission e holds OpMu until its emission ends.
Call(p, tool, e) ==
    /\ tool \in Tools
    /\ serving[p] = "up"
    /\ calls < MaxCalls
    /\ task[p]["tool"].kind = "none"
    /\ OpMuLock(p, "tool")
    /\ calls' = calls + 1
    /\ task' = [task EXCEPT ![p]["tool"] = Task("tool", e)]
    /\ UNCHANGED <<storeVars, now, disk, serving, modTimes, scan, failed, crashes>>

\* emitNodeChange: one node, diffed against its own previous state.
NodeChange(n, row) ==
    LET flat == [EmptyTable EXCEPT ![n] = row]
        prev == [EmptyTable EXCEPT ![n] = nodes[n]]
    IN  [deltas |-> DiffFlat(flat, prev), cursor |-> CursorHashFlat("nodes", flat), root |-> NoRoot]

\* Faulty: a note has no source_file.
NewNoteWithoutSource(payload) == [parent |-> NoNode, source |-> NoNode, content |-> payload]

NewNote(payload) == [parent |-> NoNode, source |-> WriteSource, content |-> payload]

\* MemoryWrite without an anchor, and with an anchor: an existing node keeps its
\* metadata; an anchor that names no node creates a note with that id.
HandleWrite(p, n, payload) ==
    Call(p, "MemoryWrite",
         NodeChange(n, IF nodes[n] # NoRow THEN [nodes[n] EXCEPT !.content = payload]
                                           ELSE NewNote(payload)))

\* MemoryWrite when GetNode fails: the error is dropped and the node taken for a new one.
HandleWriteUnread(p, n, payload) ==
    /\ ReadErrors
    /\ Call(p, "MemoryWrite",
            CompileEmission(NoRoot, [EmptyTable EXCEPT ![n] = NewNote(payload)], EmptyTable))

HandleSummarize(p, n, summary) ==
    /\ nodes[n] # NoRow
    /\ Call(p, "MemorySummarize", NodeChange(n, [nodes[n] EXCEPT !.content = summary]))

\* MemoryCompile of a directory; a call that cannot read its files returns an error
\* and changes nothing.  Without files it returns before it compiles.
HandleCompileDir(p, dir) ==
    /\ OnDisk(Under(dir)) # {}
    /\ Readable(OnDisk(Under(dir)))
    /\ Call(p, "MemoryCompile", CompileDir(dir))

\* MemoryCompile of a file: the compile root is the file's own directory.
HandleCompileFile(p, f) ==
    /\ Readable({f})
    /\ Call(p, "MemoryCompile", CompileFiles(f.dir, f.dir, {f}))

-----------------------------------------------------------------------------
\* The end of an emission: commit, no deltas, or an error

\* Faulty: mtimes are recorded though the compile failed.
FinishRecordsFailure(p, g, ok) ==
    LET kind == task[p][g].kind
    IN  /\ task' = [task EXCEPT ![p][g] = NoTask]
        /\ serving' = [serving EXCEPT ![p] = IF kind # "initial" THEN @
                                             ELSE IF ok THEN "up" ELSE "down"]
        /\ scan' = [scan EXCEPT ![p] = CASE kind = "purge"  -> [@ EXCEPT !.stage = "purged"]
                                         [] kind = "rescan" -> NoScan
                                         [] OTHER           -> @]
        /\ modTimes' = [modTimes EXCEPT ![p] = [f \in Files |->
               IF kind = "rescan" /\ scan[p].pending[f] # 0 THEN scan[p].pending[f] ELSE @[f]]]
        /\ IF kind = "purge" THEN UNCHANGED opMu ELSE OpMuUnlock(p, g)
        /\ UNCHANGED <<failed, now, disk, calls, crashes>>

Finish(p, g, ok) ==
    LET kind == task[p][g].kind
    IN  /\ task' = [task EXCEPT ![p][g] = NoTask]
        /\ serving' = [serving EXCEPT ![p] = IF kind # "initial" THEN @
                                             ELSE IF ok THEN "up" ELSE "down"]
        /\ scan' = [scan EXCEPT ![p] = CASE kind = "purge"  -> [@ EXCEPT !.stage = "purged"]
                                         [] kind = "rescan" -> NoScan
                                         [] OTHER           -> @]
        /\ modTimes' = [modTimes EXCEPT ![p] =
               IF kind = "rescan" /\ ok
               THEN [f \in Files |-> IF scan[p].pending[f] # 0 THEN scan[p].pending[f] ELSE @[f]]
               ELSE @]
        /\ IF kind = "purge" THEN UNCHANGED opMu ELSE OpMuUnlock(p, g)
        /\ failed' = [failed EXCEPT ![p] = IF ~ok THEN @ \cup {kind}
                                           ELSE IF kind = "rescan" THEN @ \ {kind}
                                           ELSE @]
        /\ UNCHANGED <<now, disk, calls, crashes>>

Emit(p, g) ==
    /\ task[p][g].kind # "none"
    /\ Commit(task[p][g].emission)
    /\ Finish(p, g, TRUE)

EmitNothing(p, g) ==
    /\ task[p][g].kind # "none"
    /\ ~HasDeltas(task[p][g].emission)
    /\ UNCHANGED storeVars
    /\ Finish(p, g, TRUE)

EmitFails(p, g) ==
    /\ task[p][g].kind # "none"
    /\ ConstraintFails(task[p][g].emission)
    /\ UNCHANGED storeVars
    /\ Finish(p, g, FALSE)

\* SQLITE_BUSY outlasts the busy timeout and the retries: another process writes.
EmitBusy(p, g) ==
    /\ task[p][g].kind # "none"
    /\ HasDeltas(task[p][g].emission)
    /\ \E q \in Procs \ {p} : serving[q] # "down"
    /\ UNCHANGED storeVars
    /\ Finish(p, g, FALSE)

-----------------------------------------------------------------------------
Usable(n) == n \in Anchors /\ (StaleAnchors \/ nodes[n] # NoRow)

ToolStep(p) ==
    \/ \E payload \in Contents :
           LET n == <<WriteSource, payload>>
           IN  HandleWrite(p, n, payload) \/ HandleWriteUnread(p, n, payload)
    \/ \E n \in Anchors, payload \in Contents :
           Usable(n) /\ (HandleWrite(p, n, payload) \/ HandleWriteUnread(p, n, payload))
    \/ \E n \in Anchors, summary \in Contents : HandleSummarize(p, n, summary)
    \/ \E dir \in DirTargets : HandleCompileDir(p, dir)
    \/ \E f \in FileTargets : HandleCompileFile(p, f)

ScanStep(p) ==
    ScanWalk(p) \/ ScanLock(p) \/ ScanLoadFails(p) \/ ScanNoChange(p) \/ ScanCompile(p)
EmitStep(p) ==
    \E g \in Goroutines : Emit(p, g) \/ EmitNothing(p, g) \/ EmitFails(p, g) \/ EmitBusy(p, g)

UserStep ==
    \E f \in Files, doc \in Docs \cup {Bad, Absent} : EditFile(f, doc) \/ RestoreFile(f, doc)

Next ==
    \/ Tick
    \/ UserStep
    \/ \E p \in Procs : Start(p) \/ Crash(p) \/ ScanStep(p) \/ ToolStep(p) \/ EmitStep(p)

Spec == Init /\ [][Next]_vars

\* The clock runs, a server that is down is restarted, the rescan ticker fires and a
\* lock holder proceeds; users, clients and crashes owe nothing.
FairSpec ==
    /\ Spec
    /\ WF_vars(Tick)
    /\ \A p \in Procs : WF_vars(Start(p)) /\ WF_vars(ScanStep(p)) /\ WF_vars(EmitStep(p))

-----------------------------------------------------------------------------
\* Every variable has its type.
TypeOK ==
    /\ StoreTypeOK
    /\ now \in Times
    /\ disk \in [Files -> [doc : Docs \cup {Bad, Absent}, mtime : Times]]
    /\ serving \in [Procs -> {"down", "starting", "up"}]
    /\ modTimes \in [Procs -> [Files -> Times]]
    /\ scan \in [Procs -> Scans]
    /\ opMu \in [Procs -> Goroutines \cup {"free"}]
    /\ task \in [Procs -> [Goroutines -> Tasks]]
    /\ failed \in [Procs -> SUBSET Kinds]
    /\ calls \in 0..MaxCalls
    /\ crashes \in 0..MaxCrashes

\* What MemoryFetch and MemoryHistory show of the store.
Memory == [n \in NodeIds |-> IF nodes[n] = NoRow THEN NoContent ELSE nodes[n].content]
History ==
    [i \in 1..Len(log) |-> [n \in NodeIds |->
        [old |-> log[i].deltas[n].old,
         new |-> IF log[i].deltas[n].row = NoRow THEN NoContent
                                                 ELSE log[i].deltas[n].row.content]]]
VM == INSTANCE VersionedMemory WITH
          Ids <- NodeIds, Values <- Contents, None <- NoContent,
          memory <- Memory, history <- History

\* The version history is exact: every step that changes a node's content is one
\* snapshot, with the content before and after of every node it changes and of no
\* other, so that replaying or undoing the diffs is right.
HistoryIsExact == VM!Spec

\* With one server, OpMu keeps the store as an operation read it until its emission, so
\* a foreign key never fails: only a cursor_hash that repeats can.
NoForeignKeyFailure ==
    \A p \in Procs, g \in Goroutines :
        task[p][g].kind # "none" => ForeignKeysHold(task[p][g].emission)

NodesOf(f) == GetNodesByFiles({Rel(RootDir, f)})
Parsed(f) == Flatten(RootDir, {f}, Read({f}))

\* A loop that has recorded this mtime or a later one takes a restored file for
\* unchanged, until it is restarted; the recorded content may be what the file held
\* before, or between two restores.
Backdated(f) ==
    disk[f].mtime = OldTime /\ \E p \in Procs : modTimes[p][f] >= OldTime

\* A file the loop will skip as unchanged (its mtime is the recorded one) is in the
\* store exactly as it is on disk, whatever edits raced the walk, the lock and the
\* reads.  Files that parse to no node, and backdated ones, are left out.
SkippedFilesAreStored ==
    \A p \in Procs, f \in Files :
        (/\ disk[f].doc \in Docs
         /\ Live(Parsed(f)) # {}
         /\ modTimes[p][f] = disk[f].mtime
         /\ ~Backdated(f))
        => NodesOf(f) = Parsed(f)

\* The store has exactly the nodes of file f as it is on disk.  A file that parses to
\* no node names no source_file to the compile, and may keep the nodes it had.
InSync(f) ==
    /\ disk[f].doc = Absent => Live(NodesOf(f)) = {}
    /\ disk[f].doc \in Docs /\ Live(Parsed(f)) # {} => NodesOf(f) = Parsed(f)

\* A running server reported an error: of its latest rescan compile, or of a purge.
ErrorReported == \E p \in Procs : failed[p] # {}

\* Once users stop editing, a server that stays up ends with exactly the nodes of every
\* file that is on disk and has nodes, and with none of a deleted file that its loop had
\* recorded, through crashes at any point before; or the loop has reported an error, or
\* the file is backdated.  A file deleted while no server remembers it is left out.
RescanConverges ==
    \A f \in Files, p \in Procs :
        (/\ <>[](serving[p] = "up")
         /\ \/ <>[](disk[f].doc # Absent)
            \/ <>(modTimes[p][f] # 0 /\ [](serving[p] = "up")))
            => <>[](ErrorReported \/ InSync(f) \/ Backdated(f))

\* Whatever crashes, a server is up again in the end, with its loop and its tools.
ServersComeUp == \A p \in Procs : <>[](serving[p] = "up")

=============================================================================
