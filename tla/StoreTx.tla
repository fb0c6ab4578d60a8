------------------------------ MODULE StoreTx ------------------------------
(***************************************************************************)
(* Store.Tx under an emission: the in-process mutex, SQLite's write lock,  *)
(* SQLITE_BUSY with its retries, rollback, cancellation and crashes.       *)
(* MemoryStore takes the transaction of an emission as one step; this      *)
(* module shows that step made of its statements.                          *)
(*                                                                         *)
(* An emission's first statement is an upsert or a delete, so its deferred *)
(* transaction takes the WAL write lock before it reads HEAD.              *)
(***************************************************************************)
EXTENDS Naturals, Sequences

CONSTANTS
    Workers,      \* goroutines that emit
    Procs,        \* server processes
    ProcOf,       \* the process of each goroutine
    None,
    MaxAttempts,  \* maxAttempts
    MaxCalls      \* bound: calls of Emit of each goroutine

ASSUME StoreTxAssumption ==
    /\ ProcOf \in [Workers -> Procs]
    /\ None \notin Workers
    /\ MaxAttempts \in Nat \ {0}
    /\ MaxCalls \in [Workers -> Nat]

VARIABLES
    txMu,      \* per process: the goroutine that holds Store.txMu
    walLock,   \* the goroutine whose transaction may write
    log,       \* committed snapshots: the call that made each, its parent_id
    head,      \* cursors.snapshot_id of HEAD, 0 for none
    pc,        \* per goroutine: where its call is
    attempt,   \* per goroutine: attempt of Tx
    parent,    \* per goroutine: parentID of CreateSnapshotTx
    calls,     \* per goroutine: calls made
    outcome    \* per goroutine: how its latest call ended

vars == <<txMu, walLock, log, head, pc, attempt, parent, calls, outcome>>

InTx == {"begin", "backoff", "writing", "inserted", "committed"}
Snapshots == [by : Workers, call : Nat, parent : Nat]

Init ==
    /\ txMu = [p \in Procs |-> None]
    /\ walLock = None
    /\ log = << >>
    /\ head = 0
    /\ pc = [w \in Workers |-> "idle"]
    /\ attempt = [w \in Workers |-> 0]
    /\ parent = [w \in Workers |-> 0]
    /\ calls = [w \in Workers |-> 0]
    /\ outcome = [w \in Workers |-> "none"]

-----------------------------------------------------------------------------
Goto(w, label) == pc' = [pc EXCEPT ![w] = label]

Emit(w) ==
    /\ pc[w] = "idle"
    /\ calls[w] < MaxCalls[w]
    /\ Goto(w, "waiting")
    /\ calls' = [calls EXCEPT ![w] = @ + 1]
    /\ outcome' = [outcome EXCEPT ![w] = "none"]
    /\ UNCHANGED <<txMu, walLock, log, head, attempt, parent>>

\* Faulty: the mutex does not exclude.
TxMuIgnored(w) ==
    /\ pc[w] = "waiting"
    /\ txMu' = [txMu EXCEPT ![ProcOf[w]] = w]
    /\ attempt' = [attempt EXCEPT ![w] = 0]
    /\ Goto(w, "begin")
    /\ UNCHANGED <<walLock, log, head, parent, calls, outcome>>

TxMuLock(w) ==
    /\ pc[w] = "waiting"
    /\ txMu[ProcOf[w]] = None
    /\ txMu' = [txMu EXCEPT ![ProcOf[w]] = w]
    /\ attempt' = [attempt EXCEPT ![w] = 0]
    /\ Goto(w, "begin")
    /\ UNCHANGED <<walLock, log, head, parent, calls, outcome>>

\* Faulty: the mutex is not unlocked.
ReturnLocked(w, result) ==
    /\ Goto(w, "idle")
    /\ UNCHANGED txMu
    /\ outcome' = [outcome EXCEPT ![w] = result]

\* Tx returns; its deferred Unlock runs.
Return(w, result) ==
    /\ Goto(w, "idle")
    /\ txMu' = [txMu EXCEPT ![ProcOf[w]] = None]
    /\ outcome' = [outcome EXCEPT ![w] = result]

\* Faulty: the transaction reads before it writes, without the lock.
FirstRead(w) ==
    /\ pc[w] = "begin"
    /\ walLock' = w
    /\ Goto(w, "writing")
    /\ UNCHANGED <<txMu, log, head, attempt, parent, calls, outcome>>

\* BEGIN and the first UpsertNodeTx or DeleteNodeTx.
FirstWrite(w) ==
    /\ pc[w] = "begin"
    /\ walLock = None
    /\ walLock' = w
    /\ Goto(w, "writing")
    /\ UNCHANGED <<txMu, log, head, attempt, parent, calls, outcome>>

\* Faulty: one attempt too many.
BusyOnceMore(w) ==
    /\ pc[w] = "begin"
    /\ walLock # None
    /\ IF attempt[w] >= MaxAttempts
       THEN Return(w, "error")
       ELSE Goto(w, "backoff") /\ UNCHANGED <<txMu, outcome>>
    /\ UNCHANGED <<walLock, log, head, attempt, parent, calls>>

\* Another transaction holds the lock beyond the busy timeout: retry or give up.
Busy(w) ==
    /\ pc[w] = "begin"
    /\ walLock # None
    /\ IF attempt[w] >= MaxAttempts - 1
       THEN Return(w, "error")
       ELSE Goto(w, "backoff") /\ UNCHANGED <<txMu, outcome>>
    /\ UNCHANGED <<walLock, log, head, attempt, parent, calls>>

BackoffSleep(w) ==
    /\ pc[w] = "backoff"
    /\ attempt' = [attempt EXCEPT ![w] = @ + 1]
    /\ Goto(w, "begin")
    /\ UNCHANGED <<txMu, walLock, log, head, parent, calls, outcome>>

\* The other node statements, then CreateSnapshotTx reads HEAD and inserts the
\* snapshot; InsertDiffTx and AdvanceCursorTx write in the same transaction.
CreateSnapshotTx(w) ==
    /\ pc[w] = "writing"
    /\ parent' = [parent EXCEPT ![w] = head]
    /\ Goto(w, "inserted")
    /\ UNCHANGED <<txMu, walLock, log, head, attempt, calls, outcome>>

\* Faulty: a commit that succeeded is retried.
CommitRetried(w) ==
    /\ pc[w] = "inserted"
    /\ log' = Append(log, [by |-> w, call |-> calls[w], parent |-> parent[w]])
    /\ head' = Len(log) + 1
    /\ walLock' = None
    /\ Goto(w, "backoff")
    /\ UNCHANGED <<txMu, attempt, parent, calls, outcome>>

Commit(w) ==
    /\ pc[w] = "inserted"
    /\ log' = Append(log, [by |-> w, call |-> calls[w], parent |-> parent[w]])
    /\ head' = Len(log) + 1
    /\ walLock' = None
    /\ Goto(w, "committed")
    /\ UNCHANGED <<txMu, attempt, parent, calls, outcome>>

TxReturn(w) ==
    /\ pc[w] = "committed"
    /\ Return(w, "ok")
    /\ UNCHANGED <<walLock, log, head, attempt, parent, calls>>

\* A constraint fails, or the context is done in a statement or in the backoff.
Fails(w) ==
    /\ pc[w] \in {"begin", "backoff", "writing", "inserted"}
    /\ walLock' = IF walLock = w THEN None ELSE walLock
    /\ Return(w, "error")
    /\ UNCHANGED <<log, head, attempt, parent, calls>>

\* The process dies: its mutex is gone and its open transaction rolls back.
Crash(p) ==
    LET gone == {w \in Workers : ProcOf[w] = p}
    IN  /\ \E w \in gone : pc[w] # "idle"
        /\ txMu' = [txMu EXCEPT ![p] = None]
        /\ walLock' = IF walLock \in gone THEN None ELSE walLock
        /\ pc' = [w \in Workers |-> IF w \in gone THEN "idle" ELSE pc[w]]
        /\ outcome' = [w \in Workers |-> IF w \in gone /\ pc[w] # "idle" THEN "lost"
                                         ELSE outcome[w]]
        /\ UNCHANGED <<log, head, attempt, parent, calls>>

Step(w) ==
    \/ FirstWrite(w) \/ Busy(w) \/ BackoffSleep(w) \/ CreateSnapshotTx(w)
    \/ Commit(w) \/ TxReturn(w)

Next ==
    \/ \E w \in Workers : Emit(w) \/ TxMuLock(w) \/ Step(w) \/ Fails(w)
    \/ \E p \in Procs : Crash(p)

Spec == Init /\ [][Next]_vars

\* A statement, a timeout or a backoff ends; sync.Mutex starves no waiter.
FairSpec == Spec /\ \A w \in Workers : WF_vars(Step(w)) /\ SF_vars(TxMuLock(w))

-----------------------------------------------------------------------------
\* Every variable has its type; Tx makes at most MaxAttempts attempts, the first being 0.
TypeOK ==
    /\ txMu \in [Procs -> Workers \cup {None}]
    /\ walLock \in Workers \cup {None}
    /\ log \in Seq(Snapshots)
    /\ head \in Nat
    /\ pc \in [Workers -> InTx \cup {"idle", "waiting"}]
    /\ attempt \in [Workers -> 0..(MaxAttempts - 1)]
    /\ parent \in [Workers -> Nat]
    /\ calls \in [Workers -> Nat]
    /\ outcome \in [Workers -> {"none", "ok", "error", "lost"}]

\* However transactions of several processes interleave, retry, fail and crash, each
\* snapshot's parent is the one committed just before it, and HEAD is the last.
SnapshotsChain ==
    /\ head = Len(log)
    /\ \A i \in 1..Len(log) : log[i].parent = i - 1

Committed(w, c) == \E i \in 1..Len(log) : log[i].by = w /\ log[i].call = c

\* Retries never commit a call twice; a call that returned nil is committed, and one
\* that returned an error, or has not returned, left nothing behind.
CommittedExactlyOnce ==
    /\ \A i, j \in 1..Len(log) :
           (log[i].by = log[j].by /\ log[i].call = log[j].call) => i = j
    /\ \A w \in Workers :
           /\ outcome[w] = "ok" => Committed(w, calls[w])
           /\ (outcome[w] = "error" \/ (outcome[w] = "none" /\ pc[w] # "committed"))
                  => ~Committed(w, calls[w])

\* txMu keeps the emissions of one process from meeting SQLITE_BUSY on each other.
BusyOnlyAcrossProcesses ==
    \A w \in Workers :
        (pc[w] = "begin" /\ walLock # None) => ProcOf[walLock] # ProcOf[w]

\* Every call of Tx returns: neither the mutex, the lock nor the retries block for ever.
TxReturns == \A w \in Workers : pc[w] # "idle" ~> pc[w] = "idle"
=============================================================================
