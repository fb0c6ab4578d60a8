--------------------------- MODULE StoreTx_proofs ---------------------------
(***************************************************************************)
(* Theorems of StoreTx for any processes, goroutines, attempts and calls.  *)
(***************************************************************************)
EXTENDS StoreTx, TLAPS

\* A goroutine that sleeps has an attempt left.
AttemptsLeft == \A w \in Workers : pc[w] = "backoff" => attempt[w] < MaxAttempts - 1

\* Initially, and after every step, the variables have their types.
LEMMA InitType == Init => TypeOK /\ AttemptsLeft
BY StoreTxAssumption DEF Init, TypeOK, AttemptsLeft

\* Every step keeps the types.
LEMMA NextType == TypeOK /\ AttemptsLeft /\ [Next]_vars => TypeOK' /\ AttemptsLeft'
<1> SUFFICES ASSUME TypeOK, AttemptsLeft, [Next]_vars PROVE TypeOK' /\ AttemptsLeft'
  OBVIOUS
<1> USE StoreTxAssumption DEF TypeOK, AttemptsLeft, InTx, Goto
<1>1. ASSUME NEW w \in Workers, Emit(w) PROVE TypeOK' /\ AttemptsLeft'
  BY <1>1 DEF Emit
<1>2. ASSUME NEW w \in Workers, TxMuLock(w) PROVE TypeOK' /\ AttemptsLeft'
  BY <1>2 DEF TxMuLock
<1>3. ASSUME NEW w \in Workers, FirstWrite(w) PROVE TypeOK' /\ AttemptsLeft'
  BY <1>3 DEF FirstWrite
<1>4. ASSUME NEW w \in Workers, Busy(w) PROVE TypeOK' /\ AttemptsLeft'
  <2>1. CASE attempt[w] >= MaxAttempts - 1
    BY <1>4, <2>1 DEF Busy, Return
  <2>2. CASE ~(attempt[w] >= MaxAttempts - 1)
    <3>1. pc' = [pc EXCEPT ![w] = "backoff"]
      BY <1>4, <2>2 DEF Busy
    <3>2. UNCHANGED <<txMu, walLock, log, head, attempt, parent, calls, outcome>>
      BY <1>4, <2>2 DEF Busy
    <3>3. attempt[w] < MaxAttempts - 1
      BY <2>2
    <3>4. TypeOK'
      BY <3>1, <3>2
    <3>5. AttemptsLeft'
      BY <3>1, <3>2, <3>3
    <3> QED
      BY <3>4, <3>5
  <2> QED
    BY <2>1, <2>2
<1>5. ASSUME NEW w \in Workers, BackoffSleep(w) PROVE TypeOK' /\ AttemptsLeft'
  BY <1>5 DEF BackoffSleep
<1>6. ASSUME NEW w \in Workers, TxReturn(w) PROVE TypeOK' /\ AttemptsLeft'
  BY <1>6 DEF TxReturn, Return
<1>7. ASSUME NEW w \in Workers, CreateSnapshotTx(w) PROVE TypeOK' /\ AttemptsLeft'
  BY <1>7 DEF CreateSnapshotTx
<1>8. ASSUME NEW w \in Workers, Commit(w) PROVE TypeOK' /\ AttemptsLeft'
  <2>1. [by |-> w, call |-> calls[w], parent |-> parent[w]] \in Snapshots
    BY DEF Snapshots
  <2>2. log' \in Seq(Snapshots) /\ head' \in Nat
    BY <1>8, <2>1 DEF Commit
  <2> QED
    BY <1>8, <2>2 DEF Commit
<1>9. ASSUME NEW w \in Workers, Fails(w) PROVE TypeOK' /\ AttemptsLeft'
  BY <1>9 DEF Fails, Return
<1>10. ASSUME NEW p \in Procs, Crash(p) PROVE TypeOK' /\ AttemptsLeft'
  BY <1>10 DEF Crash
<1>11. CASE UNCHANGED vars
  BY <1>11 DEF vars
<1> QED
  BY <1>1, <1>2, <1>3, <1>4, <1>5, <1>6, <1>7, <1>8, <1>9, <1>10, <1>11 DEF Next, Step

-----------------------------------------------------------------------------
\* A goroutine inside Tx holds its process's txMu, a transaction that wrote holds the
\* WAL lock, and while it does HEAD is what it read.
Locking ==
    \A w \in Workers :
        /\ pc[w] \in InTx => txMu[ProcOf[w]] = w
        /\ pc[w] \in {"writing", "inserted"} <=> walLock = w
        /\ pc[w] = "inserted" => parent[w] = head

\* The calls in the log are calls that were made, and those of a goroutine that is
\* before its commit are earlier ones.
Calls ==
    \A i \in 1..Len(log) :
        /\ log[i].call <= calls[log[i].by]
        /\ (/\ log[i].call = calls[log[i].by])
           => \/ pc[log[i].by] = "committed"
              \/ pc[log[i].by] = "idle" /\ outcome[log[i].by] \in {"ok", "lost"}

\* A goroutine that committed is in the log.
Done ==
    \A w \in Workers :
        /\ pc[w] = "committed" => Committed(w, calls[w])
        /\ outcome[w] = "ok" => pc[w] = "idle" /\ Committed(w, calls[w])
        /\ pc[w] # "idle" => outcome[w] = "none"

\* No call is in the log twice.
Once ==
    \A i, j \in 1..Len(log) :
        (log[i].by = log[j].by /\ log[i].call = log[j].call) => i = j

TxInv == TypeOK /\ AttemptsLeft /\ Locking /\ SnapshotsChain /\ Calls /\ Done /\ Once

\* Locks are taken and released with the phases they protect; HEAD moves only in the
\* commit of the transaction that holds the WAL lock.
LEMMA LockingKept ==
    ASSUME TypeOK, Locking, [Next]_vars
    PROVE  Locking'
<1> USE StoreTxAssumption DEF TypeOK, InTx, Goto, Locking
<1>1. ASSUME NEW w \in Workers, Emit(w) PROVE Locking'
  BY <1>1 DEF Emit
<1>2. ASSUME NEW w \in Workers, TxMuLock(w) PROVE Locking'
  BY <1>2 DEF TxMuLock
<1>3. ASSUME NEW w \in Workers, FirstWrite(w) PROVE Locking'
  BY <1>3 DEF FirstWrite
<1>4. ASSUME NEW w \in Workers, Busy(w) PROVE Locking'
  BY <1>4 DEF Busy, Return
<1>5. ASSUME NEW w \in Workers, BackoffSleep(w) PROVE Locking'
  BY <1>5 DEF BackoffSleep
<1>6. ASSUME NEW w \in Workers, CreateSnapshotTx(w) PROVE Locking'
  BY <1>6 DEF CreateSnapshotTx
<1>7. ASSUME NEW w \in Workers, Commit(w) PROVE Locking'
  BY <1>7 DEF Commit
<1>8. ASSUME NEW w \in Workers, TxReturn(w) PROVE Locking'
  BY <1>8 DEF TxReturn, Return
<1>9. ASSUME NEW w \in Workers, Fails(w) PROVE Locking'
  BY <1>9 DEF Fails, Return
<1>10. ASSUME NEW p \in Procs, Crash(p) PROVE Locking'
  BY <1>10 DEF Crash
<1>11. CASE UNCHANGED vars
  BY <1>11 DEF vars
<1> QED
  BY <1>1, <1>2, <1>3, <1>4, <1>5, <1>6, <1>7, <1>8, <1>9, <1>10, <1>11 DEF Next, Step

\* Every step but a commit leaves the log and HEAD alone.
LEMMA LogSteps ==
    ASSUME [Next]_vars
    PROVE  UNCHANGED <<log, head>> \/ \E w \in Workers : Commit(w)
BY DEF Next, Step, Emit, TxMuLock, FirstWrite, Busy, BackoffSleep, CreateSnapshotTx,
       TxReturn, Fails, Crash, vars

\* What a commit appends.
LEMMA CommitAppends ==
    ASSUME TypeOK, NEW w \in Workers, Commit(w)
    PROVE  /\ Len(log) \in Nat /\ Len(log') = Len(log) + 1
           /\ \A i \in 1..Len(log) : log'[i] = log[i]
           /\ log'[Len(log) + 1] = [by |-> w, call |-> calls[w], parent |-> parent[w]]
BY DEF TypeOK, Commit

\* A commit appends to the end of the chain: HEAD is what its transaction read.
LEMMA ChainKept ==
    ASSUME TypeOK, Locking, SnapshotsChain, [Next]_vars
    PROVE  SnapshotsChain'
<1>1. CASE UNCHANGED <<log, head>>
  BY <1>1 DEF SnapshotsChain
<1>2. ASSUME NEW w \in Workers, Commit(w) PROVE SnapshotsChain'
  <2>0. /\ Len(log) \in Nat /\ Len(log') = Len(log) + 1
        /\ \A i \in 1..Len(log) : log'[i] = log[i]
        /\ log'[Len(log) + 1] = [by |-> w, call |-> calls[w], parent |-> parent[w]]
    BY <1>2, CommitAppends
  <2>1. parent[w] = Len(log) /\ head' = Len(log) + 1
    BY <1>2 DEF Commit, Locking, SnapshotsChain
  <2> QED
    BY <2>0, <2>1 DEF SnapshotsChain
<1> QED
  BY <1>1, <1>2, LogSteps

\* Every logged call was made, and its goroutine is past its commit.
LEMMA CallsKept ==
    ASSUME TypeOK, Calls, Done, [Next]_vars
    PROVE  Calls'
<1> USE DEF InTx, Goto
<1>1. \A i \in 1..Len(log) : log[i] \in Snapshots
  BY DEF TypeOK
<1>2. \A i \in 1..Len(log) : log[i].by \in Workers /\ log[i].call \in Nat
  BY <1>1 DEF Snapshots
<1>3. ASSUME NEW w \in Workers, Emit(w) PROVE Calls'
  BY <1>2, <1>3 DEF Emit, Calls, TypeOK
<1>4. ASSUME NEW w \in Workers, TxMuLock(w) PROVE Calls'
  BY <1>2, <1>4 DEF TxMuLock, Calls, TypeOK
<1>5. ASSUME NEW w \in Workers, FirstWrite(w) PROVE Calls'
  BY <1>2, <1>5 DEF FirstWrite, Calls, TypeOK
<1>6. ASSUME NEW w \in Workers, BackoffSleep(w) PROVE Calls'
  BY <1>2, <1>6 DEF BackoffSleep, Calls, TypeOK
<1>7. ASSUME NEW w \in Workers, CreateSnapshotTx(w) PROVE Calls'
  BY <1>2, <1>7 DEF CreateSnapshotTx, Calls, TypeOK
<1>8. ASSUME NEW w \in Workers, Busy(w) PROVE Calls'
  <2>1. /\ pc[w] = "begin" /\ UNCHANGED <<log, calls>>
        /\ \A v \in Workers \ {w} : pc'[v] = pc[v] /\ outcome'[v] = outcome[v]
    BY <1>8 DEF Busy, Return, TypeOK
  <2> QED
    BY <1>2, <2>1 DEF Calls
<1>9. ASSUME NEW w \in Workers, TxReturn(w) PROVE Calls'
  BY <1>2, <1>9 DEF TxReturn, Return, Calls, TypeOK
<1>10. ASSUME NEW w \in Workers, Fails(w) PROVE Calls'
  BY <1>2, <1>10 DEF Fails, Return, Calls, TypeOK
<1>11. ASSUME NEW p \in Procs, Crash(p) PROVE Calls'
  BY <1>2, <1>11 DEF Crash, Calls, TypeOK
<1>12. ASSUME NEW w \in Workers, Commit(w) PROVE Calls'
  <2>0. /\ Len(log) \in Nat /\ Len(log') = Len(log) + 1
        /\ \A i \in 1..Len(log) : log'[i] = log[i]
        /\ log'[Len(log) + 1] = [by |-> w, call |-> calls[w], parent |-> parent[w]]
    BY <1>12, CommitAppends
  <2> SUFFICES ASSUME NEW i \in 1..Len(log')
               PROVE  /\ log'[i].call <= calls'[log'[i].by]
                      /\ log'[i].call = calls'[log'[i].by]
                         => \/ pc'[log'[i].by] = "committed"
                            \/ pc'[log'[i].by] = "idle" /\ outcome'[log'[i].by] \in {"ok", "lost"}
    BY DEF Calls
  <2>1. CASE i \in 1..Len(log)
    BY <1>2, <1>12, <2>0, <2>1 DEF Calls, Commit, TypeOK
  <2>2. CASE i = Len(log) + 1
    BY <1>12, <2>0, <2>2 DEF Commit, TypeOK
  <2> QED
    BY <2>0, <2>1, <2>2
<1>13. CASE UNCHANGED vars
  BY <1>13 DEF vars, Calls
<1> QED
  BY <1>3, <1>4, <1>5, <1>6, <1>7, <1>8, <1>9, <1>10, <1>11, <1>12, <1>13 DEF Next, Step

\* A committed call stays in the log.
LEMMA CommittedStays ==
    ASSUME TypeOK, [Next]_vars, NEW w \in Workers, NEW c, Committed(w, c)
    PROVE  Committed(w, c)'
<1>1. PICK i \in 1..Len(log) : log[i].by = w /\ log[i].call = c
  BY DEF Committed
<1>2. CASE UNCHANGED <<log, head>>
  BY <1>1, <1>2 DEF Committed
<1>3. ASSUME NEW v \in Workers, Commit(v) PROVE Committed(w, c)'
  <2>1. /\ Len(log) \in Nat /\ Len(log') = Len(log) + 1
        /\ \A k \in 1..Len(log) : log'[k] = log[k]
    BY <1>3, CommitAppends
  <2>2. i \in 1..Len(log') /\ log'[i] = log[i]
    BY <1>1, <2>1
  <2> QED
    BY <1>1, <2>2 DEF Committed
<1> QED
  BY <1>2, <1>3, LogSteps

\* A goroutine that committed, or that returned nil, is in the log.
LEMMA DoneKept ==
    ASSUME TypeOK, Done, [Next]_vars
    PROVE  Done'
<1> USE DEF TypeOK, InTx, Goto, Done
<1>1. \A w \in Workers, c \in Nat : Committed(w, c) => Committed(w, c)'
  BY CommittedStays
<1>2. ASSUME NEW w \in Workers, Emit(w) PROVE Done'
  <2>1. /\ pc'[w] = "waiting" /\ outcome'[w] = "none" /\ log' = log
        /\ \A v \in Workers \ {w} :
               pc'[v] = pc[v] /\ outcome'[v] = outcome[v] /\ calls'[v] = calls[v]
    BY <1>2 DEF Emit
  <2> QED
    <3>1. \A v \in Workers : \A c : Committed(v, c)' <=> Committed(v, c)
      BY <2>1 DEF Committed
    <3> HIDE DEF Committed
    <3> QED
      BY <2>1, <3>1
<1>3. ASSUME NEW w \in Workers, TxMuLock(w) PROVE Done'
  BY <1>3 DEF TxMuLock, Committed
<1>4. ASSUME NEW w \in Workers, FirstWrite(w) PROVE Done'
  BY <1>4 DEF FirstWrite, Committed
<1>5. ASSUME NEW w \in Workers, BackoffSleep(w) PROVE Done'
  BY <1>5 DEF BackoffSleep, Committed
<1>6. ASSUME NEW w \in Workers, CreateSnapshotTx(w) PROVE Done'
  BY <1>6 DEF CreateSnapshotTx, Committed
<1>7. ASSUME NEW w \in Workers, Busy(w) PROVE Done'
  <2>1. /\ pc[w] = "begin" /\ UNCHANGED <<log, calls>>
        /\ pc'[w] # "committed" /\ outcome'[w] # "ok" /\ (pc'[w] # "idle" => outcome'[w] = "none")
        /\ \A v \in Workers \ {w} : pc'[v] = pc[v] /\ outcome'[v] = outcome[v]
    BY <1>7 DEF Busy, Return
  <2>2. \A v \in Workers : \A c : Committed(v, c)' <=> Committed(v, c)
    BY <2>1 DEF Committed
  <2> HIDE DEF Committed
  <2> QED
    BY <2>1, <2>2
<1>8. ASSUME NEW w \in Workers, TxReturn(w) PROVE Done'
  BY <1>8 DEF TxReturn, Return, Committed
<1>9. ASSUME NEW w \in Workers, Fails(w) PROVE Done'
  BY <1>9 DEF Fails, Return, Committed
<1>10. ASSUME NEW p \in Procs, Crash(p) PROVE Done'
  BY <1>10 DEF Crash, Committed
<1>11. ASSUME NEW w \in Workers, Commit(w) PROVE Done'
  <2>0. /\ Len(log) \in Nat /\ Len(log') = Len(log) + 1
        /\ \A i \in 1..Len(log) : log'[i] = log[i]
        /\ log'[Len(log) + 1] = [by |-> w, call |-> calls[w], parent |-> parent[w]]
    BY <1>11, CommitAppends
  <2>1. Len(log) + 1 \in 1..Len(log')
    BY <2>0
  <2>2. Committed(w, calls[w])'
    BY <1>11, <2>0, <2>1 DEF Committed, Commit
  <2> QED
    BY <1>1, <1>11, <2>2 DEF Commit, Committed
<1>12. CASE UNCHANGED vars
  BY <1>12 DEF vars, Committed
<1> QED
  BY <1>2, <1>3, <1>4, <1>5, <1>6, <1>7, <1>8, <1>9, <1>10, <1>11, <1>12 DEF Next, Step

\* A commit is the first of its call: the goroutine was not past a commit of it.
LEMMA OnceKept ==
    ASSUME TypeOK, Calls, Once, [Next]_vars
    PROVE  Once'
<1>1. CASE UNCHANGED <<log, head>>
  BY <1>1 DEF Once
<1>2. ASSUME NEW w \in Workers, Commit(w) PROVE Once'
  <2>0. /\ Len(log) \in Nat /\ Len(log') = Len(log) + 1
        /\ \A i \in 1..Len(log) : log'[i] = log[i]
        /\ log'[Len(log) + 1] = [by |-> w, call |-> calls[w], parent |-> parent[w]]
    BY <1>2, CommitAppends
  <2>1. \A i \in 1..Len(log) : ~(log[i].by = w /\ log[i].call = calls[w])
    BY <1>2 DEF Calls, Commit
  <2> QED
    BY <2>0, <2>1 DEF Once
<1> QED
  BY <1>1, <1>2, LogSteps

\* The parts together are an invariant.
LEMMA TxInvHolds == Spec => []TxInv
<1>1. Init => TxInv
  <2> SUFFICES ASSUME Init PROVE Locking /\ SnapshotsChain /\ Calls /\ Done /\ Once
    BY InitType DEF TxInv
  <2>1. Locking
    BY StoreTxAssumption DEF Init, Locking, InTx
  <2>2. SnapshotsChain /\ Calls /\ Done /\ Once
    BY DEF Init, SnapshotsChain, Calls, Done, Once
  <2> QED
    BY <2>1, <2>2
<1>2. TxInv /\ [Next]_vars => TxInv'
  BY NextType, LockingKept, ChainKept, CallsKept, DoneKept, OnceKept DEF TxInv
<1> QED
  BY <1>1, <1>2, PTL DEF Spec

-----------------------------------------------------------------------------
\* Every step of Tx, its retries, failures and crashes keeps the variables in their types.
THEOREM StoreTxTypes == Spec => []TypeOK
BY TxInvHolds, PTL DEF TxInv

\* Tx: whatever the processes, retries, failures and crashes, snapshots form one chain
\* with HEAD at its end.
THEOREM TransactionsChain == Spec => []SnapshotsChain
BY TxInvHolds, PTL DEF TxInv

\* Tx: a call that returns nil has committed exactly once, one that returns an error
\* has not.
THEOREM RetriesCommitOnce == Spec => []CommittedExactlyOnce
<1>1. TxInv => CommittedExactlyOnce
  <2> SUFFICES ASSUME TxInv, NEW w \in Workers,
                      outcome[w] = "error" \/ (outcome[w] = "none" /\ pc[w] # "committed"),
                      NEW i \in 1..Len(log), log[i].by = w, log[i].call = calls[w]
               PROVE  FALSE
    BY DEF TxInv, CommittedExactlyOnce, Done, Once, Committed
  <2> QED
    BY DEF TxInv, Calls, Done
<1> QED
  BY <1>1, TxInvHolds, PTL

\* txMu: emissions of one process never get SQLITE_BUSY from one another.
THEOREM BusyNeedsAnotherProcess == Spec => []BusyOnlyAcrossProcesses
<1>1. TxInv => BusyOnlyAcrossProcesses
  BY StoreTxAssumption DEF TxInv, TypeOK, Locking, BusyOnlyAcrossProcesses, InTx
<1> QED
  BY <1>1, TxInvHolds, PTL
=============================================================================
