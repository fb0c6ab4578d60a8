--------------------------- MODULE Service_proofs ---------------------------
(***************************************************************************)
(* For any number of instances and administrators: serveCores of two       *)
(* instances overlap only after a drain that was given up, and a stop      *)
(* nobody asked for is reported as a failure.                              *)
(***************************************************************************)
EXTENDS Service, TLAPS

Live == {"starting", "serving", "draining", "returned"}
Over == {"returned", "stopped", "exited"}

\* The SCM's last instance is the only one that has not reported Stopped, and a core
\* outlives its Execute only when the drain was given up.
Handover ==
    \A i \in Instances :
        /\ exec[i] \in Live => current = i
        /\ exec[i] = "none" => core[i] = "none"
        /\ (exec[i] \in Over /\ core[i] = "running") => outcome[i] = "gave_up"

\* Only a requested stop cancels the core: until then it can end with an error only.
Verdicts ==
    \A i \in Instances :
        /\ exec[i] = "draining" => request[i]
        /\ exec[i] \in {"none", "starting", "serving"} => core[i] # "ended"
        /\ (exec[i] \in Over /\ ~request[i]) => outcome[i] = "failed"

ServiceInv == TypeOK /\ Handover /\ Verdicts

-----------------------------------------------------------------------------
\* An entry that Query reports as stopped has no live instance.
LEMMA StoppedHasNoLive ==
    TypeOK /\ Handover /\ State = "stopped" => \A i \in Instances : exec[i] \notin Live
BY ServiceAssumption DEF TypeOK, Handover, State, Live, Stages

\* A control changes the request of a serving instance only.
LEMMA ControlRequests ==
    ASSUME TypeOK, Control
    PROVE  /\ request' \in [Instances -> BOOLEAN]
           /\ \A i \in Instances : request[i] => request'[i]
BY DEF TypeOK, Control

\* Type correctness is inductive.
LEMMA NextType == TypeOK /\ [Next]_vars => TypeOK'
<1> SUFFICES ASSUME TypeOK, [Next]_vars PROVE TypeOK'
  OBVIOUS
<1> USE DEF TypeOK, Stages, CoreStates, Outcomes, Commands, processVars
<1>1. CASE ScmRemove
  BY <1>1 DEF ScmRemove
<1>2. ASSUME NEW a \in Admins, InstallCreate(a) \/ InstallStart(a) \/ Start(a) PROVE TypeOK'
  BY <1>2 DEF InstallCreate, InstallStart, Start, Launch, Return
<1>3. ASSUME NEW a \in Admins, Stop(a) \/ UninstallStop(a) PROVE TypeOK'
  BY <1>3, ControlRequests DEF Stop, UninstallStop
<1>4. ASSUME NEW a \in Admins, Uninstall(a) PROVE TypeOK'
  BY <1>4 DEF Uninstall, UninstallPoll, UninstallDeadline, UninstallDelete, Return
<1>5. ASSUME NEW i \in Instances, Execute(i) PROVE TypeOK'
  BY <1>5 DEF Execute, LaunchCore, ReportRunning, HandleStop, CoreExited, Drained,
     DrainTimeout, ReportStopped, ProcessExits
<1>6. ASSUME NEW i \in Instances, CoreFails(i) \/ CoreEnds(i) PROVE TypeOK'
  BY <1>6 DEF CoreFails, CoreEnds
<1>7. CASE UNCHANGED vars
  BY <1>7 DEF vars
<1> QED
  BY <1>1, <1>2, <1>3, <1>4, <1>5, <1>6, <1>7 DEF Next

\* A new instance is launched only when the last one has reported Stopped, and Execute
\* returns with its core running only when the drain timed out.
LEMMA HandoverKept == TypeOK /\ Handover /\ [Next]_vars => Handover'
<1> SUFFICES ASSUME TypeOK, Handover, [Next]_vars PROVE Handover'
  OBVIOUS
<1> USE ServiceAssumption DEF TypeOK, Handover, Live, Over, processVars
<1>1. CASE ScmRemove
  BY <1>1, StoppedHasNoLive DEF ScmRemove
<1>2. ASSUME NEW i \in Instances, Launch(i) PROVE Handover'
  BY <1>2, StoppedHasNoLive DEF Launch
<1>3. ASSUME NEW a \in Admins, InstallCreate(a) \/ InstallStart(a) \/ Start(a) PROVE Handover'
  BY <1>2, <1>3 DEF InstallCreate, InstallStart, Start
<1>4. ASSUME NEW a \in Admins, Stop(a) \/ UninstallStop(a) \/ Uninstall(a) PROVE Handover'
  BY <1>4 DEF Stop, UninstallStop, Uninstall, UninstallPoll, UninstallDeadline,
     UninstallDelete
<1>5. ASSUME NEW i \in Instances, Execute(i) PROVE Handover'
  BY <1>5 DEF Execute, LaunchCore, ReportRunning, HandleStop, CoreExited, Drained,
     DrainTimeout, ReportStopped, ProcessExits
<1>6. ASSUME NEW i \in Instances, CoreFails(i) \/ CoreEnds(i) PROVE Handover'
  BY <1>6 DEF CoreFails, CoreEnds
<1>7. CASE UNCHANGED vars
  BY <1>7 DEF vars
<1> QED
  BY <1>1, <1>3, <1>4, <1>5, <1>6, <1>7 DEF Next

\* Requests are never withdrawn, and Execute returns a success only for a stop it was
\* sent or a core that ended without an error.
LEMMA VerdictsKept == TypeOK /\ Handover /\ Verdicts /\ [Next]_vars => Verdicts'
<1> SUFFICES ASSUME TypeOK, Handover, Verdicts, [Next]_vars PROVE Verdicts'
  OBVIOUS
<1> USE DEF TypeOK, Verdicts, Over, processVars
<1>1. CASE ScmRemove
  BY <1>1 DEF ScmRemove
<1>2. ASSUME NEW a \in Admins, InstallCreate(a) \/ InstallStart(a) \/ Start(a) PROVE Verdicts'
  BY <1>2 DEF InstallCreate, InstallStart, Start, Launch, Handover
<1>3. ASSUME NEW a \in Admins, Stop(a) \/ UninstallStop(a) PROVE Verdicts'
  BY <1>3, ControlRequests DEF Stop, UninstallStop
<1>4. ASSUME NEW a \in Admins, Uninstall(a) PROVE Verdicts'
  BY <1>4 DEF Uninstall, UninstallPoll, UninstallDeadline, UninstallDelete
<1>5. ASSUME NEW i \in Instances, Execute(i) PROVE Verdicts'
  BY <1>5 DEF Execute, LaunchCore, ReportRunning, HandleStop, CoreExited, Drained,
     DrainTimeout, ReportStopped, ProcessExits
<1>6. ASSUME NEW i \in Instances, CoreFails(i) \/ CoreEnds(i) PROVE Verdicts'
  BY <1>6 DEF CoreFails, CoreEnds
<1>7. CASE UNCHANGED vars
  BY <1>7 DEF vars
<1> QED
  BY <1>1, <1>2, <1>3, <1>4, <1>5, <1>6, <1>7 DEF Next

-----------------------------------------------------------------------------
LEMMA InitServiceInv == Init => ServiceInv
BY ServiceAssumption DEF Init, ServiceInv, TypeOK, Handover, Verdicts, Stages, CoreStates,
   Outcomes, Commands, Live, Over

\* The inductive invariant of the service.
THEOREM ServiceInvariant == Spec => []ServiceInv
<1>1. ServiceInv /\ [Next]_vars => ServiceInv'
  BY NextType, HandoverKept, VerdictsKept DEF ServiceInv
<1> QED
  BY InitServiceInv, <1>1, PTL DEF Spec

\* Every variable keeps its type.
THEOREM ServiceTypes == Spec => []TypeOK
<1>1. ServiceInv => TypeOK
  BY DEF ServiceInv
<1> QED
  BY ServiceInvariant, <1>1, PTL

\* Two instances' serveCores hold the database together only when Execute stopped
\* waiting for one of them.
THEOREM ServiceCoresDoNotOverlap == Spec => []CoresDoNotOverlap
<1>1. ServiceInv => CoresDoNotOverlap
  <2> SUFFICES ASSUME ServiceInv, NEW i \in Instances, NEW j \in Instances, i # j,
                      core[i] = "running", core[j] = "running"
               PROVE  "gave_up" \in {outcome[i], outcome[j]}
    BY DEF CoresDoNotOverlap
  <2>1. ASSUME NEW k \in Instances, core[k] = "running", exec[k] \notin Over
        PROVE  current = k
    BY <2>1 DEF ServiceInv, TypeOK, Stages, Handover, Live, Over
  <2>2. exec[i] \in Over \/ exec[j] \in Over
    BY <2>1
  <2> QED
    BY <2>2 DEF ServiceInv, Handover
<1> QED
  BY ServiceInvariant, <1>1, PTL

\* A service that stopped without a request exits with the code of a failure.
THEOREM ServiceUnrequestedStopsFail == Spec => []UnrequestedStopsFail
<1>1. ServiceInv => UnrequestedStopsFail
  BY DEF ServiceInv, Verdicts, Over, UnrequestedStopsFail
<1> QED
  BY ServiceInvariant, <1>1, PTL

=============================================================================
