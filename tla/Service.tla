------------------------------ MODULE Service ------------------------------
(***************************************************************************)
(* The Windows service: `remindb service install | uninstall | start |     *)
(* stop`, the service control manager (SCM) they talk to, and Execute, the *)
(* control loop around serveCore.  Several administrators issue commands   *)
(* while the service starts, serves, drains and exits.                     *)
(*                                                                         *)
(* An instance is one process the SCM started.  What serveCore does until  *)
(* it returns is in Bridge; here it runs, fails or ends.                   *)
(***************************************************************************)
EXTENDS Naturals, FiniteSets

CONSTANTS
    Instances,       \* bound: the processes the SCM can start
    NoInstance,
    Admins           \* consoles that run `remindb service` commands

ASSUME ServiceAssumption == NoInstance \notin Instances

VARIABLES
    entry,       \* the SCM's entry: "none", "installed" or "deleting" (marked for deletion)
    current,     \* the instance the entry was last started as
    request,     \* per instance: a stop or shutdown control was sent to it
    exec,        \* per instance: where Execute is
    core,        \* per instance: the serveCore goroutine
    outcome,     \* per instance: how Execute returned; "failed" is exit code 1
    command      \* per administrator: the command it is running

processVars == <<request, exec, core, outcome>>
vars == <<entry, current, request, exec, core, outcome, command>>

\* "returned": Execute has returned; "stopped": svc.Run reported Stopped;
\* "exited": the process is gone.
Stages == {"none", "starting", "serving", "draining", "returned", "stopped", "exited"}
CoreStates == {"none", "running", "ended", "failed", "killed"}
Outcomes == {"none", "drained", "gave_up", "failed"}
Commands == {"idle", "installing", "polling", "deleting"}

\* What Query answers: the last status that Execute or svc.Run sent.
State ==
    IF current = NoInstance THEN "stopped"
    ELSE CASE exec[current] = "starting" -> "start_pending"
           [] exec[current] = "serving" -> "running"
           [] exec[current] \in {"draining", "returned"} -> "stop_pending"
           [] OTHER -> "stopped"

Init ==
    /\ entry = "none"
    /\ current = NoInstance
    /\ request = [i \in Instances |-> FALSE]
    /\ exec = [i \in Instances |-> "none"]
    /\ core = [i \in Instances |-> "none"]
    /\ outcome = [i \in Instances |-> "none"]
    /\ command = [a \in Admins |-> "idle"]

-----------------------------------------------------------------------------
\* The service control manager

\* StartService: a process is created for an entry that is stopped and not marked.
Launch(i) ==
    /\ entry = "installed" /\ State = "stopped"
    /\ exec[i] = "none"
    /\ exec' = [exec EXCEPT ![i] = "starting"]
    /\ current' = i
    /\ UNCHANGED <<entry, request, core, outcome>>

\* A control is delivered only to a service that accepts it: AcceptStop and
\* AcceptShutdown come with the Running status.
Control ==
    request' = IF State = "running" THEN [request EXCEPT ![current] = TRUE] ELSE request

HandlesClosed == \A a \in Admins : command[a] = "idle"

\* A marked entry goes once the service is stopped and every handle is closed.
ScmRemove ==
    /\ entry = "deleting" /\ State = "stopped"
    /\ HandlesClosed
    /\ entry' = "none"
    /\ current' = NoInstance
    /\ UNCHANGED <<processVars, command>>

-----------------------------------------------------------------------------
\* The commands

Return(a) == command' = [command EXCEPT ![a] = "idle"]

\* runServiceInstall up to CreateService; an existing entry, marked or not, is an error.
InstallCreate(a) ==
    /\ command[a] = "idle" /\ entry = "none"
    /\ entry' = "installed"
    /\ command' = [command EXCEPT ![a] = "installing"]
    /\ UNCHANGED <<current, processVars>>

\* Faulty: a start that fails leaves the command in a state nobody handles.
InstallStartHangs(a) ==
    /\ command[a] = "installing"
    /\ \/ Return(a) /\ \E i \in Instances : Launch(i)
       \/ /\ command' = [command EXCEPT ![a] = "failed"]
          /\ UNCHANGED <<entry, current, processVars>>

\* The rest of runServiceInstall: s.Start, whose failure leaves the service registered.
InstallStart(a) ==
    /\ command[a] = "installing"
    /\ Return(a)
    /\ \/ \E i \in Instances : Launch(i)
       \/ UNCHANGED <<entry, current, processVars>>

\* runServiceStart, and the SCM's automatic start at boot.
Start(a) ==
    /\ command[a] = "idle"
    /\ \E i \in Instances : Launch(i)
    /\ UNCHANGED command

\* runServiceStop, and the SCM's Shutdown: a control that is refused is an error.
Stop(a) ==
    /\ command[a] = "idle" /\ entry # "none" /\ State = "running"
    /\ Control
    /\ UNCHANGED <<entry, current, exec, core, outcome, command>>

\* runServiceUninstall: a service that is not stopped is sent a stop, whose result is
\* not looked at, and is polled.
UninstallStop(a) ==
    /\ command[a] = "idle" /\ entry # "none"
    /\ Control
    /\ command' = [command EXCEPT ![a] = IF State = "stopped" THEN "deleting" ELSE "polling"]
    /\ UNCHANGED <<entry, current, exec, core, outcome>>

UninstallPoll(a) ==
    /\ command[a] = "polling" /\ State = "stopped"
    /\ command' = [command EXCEPT ![a] = "deleting"]
    /\ UNCHANGED <<entry, current, processVars>>

\* Faulty: the poll has no deadline.
UninstallWaits(a) == UninstallPoll(a)

\* The 20 s deadline: the entry is deleted with the service still there.
UninstallDeadline(a) ==
    /\ command[a] = "polling"
    /\ command' = [command EXCEPT ![a] = "deleting"]
    /\ UNCHANGED <<entry, current, processVars>>

\* s.Delete, an error when the entry is marked already; the deferred Close.
UninstallDelete(a) ==
    /\ command[a] = "deleting"
    /\ entry' = "deleting"
    /\ Return(a)
    /\ UNCHANGED <<current, processVars>>

-----------------------------------------------------------------------------
\* The process: Execute

LaunchCore(i) ==
    /\ exec[i] = "starting" /\ core[i] = "none"
    /\ core' = [core EXCEPT ![i] = "running"]
    /\ UNCHANGED <<entry, current, request, exec, outcome, command>>

\* Running is reported once the goroutine is started, whether or not it serves yet.
ReportRunning(i) ==
    /\ exec[i] = "starting" /\ core[i] # "none"
    /\ exec' = [exec EXCEPT ![i] = "serving"]
    /\ UNCHANGED <<entry, current, request, core, outcome, command>>

\* serveCore returns an error: an open, migration, compile or listen that fails.
CoreFails(i) ==
    /\ core[i] = "running"
    /\ core' = [core EXCEPT ![i] = "failed"]
    /\ UNCHANGED <<entry, current, request, exec, outcome, command>>

\* Only a cancelled context ends it without one.
CoreEnds(i) ==
    /\ core[i] = "running" /\ exec[i] \in {"draining", "returned", "stopped"}
    /\ core' = [core EXCEPT ![i] = "ended"]
    /\ UNCHANGED <<entry, current, request, exec, outcome, command>>

\* Faulty: the loop returns without waiting for serveErr.
HandleStopAtOnce(i) ==
    /\ exec[i] = "serving" /\ request[i]
    /\ exec' = [exec EXCEPT ![i] = "returned"]
    /\ outcome' = [outcome EXCEPT ![i] = "drained"]
    /\ UNCHANGED <<entry, current, request, core, command>>

\* The select takes the stop: StopPending is reported and the context is cancelled.
HandleStop(i) ==
    /\ exec[i] = "serving" /\ request[i]
    /\ exec' = [exec EXCEPT ![i] = "draining"]
    /\ UNCHANGED <<entry, current, request, core, outcome, command>>

\* Faulty: every return is a clean one.
CoreExitedCleanly(i) ==
    /\ exec[i] = "serving" /\ core[i] \in {"ended", "failed"}
    /\ exec' = [exec EXCEPT ![i] = "returned"]
    /\ outcome' = [outcome EXCEPT ![i] = "drained"]
    /\ UNCHANGED <<entry, current, request, core, command>>

\* The select takes serveErr.
CoreExited(i) ==
    /\ exec[i] = "serving" /\ core[i] \in {"ended", "failed"}
    /\ exec' = [exec EXCEPT ![i] = "returned"]
    /\ outcome' = [outcome EXCEPT ![i] = IF core[i] = "failed" THEN "failed" ELSE "drained"]
    /\ UNCHANGED <<entry, current, request, core, command>>

\* The inner select: serveErr, whatever it holds, is success.
Drained(i) ==
    /\ exec[i] = "draining" /\ core[i] \in {"ended", "failed"}
    /\ exec' = [exec EXCEPT ![i] = "returned"]
    /\ outcome' = [outcome EXCEPT ![i] = "drained"]
    /\ UNCHANGED <<entry, current, request, core, command>>

\* Faulty: the drain has no time limit.
DrainWaits(i) == Drained(i)

\* The inner select: 30 s have passed.
DrainTimeout(i) ==
    /\ exec[i] = "draining"
    /\ exec' = [exec EXCEPT ![i] = "returned"]
    /\ outcome' = [outcome EXCEPT ![i] = "gave_up"]
    /\ UNCHANGED <<entry, current, request, core, command>>

\* svc.Run reports Stopped with the exit code.
ReportStopped(i) ==
    /\ exec[i] = "returned"
    /\ exec' = [exec EXCEPT ![i] = "stopped"]
    /\ UNCHANGED <<entry, current, request, core, outcome, command>>

\* runServeAsService returns and the process ends, its goroutines with it.
ProcessExits(i) ==
    /\ exec[i] = "stopped"
    /\ exec' = [exec EXCEPT ![i] = "exited"]
    /\ core' = [core EXCEPT ![i] = IF @ = "running" THEN "killed" ELSE @]
    /\ UNCHANGED <<entry, current, request, outcome, command>>

Execute(i) ==
    \/ LaunchCore(i) \/ ReportRunning(i) \/ HandleStop(i) \/ CoreExited(i)
    \/ Drained(i) \/ DrainTimeout(i) \/ ReportStopped(i) \/ ProcessExits(i)

Uninstall(a) == UninstallPoll(a) \/ UninstallDeadline(a) \/ UninstallDelete(a)

Next ==
    \/ ScmRemove
    \/ \E a \in Admins : \/ InstallCreate(a) \/ InstallStart(a) \/ Start(a) \/ Stop(a)
                         \/ UninstallStop(a) \/ Uninstall(a)
    \/ \E i \in Instances : Execute(i) \/ CoreFails(i) \/ CoreEnds(i)

Spec == Init /\ [][Next]_vars

\* The control loop, its timers, started commands and the SCM go on; serveCore owes
\* nothing, not even to end once it is cancelled, and no command has to be issued.
\* The SCM removes an entry when its last handle is closed, however soon the next is
\* opened.
FairSpec ==
    /\ Spec
    /\ \A i \in Instances : WF_vars(Execute(i))
    /\ \A a \in Admins : WF_vars(InstallStart(a)) /\ WF_vars(Uninstall(a))
    /\ SF_vars(ScmRemove)

-----------------------------------------------------------------------------
\* Every variable has its type.
TypeOK ==
    /\ entry \in {"none", "installed", "deleting"}
    /\ current \in Instances \cup {NoInstance}
    /\ request \in [Instances -> BOOLEAN]
    /\ exec \in [Instances -> Stages]
    /\ core \in [Instances -> CoreStates]
    /\ outcome \in [Instances -> Outcomes]
    /\ command \in [Admins -> Commands]

\* The next instance is started as soon as Stopped is reported, while the last process
\* is still there: two serveCores hold the database together only when Execute gave up
\* draining one of them.
CoresDoNotOverlap ==
    \A i, j \in Instances :
        (i # j /\ core[i] = "running" /\ core[j] = "running")
            => "gave_up" \in {outcome[i], outcome[j]}

\* A service that stops without having been asked to reports exit code 1, so the SCM
\* and its recovery actions see a failure.
UnrequestedStopsFail ==
    \A i \in Instances :
        (exec[i] \in {"stopped", "exited"} /\ ~request[i]) => outcome[i] = "failed"

\* A delivered stop ends the process, even when serveCore never returns.
StopIsHonoured ==
    \A i \in Instances : request[i] ~> exec[i] = "exited"

\* install and uninstall return, even when uninstall found the service starting, had its
\* stop refused, and the service runs on.
CommandsReturn ==
    \A a \in Admins : command[a] # "idle" ~> command[a] = "idle"

\* The entry goes after an uninstall, unless commands overlap for ever or its stop was
\* refused, that of a service which reached Running only later.
UninstallRemoves ==
    ([]<>HandlesClosed)
        => ((entry = "deleting" /\ (current = NoInstance \/ request[current])) ~> entry = "none")

=============================================================================
