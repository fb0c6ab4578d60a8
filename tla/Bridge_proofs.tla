---------------------------- MODULE Bridge_proofs ----------------------------
(***************************************************************************)
(* For any number of bridges, daemons and migrations: the startup race     *)
(* always leaves a daemon.                                                 *)
(***************************************************************************)
EXTENDS Bridge, TLAPS

\* The listener is a serving daemon, and no other daemon serves.
ListenerServes ==
    \A d \in Daemons : daemon[d].stage = "serving" <=> listener = d

\* Daemon d fails at no step it takes while the database stays as it is.  Once an initial
\* compile has committed, that is sure only of daemons that are past theirs.
Winning(d) ==
    \/ daemon[d].stage \in {"running", "serving"}
    \/ /\ snapshots = << >>
       /\ \/ daemon[d].stage \in {"opening", "checking", "parsing", "loading", "compiling"}
          \/ daemon[d].stage = "migrating" /\ daemon[d].applied = schema

\* Some daemon is winning: whoever changed the database last, or the listener.
Winner ==
    (/\ stops = 0 /\ Source # "bad"
     /\ snapshots # << >> \/ \E d \in Daemons : daemon[d].stage # "none")
        => \E d \in Daemons : Winning(d)

BridgeInv == TypeOK /\ ListenerServes /\ Winner

-----------------------------------------------------------------------------
\* The types of all variables but the sequence.
ProcessesTyped ==
    /\ schema \in 0..Migrations
    /\ version \in Versions
    /\ daemon \in [Daemons -> [stage : Stages, applied : 0..Migrations, parsed : Versions]]
    /\ listener \in Daemons \cup {NoDaemon}
    /\ bridge \in [Bridges -> [state : States, to : Daemons \cup {NoDaemon}]]
    /\ stops \in 0..MaxStops

LEMMA ProcessesKeepTypes == ProcessesTyped /\ [Next]_vars => ProcessesTyped'
<1> SUFFICES ASSUME ProcessesTyped, [Next]_vars PROVE ProcessesTyped'
  OBVIOUS
<1> USE BridgeAssumption DEF ProcessesTyped, Versions, Stages, States, NoBridge
<1>1. CASE EditSource
  BY <1>1 DEF EditSource, dbVars
<1>2. ASSUME NEW d \in Daemons, Startup(d) PROVE ProcessesTyped'
  <2>1. CASE ReadApplied(d) \/ ApplyMigration(d) \/ Migrated(d) \/ Listen(d)
    BY <2>1 DEF ReadApplied, ApplyMigration, Migrated, Listen, Goto, dbVars
  <2>2. CASE InitialCheck(d)
    <3>1. /\ UNCHANGED <<dbVars, version, listener, bridge, stops>>
          /\ Goto(d, "running") \/ Goto(d, "parsing")
      BY <2>2 DEF InitialCheck
    <3> QED
      BY <3>1 DEF Goto, dbVars
  <2>3. CASE InitialLoad(d)
    <3>1. /\ UNCHANGED <<dbVars, version, listener, bridge, stops>>
          /\ Goto(d, "running") \/ Goto(d, "compiling")
      BY <2>3 DEF InitialLoad
    <3> QED
      BY <3>1 DEF Goto, dbVars
  <2>4. CASE InitialEmit(d)
    <3>1. /\ UNCHANGED <<schema, version, listener, bridge, stops>>
          /\ Goto(d, "dead") \/ Goto(d, "running")
      BY <2>4 DEF InitialEmit
    <3> QED
      BY <3>1 DEF Goto
  <2>5. CASE InitialParse(d)
    <3>1. PICK stage \in {"running", "dead", "loading"} :
              daemon' = [daemon EXCEPT ![d].stage = stage, ![d].parsed = version]
      BY <2>5 DEF InitialParse
    <3>2. UNCHANGED <<dbVars, version, listener, bridge, stops>>
      BY <2>5 DEF InitialParse
    <3> QED
      BY <3>1, <3>2 DEF dbVars
  <2> QED
    BY <1>2, <2>1, <2>2, <2>3, <2>4, <2>5 DEF Startup
<1>3. ASSUME NEW d \in Daemons, Stop(d) PROVE ProcessesTyped'
  BY <1>3 DEF Stop, Goto, dbVars
<1>4. ASSUME NEW d \in Daemons, Exit(d) PROVE ProcessesTyped'
  BY <1>4 DEF Exit, Goto, dbVars
<1>5. ASSUME NEW d \in Daemons, NEW b \in Bridges, Serve(d, b) PROVE ProcessesTyped'
  BY <1>5 DEF Serve, Accept, SessionEnds, dbVars
<1>6. ASSUME NEW b \in Bridges, Launch(b) \/ StartupTimeout(b) \/ StdinEnds(b)
      PROVE  ProcessesTyped'
  BY <1>6 DEF Launch, StartupTimeout, StdinEnds, dbVars
<1>7. ASSUME NEW b \in Bridges, Connect(b) PROVE ProcessesTyped'
  BY <1>7 DEF Connect, Dial, StartBridgeDaemon, Goto, dbVars
<1>8. CASE UNCHANGED vars
  BY <1>8 DEF vars
<1> QED
  BY <1>1, <1>2, <1>3, <1>4, <1>5, <1>6, <1>7, <1>8 DEF Next

\* An initial compile appends a version that a daemon has parsed.
LEMMA SnapshotsKeepTypes ==
    TypeOK /\ [Next]_vars => snapshots' \in Seq(Versions)
<1> SUFFICES ASSUME TypeOK, [Next]_vars PROVE snapshots' \in Seq(Versions)
  OBVIOUS
<1>1. snapshots \in Seq(Versions)
  BY DEF TypeOK
<1>2. ASSUME NEW d \in Daemons, InitialEmit(d) PROVE snapshots' \in Seq(Versions)
  <2>1. daemon[d].parsed \in Versions
    BY DEF TypeOK
  <2> QED
    BY <1>1, <1>2, <2>1 DEF InitialEmit
<1>3. (\A d \in Daemons : ~InitialEmit(d)) => UNCHANGED snapshots
  BY DEF Next, vars, EditSource, Startup, ReadApplied, ApplyMigration, Migrated, InitialCheck,
     InitialParse, InitialLoad, Listen, Stop, Exit, Serve, Accept, SessionEnds, Launch, Connect,
     Dial, StartBridgeDaemon, StartupTimeout, StdinEnds, dbVars
<1> QED
  BY <1>1, <1>2, <1>3

\* Type correctness is inductive.
LEMMA NextType == TypeOK /\ [Next]_vars => TypeOK'
  BY ProcessesKeepTypes, SnapshotsKeepTypes DEF TypeOK, ProcessesTyped

\* The daemon that has the address is the one that serves.
LEMMA ServersKept == TypeOK /\ ListenerServes /\ [Next]_vars => ListenerServes'
<1> SUFFICES ASSUME TypeOK, ListenerServes, [Next]_vars PROVE ListenerServes'
  OBVIOUS
<1>0. ProcessesTyped
  BY DEF TypeOK, ProcessesTyped
<1> USE <1>0, BridgeAssumption DEF ProcessesTyped, ListenerServes
<1>1. ASSUME NEW d \in Daemons, Startup(d) PROVE ListenerServes'
  <2>1. CASE Listen(d)
    BY <2>1 DEF Listen, Goto
  <2>2. CASE InitialParse(d) \/ ReadApplied(d) \/ ApplyMigration(d)
    BY <2>2 DEF InitialParse, ReadApplied, ApplyMigration, Goto
  <2>3. ASSUME NEW stage \in Stages \ {"serving"}, daemon[d].stage # "serving", Goto(d, stage),
               UNCHANGED listener
        PROVE  ListenerServes'
    BY <2>3 DEF Goto
  <2>4. CASE Migrated(d)
    BY <2>3, <2>4 DEF Migrated, Stages
  <2>5. CASE InitialCheck(d)
    BY <2>3, <2>5 DEF InitialCheck, Stages
  <2>6. CASE InitialLoad(d)
    BY <2>3, <2>6 DEF InitialLoad, Stages
  <2>7. CASE InitialEmit(d)
    BY <2>3, <2>7 DEF InitialEmit, Stages
  <2> QED
    BY <1>1, <2>1, <2>2, <2>4, <2>5, <2>6, <2>7 DEF Startup
<1>2. ASSUME NEW d \in Daemons, Stop(d) PROVE ListenerServes'
  BY <1>2 DEF Stop, Goto, Alive
<1>3. ASSUME NEW d \in Daemons, Exit(d) PROVE ListenerServes'
  BY <1>3 DEF Exit, Goto
<1>4. ASSUME NEW b \in Bridges, NEW d \in Daemons, StartBridgeDaemon(b, d) PROVE ListenerServes'
  BY <1>4 DEF StartBridgeDaemon, Goto
<1>5. ASSUME UNCHANGED <<daemon, listener>> PROVE ListenerServes'
  BY <1>5
<1>6. ASSUME NEW d \in Daemons, NEW b \in Bridges, Serve(d, b) PROVE UNCHANGED <<daemon, listener>>
  BY <1>6 DEF Serve, Accept, SessionEnds
<1>7. ASSUME NEW b \in Bridges, Launch(b) \/ StartupTimeout(b) \/ StdinEnds(b) \/ Dial(b)
      PROVE  UNCHANGED <<daemon, listener>>
  BY <1>7 DEF Launch, StartupTimeout, StdinEnds, Dial
<1>8. EditSource \/ UNCHANGED vars => UNCHANGED <<daemon, listener>>
  BY DEF EditSource, vars
<1> QED
  BY <1>1, <1>2, <1>3, <1>4, <1>5, <1>6, <1>7, <1>8 DEF Next, Connect

\* The race keeps a winner: a daemon fails only when another one has changed the
\* database or taken the address, and that one is winning then.
LEMMA WinnerKept == BridgeInv /\ [Next]_vars => Winner'
<1> SUFFICES ASSUME BridgeInv, [Next]_vars, stops' = 0, Source # "bad",
                    snapshots' # << >> \/ \E d \in Daemons : daemon'[d].stage # "none"
             PROVE  \E d \in Daemons : Winning(d)'
  BY DEF Winner
<1>0. ProcessesTyped /\ ListenerServes /\ Winner
  BY DEF BridgeInv, TypeOK, ProcessesTyped
<1> USE <1>0, BridgeAssumption DEF ProcessesTyped, ListenerServes
<1>1. ASSUME NEW d \in Daemons, Startup(d) PROVE \E e \in Daemons : Winning(e)'
  <2>1. daemon[d].stage # "none" /\ stops = 0
    BY <1>1 DEF Startup, ReadApplied, ApplyMigration, Migrated, InitialCheck, InitialParse,
       InitialLoad, InitialEmit, Listen
  <2>2. PICK w \in Daemons : Winning(w)
    BY <2>1 DEF Winner
  <2>3. CASE ReadApplied(d) \/ Migrated(d)
    BY <2>2, <2>3 DEF ReadApplied, Migrated, Goto, Winning, dbVars
  <2>7. CASE InitialCheck(d)
    BY <2>2, <2>7 DEF InitialCheck, Goto, Winning, dbVars
  <2>8. CASE InitialParse(d)
    BY <2>2, <2>8 DEF InitialParse, Winning, dbVars
  <2>9. CASE InitialLoad(d)
    BY <2>2, <2>9 DEF InitialLoad, Goto, Winning, dbVars
  <2>4. CASE ApplyMigration(d)
    <3>1. CASE schema = daemon[d].applied
      BY <2>2, <2>4, <3>1 DEF ApplyMigration, Winning
    <3>2. CASE schema # daemon[d].applied
      <4>1. w # d
        BY <2>2, <2>4, <3>2 DEF ApplyMigration, Winning
      <4> QED
        BY <2>2, <2>4, <3>2, <4>1 DEF ApplyMigration, Goto, Winning
    <3> QED
      BY <3>1, <3>2
  <2>5. CASE InitialEmit(d)
    <3>1. CASE daemon[d].parsed \in Compiled
      <4>1. snapshots # << >>
        BY <3>1 DEF Compiled
      <4>2. w # d /\ daemon[w].stage \in {"running", "serving"}
        BY <2>2, <2>5, <4>1 DEF InitialEmit, Winning
      <4> QED
        BY <2>5, <3>1, <4>2 DEF InitialEmit, Goto, Winning
    <3>2. CASE daemon[d].parsed \notin Compiled
      BY <2>5, <3>2 DEF InitialEmit, Goto, Winning
    <3> QED
      BY <3>1, <3>2
  <2>6. CASE Listen(d)
    <3>1. CASE listener = NoDaemon
      BY <2>6, <3>1 DEF Listen, Goto, Winning
    <3>2. CASE listener # NoDaemon
      <4>1. listener \in Daemons /\ daemon[listener].stage = "serving" /\ listener # d
        BY <2>6, <3>2 DEF Listen
      <4>2. Winning(listener)'
        BY <2>6, <3>2, <4>1 DEF Listen, Goto, Winning
      <4>3. listener' \in Daemons /\ listener' = listener
        BY <2>6, <3>2, <4>1 DEF Listen
      <4> QED
        BY <4>2, <4>3
    <3> QED
      BY <3>1, <3>2
  <2> QED
    BY <1>1, <2>3, <2>4, <2>5, <2>6, <2>7, <2>8, <2>9 DEF Startup
<1>2. ASSUME NEW d \in Daemons, Stop(d) PROVE FALSE
  BY <1>2 DEF Stop
<1>3. ASSUME NEW d \in Daemons, Exit(d) PROVE \E e \in Daemons : Winning(e)'
  BY <1>3 DEF Exit, Goto, Winner, Winning, dbVars
<1>4. ASSUME NEW b \in Bridges, NEW d \in Daemons, StartBridgeDaemon(b, d)
      PROVE  \E e \in Daemons : Winning(e)'
  BY <1>4 DEF StartBridgeDaemon, Goto, Winning, Winner, dbVars
<1>5. ASSUME UNCHANGED <<schema, snapshots, daemon, stops>> PROVE \E e \in Daemons : Winning(e)'
  BY <1>5 DEF Winner, Winning
<1>6. ASSUME NEW d \in Daemons, NEW b \in Bridges, Serve(d, b)
      PROVE  UNCHANGED <<schema, snapshots, daemon, stops>>
  BY <1>6 DEF Serve, Accept, SessionEnds, dbVars
<1>7. ASSUME NEW b \in Bridges, Launch(b) \/ StartupTimeout(b) \/ StdinEnds(b) \/ Dial(b)
      PROVE  UNCHANGED <<schema, snapshots, daemon, stops>>
  BY <1>7 DEF Launch, StartupTimeout, StdinEnds, Dial, dbVars
<1>8. EditSource \/ UNCHANGED vars => UNCHANGED <<schema, snapshots, daemon, stops>>
  BY DEF EditSource, dbVars, vars
<1> QED
  BY <1>1, <1>2, <1>3, <1>4, <1>5, <1>6, <1>7, <1>8 DEF Next, Connect

\* The three parts together are an invariant.
LEMMA BridgeInvHolds == Spec => []BridgeInv
<1>1. Init => BridgeInv
  BY BridgeAssumption DEF Init, BridgeInv, TypeOK, ListenerServes, Winner, Winning,
     Versions, Stages, States, NoBridge
<1>2. BridgeInv /\ [Next]_vars => BridgeInv'
  <2> SUFFICES ASSUME BridgeInv, [Next]_vars PROVE BridgeInv'
    OBVIOUS
  <2>1. TypeOK'
    BY NextType DEF BridgeInv
  <2>2. ListenerServes'
    BY ServersKept DEF BridgeInv
  <2>3. Winner'
    BY WinnerKept
  <2> QED
    BY <2>1, <2>2, <2>3 DEF BridgeInv
<1> QED
  BY <1>1, <1>2, PTL DEF Spec

-----------------------------------------------------------------------------
\* Every variable keeps its type.
THEOREM BridgeTypeCorrect == Spec => []TypeOK
<1>1. BridgeInv => TypeOK
  BY DEF BridgeInv
<1> QED
  BY <1>1, BridgeInvHolds, PTL

\* However many bridges start daemons at once and however migration, initial compile
\* and net.Listen interleave, some daemon is left.
THEOREM TheRaceLeavesADaemon == Spec => []SomeDaemonSurvives
<1>1. BridgeInv => SomeDaemonSurvives
  BY DEF BridgeInv, Winner, Winning, SomeDaemonSurvives, Alive
<1> QED
  BY <1>1, BridgeInvHolds, PTL

=============================================================================
