------------------------------- MODULE Bridge -------------------------------
(***************************************************************************)
(* `remindb bridge` and the singleton daemon: stdio clients launch bridges *)
(* that dial the daemon's address, start `remindb serve --listen` when     *)
(* nobody answers, and poll until one does.  Bridges launched together     *)
(* start several daemons, which race through migration, initial compile    *)
(* and net.Listen on one database.                                         *)
(*                                                                         *)
(* A transaction is one step here (StoreTx has its locks and retries).     *)
(* The content of the source directory is a version number.                *)
(***************************************************************************)
EXTENDS Naturals, Sequences, FiniteSets

CONSTANTS
    Bridges,         \* bridge processes, one per stdio client
    Daemons,         \* bound: the daemons an instance can start
    NoDaemon,
    Migrations,      \* number of embedded migrations
    Source,          \* the --source directory: "unset", "empty", "files" or "bad"
    MaxEdits,        \* bound: edits of the source directory
    MaxStops         \* bound: signals and crashes of daemons

ASSUME BridgeAssumption ==
    /\ NoDaemon \notin Daemons
    /\ Migrations \in Nat /\ MaxEdits \in Nat /\ MaxStops \in Nat
    /\ Source \in {"unset", "empty", "files", "bad"}

VARIABLES
    schema,      \* schema_migrations: how many versions are applied
    snapshots,   \* versions of the source that initial compiles committed, in order
    version,     \* the source directory now
    daemon,      \* per daemon: its stage, the migrations it takes as applied, what it parsed
    listener,    \* the daemon that owns the TCP address
    bridge,      \* per bridge: its state and the daemon it is connected to
    stops

dbVars == <<schema, snapshots>>
vars == <<schema, snapshots, version, daemon, listener, bridge, stops>>

Versions == 0..MaxEdits

\* "running": the transport, tracker and rescan goroutines are started.
Stages == {"none", "opening", "migrating", "checking", "parsing", "loading", "compiling",
           "running", "serving", "stopping", "dead"}
Alive == {d \in Daemons : daemon[d].stage \notin {"none", "dead"}}

\* "idle": not launched yet, or ended; "queued": the kernel accepted the connection and
\* the daemon has not yet; "closing": stdin ended and the bridge has closed its side.
States == {"idle", "dialing", "waiting", "queued", "session", "closing"}
NoBridge == [state |-> "idle", to |-> NoDaemon]

Init ==
    /\ schema = 0
    /\ snapshots = << >>
    /\ version = 0
    /\ daemon = [d \in Daemons |-> [stage |-> "none", applied |-> 0, parsed |-> 0]]
    /\ listener = NoDaemon
    /\ bridge = [b \in Bridges |-> NoBridge]
    /\ stops = 0

-----------------------------------------------------------------------------
\* The daemon: serveCore

Goto(d, stage) == daemon' = [daemon EXCEPT ![d].stage = stage]

\* store.Open, createMigrationsTable and appliedMigrations.
ReadApplied(d) ==
    /\ daemon[d].stage = "opening"
    /\ daemon' = [daemon EXCEPT ![d].stage = "migrating", ![d].applied = schema]
    /\ UNCHANGED <<dbVars, version, listener, bridge, stops>>

\* Faulty: the last migration is not the end.
ApplyMigrationBeyond(d) ==
    /\ daemon[d].stage = "migrating"
    /\ schema = daemon[d].applied
    /\ schema' = schema + 1
    /\ daemon' = [daemon EXCEPT ![d].applied = @ + 1]
    /\ UNCHANGED <<snapshots, version, listener, bridge, stops>>

\* The next pending migration commits, or fails because another daemon applied it
\* since: its version is already in schema_migrations.
ApplyMigration(d) ==
    /\ daemon[d].stage = "migrating"
    /\ daemon[d].applied < Migrations
    /\ IF schema = daemon[d].applied
       THEN /\ schema' = schema + 1
            /\ daemon' = [daemon EXCEPT ![d].applied = @ + 1]
       ELSE /\ Goto(d, "dead")
            /\ UNCHANGED schema
    /\ UNCHANGED <<snapshots, version, listener, bridge, stops>>

Migrated(d) ==
    /\ daemon[d].stage = "migrating"
    /\ daemon[d].applied = Migrations
    /\ Goto(d, IF Source = "unset" THEN "running" ELSE "checking")
    /\ UNCHANGED <<dbVars, version, listener, bridge, stops>>

\* MaybeInitialCompile: GetStats; there is nothing to do when the store has nodes.
InitialCheck(d) ==
    /\ daemon[d].stage = "checking"
    /\ Goto(d, IF snapshots # << >> THEN "running" ELSE "parsing")
    /\ UNCHANGED <<dbVars, version, listener, bridge, stops>>

\* CompileDir walks and parses: there is nothing to do when the directory has no files,
\* and a file that does not parse ends the daemon.
InitialParse(d) ==
    /\ daemon[d].stage = "parsing"
    /\ daemon' = [daemon EXCEPT
           ![d].stage = IF Source = "empty" THEN "running"
                        ELSE IF Source = "bad" THEN "dead" ELSE "loading",
           ![d].parsed = version]
    /\ UNCHANGED <<dbVars, version, listener, bridge, stops>>

\* The previous nodes are loaded and diffed: there is nothing to emit when another daemon
\* has committed the same content last.
InitialLoad(d) ==
    /\ daemon[d].stage = "loading"
    /\ Goto(d, IF snapshots # << >> /\ snapshots[Len(snapshots)] = daemon[d].parsed
               THEN "running" ELSE "compiling")
    /\ UNCHANGED <<dbVars, version, listener, bridge, stops>>

Compiled == {snapshots[i] : i \in 1..Len(snapshots)}

\* Faulty: the content is looked for after it was inserted.
InitialEmitFindsItself(d) ==
    /\ daemon[d].stage = "compiling"
    /\ snapshots' = Append(snapshots, daemon[d].parsed)
    /\ Goto(d, IF daemon[d].parsed \in Compiled' THEN "dead" ELSE "running")
    /\ UNCHANGED <<schema, version, listener, bridge, stops>>

\* The emission commits, or fails on cursor_hash because another daemon committed
\* the same content since.
InitialEmit(d) ==
    /\ daemon[d].stage = "compiling"
    /\ IF daemon[d].parsed \in Compiled
       THEN Goto(d, "dead") /\ UNCHANGED snapshots
       ELSE /\ Goto(d, "running")
            /\ snapshots' = Append(snapshots, daemon[d].parsed)
    /\ UNCHANGED <<schema, version, listener, bridge, stops>>

\* Faulty: a daemon that cannot listen keeps its other goroutines.
ListenOrStay(d) ==
    /\ daemon[d].stage = "running"
    /\ IF listener = NoDaemon
       THEN listener' = d /\ Goto(d, "serving")
       ELSE UNCHANGED <<listener, daemon>>
    /\ UNCHANGED <<dbVars, version, bridge, stops>>

\* runMCPTransport: an address in use cancels the other goroutines.
Listen(d) ==
    /\ daemon[d].stage = "running"
    /\ IF listener = NoDaemon
       THEN listener' = d /\ Goto(d, "serving")
       ELSE Goto(d, "stopping") /\ UNCHANGED listener
    /\ UNCHANGED <<dbVars, version, bridge, stops>>

\* ln.Accept and handleMCPConn.
Accept(d, b) ==
    /\ daemon[d].stage = "serving"
    /\ bridge[b] = [state |-> "queued", to |-> d]
    /\ bridge' = [bridge EXCEPT ![b].state = "session"]
    /\ UNCHANGED <<dbVars, version, daemon, listener, stops>>

\* A signal cancels the context: the listener closes.  Connections that wait in its
\* backlog are reset.
Stop(d) ==
    /\ stops < MaxStops
    /\ d \in Alive /\ daemon[d].stage # "stopping"
    /\ stops' = stops + 1
    /\ Goto(d, "stopping")
    /\ listener' = IF listener = d THEN NoDaemon ELSE listener
    /\ bridge' = [b \in Bridges |->
           IF bridge[b] = [state |-> "queued", to |-> d]
           THEN NoBridge ELSE bridge[b]]
    /\ UNCHANGED <<dbVars, version>>

\* The goroutines have returned and the process exits; its sockets close, which ends
\* the bridges' stdout copies.
Exit(d) ==
    /\ daemon[d].stage = "stopping"
    /\ Goto(d, "dead")
    /\ bridge' = [b \in Bridges |->
           IF bridge[b].to = d THEN NoBridge ELSE bridge[b]]
    /\ UNCHANGED <<dbVars, version, listener, stops>>

\* Faulty: the end of the bridge's input is not noticed.
SessionEndsOnStop(d, b) ==
    /\ daemon[d].stage = "stopping" /\ bridge[b].to = d
    /\ bridge' = [bridge EXCEPT ![b] = NoBridge]
    /\ UNCHANGED <<dbVars, version, daemon, listener, stops>>

\* session.Wait returns once the bridge closed its side, or session.Close ended it;
\* the server closes the connection.
SessionEnds(d, b) ==
    /\ \/ daemon[d].stage = "serving" /\ bridge[b] = [state |-> "closing", to |-> d]
       \/ daemon[d].stage = "stopping" /\ bridge[b].to = d
    /\ bridge' = [bridge EXCEPT ![b] = NoBridge]
    /\ UNCHANGED <<dbVars, version, daemon, listener, stops>>

-----------------------------------------------------------------------------
\* The bridge: connectOrStartBridgeDaemon and bridgeStdio

\* A client starts its bridge, and may start it again after it ended.
Launch(b) ==
    /\ bridge[b].state = "idle"
    /\ bridge' = [bridge EXCEPT ![b].state = "dialing"]
    /\ UNCHANGED <<dbVars, version, daemon, listener, stops>>

\* Faulty: a bridge whose first dial was refused does not dial again.
DialOnce(b) ==
    /\ bridge[b].state = "dialing"
    /\ listener # NoDaemon
    /\ bridge' = [bridge EXCEPT ![b] = [state |-> "queued", to |-> listener]]
    /\ UNCHANGED <<dbVars, version, daemon, listener, stops>>

\* The first dial and every later one.
Dial(b) ==
    /\ bridge[b].state \in {"dialing", "waiting"}
    /\ listener # NoDaemon
    /\ bridge' = [bridge EXCEPT ![b] = [state |-> "queued", to |-> listener]]
    /\ UNCHANGED <<dbVars, version, daemon, listener, stops>>

\* The first dial is refused: startBridgeDaemon.
StartBridgeDaemon(b, d) ==
    /\ bridge[b].state = "dialing"
    /\ listener = NoDaemon
    /\ daemon[d].stage = "none"
    /\ Goto(d, "opening")
    /\ bridge' = [bridge EXCEPT ![b].state = "waiting"]
    /\ UNCHANGED <<dbVars, version, listener, stops>>

\* --startup-timeout passes with every dial refused.
StartupTimeout(b) ==
    /\ bridge[b].state = "waiting"
    /\ bridge' = [bridge EXCEPT ![b] = NoBridge]
    /\ UNCHANGED <<dbVars, version, daemon, listener, stops>>

\* The client closes stdin: CloseWrite, and the bridge waits for the server's side.
StdinEnds(b) ==
    /\ bridge[b].state \in {"queued", "session"}
    /\ bridge' = [bridge EXCEPT ![b].state = "closing"]
    /\ UNCHANGED <<dbVars, version, daemon, listener, stops>>

-----------------------------------------------------------------------------
EditSource ==
    /\ version < MaxEdits
    /\ version' = version + 1
    /\ UNCHANGED <<dbVars, daemon, listener, bridge, stops>>

Startup(d) ==
    ReadApplied(d) \/ ApplyMigration(d) \/ Migrated(d) \/ InitialCheck(d) \/ InitialParse(d)
    \/ InitialLoad(d) \/ InitialEmit(d) \/ Listen(d)
Serve(d, b) == Accept(d, b) \/ SessionEnds(d, b)
Connect(b) == Dial(b) \/ \E d \in Daemons : StartBridgeDaemon(b, d)

Next ==
    \/ EditSource
    \/ \E d \in Daemons : Startup(d) \/ Stop(d) \/ Exit(d) \/ \E b \in Bridges : Serve(d, b)
    \/ \E b \in Bridges : Launch(b) \/ Connect(b) \/ StartupTimeout(b) \/ StdinEnds(b)

Spec == Init /\ [][Next]_vars

\* Processes that can take a step take it; clients, signals and timeouts owe nothing.
FairSpec ==
    /\ Spec
    /\ \A d \in Daemons : WF_vars(Startup(d) \/ Exit(d))
    /\ \A b \in Bridges : WF_vars(\E d \in Daemons : Serve(d, b)) /\ WF_vars(Connect(b))

-----------------------------------------------------------------------------
\* Every variable has its type.
TypeOK ==
    /\ schema \in 0..Migrations
    /\ snapshots \in Seq(Versions)
    /\ version \in Versions
    /\ daemon \in [Daemons -> [stage : Stages, applied : 0..Migrations, parsed : Versions]]
    /\ listener \in Daemons \cup {NoDaemon}
    /\ bridge \in [Bridges -> [state : States, to : Daemons \cup {NoDaemon}]]
    /\ stops \in 0..MaxStops

\* However bridges race, their daemons do not all lose: unless one is signalled or the
\* source does not parse, some daemon is alive from the first one started on.
SomeDaemonSurvives ==
    (stops = 0 /\ Source # "bad" /\ \E d \in Daemons : daemon[d].stage # "none")
        => Alive # {}

\* A bridge that waits for a daemon does not wait in vain, though the one it started may
\* lose the race: it dials whichever wins, unless daemons are signalled or the source does
\* not parse.
WaitingBridgesAreServed ==
    \A b \in Bridges :
        bridge[b].state = "waiting"
            ~> (bridge[b].state # "waiting" \/ stops > 0 \/ Source = "bad")

\* When the race is over exactly one daemon serves: losers exit, and the winner is the
\* listener, unless daemons are signalled or the source does not parse.
OneServerRemains ==
    (<>(\E d \in Daemons : daemon[d].stage # "none"))
        => <>[](\/ stops > 0 \/ Source = "bad"
                \/ \E d \in Daemons : Alive = {d} /\ listener = d /\ daemon[d].stage = "serving")

\* A bridge whose client closed stdin ends: CloseWrite makes the daemon close the
\* connection, or the daemon's exit does.
BridgesEnd ==
    \A b \in Bridges : bridge[b].state = "closing" ~> bridge[b].state = "idle"

=============================================================================
