------------------------------ MODULE Tracker ------------------------------
(***************************************************************************)
(* Node temperatures and the cold-node notifier: the tracker goroutine     *)
(* (decay, query, dedup, push, mark) beside reads that boost, summaries    *)
(* that rebound, compiles that seed, and clients that come, listen and go. *)
(*                                                                         *)
(* Temperatures are levels 0..MaxTemp; time is counted in ticks of         *)
(* TickInterval, so a recentlyNotified timestamp is kept as its age.       *)
(***************************************************************************)
EXTENDS Integers, FiniteSets

CONSTANTS
    N,                 \* nodes are the rowids 1..N
    Clients,           \* MCP sessions
    MaxTemp,           \* the level of temperature 1.0
    DecayTo,           \* level after one decay
    AccessBoost,
    Seeds,             \* per node: what .temp.json gives its file, or NoSeed
    ColdThreshold,
    NotifyThreshold,
    ColdNotifyTTL,     \* in ticks
    ColdNotifyLimit

Nodes == 1..N
Temps == 0..MaxTemp
NoSeed == -1

ASSUME TrackerAssumption ==
    /\ N \in Nat \ {0}
    /\ MaxTemp \in Nat
    /\ DecayTo \in [Temps -> Temps]
    /\ \A t \in Temps : DecayTo[t] <= t
    /\ AccessBoost \in Temps
    /\ Seeds \in [Nodes -> Temps \cup {NoSeed}]
    /\ ColdThreshold \in Temps /\ NotifyThreshold \in Temps
    /\ ColdNotifyTTL \in Nat
    /\ ColdNotifyLimit \in Nat \ {0}

VARIABLES
    temp,              \* nodes.temperature
    recentlyNotified,  \* ticks since the node was marked, NoEntry when it is not in the map
    phase,             \* where Tracker.Run is: "idle", "decayed", "pushing"
    cold,              \* result.Cold: per node the temperature read, NotCold if not in it
    client,            \* per client: its session
    since,             \* history: ticks since the node was last delivered, up to TTL + 1
    warmed             \* history: the node was warm since it was last delivered

vars == <<temp, recentlyNotified, phase, cold, client, since, warmed>>

NoEntry == -1
NotCold == -1
Ages == 0..(ColdNotifyTTL + 1)
Older(age) == IF age <= ColdNotifyTTL THEN age + 1 ELSE age

\* A session is connected without a logging level ("quiet"), receives warnings
\* ("listening"), or its connection is failing ("broken").
Sessions == {"off", "quiet", "listening", "broken"}

Init ==
    /\ temp \in [Nodes -> Temps]
    /\ recentlyNotified = [n \in Nodes |-> NoEntry]
    /\ phase = "idle"
    /\ cold = [n \in Nodes |-> NotCold]
    /\ client = [c \in Clients |-> "off"]
    /\ since = [n \in Nodes |-> ColdNotifyTTL + 1]
    /\ warmed = [n \in Nodes |-> TRUE]

-----------------------------------------------------------------------------
\* Reads, summaries and seeds

NoteWarm == warmed' = [n \in Nodes |-> warmed[n] \/ temp'[n] >= NotifyThreshold]

\* Faulty: a boost is not clamped.
BoostUnclamped(t) == t + AccessBoost

Boost(t) == IF t + AccessBoost > MaxTemp THEN MaxTemp ELSE t + AccessBoost

RecordAccess(ids) ==
    /\ temp' = [n \in Nodes |-> IF n \in ids THEN Boost(temp[n]) ELSE temp[n]]
    /\ NoteWarm
    /\ UNCHANGED <<recentlyNotified, phase, cold, client, since>>

\* MemorySummarize, with its optional temperature.
Summarize(n, t) ==
    /\ temp' = [temp EXCEPT ![n] = t]
    /\ NoteWarm
    /\ UNCHANGED <<recentlyNotified, phase, cold, client, since>>

\* A directory compile that upserts some nodes: those of a seeded file take its seed,
\* the others keep their temperature.
CompileDir(changed) ==
    /\ temp' = [n \in Nodes |-> IF n \in changed /\ Seeds[n] # NoSeed THEN Seeds[n] ELSE temp[n]]
    /\ NoteWarm
    /\ UNCHANGED <<recentlyNotified, phase, cold, client, since>>

\* One transaction of reseedTemperatures, which has one per seed, in any order, until
\* one fails: the nodes of all files with that seed, changed or not.
Reseed(t) ==
    /\ temp' = [n \in Nodes |-> IF Seeds[n] = t THEN t ELSE temp[n]]
    /\ NoteWarm
    /\ UNCHANGED <<recentlyNotified, phase, cold, client, since>>

-----------------------------------------------------------------------------
\* One tick of the tracker goroutine

TimePasses ==
    /\ recentlyNotified' = [n \in Nodes |-> IF recentlyNotified[n] = NoEntry THEN NoEntry
                                            ELSE Older(recentlyNotified[n])]
    /\ since' = [n \in Nodes |-> Older(since[n])]

DecayTemperatures ==
    /\ phase = "idle"
    /\ TimePasses
    /\ temp' = [n \in Nodes |-> DecayTo[temp[n]]]
    /\ phase' = "decayed"
    /\ UNCHANGED <<cold, client, warmed>>

\* The decay transaction fails: the tick ends and its decay is lost.
DecayFails ==
    /\ phase = "idle"
    /\ TimePasses
    /\ UNCHANGED <<temp, phase, cold, client, warmed>>

\* ORDER BY temperature ASC over the index on temperature, LIMIT ColdNotifyLimit.
Colder(m, n) == temp[m] < temp[n] \/ (temp[m] = temp[n] /\ m < n)
GetColdNodes ==
    LET below == {n \in Nodes : temp[n] < ColdThreshold}
    IN  {n \in below : Cardinality({m \in below : Colder(m, n)}) < ColdNotifyLimit}

\* Faulty: entries leave a tick early, or never.
EvictedEarly == [n \in Nodes |-> IF recentlyNotified[n] >= ColdNotifyTTL THEN NoEntry
                                                                       ELSE recentlyNotified[n]]

EvictedNever == recentlyNotified

\* Entries older than the TTL leave the map.
Evicted == [n \in Nodes |-> IF recentlyNotified[n] > ColdNotifyTTL THEN NoEntry
                                                                  ELSE recentlyNotified[n]]

DedupCold ==
    /\ phase = "decayed"
    /\ recentlyNotified' = Evicted
    /\ cold' = [n \in Nodes |-> IF n \in GetColdNodes /\ Evicted[n] = NoEntry
                                THEN temp[n] ELSE NotCold]
    /\ phase' = IF \A n \in Nodes : cold'[n] = NotCold THEN "idle" ELSE "pushing"
    /\ UNCHANGED <<temp, client, since, warmed>>

\* The cold query fails: the tick ends.
ReadFails ==
    /\ phase = "decayed"
    /\ phase' = "idle"
    /\ UNCHANGED <<temp, recentlyNotified, cold, client, since, warmed>>

\* ServerSession.Log returns no error to a session that set no level, and sends nothing.
LogSucceeds(c) == client[c] \in {"quiet", "listening"}
LogReaches(c)  == client[c] = "listening"

ToNotify == {n \in Nodes : cold[n] # NotCold /\ cold[n] < NotifyThreshold}

\* NotifyColdNodes and MarkNotified.
NotifyColdNodes ==
    /\ phase = "pushing"
    /\ recentlyNotified' = [n \in Nodes |->
           IF n \in ToNotify /\ \E c \in Clients : LogSucceeds(c)
           THEN 0 ELSE recentlyNotified[n]]
    /\ LET delivered == IF \E c \in Clients : LogReaches(c) THEN ToNotify ELSE {}
       IN  /\ since' = [n \in Nodes |-> IF n \in delivered THEN 0 ELSE since[n]]
           /\ warmed' = [n \in Nodes |-> IF n \in delivered THEN temp[n] >= NotifyThreshold
                                                            ELSE warmed[n]]
    /\ cold' = [n \in Nodes |-> NotCold]
    /\ phase' = "idle"
    /\ UNCHANGED <<temp, client>>

-----------------------------------------------------------------------------
\* Sessions

Session(c, from, to) ==
    /\ client[c] \in from
    /\ client' = [client EXCEPT ![c] = to]
    /\ UNCHANGED <<temp, recentlyNotified, phase, cold, since, warmed>>

Connect(c)         == Session(c, {"off"}, "quiet")
SetLoggingLevel(c) == Session(c, {"quiet"}, "listening")
Break(c)           == Session(c, {"listening"}, "broken")
Disconnect(c)      == Session(c, {"quiet", "listening", "broken"}, "off")

-----------------------------------------------------------------------------
Next ==
    \/ \E ids \in (SUBSET Nodes) \ {{}} : RecordAccess(ids)
    \/ \E n \in Nodes, t \in Temps : Summarize(n, t)
    \/ \E changed \in SUBSET Nodes : CompileDir(changed)
    \/ \E t \in Temps : Reseed(t)
    \/ DecayTemperatures \/ DecayFails
    \/ DedupCold \/ ReadFails
    \/ NotifyColdNodes
    \/ \E c \in Clients : Connect(c) \/ SetLoggingLevel(c) \/ Break(c) \/ Disconnect(c)

Spec == Init /\ [][Next]_vars

\* The ticker fires and the store does not fail for ever; readers and clients owe nothing.
FairSpec ==
    /\ Spec
    /\ SF_vars(DecayTemperatures) /\ SF_vars(DedupCold) /\ WF_vars(NotifyColdNodes)

-----------------------------------------------------------------------------
\* Temperatures stay within [0, 1] whatever boosts, decays and summaries do, and the
\* rest has its type.
TypeOK ==
    /\ temp \in [Nodes -> Temps]
    /\ recentlyNotified \in [Nodes -> Ages \cup {NoEntry}]
    /\ phase \in {"idle", "decayed", "pushing"}
    /\ cold \in [Nodes -> Temps \cup {NotCold}]
    /\ client \in [Clients -> Sessions]
    /\ since \in [Nodes -> Ages]
    /\ warmed \in [Nodes -> BOOLEAN]

\* A push of node n reaches a client.
Delivers(n) == since[n] # 0 /\ since'[n] = 0

\* A node that reached a client is not pushed again within ColdNotifyTTL, whatever
\* sessions break, come and go and however its temperature moves.
NoRepeatWithinTTL == [][\A n \in Nodes : Delivers(n) => since[n] > ColdNotifyTTL]_vars

\* While a client listens, a node that stays cold and among the ColdNotifyLimit coldest
\* is pushed again and again.  A node that colder ones keep out of the query's limit,
\* though they are suppressed, may starve.
ColdNodesArePushed ==
    <>[](\E c \in Clients : client[c] = "listening") =>
        \A n \in Nodes :
            <>[](temp[n] < NotifyThreshold /\ n \in GetColdNodes) => []<>(since[n] = 0)

\* Once delivered, a node is pushed again only after it was warm in between.
PushedOnceUntilWarm == [][\A n \in Nodes : Delivers(n) => warmed[n]]_vars

=============================================================================
