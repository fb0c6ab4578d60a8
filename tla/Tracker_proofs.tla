--------------------------- MODULE Tracker_proofs ---------------------------
(***************************************************************************)
(* For any nodes, clients, temperatures, thresholds and TTL: a node that   *)
(* reached a client is not pushed to one again within the TTL.             *)
(***************************************************************************)
EXTENDS Tracker, TLAPS

\* A node delivered within the TTL is in recentlyNotified, marked no earlier.
DeliveredIsMarked ==
    \A n \in Nodes : since[n] <= ColdNotifyTTL =>
        recentlyNotified[n] # NoEntry /\ recentlyNotified[n] <= since[n]

\* A node about to be pushed has no entry: time stands still between dedup and push.
PushedIsUnmarked ==
    \A n \in Nodes : cold[n] # NotCold => recentlyNotified[n] = NoEntry

TrackerInv ==
    /\ TypeOK /\ DeliveredIsMarked /\ PushedIsUnmarked
    /\ phase # "pushing" => \A n \in Nodes : cold[n] = NotCold

-----------------------------------------------------------------------------
\* Ages stay ages as time passes.
LEMMA OlderType == ASSUME NEW a \in Ages PROVE Older(a) \in Ages /\ Older(a) # 0
BY TrackerAssumption DEF Ages, Older

\* A boost stays within the temperatures.
LEMMA BoostType == ASSUME NEW t \in Temps PROVE Boost(t) \in Temps
BY TrackerAssumption DEF Temps, Boost

\* The initial state.
LEMMA InitInv == Init => TrackerInv
BY TrackerAssumption
   DEF Init, TrackerInv, TypeOK, DeliveredIsMarked, PushedIsUnmarked, Ages, Sessions, NoEntry,
       NotCold

\* Reads, summaries and compiles change temperatures only.
LEMMA WarmInv ==
    ASSUME TrackerInv, temp' \in [Nodes -> Temps], NoteWarm,
           UNCHANGED <<recentlyNotified, phase, cold, client, since>>
    PROVE  TrackerInv'
BY DEF TrackerInv, TypeOK, DeliveredIsMarked, PushedIsUnmarked, NoteWarm

\* A tick ages every entry and every delivery alike.
LEMMA TickInv == TrackerInv /\ (DecayTemperatures \/ DecayFails) => TrackerInv'
<1> SUFFICES ASSUME TrackerInv, DecayTemperatures \/ DecayFails PROVE TrackerInv'
  OBVIOUS
<1>1. TimePasses /\ phase = "idle" /\ UNCHANGED <<cold, client, warmed>>
  BY DEF DecayTemperatures, DecayFails
<1>2. temp' \in [Nodes -> Temps] /\ phase' \in {"idle", "decayed"}
  BY TrackerAssumption DEF DecayTemperatures, DecayFails, TrackerInv, TypeOK
<1>3. recentlyNotified' \in [Nodes -> Ages \cup {NoEntry}] /\ since' \in [Nodes -> Ages]
  BY <1>1, OlderType DEF TimePasses, TrackerInv, TypeOK
<1>4. DeliveredIsMarked'
  BY <1>1, TrackerAssumption
  DEF TimePasses, TrackerInv, TypeOK, DeliveredIsMarked, Older, Ages, NoEntry
<1>5. \A n \in Nodes : cold'[n] = NotCold
  BY <1>1 DEF TrackerInv
<1> QED
  BY <1>1, <1>2, <1>3, <1>4, <1>5 DEF TrackerInv, TypeOK, PushedIsUnmarked

\* Eviction drops only entries older than the TTL, so deliveries within it stay marked.
LEMMA DedupInv == TrackerInv /\ DedupCold => TrackerInv'
<1> SUFFICES ASSUME TrackerInv, DedupCold PROVE TrackerInv'
  OBVIOUS
<1>1. TypeOK'
  BY DEF DedupCold, Evicted, TrackerInv, TypeOK
<1>2. DeliveredIsMarked'
  BY TrackerAssumption
  DEF DedupCold, Evicted, TrackerInv, TypeOK, DeliveredIsMarked, Ages, NoEntry
<1>3. PushedIsUnmarked' /\ (phase' # "pushing" => \A n \in Nodes : cold'[n] = NotCold)
  BY DEF DedupCold, PushedIsUnmarked
<1> QED
  BY <1>1, <1>2, <1>3 DEF TrackerInv

\* A push that reaches a client is one that succeeds for a session, so it marks.
LEMMA NotifyInv == TrackerInv /\ NotifyColdNodes => TrackerInv'
<1> SUFFICES ASSUME TrackerInv, NotifyColdNodes PROVE TrackerInv'
  OBVIOUS
<1>1. TypeOK'
  <2>1. warmed' \in [Nodes -> BOOLEAN]
    <3>1. PICK D : warmed' = [n \in Nodes |-> IF n \in D THEN temp[n] >= NotifyThreshold
                                                        ELSE warmed[n]]
      BY DEF NotifyColdNodes
    <3>2. ASSUME NEW n \in Nodes PROVE (temp[n] >= NotifyThreshold) \in BOOLEAN
      BY TrackerAssumption DEF TrackerInv, TypeOK, Temps
    <3>3. ASSUME NEW n \in Nodes PROVE warmed[n] \in BOOLEAN
      BY DEF TrackerInv, TypeOK
    <3> QED
      BY <3>1, <3>2, <3>3, Zenon
  <2>2. since' \in [Nodes -> Ages] /\ recentlyNotified' \in [Nodes -> Ages \cup {NoEntry}]
    BY TrackerAssumption DEF NotifyColdNodes, TrackerInv, TypeOK, Ages
  <2> QED
    BY <2>1, <2>2 DEF NotifyColdNodes, TrackerInv, TypeOK
<1>2. (\E c \in Clients : LogReaches(c)) => \E c \in Clients : LogSucceeds(c)
  BY DEF LogReaches, LogSucceeds
<1>3. DeliveredIsMarked'
  BY <1>2, TrackerAssumption
  DEF NotifyColdNodes, TrackerInv, TypeOK, DeliveredIsMarked, Ages, NoEntry
<1>4. PushedIsUnmarked' /\ \A n \in Nodes : cold'[n] = NotCold
  BY DEF NotifyColdNodes, PushedIsUnmarked
<1> QED
  BY <1>1, <1>3, <1>4 DEF TrackerInv

\* Sessions and a failed cold query leave marks and deliveries alone.
LEMMA SessionInv ==
    ASSUME TrackerInv, NEW c \in Clients,
           Connect(c) \/ SetLoggingLevel(c) \/ Break(c) \/ Disconnect(c)
    PROVE  TrackerInv'
BY DEF Connect, SetLoggingLevel, Break, Disconnect, Session, Sessions, TrackerInv, TypeOK,
   DeliveredIsMarked, PushedIsUnmarked

\* The invariant is inductive.
LEMMA NextInv == TrackerInv /\ [Next]_vars => TrackerInv'
<1> SUFFICES ASSUME TrackerInv, [Next]_vars PROVE TrackerInv'
  OBVIOUS
<1>1. ASSUME NEW ids \in SUBSET Nodes, RecordAccess(ids) PROVE TrackerInv'
  BY <1>1, WarmInv, BoostType DEF RecordAccess, TrackerInv, TypeOK
<1>2. ASSUME NEW n \in Nodes, NEW t \in Temps, Summarize(n, t) PROVE TrackerInv'
  BY <1>2, WarmInv DEF Summarize, TrackerInv, TypeOK
<1>3. ASSUME NEW changed \in SUBSET Nodes, CompileDir(changed) PROVE TrackerInv'
  BY <1>3, WarmInv, TrackerAssumption DEF CompileDir, TrackerInv, TypeOK
<1>4. ASSUME NEW t \in Temps, Reseed(t) PROVE TrackerInv'
  BY <1>4, WarmInv DEF Reseed, TrackerInv, TypeOK
<1>5. CASE ReadFails
  BY <1>5 DEF ReadFails, TrackerInv, TypeOK, DeliveredIsMarked, PushedIsUnmarked
<1>6. CASE UNCHANGED vars
  BY <1>6 DEF vars, TrackerInv, TypeOK, DeliveredIsMarked, PushedIsUnmarked
<1> QED
  BY <1>1, <1>2, <1>3, <1>4, <1>5, <1>6, TickInv, DedupInv, NotifyInv, SessionInv DEF Next

\* Every variable keeps its type; in particular temperatures stay within [0, 1].
THEOREM TrackerTypeCorrect == Spec => []TypeOK
<1>1. TrackerInv => TypeOK
  BY DEF TrackerInv
<1> QED
  BY <1>1, InitInv, NextInv, PTL DEF Spec

\* Only a push delivers a node.
LEMMA OnlyPushesDeliver ==
    ASSUME TrackerInv, [Next]_vars, NEW n \in Nodes, Delivers(n) PROVE NotifyColdNodes
<1>1. ~TimePasses
  BY OlderType DEF TimePasses, Delivers, TrackerInv, TypeOK
<1>2. since' # since
  BY DEF Delivers
<1> QED
  BY <1>1, <1>2
  DEF Next, RecordAccess, Summarize, CompileDir, Reseed, DecayTemperatures, DecayFails, DedupCold,
      ReadFails, Connect, SetLoggingLevel, Break, Disconnect, Session, vars

\* dedupCold and MarkNotified together keep a delivered node from being delivered again
\* within ColdNotifyTTL.
THEOREM NoRepeats == Spec => NoRepeatWithinTTL
<1> DEFINE Quiet == \A n \in Nodes : Delivers(n) => since[n] > ColdNotifyTTL
<1>1. TrackerInv /\ [Next]_vars => [Quiet]_vars
  <2> SUFFICES ASSUME TrackerInv, [Next]_vars, NEW n \in Nodes, Delivers(n)
               PROVE  since[n] > ColdNotifyTTL
    OBVIOUS
  <2>1. NotifyColdNodes
    BY OnlyPushesDeliver
  <2>2. n \in ToNotify
    BY <2>1 DEF NotifyColdNodes, Delivers, TrackerInv, TypeOK
  <2>3. recentlyNotified[n] = NoEntry
    BY <2>2 DEF ToNotify, TrackerInv, PushedIsUnmarked
  <2> QED
    BY <2>3, TrackerAssumption DEF TrackerInv, TypeOK, DeliveredIsMarked, Ages
<1> QED
  BY <1>1, InitInv, NextInv, PTL DEF Spec, NoRepeatWithinTTL

=============================================================================
