------------------------------- MODULE Query -------------------------------
(***************************************************************************)
(* The query engine: MemoryFetch and MemorySearch of one client, while     *)
(* compiles and writes commit.  MemoryFetch reads the anchor and then its  *)
(* ancestors, descendants and siblings in three queries that no lock and   *)
(* no transaction hold together; the rows are ranked, and a token budget   *)
(* is filled in rank order.                                                *)
(*                                                                         *)
(* A score is a float made of temperature, time since the last access and, *)
(* for a search, the FTS rank: any ranking is possible.  RecordAccess,     *)
(* which ends a call, is modelled in Tracker.                              *)
(***************************************************************************)
EXTENDS Naturals, Sequences, FiniteSets

CONSTANTS
    Nodes,
    NoNode,
    NoRow,             \* token_count of a node that is not in the table
    ParentOf,          \* parent_id of a node, or NoNode
    TokenCounts,       \* token_count of a node's content
    Budgets,           \* the budgets clients pass
    Depths,            \* the depths clients pass
    DefaultMaxDepth, MaxDepthCap,
    SearchLimit,
    MaxCommits         \* bound: commits while queries run

\* Column token_count per node.
Tables == {t \in [Nodes -> TokenCounts \cup {NoRow}] :
               \A n \in Nodes : t[n] # NoRow /\ ParentOf[n] # NoNode => t[ParentOf[n]] # NoRow}

ASSUME QueryAssumption ==
    /\ IsFiniteSet(Nodes) /\ NoNode \notin Nodes
    /\ ParentOf \in [Nodes -> Nodes \cup {NoNode}]
    /\ TokenCounts \subseteq Nat /\ NoRow \notin Nat
    /\ Budgets \subseteq Nat
    /\ Depths \subseteq Nat
    /\ DefaultMaxDepth \in Nat \ {0} /\ MaxDepthCap \in Nat \ {0}
    /\ SearchLimit \in Nat /\ MaxCommits \in Nat

VARIABLES
    table,         \* table nodes
    commits,
    phase,         \* "idle", "reading", "filling", "done"
    anchor,        \* Fetch: the anchor's row as read, or NoAnchor
    budget, depth, \* the call's arguments
    batch,         \* collectContext: what each query read, NotRead before it ran
    scored,        \* the ranked rows
    next,          \* the loop index of fillBudget
    filled, used   \* its result

callVars == <<anchor, budget, depth>>
fillVars == <<scored, next, filled, used>>
engineVars == <<table, commits, phase, callVars, batch, fillVars>>

Row(n) == [id |-> n, tokens |-> table[n]]
RowsAt(S) == {Row(n) : n \in {m \in Nodes : m \in S /\ table[m] # NoRow}}
Rows == [id : Nodes, tokens : TokenCounts]

NoAnchor == [id |-> NoNode, tokens |-> 0]
NotRead == {NoAnchor}
Queries == {"ancestors", "descendants", "siblings"}
NoBatch == [q \in Queries |-> NotRead]

EngineInit ==
    /\ table \in Tables
    /\ commits = 0
    /\ phase = "idle"
    /\ anchor = NoAnchor
    /\ budget = 0 /\ depth = 0
    /\ batch = NoBatch
    /\ scored = << >> /\ next = 1 /\ filled = << >> /\ used = 0

\* A compile or a write commits any change that keeps parents live.
Commit ==
    /\ commits < MaxCommits
    /\ commits' = commits + 1
    /\ table' \in Tables
    /\ UNCHANGED <<phase, callVars, batch, fillVars>>

-----------------------------------------------------------------------------
\* The store's reads

\* desc_cte: the nodes at most k levels below n.
Below(n, k) ==
    LET level[j \in Nat] == IF j = 0 THEN {n}
                            ELSE {m \in Nodes : ParentOf[m] \in level[j - 1]}
    IN  UNION {level[j] : j \in 1..k}

\* anc: the node and every node above it.
Above(n) == {n} \cup {m \in Nodes : n \in Below(m, Cardinality(Nodes))}

GetAncestors(n) == IF table[n] = NoRow THEN {} ELSE RowsAt(Above(n))
GetDescendants(n, k) == RowsAt(Below(n, k))
GetSiblings(n) ==
    IF table[n] = NoRow \/ ParentOf[n] = NoNode THEN {}
    ELSE RowsAt({m \in Nodes : ParentOf[m] = ParentOf[n] /\ m # n})

-----------------------------------------------------------------------------
\* Engine.Fetch and Engine.Search

ClampDepth(d) == IF d = 0 THEN DefaultMaxDepth ELSE IF d > MaxDepthCap THEN MaxDepthCap ELSE d

Ready == phase \in {"idle", "done"}
\* fillBudget's loop starts with an empty result.
StartFill == next' = 1 /\ filled' = << >> /\ used' = 0

\* GetNode; an anchor that is gone is an error and changes nothing.
Fetch(n, b, d) ==
    /\ Ready
    /\ table[n] # NoRow
    /\ anchor' = Row(n)
    /\ budget' = b /\ depth' = ClampDepth(d)
    /\ batch' = NoBatch
    /\ phase' = "reading"
    /\ StartFill /\ scored' = << >>
    /\ UNCHANGED <<table, commits>>

\* The three queries of collectContext run concurrently, each on the table of its moment.
Collect(q, rows) ==
    /\ phase = "reading"
    /\ batch[q] = NotRead
    /\ batch' = [batch EXCEPT ![q] = rows]
    /\ UNCHANGED <<table, commits, phase, callVars, fillVars>>
CollectContext ==
    \/ Collect("ancestors", GetAncestors(anchor.id))
    \/ Collect("descendants", GetDescendants(anchor.id, depth))
    \/ Collect("siblings", GetSiblings(anchor.id))

\* The rows of the batches but the anchor's own: the first copy of a node counts.
Ids(rows) == {r.id : r \in rows}
\* Faulty: the anchor is not marked as seen.
MergeWithAnchor ==
    LET a == batch["ancestors"]
        d == {r \in batch["descendants"] : r.id \notin Ids(a)}
        s == {r \in batch["siblings"] : r.id \notin Ids(a \cup d)}
    IN  a \cup d \cup s

Merge ==
    LET a == {r \in batch["ancestors"] : r.id # anchor.id}
        d == {r \in batch["descendants"] : r.id \notin Ids(a) \cup {anchor.id}}
        s == {r \in batch["siblings"] : r.id \notin Ids(a \cup d) \cup {anchor.id}}
    IN  a \cup d \cup s

\* A ranking of a set of rows: each once.
Rankings(rows) ==
    {s \in [1..Cardinality(rows) -> rows] : \A i, j \in DOMAIN s : i # j => s[i] # s[j]}

\* Faulty: the queries are not waited for.
RankNodesEarly ==
    /\ phase = "reading"
    /\ scored' \in Rankings(Merge)
    /\ phase' = "filling"
    /\ StartFill
    /\ UNCHANGED <<table, commits, callVars, batch>>

RankNodes ==
    /\ phase = "reading"
    /\ \A q \in Queries : batch[q] # NotRead
    /\ scored' \in Rankings(Merge)
    /\ phase' = "filling"
    /\ StartFill
    /\ UNCHANGED <<table, commits, callVars, batch>>

\* SearchRanked and rankSearchResults: at most searchLimit of the live nodes match.
Search(S, b) ==
    /\ Ready
    /\ Cardinality(S) <= SearchLimit
    /\ anchor' = NoAnchor
    /\ budget' = b /\ depth' = 0
    /\ scored' \in Rankings(RowsAt(S))
    /\ phase' = "filling"
    /\ StartFill /\ batch' = NoBatch
    /\ UNCHANGED <<table, commits>>

\* Faulty: the anchor is not paid for.
RemainingAll == budget

\* remaining := max(budget - node.TokenCount, 0); a search has no anchor.
Remaining == IF budget >= anchor.tokens THEN budget - anchor.tokens ELSE 0

\* Faulty: a row that fits exactly is passed over.
FillBudgetBelow ==
    /\ phase = "filling"
    /\ next <= Len(scored)
    /\ next' = next + 1
    /\ IF used + scored[next].tokens >= Remaining
       THEN UNCHANGED <<filled, used>>
       ELSE /\ filled' = Append(filled, next)
            /\ used' = used + scored[next].tokens
    /\ UNCHANGED <<table, commits, phase, callVars, batch, scored>>

\* One iteration of fillBudget's loop.
FillBudget ==
    /\ phase = "filling"
    /\ next <= Len(scored)
    /\ next' = next + 1
    /\ IF used + scored[next].tokens > Remaining
       THEN UNCHANGED <<filled, used>>
       ELSE /\ filled' = Append(filled, next)
            /\ used' = used + scored[next].tokens
    /\ UNCHANGED <<table, commits, phase, callVars, batch, scored>>

\* The anchor joins the result, which is reversed so that it comes last.
Answer ==
    /\ phase = "filling"
    /\ next > Len(scored)
    /\ used' = used + anchor.tokens
    /\ phase' = "done"
    /\ UNCHANGED <<table, commits, callVars, batch, scored, next, filled>>

HandleFetch == \E n \in Nodes, b \in Budgets, d \in Depths : Fetch(n, b, d)
HandleSearch == \E S \in SUBSET Nodes, b \in Budgets : Search(S, b)

EngineNext ==
    Commit \/ HandleFetch \/ HandleSearch \/ CollectContext \/ RankNodes \/ FillBudget \/ Answer

EngineSpec == EngineInit /\ [][EngineNext]_engineVars

-----------------------------------------------------------------------------
\* Every variable has its type.
EngineTypeOK ==
    /\ table \in Tables
    /\ commits \in 0..MaxCommits
    /\ phase \in {"idle", "reading", "filling", "done"}
    /\ anchor \in Rows \cup {NoAnchor}
    /\ budget \in Nat /\ depth \in Nat
    /\ batch \in [Queries -> SUBSET (Rows \cup {NoAnchor})]
    /\ scored \in Seq(Rows)
    /\ next \in Nat \ {0}
    /\ filled \in Seq(Nat)
    /\ used \in Nat

\* An answer costs at most the budget, or what the anchor costs when that is more.
WithinBudget == phase = "done" => used <= budget \/ used = anchor.tokens

\* A row is left out of an answer only because it does not fit: the budget left over
\* is smaller than every dropped row.
NothingThatFitsIsDropped ==
    phase = "done" =>
        \A i \in 1..Len(scored) :
            \/ \E j \in 1..Len(filled) : filled[j] = i
            \/ budget < anchor.tokens
            \/ used + scored[i].tokens > budget

\* No node is in an answer twice, though the three reads of a fetch may see different
\* tables, and the anchor is not among the rest.
AnsweredOnce ==
    \A i, j \in 1..Len(scored) :
        /\ scored[i].id # anchor.id
        /\ i # j => scored[i].id # scored[j].id

=============================================================================
