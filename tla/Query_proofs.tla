---------------------------- MODULE Query_proofs ----------------------------
(***************************************************************************)
(* For any tree of nodes, any token counts, budgets and depths, and any    *)
(* commits between the reads: an answer's cost, what it leaves out, and    *)
(* that it holds no node twice.                                            *)
(***************************************************************************)
EXTENDS Query, FiniteSetTheorems, TLAPS

\* A set of rows with one row per node.
OneRowPerNode(rows) == \A r, s \in rows : r.id = s.id => r = s

\* What a query has read is a finite set of rows, one per node.
BatchesOK ==
    \A q \in Queries : batch[q] # NotRead =>
        /\ batch[q] \in SUBSET Rows
        /\ IsFiniteSet(batch[q])
        /\ OneRowPerNode(batch[q])

\* While the budget is filled: what is used fits, and a row that was passed over does
\* not fit beside what is used now.
FillOK ==
    phase = "filling" =>
        /\ used <= Remaining
        /\ \A i \in 1..Len(scored) : i < next =>
               \/ \E j \in 1..Len(filled) : filled[j] = i
               \/ used + scored[i].tokens > Remaining

\* Context is collected for an anchor.
ReadsAnchor == phase = "reading" => anchor \in Rows

QueryInv ==
    /\ EngineTypeOK /\ ReadsAnchor /\ BatchesOK /\ FillOK
    /\ WithinBudget /\ NothingThatFitsIsDropped /\ AnsweredOnce

-----------------------------------------------------------------------------
\* The rows of some nodes at one moment are finitely many, one per node.
LEMMA RowsAtOK ==
    ASSUME EngineTypeOK, NEW S
    PROVE  /\ RowsAt(S) \in SUBSET Rows
           /\ IsFiniteSet(RowsAt(S))
           /\ OneRowPerNode(RowsAt(S))
           /\ RowsAt(S) # NotRead
<1> DEFINE L == {m \in Nodes : m \in S /\ table[m] # NoRow}
           f == [n \in L |-> Row(n)]
<1>1. IsFiniteSet(L)
  BY FS_Subset, QueryAssumption
<1>2. f \in Surjection(L, RowsAt(S))
  BY DEF RowsAt, Surjection
<1>3. IsFiniteSet(RowsAt(S))
  BY <1>1, <1>2, FS_Surjection
<1>4. RowsAt(S) \in SUBSET Rows /\ OneRowPerNode(RowsAt(S))
  BY DEF RowsAt, Row, Rows, OneRowPerNode, EngineTypeOK, Tables
<1>5. NoAnchor \notin Rows
  BY QueryAssumption DEF NoAnchor, Rows
<1> QED
  BY <1>3, <1>4, <1>5 DEF NotRead

\* A ranking lists rows, none twice.
LEMMA RankingsOK ==
    ASSUME NEW R \in SUBSET Rows, IsFiniteSet(R), NEW s \in Rankings(R)
    PROVE  /\ s \in Seq(Rows)
           /\ \A i \in 1..Len(s) : s[i] \in R
           /\ \A i, j \in 1..Len(s) : i # j => s[i] # s[j]
<1>1. Cardinality(R) \in Nat
  BY FS_CardinalityType
<1>2. s \in [1..Cardinality(R) -> R] /\ \A i, j \in DOMAIN s : i # j => s[i] # s[j]
  BY DEF Rankings
<1>3. s \in Seq(R) /\ Len(s) = Cardinality(R)
  BY <1>1, <1>2
<1> QED
  BY <1>1, <1>2, <1>3

\* The context of an anchor is a finite set of rows, one per node, none the anchor's.
LEMMA MergeOK ==
    ASSUME EngineTypeOK, BatchesOK, \A q \in Queries : batch[q] # NotRead
    PROVE  /\ Merge \in SUBSET Rows
           /\ IsFiniteSet(Merge)
           /\ OneRowPerNode(Merge)
           /\ \A r \in Merge : r.id # anchor.id
<1> DEFINE A == batch["ancestors"]
           D == batch["descendants"]
           B == batch["siblings"]
<1>1. /\ A \in SUBSET Rows /\ IsFiniteSet(A) /\ OneRowPerNode(A)
      /\ D \in SUBSET Rows /\ IsFiniteSet(D) /\ OneRowPerNode(D)
      /\ B \in SUBSET Rows /\ IsFiniteSet(B) /\ OneRowPerNode(B)
  BY DEF BatchesOK, Queries
<1> DEFINE a == {r \in A : r.id # anchor.id}
           d == {r \in D : r.id \notin Ids(a) \cup {anchor.id}}
           s == {r \in B : r.id \notin Ids(a \cup d) \cup {anchor.id}}
<1>2. Merge = a \cup d \cup s
  BY DEF Merge
<1>3. IsFiniteSet(Merge)
  <2>1. Merge \in SUBSET (A \cup (D \cup B))
    BY <1>2
  <2>2. IsFiniteSet(D \cup B)
    BY <1>1, FS_Union
  <2>3. IsFiniteSet(A \cup (D \cup B))
    BY <1>1, <2>2, FS_Union
  <2> QED
    BY <2>1, <2>3, FS_Subset
<1>4. Merge \in SUBSET Rows /\ \A r \in Merge : r.id # anchor.id
  BY <1>1, <1>2
<1>5. OneRowPerNode(Merge)
  BY <1>1, <1>2 DEF OneRowPerNode, Ids
<1> QED
  BY <1>3, <1>4, <1>5

\* A ranking of rows, one per node and none the anchor's, answers each node once.
LEMMA RankedOnce ==
    ASSUME NEW R \in SUBSET Rows, IsFiniteSet(R), OneRowPerNode(R), NEW a,
           \A r \in R : r.id # a, NEW s \in Rankings(R)
    PROVE  \A i, j \in 1..Len(s) : s[i].id # a /\ (i # j => s[i].id # s[j].id)
BY RankingsOK DEF OneRowPerNode

\* Token counts are natural numbers.
LEMMA RowTokens == ASSUME NEW r \in Rows \cup {NoAnchor} PROVE r.tokens \in Nat
<1>1. CASE r \in Rows
  <2>1. r.tokens \in TokenCounts
    BY <1>1 DEF Rows
  <2> QED
    BY <2>1, QueryAssumption
<1>2. CASE r = NoAnchor
  BY <1>2 DEF NoAnchor
<1> QED
  BY <1>1, <1>2

\* So are the costs of the ranked rows.
LEMMA ScoredTokens ==
    ASSUME EngineTypeOK PROVE \A i \in 1..Len(scored) : scored[i].tokens \in Nat
<1>1. \A i \in 1..Len(scored) : scored[i] \in Rows
  BY DEF EngineTypeOK
<1> QED
  BY <1>1, RowTokens

\* And so is what the anchor leaves of a budget.
LEMMA RemainingType ==
    ASSUME NEW a \in Rows \cup {NoAnchor}, NEW b \in Nat
    PROVE  (IF b >= a.tokens THEN b - a.tokens ELSE 0) \in Nat
BY RowTokens

-----------------------------------------------------------------------------
\* The initial state.
LEMMA InitInv == EngineInit => QueryInv
BY QueryAssumption DEF EngineInit, QueryInv, EngineTypeOK, ReadsAnchor, BatchesOK, FillOK, WithinBudget,
   NothingThatFitsIsDropped, AnsweredOnce, NoBatch, NotRead

\* A commit changes the table only.
LEMMA CommitInv == QueryInv /\ Commit => QueryInv'
BY QueryAssumption DEF Commit, QueryInv, EngineTypeOK, ReadsAnchor, BatchesOK, FillOK, Remaining, WithinBudget,
   NothingThatFitsIsDropped, AnsweredOnce, callVars, fillVars

\* A fetch starts with the anchor's row and nothing read.
LEMMA FetchInv ==
    ASSUME NEW n \in Nodes, NEW b \in Budgets, NEW d \in Depths, QueryInv, Fetch(n, b, d)
    PROVE  QueryInv'
<1>1. Row(n) \in Rows
  BY DEF Fetch, Row, Rows, QueryInv, EngineTypeOK, Tables
<1>2. EngineTypeOK'
  BY <1>1, QueryAssumption DEF Fetch, QueryInv, EngineTypeOK, ClampDepth, StartFill, NoBatch, NotRead
<1>3. ReadsAnchor' /\ BatchesOK' /\ FillOK'
  BY <1>1 DEF Fetch, ReadsAnchor, BatchesOK, FillOK, NoBatch
<1>4. WithinBudget' /\ NothingThatFitsIsDropped' /\ AnsweredOnce'
  BY DEF Fetch, WithinBudget, NothingThatFitsIsDropped, AnsweredOnce
<1> QED
  BY <1>2, <1>3, <1>4 DEF QueryInv

\* A query of collectContext reads finitely many rows, one per node.
LEMMA CollectInv == QueryInv /\ CollectContext => QueryInv'
<1> SUFFICES ASSUME QueryInv, CollectContext PROVE QueryInv'
  OBVIOUS
<1>1. PICK q \in Queries, rows \in SUBSET Rows :
          Collect(q, rows) /\ IsFiniteSet(rows) /\ OneRowPerNode(rows)
  <2>1. /\ IsFiniteSet({}) /\ OneRowPerNode({})
    BY FS_EmptySet DEF OneRowPerNode
  <2> QED
    BY <2>1, RowsAtOK DEF CollectContext, GetAncestors, GetDescendants, GetSiblings, QueryInv,
       Queries
<1>2. EngineTypeOK'
  BY <1>1 DEF Collect, QueryInv, EngineTypeOK, callVars, fillVars
<1>3. ReadsAnchor' /\ FillOK'
  BY <1>1 DEF Collect, QueryInv, ReadsAnchor, FillOK, callVars
<1>4. BatchesOK'
  BY <1>1 DEF Collect, QueryInv, EngineTypeOK, BatchesOK
<1>5. WithinBudget' /\ NothingThatFitsIsDropped' /\ AnsweredOnce'
  BY <1>1 DEF Collect, QueryInv, WithinBudget, NothingThatFitsIsDropped, AnsweredOnce,
     callVars, fillVars
<1> QED
  BY <1>2, <1>3, <1>4, <1>5 DEF QueryInv

\* The collected rows are ranked and the filling starts.
LEMMA RankInv == QueryInv /\ RankNodes => QueryInv'
<1> SUFFICES ASSUME QueryInv, RankNodes PROVE QueryInv'
  OBVIOUS
<1>1. /\ Merge \in SUBSET Rows /\ IsFiniteSet(Merge) /\ OneRowPerNode(Merge)
      /\ \A r \in Merge : r.id # anchor.id
  BY MergeOK DEF QueryInv, RankNodes
<1>2. scored' \in Rankings(Merge)
  BY DEF RankNodes
<1>3. scored' \in Seq(Rows)
  BY <1>1, <1>2, RankingsOK
<1>4. EngineTypeOK' /\ ReadsAnchor' /\ BatchesOK'
  BY <1>3 DEF RankNodes, QueryInv, EngineTypeOK, ReadsAnchor, BatchesOK, callVars, StartFill
<1>5. AnsweredOnce'
  BY <1>1, <1>2, RankedOnce DEF RankNodes, AnsweredOnce, callVars
<1>6. FillOK' /\ WithinBudget' /\ NothingThatFitsIsDropped'
  <2>1. Remaining' \in Nat
    BY <1>4, RemainingType DEF EngineTypeOK, Remaining
  <2> QED
    BY <2>1 DEF RankNodes, StartFill, FillOK, WithinBudget, NothingThatFitsIsDropped
<1> QED
  BY <1>4, <1>5, <1>6 DEF QueryInv

\* A search ranks rows of one moment; it has no anchor.
LEMMA SearchInv ==
    ASSUME NEW S \in SUBSET Nodes, NEW b \in Budgets, QueryInv, Search(S, b)
    PROVE  QueryInv'
<1>1. RowsAt(S) \in SUBSET Rows /\ IsFiniteSet(RowsAt(S)) /\ OneRowPerNode(RowsAt(S))
  BY RowsAtOK DEF QueryInv
<1>2. \A r \in RowsAt(S) : r.id # NoNode
  BY <1>1, QueryAssumption DEF Rows
<1>3. scored' \in Rankings(RowsAt(S))
  BY DEF Search
<1>4. scored' \in Seq(Rows)
  BY <1>1, <1>3, RankingsOK
<1>5. EngineTypeOK'
  BY <1>4, QueryAssumption DEF Search, QueryInv, EngineTypeOK, StartFill, NoBatch, NotRead
<1>6. ReadsAnchor' /\ BatchesOK'
  BY DEF Search, ReadsAnchor, BatchesOK, NoBatch
<1>7. AnsweredOnce'
  <2>1. anchor'.id = NoNode
    BY DEF Search, NoAnchor
  <2> QED
    BY <1>1, <1>2, <1>3, <2>1, RankedOnce DEF AnsweredOnce
<1>8. FillOK' /\ WithinBudget' /\ NothingThatFitsIsDropped'
  <2>1. Remaining' \in Nat
    BY <1>5, RemainingType DEF EngineTypeOK, Remaining
  <2> QED
    BY <2>1 DEF Search, StartFill, FillOK, WithinBudget, NothingThatFitsIsDropped
<1> QED
  BY <1>5, <1>6, <1>7, <1>8 DEF QueryInv

\* An iteration takes the row or passes it over; what was passed over still does not
\* fit, because used only grows.
LEMMA FillInv == QueryInv /\ FillBudget => QueryInv'
<1> SUFFICES ASSUME QueryInv, FillBudget PROVE QueryInv'
  OBVIOUS
<1>1. /\ next \in 1..Len(scored) /\ Len(scored) \in Nat
      /\ scored[next] \in Rows /\ scored[next].tokens \in Nat
  <2>1. scored \in Seq(Rows) /\ next \in 1..Len(scored) /\ Len(scored) \in Nat
    BY DEF FillBudget, QueryInv, EngineTypeOK
  <2>2. scored[next] \in Rows
    BY <2>1
  <2> QED
    BY <2>1, <2>2, RowTokens
<1>2. EngineTypeOK'
  <2>1. filled' \in Seq(Nat) /\ used' \in Nat /\ next' \in Nat \ {0}
    <3>1. filled \in Seq(Nat) /\ used \in Nat /\ next \in Nat
      BY <1>1 DEF QueryInv, EngineTypeOK
    <3>2. Append(filled, next) \in Seq(Nat) /\ used + scored[next].tokens \in Nat
      BY <1>1, <3>1
    <3>3. /\ next' = next + 1
          /\ \/ filled' = filled /\ used' = used
             \/ filled' = Append(filled, next) /\ used' = used + scored[next].tokens
      BY DEF FillBudget
    <3>4. filled' \in Seq(Nat)
      BY <3>1, <3>2, <3>3, Zenon
    <3>5. used' \in Nat
      BY <3>1, <3>2, <3>3, Zenon
    <3>6. next' \in Nat \ {0}
      BY <3>1, <3>3
    <3> QED
      BY <3>4, <3>5, <3>6
  <2> QED
    BY <2>1 DEF FillBudget, QueryInv, EngineTypeOK, callVars
<1>3. ReadsAnchor' /\ BatchesOK' /\ AnsweredOnce'
  BY DEF FillBudget, QueryInv, ReadsAnchor, BatchesOK, AnsweredOnce, callVars
<1>4. WithinBudget' /\ NothingThatFitsIsDropped'
  BY DEF FillBudget, WithinBudget, NothingThatFitsIsDropped
<1>5. FillOK'
  <2>1. Remaining' = Remaining /\ Remaining \in Nat /\ used \in Nat /\ used <= Remaining
    BY RemainingType DEF FillBudget, QueryInv, EngineTypeOK, FillOK, Remaining, callVars
  <2>2. \A i \in 1..Len(scored) : scored[i].tokens \in Nat
    BY ScoredTokens DEF QueryInv
  <2>3. \A i \in 1..Len(scored) : i < next =>
            \/ \E j \in 1..Len(filled) : filled[j] = i
            \/ used + scored[i].tokens > Remaining
    BY DEF FillBudget, QueryInv, FillOK
  <2>4. CASE used + scored[next].tokens > Remaining
    <3>1. UNCHANGED <<filled, used, scored>> /\ next' = next + 1 /\ phase' = phase
      BY <2>4 DEF FillBudget
    <3> QED
      BY <1>1, <2>1, <2>3, <2>4, <3>1 DEF FillOK
  <2>5. CASE ~(used + scored[next].tokens > Remaining)
    <3>1. /\ filled' = Append(filled, next) /\ used' = used + scored[next].tokens
          /\ next' = next + 1 /\ scored' = scored /\ phase' = phase
      BY <2>5 DEF FillBudget
    <3>2. filled \in Seq(Nat) /\ Len(filled') = Len(filled) + 1 /\ filled'[Len(filled) + 1] = next
      BY <1>1, <3>1 DEF QueryInv, EngineTypeOK
    <3>3. \A j \in 1..Len(filled) : filled'[j] = filled[j]
      BY <1>1, <3>1, <3>2
    <3>4. ASSUME NEW i \in 1..Len(scored), i < next'
          PROVE  \/ \E j \in 1..Len(filled') : filled'[j] = i
                 \/ used' + scored[i].tokens > Remaining
      <4>1. CASE i = next
        BY <3>2, <4>1
      <4>2. CASE i < next
        <5>1. CASE \E j \in 1..Len(filled) : filled[j] = i
          BY <3>2, <3>3, <5>1
        <5>2. CASE used + scored[i].tokens > Remaining
          BY <1>1, <2>1, <2>2, <3>1, <5>2
        <5> QED
          BY <2>3, <4>2, <5>1, <5>2
      <4> QED
        BY <1>1, <3>1, <3>4, <4>1, <4>2
    <3>5. used' <= Remaining
      BY <1>1, <2>1, <2>5, <3>1
    <3> QED
      BY <2>1, <3>1, <3>4, <3>5 DEF FillOK
  <2> QED
    BY <2>4, <2>5
<1> QED
  BY <1>2, <1>3, <1>4, <1>5 DEF QueryInv

\* The anchor's cost is added to what was filled beside it.
LEMMA AnswerInv == QueryInv /\ Answer => QueryInv'
<1> SUFFICES ASSUME QueryInv, Answer PROVE QueryInv'
  OBVIOUS
<1>1. /\ anchor.tokens \in Nat /\ Remaining \in Nat /\ used \in Nat /\ budget \in Nat
      /\ used <= Remaining /\ used' = used + anchor.tokens
  BY RowTokens, RemainingType DEF Answer, QueryInv, EngineTypeOK, FillOK, Remaining
<1>2. EngineTypeOK'
  BY <1>1 DEF Answer, QueryInv, EngineTypeOK, callVars
<1>3. ReadsAnchor' /\ BatchesOK' /\ FillOK' /\ AnsweredOnce'
  BY DEF Answer, QueryInv, ReadsAnchor, BatchesOK, FillOK, AnsweredOnce, callVars
<1>4. WithinBudget'
  BY <1>1 DEF Answer, WithinBudget, Remaining, callVars
<1>5. NothingThatFitsIsDropped'
  <2>1. \A i \in 1..Len(scored) : scored[i].tokens \in Nat /\ i < next
    BY ScoredTokens DEF Answer, QueryInv, EngineTypeOK
  <2> QED
    BY <1>1, <2>1 DEF Answer, QueryInv, FillOK, NothingThatFitsIsDropped, Remaining, callVars
<1> QED
  BY <1>2, <1>3, <1>4, <1>5 DEF QueryInv

\* The invariant holds in every reachable state.
LEMMA QueryInvHolds == EngineSpec => []QueryInv
<1>1. QueryInv /\ [EngineNext]_engineVars => QueryInv'
  <2> SUFFICES ASSUME QueryInv, [EngineNext]_engineVars PROVE QueryInv'
    OBVIOUS
  <2>1. CASE UNCHANGED engineVars
    BY <2>1 DEF engineVars, callVars, fillVars, QueryInv, EngineTypeOK, ReadsAnchor, BatchesOK, FillOK,
       Remaining, WithinBudget, NothingThatFitsIsDropped, AnsweredOnce
  <2> QED
    BY <2>1, CommitInv, FetchInv, SearchInv, CollectInv, RankInv, FillInv, AnswerInv
    DEF EngineNext, HandleFetch, HandleSearch
<1> QED
  BY <1>1, InitInv, PTL DEF EngineSpec

-----------------------------------------------------------------------------
\* Every step of a fetch or a search, and every commit between them, keeps the variables in
\* their types.
THEOREM QueryTypes == EngineSpec => []EngineTypeOK
<1>1. QueryInv => EngineTypeOK
  BY DEF QueryInv
<1> QED
  BY <1>1, QueryInvHolds, PTL

\* MemoryFetch and MemorySearch stay within the budget, except for an anchor that is
\* itself larger.
THEOREM AnswersStayWithinBudget == EngineSpec => []WithinBudget
<1>1. QueryInv => WithinBudget
  BY DEF QueryInv
<1> QED
  BY <1>1, QueryInvHolds, PTL

\* fillBudget leaves out no row that fits in what is left over.
THEOREM AnswersAreFull == EngineSpec => []NothingThatFitsIsDropped
<1>1. QueryInv => NothingThatFitsIsDropped
  BY DEF QueryInv
<1> QED
  BY <1>1, QueryInvHolds, PTL

\* Commits between the reads of collectContext never put a node into an answer twice.
THEOREM NodesAreAnsweredOnce == EngineSpec => []AnsweredOnce
<1>1. QueryInv => AnsweredOnce
  BY DEF QueryInv
<1> QED
  BY <1>1, QueryInvHolds, PTL

=============================================================================
