------------------------------- MODULE Split -------------------------------
(***************************************************************************)
(* How a JSON, YAML or TOON document becomes nodes: buildNode inlines      *)
(* small maps and lists into the content of a node and promotes large ones *)
(* to nodes of their own.                                                  *)
(*                                                                         *)
(* A document is a function from the paths of its values to their kinds;   *)
(* keys are numbers, in the order of sortedKeys, and list elements are     *)
(* numbered from 1.  A content is the set of the values it renders.        *)
(***************************************************************************)
EXTENDS Naturals, Sequences, FiniteSets

CONSTANTS
    MaxKeys,           \* bound: keys are 1..MaxKeys
    MaxValues,         \* bound: values of a document
    MaxInlineFields    \* a map or list with as many entries is promoted

ASSUME SplitAssumption ==
    MaxKeys \in Nat /\ MaxValues \in Nat /\ MaxInlineFields \in Nat \ {0}

VARIABLE data          \* the decoded document

Kinds == {"scalar", "map", "list"}
Root == << >>

\* A document that is null makes no node; any other value may be the root.
SplitInit == data \in [{Root} -> Kinds]

Entries(p) == {k \in 1..MaxKeys : Append(p, k) \in DOMAIN data}

\* Documents grow an entry at a time; a list has no gaps.
AddEntry(p, k, kind) ==
    /\ Cardinality(DOMAIN data) < MaxValues
    /\ data[p] # "scalar" /\ k \notin Entries(p)
    /\ data[p] = "list" => k = Cardinality(Entries(p)) + 1
    /\ data' = [q \in DOMAIN data \cup {Append(p, k)} |->
                    IF q = Append(p, k) THEN kind ELSE data[q]]

SplitNext ==
    \E p \in DOMAIN data, k \in 1..MaxKeys, kind \in Kinds : AddEntry(p, k, kind)

SplitSpec == SplitInit /\ [][SplitNext]_data

-----------------------------------------------------------------------------
Promotes(p) == data[p] # "scalar" /\ Cardinality(Entries(p)) >= MaxInlineFields

\* writeValue: every value below p, large ones too; an empty map or list shows as such.
Rendered ==
    LET rendered[p \in DOMAIN data] ==
            IF Entries(p) = {} THEN {p} ELSE UNION {rendered[Append(p, k)] : k \in Entries(p)}
    IN  rendered

\* renderList, or the same values in TOON.
RenderList(p) == UNION {Rendered[Append(p, k)] : k \in Entries(p)}

\* Faulty: promoted values are rendered into the parent as well.
RenderMapWhole(p) == RenderList(p)

\* renderMap of the inlined entries.
RenderMap(p) ==
    UNION {Rendered[Append(p, k)] : k \in {j \in Entries(p) : ~Promotes(Append(p, j))}}

\* The node made of the value at p.
NodeOf(p) ==
    [path |-> p,
     content |-> CASE data[p] = "map" -> RenderMap(p)
                   [] data[p] = "list" -> RenderList(p)
                   [] OTHER -> {p}]

\* buildNode, buildMap and buildList: that node, and those of the entries it promotes.
BuildNode ==
    LET build[p \in DOMAIN data] ==
            {NodeOf(p)} \cup
            UNION {build[Append(p, k)] : k \in {j \in Entries(p) : /\ data[p] = "map"
                                                                 /\ Promotes(Append(p, j))}}
    IN  build

-----------------------------------------------------------------------------
\* A scalar, or an empty map or list that is not the document itself.
Leaves == {p \in DOMAIN data : Entries(p) = {} /\ (p = Root => data[p] = "scalar")}

\* However inlining and promotion nest, every value of a document is in the content of
\* exactly one node: nothing a search should find is lost or counted twice.
EveryLeafInOneNode ==
    \A p \in Leaves : Cardinality({n \in BuildNode[Root] : p \in n.content}) = 1

=============================================================================
