-------------------------- MODULE DownloadNodesProofs --------------------------
(***************************************************************************)
(* Facts about the nodes of a download, for both download engines.         *)
(***************************************************************************)
EXTENDS DownloadNodes, WellFoundedInduction, TLAPS

\* A remainder is less than the divisor.
LEMMA Remainder ==
  ASSUME NEW a \in Int, NEW b \in Nat \ {0}
  PROVE  a % b \in 0 .. b - 1
  BY SMT

\* ResolveNodes and resolve_nodes return nodes that they were configured with, and
\* at least one.
LEMMA ResolvedNodes ==
  ASSUME NEW a \in BOOLEAN
  PROVE  Resolved(a) \in Seq(Nodes) /\ Len(Resolved(a)) >= 1
<1>1. Order \in Seq(Nodes)
  BY NodesAssumption DEF Nodes
<1>2. PICK i \in DOMAIN Order : Order[i] = Direct
  BY NodesAssumption
<1>3. Len(Order) >= 1
  BY <1>1, <1>2
<1>4. Direct \in Nodes
  BY <1>2 DEF Nodes
<1> QED
  BY <1>1, <1>3, <1>4 DEF Resolved

\* A set of natural numbers has a least element.
LEMMA Least ==
  ASSUME NEW T \in SUBSET Nat, T # {}
  PROVE  \E x \in T : \A y \in T : x <= y
<1> DEFINE R == {ss \in Nat \X Nat : ss[1] < ss[2]}
<1>1. IsWellFoundedOn(R, Nat)
  BY NatLessThanWellFounded DEF OpToRel
<1>2. PICK x \in T : \A y \in T : ~ (<<y, x>> \in R)
  <2> HIDE DEF R
  <2> QED
    BY <1>1, WFMin
<1>3. \A y \in T : x <= y
  <2> SUFFICES ASSUME NEW y \in T PROVE x <= y
    OBVIOUS
  <2>1. ~ (y < x)
    BY <1>2
  <2> QED
    BY <2>1
<1> QED
  BY <1>3

\* FindNextAcceleratedNodeIndex and next_accelerated_node_index return the index of an
\* acceleration node, or none.
THEOREM NextAcceleratedIndex ==
  ASSUME NEW ns \in Seq(Nodes), Len(ns) >= 1, NEW i \in Nat \ {0}
  PROVE  LET next == NextAccelerated(ns, i)
         IN  next = 0 \/ (next \in DOMAIN ns /\ ns[next] # Direct)
<1> DEFINE Index(offset) == ((i - 1 + offset) % Len(ns)) + 1
           Found == {o \in 1 .. Len(ns) : ns[Index(o)] # Direct}
           first == CHOOSE o \in Found : \A p \in Found : o <= p
<1>1. NextAccelerated(ns, i) = IF Found = {} THEN 0 ELSE Index(first)
  BY DEF NextAccelerated
<1>2. ASSUME Found # {}
      PROVE  first \in Found
  <2>1. Found \in SUBSET Nat
    OBVIOUS
  <2>2. \E o \in Found : \A p \in Found : o <= p
    <3> HIDE DEF Found
    <3> QED
      BY <1>2, <2>1, Least
  <2> HIDE DEF Found
  <2> QED
    BY <2>2
<1>3. ASSUME NEW o \in 1 .. Len(ns)
      PROVE  Index(o) \in DOMAIN ns
  <2>1. i - 1 + o \in Int /\ Len(ns) \in Nat \ {0}
    OBVIOUS
  <2>2. (i - 1 + o) % Len(ns) \in 0 .. Len(ns) - 1
    BY <2>1, Remainder
  <2>3. DOMAIN ns = 1 .. Len(ns)
    OBVIOUS
  <2> QED
    BY <2>1, <2>2, <2>3
<1>4. \A o \in Found : o \in 1 .. Len(ns) /\ ns[Index(o)] # Direct
  OBVIOUS
<1> HIDE DEF Found, Index, first
<1> QED
  BY <1>1, <1>2, <1>3, <1>4
=============================================================================
