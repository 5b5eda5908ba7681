---------------------------- MODULE NodeResolution ----------------------------
(***************************************************************************)
(* Which nodes a download tries and in which order, for both frontends:    *)
(* resolve_nodes and parse_release (native/src/UpdateKit.cpp),             *)
(* ResolveNodes and ParseManifestNodes (UpdateClient.cs), as functions of  *)
(* the nodes of the Release and of the cache.  An id stands for all its    *)
(* spellings that differ in case, a template for what its checks find.     *)
(***************************************************************************)
EXTENDS Integers, Sequences, FiniteSets, Functions

CONSTANTS
  Ids,      \* of nodes
  Direct,   \* the id "github-direct"
  BuiltIns, \* BuiltInNodes of the managed client
  Limit     \* of a priority: 10000

Clients == {"native", "managed"}
Nodes == [id : Ids, priority : Int, enabled : BOOLEAN, template : {"plain", "https", "invalid"}]

ASSUME ResolutionAssumption == Direct \in Ids /\ BuiltIns \in Seq(Nodes) /\ Limit \in Nat

Official == [id |-> Direct, priority |-> 1000, enabled |-> TRUE, template |-> "plain"]

\* normalize_node and TryNormalizeNode: "plain" is {url} alone, "https" a secure URL around it.
NativeValid(n) ==
  IF n.id = Direct THEN n.template = "plain" /\ n.enabled ELSE n.template = "https"
ManagedValid(n) == n.template # "invalid"
Valid(client, n) == IF client = "native" THEN NativeValid(n) ELSE ManagedValid(n)

Clamped(p) == IF p > Limit THEN Limit ELSE IF p < -Limit THEN -Limit ELSE p
Normal(n) == IF n.id = Direct THEN Official ELSE [n EXCEPT !.priority = Clamped(@)]

-----------------------------------------------------------------------------
\* The members of a finite set in the order that a set of pairs gives them: so many of
\* them are in front of each.
Arranged(S, before) ==
  [k \in 1 .. Cardinality(S) |->
     CHOOSE x \in S : Cardinality({y \in S : <<y, x>> \in before}) = k - 1]

Listed(ns, places) == [k \in DOMAIN places |-> ns[places[k]]]

\* The nodes at some of the places of a list.
Ascending(places) == {p \in places \X places : p[1] < p[2]}
Chosen(ns, places) == Listed(ns, Arranged(places, Ascending(places)))

\* std::stable_sort and OrderBy
Before(ns) ==
  {p \in (DOMAIN ns) \X (DOMAIN ns) :
     \/ ns[p[1]].priority < ns[p[2]].priority
     \/ ns[p[1]].priority = ns[p[2]].priority /\ p[1] < p[2]}
ByPriority(ns) == Listed(ns, Arranged(DOMAIN ns, Before(ns)))

-----------------------------------------------------------------------------
\* The normalised nodes: of the valid ones, the first of each id.
First(client, ns, i) ==
  /\ Valid(client, ns[i])
  /\ \A j \in 1 .. (i - 1) : ns[j].id = ns[i].id => ~Valid(client, ns[j])
Kept(client, ns) ==
  LET kept == Chosen(ns, {i \in DOMAIN ns : First(client, ns, i)})
  IN [k \in DOMAIN kept |-> Normal(kept[k])]

\* The nodes of a manifest; one that is not valid refuses the manifest.
AcceptsNodes(client, ns) ==
  /\ ns # <<>>
  /\ \A i \in DOMAIN ns : Valid(client, ns[i]) /\ ns[i].priority \in (-Limit) .. Limit
  /\ \A i, j \in DOMAIN ns : ns[i].id = ns[j].id => i = j
  /\ \E i \in DOMAIN ns : ns[i].id = Direct

Parsed(client, ns) == ByPriority(Kept(client, ns))

-----------------------------------------------------------------------------
Others(ns)  == Chosen(ns, {i \in DOMAIN ns : ns[i].id # Direct})
Enabled(ns) == Chosen(ns, {i \in DOMAIN ns : ns[i].enabled})

\* Mutant: the official node is put in front before the stable sort.
NativeNodesOfficialFirst(release, cached) ==
  LET configured == Kept("native", IF release = <<>> THEN cached ELSE release)
  IN Enabled(ByPriority(<<Official>> \o Others(configured)))

NativeNodes(release, cached) ==
  LET configured == Kept("native", IF release = <<>> THEN cached ELSE release)
  IN Enabled(ByPriority(Append(Others(configured), Official)))

ManagedNodes(release, cached) ==
  LET configured == IF Kept("managed", release) # <<>> THEN Kept("managed", release)
                    ELSE IF Kept("managed", cached) # <<>> THEN Kept("managed", cached)
                    ELSE Kept("managed", BuiltIns)
  IN ByPriority(Enabled(Append(Others(configured), Official)))

\* The node of the last verified download goes to the front.
LastFirst(ns, last) ==
  IF \E n \in Range(ns) : n.id = last
  THEN Chosen(ns, {i \in DOMAIN ns : ns[i].id = last})
         \o Chosen(ns, {i \in DOMAIN ns : ns[i].id # last})
  ELSE ns

\* Of a download with acceleration.  Without, it is the official node alone.
Resolved(client, release, cache) ==
  LastFirst(IF client = "native" THEN NativeNodes(release, cache.nodes)
            ELSE ManagedNodes(release, cache.nodes), cache.last)

-----------------------------------------------------------------------------
\* There is a node to try, the official one once among them, none twice, none that is
\* disabled or was not normalised, and all but the first are in the order of their
\* priorities.
Ordered(client, r, cache) ==
  LET rest == IF r[1].id = cache.last THEN 2 ELSE 1
  IN /\ Official \in Range(r)
     /\ \A i, j \in DOMAIN r : r[i].id = r[j].id => i = j
     /\ \A n \in Range(r) : n.enabled /\ Valid(client, n) /\ n = Normal(n)
     /\ \A i, j \in DOMAIN r : rest <= i /\ i < j => r[i].priority <= r[j].priority
=============================================================================
