------------------------------ MODULE MCNodeCache ------------------------------
\* A small instance of NodeCache for TLC: two acceleration nodes, manifests with valid,
\* disabled and equally ranked nodes and some that one frontend refuses, Releases with
\* insecure and duplicate nodes.
EXTENDS NodeCache, TLC

CONSTANTS a, b

MCIds == {Direct, a, b}

Node(id, priority, enabled, template) ==
  [id |-> id, priority |-> priority, enabled |-> enabled, template |-> template]

MCManifests == {
  <<Node(a, 10, TRUE, "https"), Official, Node(b, 1000, TRUE, "https")>>,
  <<Node(b, 2000, TRUE, "https"), Node(a, 1000, FALSE, "https"), Official>>,
  <<Official, Node(a, 1000, TRUE, "plain")>>,
  <<Node(a, 10, TRUE, "https"), Node(a, 20, TRUE, "https"), Official>>}

MCHostLists == {
  <<>>,
  <<Node(a, 10, TRUE, "invalid"), Node(a, Limit + 1, TRUE, "https"), Node(a, 20, TRUE, "https")>>}

MCBuiltIns == <<Node(a, 10, TRUE, "https"), Node(b, 20, TRUE, "https")>>

Symmetry == Permutations(Processes)
=============================================================================
