----------------------------- MODULE DownloadNodes -----------------------------
(***************************************************************************)
(* The nodes of a download, in the order that ResolveNodes                 *)
(* (src/DesktopUpdateKit/UpdateClient.cs) and resolve_nodes                *)
(* (native/src/UpdateKit.cpp) give them.                                   *)
(***************************************************************************)
EXTENDS Integers, Sequences

CONSTANTS
  Order,  \* the enabled nodes
  Direct  \* "github-direct", always among them

ASSUME NodesAssumption ==
  /\ Order \in Seq({Order[i] : i \in DOMAIN Order})
  /\ \E i \in DOMAIN Order : Order[i] = Direct

Nodes == {Order[i] : i \in DOMAIN Order}

\* The official node alone, or all of them.
Resolved(acceleration) == IF acceleration THEN Order ELSE <<Direct>>

\* The next node after current, all around, that is not the official one; 0 for
\* none.
NextAccelerated(ns, current) ==
  LET Index(offset) == ((current - 1 + offset) % Len(ns)) + 1
      Found == {o \in 1 .. Len(ns) : ns[Index(o)] # Direct}
  IN  IF Found = {} THEN 0
      ELSE Index(CHOOSE o \in Found : \A p \in Found : o <= p)
=============================================================================
