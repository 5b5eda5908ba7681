------------------------- MODULE ManagedDownloadProofs -------------------------
(***************************************************************************)
(* What ManagedDownload promises for every list of nodes, every set of     *)
(* ranges and any number of calls of the control.                          *)
(***************************************************************************)
EXTENDS ManagedDownload, DownloadNodesProofs

\* A node is being tried, or was until now.
AtNode == {"probe", "ranges", "start", "single", "leave", "hash", "save", "switch"}

\* The index is that of a node whenever one is tried, and the nodes are those of
\* the mode that was read last.  After a switch there is a node to go to, unless
\* only the official one is left.
NodeInv ==
  /\ stage \in {"published", "resolve"} => index = 1 /\ fault = "none"
  /\ stage \in AtNode => index \in DOMAIN nodes
  /\ stage \in AtNode \cup {"loop"} => nodes = Resolved(was)
  /\ (stage = "loop" /\ fault = "switch") => index \in DOMAIN nodes \/ nodes = <<Direct>>
  /\ SwitchKeepsDownload

\* No task of a range outlives the parallel download, and what is about to be
\* returned is what was compared with the digest.
FileInv ==
  /\ stage # "ranges" => \A r \in Ranges : range[r] # "active"
  /\ stage \in {"save", "completed"} => file = "good"

Inv == TypeOK /\ NodeInv /\ FileInv

-----------------------------------------------------------------------------
\* The initial state satisfies the invariant.
LEMMA InitInv == Init => Inv
<1> SUFFICES ASSUME Init PROVE Inv
  OBVIOUS
<1>1. <<>> \in Seq(Nodes) /\ Len(<<>>) = 0
  OBVIOUS
<1>2. nodes \in Seq(Nodes) /\ index \in 1 .. Len(nodes) + 1
  BY <1>1 DEF Init
<1>3. attempt \in 0 .. Retries /\ calls \in 0 .. MaxCalls
  BY DownloadAssumption DEF Init
<1>4. TypeOK
  BY <1>2, <1>3 DEF Init, TypeOK, Stages, Verdicts, Requests
<1> QED
  BY <1>4 DEF Init, Inv, NodeInv, FileInv, SwitchKeepsDownload, AtNode

\* A call of the control changes neither the nodes nor the file.
LEMMA UserInv == Inv /\ User => Inv'
<1> SUFFICES ASSUME Inv, User PROVE Inv'
  OBVIOUS
<1> USE DEF Inv, User, Calls, SetUseAccelerationNodes, RequestNextAcceleratedNode, Pause,
        Resume, Cancel
<1>1. UNCHANGED <<stage, place, attempt, range, file, fault>>
  OBVIOUS
<1>2. TypeOK'
  <2>1. use' \in BOOLEAN /\ switching' \in BOOLEAN /\ paused' \in BOOLEAN /\ cancelled' \in BOOLEAN
    BY DEF TypeOK
  <2>2. calls' \in 0 .. MaxCalls
    BY DownloadAssumption DEF TypeOK
  <2> QED
    BY <1>1, <2>1, <2>2 DEF TypeOK, place
<1>3. NodeInv'
  BY <1>1 DEF NodeInv, SwitchKeepsDownload, place
<1>4. FileInv'
  BY <1>1 DEF FileInv
<1> QED
  BY <1>2, <1>3, <1>4

\* Leaving a node keeps the types.
LEMMA LeavesNodeType ==
  ASSUME TypeOK, LeavesNode, index \in DOMAIN nodes, UNCHANGED range,
         file' \in {"none", "partial", "good", "bad"}
  PROVE  TypeOK'
<1> USE DEF TypeOK, LeavesNode
<1>1. request' \in Requests
  BY DEF Consumed, Requests
<1>2. index' \in 1 .. Len(nodes') + 1 /\ nodes' \in Seq(Nodes)
  BY DEF Goto
<1>3. stage' \in Stages
  BY DEF Goto, Stages
<1>4. switching' \in BOOLEAN /\ fault' \in {"none", "own", "switch"}
  OBVIOUS
<1> QED
  BY <1>1, <1>2, <1>3, <1>4

\* Every action keeps the types; only the index needs an argument.
LEMMA StepType == Inv /\ (Step \/ \E r \in Ranges : RangeEnds(r)) => TypeOK'
<1> SUFFICES ASSUME Inv, Step \/ \E r \in Ranges : RangeEnds(r) PROVE TypeOK'
  OBVIOUS
<1> USE DEF Inv, TypeOK, Goto, control, place, Stages, Verdicts, Requests
<1>1. CASE PublishedSha256
  BY <1>1 DEF PublishedSha256
<1>2. CASE ResolvesNodes
  <2>1. Resolved(use) \in Seq(Nodes) /\ Len(Resolved(use)) >= 1
    BY ResolvedNodes
  <2>2. index = 1
    BY <1>2 DEF ResolvesNodes, NodeInv
  <2> QED
    BY <1>2, <2>1, <2>2 DEF ResolvesNodes
<1>3. CASE NextNode
  BY <1>3 DEF NextNode
<1>4. CASE ProbeNode
  <2>1. index \in DOMAIN nodes
    BY <1>4 DEF ProbeNode, NodeInv, AtNode
  <2>2. CASE LeavesNode /\ UNCHANGED file
    BY <2>1, <2>2, LeavesNodeType DEF LeavesNode
  <2>3. CASE ~(LeavesNode /\ UNCHANGED file)
    <3>1. attempt' \in 0 .. Retries
      BY <1>4, <2>3, DownloadAssumption DEF ProbeNode
    <3> QED
      BY <1>4, <2>3, <3>1 DEF ProbeNode
  <2> QED
    BY <2>2, <2>3
<1>5. CASE AppliesSwitch
  <2>1. nodes' \in Seq(Nodes) /\ Len(nodes') >= 1
    BY <1>5, ResolvedNodes DEF AppliesSwitch
  <2>2. index \in Nat \ {0}
    OBVIOUS
  <2>3. NextAccelerated(nodes', index) \in {0} \cup DOMAIN nodes'
    BY <2>1, <2>2, NextAcceleratedIndex
  <2>4. index' \in DOMAIN nodes'
    BY <1>5, <2>1, <2>3 DEF AppliesSwitch
  <2> QED
    BY <1>5, <2>1, <2>4 DEF AppliesSwitch
<1>6. CASE RangesEnd
  BY <1>6 DEF RangesEnd, TriesDelete, Interrupted
<1>7. CASE StartSingle
  BY <1>7 DEF StartSingle, TriesDelete
<1>8. CASE SingleArrives
  BY <1>8 DEF SingleArrives
<1>9. CASE SingleFails
  BY <1>9, DownloadAssumption DEF SingleFails
<1>10. CASE ComparesHash
  BY <1>10 DEF ComparesHash
<1>11. CASE SavesSuccess
  BY <1>11 DEF SavesSuccess
<1>12. CASE CatchesNodeFailure
  <2>1. index \in DOMAIN nodes
    BY <1>12 DEF CatchesNodeFailure, NodeInv, AtNode
  <2> QED
    BY <1>12, <2>1, LeavesNodeType DEF CatchesNodeFailure, TriesDelete, LeavesNode
<1>13. CASE \E r \in Ranges : RangeEnds(r)
  BY <1>13 DEF RangeEnds
<1> QED
  BY <1>1, <1>2, <1>3, <1>4, <1>5, <1>6, <1>7, <1>8, <1>9, <1>10, <1>11, <1>12, <1>13
     DEF Step

\* Every action keeps what holds of the nodes.
LEMMA StepNode == Inv /\ (Step \/ \E r \in Ranges : RangeEnds(r)) => NodeInv'
<1> SUFFICES ASSUME Inv, Step \/ \E r \in Ranges : RangeEnds(r) PROVE NodeInv'
  OBVIOUS
<1> USE DEF Inv, NodeInv, SwitchKeepsDownload, AtNode, Goto, control, place
<1>1. CASE PublishedSha256
  BY <1>1 DEF PublishedSha256
<1>2. CASE ResolvesNodes
  BY <1>2 DEF ResolvesNodes
<1>3. CASE NextNode
  BY <1>3 DEF NextNode, TypeOK
<1>4. ASSUME LeavesNode, stage \in {"probe", "leave"}
      PROVE  NodeInv'
  <2>1. CASE Consumed = "none"
    <3>1. switching => nodes = <<Direct>>
      BY <1>4, <2>1 DEF Consumed, Resolved, TypeOK
    <3> QED
      BY <1>4, <2>1, <3>1 DEF LeavesNode
  <2>2. CASE Consumed # "none"
    BY <1>4, <2>2 DEF LeavesNode
  <2> QED
    BY <2>1, <2>2
<1>5. CASE ProbeNode
  BY <1>4, <1>5 DEF ProbeNode
<1>6. CASE AppliesSwitch
  <2>1. nodes' \in Seq(Nodes) /\ Len(nodes') >= 1
    BY <1>6, ResolvedNodes DEF AppliesSwitch, TypeOK
  <2>2. index \in Nat \ {0}
    BY DEF TypeOK
  <2>3. NextAccelerated(nodes', index) \in {0} \cup DOMAIN nodes'
    BY <2>1, <2>2, NextAcceleratedIndex
  <2>4. index' \in DOMAIN nodes'
    BY <1>6, <2>1, <2>3 DEF AppliesSwitch
  <2> QED
    BY <1>6, <2>4 DEF AppliesSwitch
<1>7. CASE RangesEnd
  BY <1>7 DEF RangesEnd
<1>8. CASE StartSingle
  BY <1>8 DEF StartSingle
<1>9. CASE SingleArrives
  BY <1>9 DEF SingleArrives
<1>10. CASE SingleFails
  BY <1>10 DEF SingleFails
<1>11. CASE ComparesHash
  BY <1>11 DEF ComparesHash
<1>12. CASE SavesSuccess
  BY <1>12 DEF SavesSuccess
<1>13. CASE CatchesNodeFailure
  BY <1>4, <1>13 DEF CatchesNodeFailure
<1>14. CASE \E r \in Ranges : RangeEnds(r)
  BY <1>14 DEF RangeEnds
<1> QED
  BY <1>1, <1>2, <1>3, <1>5, <1>6, <1>7, <1>8, <1>9, <1>10, <1>11, <1>12, <1>13, <1>14
     DEF Step

\* Every action keeps what holds of the file and of the tasks of the ranges.
LEMMA StepFile == Inv /\ (Step \/ \E r \in Ranges : RangeEnds(r)) => FileInv'
<1> SUFFICES ASSUME Inv, Step \/ \E r \in Ranges : RangeEnds(r) PROVE FileInv'
  OBVIOUS
<1> USE DEF Inv, FileInv, Goto, control, place
<1>1. CASE PublishedSha256
  BY <1>1 DEF PublishedSha256
<1>2. CASE ResolvesNodes \/ NextNode \/ AppliesSwitch
  BY <1>2 DEF ResolvesNodes, NextNode, AppliesSwitch
<1>3. CASE ProbeNode
  BY <1>3 DEF ProbeNode, LeavesNode
<1>4. CASE RangesEnd
  BY <1>4 DEF RangesEnd
<1>5. CASE StartSingle \/ SingleArrives \/ SingleFails
  BY <1>5 DEF StartSingle, SingleArrives, SingleFails
<1>6. CASE ComparesHash \/ SavesSuccess
  BY <1>6 DEF ComparesHash, SavesSuccess
<1>7. CASE CatchesNodeFailure
  BY <1>7 DEF CatchesNodeFailure, LeavesNode
<1>8. CASE \E r \in Ranges : RangeEnds(r)
  BY <1>8 DEF RangeEnds, TypeOK
<1> QED
  BY <1>1, <1>2, <1>3, <1>4, <1>5, <1>6, <1>7, <1>8 DEF Step

-----------------------------------------------------------------------------
\* The invariant holds in every state of every download.
THEOREM Invariance == Spec => []Inv
<1>1. Inv /\ [Next]_vars => Inv'
  <2> SUFFICES ASSUME Inv, [Next]_vars PROVE Inv'
    OBVIOUS
  <2>1. CASE User
    BY <2>1, UserInv
  <2>2. CASE Step \/ \E r \in Ranges : RangeEnds(r)
    BY <2>2, StepType, StepNode, StepFile DEF Inv
  <2>3. CASE UNCHANGED vars
    BY <2>3 DEF vars, control, place, Inv, TypeOK, NodeInv, FileInv, SwitchKeepsDownload
  <2> QED
    BY <2>1, <2>2, <2>3 DEF Next
<1> QED
  BY <1>1, InitInv, PTL DEF Spec

\* DownloadAndVerifyAsync and the control stay within their types; the index is
\* never that of no node.
THEOREM DownloadTypes == Spec => []TypeOK
  BY Invariance, PTL DEF Inv

\* DownloadAndVerifyAsync returns the file that was compared with the digest, and
\* no task of an attempt that failed writes to it.
THEOREM ReturnedAlways == Spec => []Returned
<1>1. Inv => Returned
  BY DEF Inv, FileInv, Returned
<1> QED
  BY <1>1, Invariance, PTL

\* With acceleration nodes in use, a node switch does not fail the download,
\* however often and whenever the control is called.
THEOREM SwitchAlwaysKeeps == Spec => []SwitchKeepsDownload
<1>1. Inv => SwitchKeepsDownload
  BY DEF Inv, NodeInv
<1> QED
  BY <1>1, Invariance, PTL
=============================================================================
