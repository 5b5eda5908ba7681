-------------------------- MODULE NativeDownloadProofs --------------------------
(***************************************************************************)
(* What NativeDownload promises for every list of nodes, every set of      *)
(* ranges and any number of calls of the control.                          *)
(***************************************************************************)
EXTENDS NativeDownload, DownloadNodesProofs

\* A node is being tried, or was until now.
AtNode == {"probing", "ranges", "merge", "start", "single", "hash", "leave", "switch"}

\* The thread of a range has its request yet to send or to end.
Running == {"starting", "active", "aborted"}

\* The index is that of a node whenever one is tried.
NodeInv ==
  /\ stage \in {"begin", "digesting", "resolve"} => index = 1
  /\ stage \in AtNode => index \in DOMAIN nodes

\* No thread of a range outlives the parallel download, and what is returned is
\* what was compared with the digest.
FileInv ==
  /\ stage # "ranges" => \A r \in Ranges : range[r] \notin Running
  /\ stage = "completed" => file = "good"

Inv == TypeOK /\ interrupts <= calls /\ NodeInv /\ FileInv

-----------------------------------------------------------------------------
\* The initial state satisfies the invariant.
LEMMA InitInv == Init => Inv
<1> SUFFICES ASSUME Init PROVE Inv
  OBVIOUS
<1>1. <<>> \in Seq(Nodes) /\ Len(<<>>) = 0
  OBVIOUS
<1>2. nodes \in Seq(Nodes) /\ index \in 1 .. Len(nodes) + 1
  BY <1>1 DEF Init
<1>3. attempt \in 0 .. Retries /\ calls \in 0 .. MaxCalls /\ interrupts \in 0 .. MaxCalls
  BY DownloadAssumption DEF Init
<1>4. TypeOK
  BY <1>2, <1>3 DEF Init, TypeOK, Stages, Requests
<1> QED
  BY <1>4 DEF Init, Inv, NodeInv, FileInv, AtNode, Running

\* A call of the control changes neither the nodes nor the file.
LEMMA UserInv == Inv /\ User => Inv'
<1> SUFFICES ASSUME Inv, User PROVE Inv'
  OBVIOUS
<1> USE DEF Inv, User, Calls, UseAcceleration, NextAcceleratedNode, Pause, Resume, Cancel
<1>1. UNCHANGED <<stage, place, attempt, aborted, range, file, fault>>
  OBVIOUS
<1>2. TypeOK' /\ interrupts' <= calls'
  <2>1. acceleration' \in BOOLEAN /\ paused' \in BOOLEAN /\ cancelled' \in BOOLEAN
    BY DEF TypeOK
  <2>2. request' \in Requests
    BY DEF TypeOK, Requests
  <2>3. calls' \in 0 .. MaxCalls /\ interrupts' \in 0 .. MaxCalls /\ interrupts' <= calls'
    BY DownloadAssumption DEF TypeOK
  <2> QED
    BY <1>1, <2>1, <2>2, <2>3 DEF TypeOK, place
<1>3. NodeInv'
  BY <1>1 DEF NodeInv, place
<1>4. FileInv'
  BY <1>1 DEF FileInv
<1> QED
  BY <1>2, <1>3, <1>4

\* Neither does an interruption, which only closes what is active.
LEMMA InterruptInv == Inv /\ Interrupt => Inv'
<1> SUFFICES ASSUME Inv, Interrupt PROVE Inv'
  OBVIOUS
<1> USE DEF Inv, Interrupt, AbortActive, TypeOK, control, place
<1>1. TypeOK' /\ interrupts' <= calls'
  <2>1. interrupts' \in 0 .. MaxCalls /\ interrupts' <= calls'
    BY DownloadAssumption
  <2>2. aborted' \in BOOLEAN
    OBVIOUS
  <2>3. range' \in [Ranges -> {"none", "starting", "active", "aborted", "good", "bad", "broken"}]
    OBVIOUS
  <2> QED
    BY <2>1, <2>2, <2>3
<1>2. NodeInv'
  BY DEF NodeInv
<1>3. FileInv'
  BY DEF FileInv, Running
<1> QED
  BY <1>1, <1>2, <1>3

\* The thread of a range only changes what it and the other threads are doing.
LEMMA RangeInv == Inv /\ (\E r \in Ranges : StepOfRange(r)) => Inv'
<1> SUFFICES ASSUME Inv, NEW r \in Ranges, StepOfRange(r) PROVE Inv'
  OBVIOUS
<1> USE DEF Inv, StepOfRange, RangeStarts, RangeArrives, RangeFails, TypeOK, control, place
<1>1. range[r] \in Running
  BY DEF Running
<1>2. TypeOK' /\ interrupts' <= calls'
  OBVIOUS
<1>3. NodeInv'
  BY DEF NodeInv
<1>4. FileInv'
  BY <1>1 DEF FileInv
<1> QED
  BY <1>2, <1>3, <1>4

\* A switch goes to a node of the new list.
LEMMA SwitchIndex == Inv /\ AppliesSwitch => nodes' \in Seq(Nodes) /\ index' \in DOMAIN nodes'
<1> SUFFICES ASSUME Inv, AppliesSwitch PROVE nodes' \in Seq(Nodes) /\ index' \in DOMAIN nodes'
  OBVIOUS
<1>1. nodes' \in Seq(Nodes) /\ Len(nodes') >= 1
  BY ResolvedNodes DEF AppliesSwitch, Inv, TypeOK
<1>2. Position(nodes', nodes[index]) \in Nat \ {0}
  BY <1>1 DEF Position
<1>3. NextAccelerated(nodes', Position(nodes', nodes[index])) \in {0} \cup DOMAIN nodes'
  BY <1>1, <1>2, NextAcceleratedIndex
<1> QED
  BY <1>1, <1>3 DEF AppliesSwitch

\* Every step of download_and_verify keeps the types; only the index needs an
\* argument.
LEMMA StepType == Inv /\ Step => TypeOK' /\ interrupts' <= calls'
<1> SUFFICES ASSUME Inv, Step PROVE TypeOK' /\ interrupts' <= calls'
  OBVIOUS
<1> USE DEF Inv, TypeOK, Goto, Send, Fails, control, place, Stages, Active, Requests
<1>1. CASE Begin
  <2>1. stage' \in Stages /\ aborted' \in BOOLEAN
    BY <1>1 DEF Begin
  <2>2. UNCHANGED <<control, interrupts, place, attempt, range, file, fault, calls>>
    BY <1>1 DEF Begin
  <2> QED
    BY <2>1, <2>2
<1>2. CASE Digest
  BY <1>2 DEF Digest
<1>3. CASE ResolvesNodes
  <2>1. Resolved(acceleration) \in Seq(Nodes) /\ Len(Resolved(acceleration)) >= 1
    BY ResolvedNodes
  <2>2. index = 1
    BY <1>3 DEF ResolvesNodes, NodeInv
  <2> QED
    BY <1>3, <2>1, <2>2 DEF ResolvesNodes
<1>4. CASE NextNode
  <2>1. stage' \in Stages /\ aborted' \in BOOLEAN
    BY <1>4 DEF NextNode
  <2>2. UNCHANGED <<control, interrupts, place, attempt, range, file, fault, calls>>
    BY <1>4 DEF NextNode
  <2> QED
    BY <2>1, <2>2
<1>5. CASE ProbeNode
  <2>1. attempt' \in 0 .. Retries
    BY <1>5, DownloadAssumption DEF ProbeNode
  <2> QED
    BY <1>5, <2>1 DEF ProbeNode
<1>6. CASE RangesEnd
  BY <1>6 DEF RangesEnd
<1>7. CASE MergesParts
  BY <1>7 DEF MergesParts
<1>8. CASE StartSingle
  BY <1>8 DEF StartSingle
<1>9. CASE SingleArrives
  BY <1>9 DEF SingleArrives
<1>10. CASE SingleFails
  BY <1>10, DownloadAssumption DEF SingleFails
<1>11. CASE ComparesHash
  BY <1>11 DEF ComparesHash
<1>12. CASE LeavesNode
  <2>1. index \in DOMAIN nodes
    BY <1>12 DEF LeavesNode, NodeInv, AtNode
  <2> QED
    BY <1>12, <2>1 DEF LeavesNode
<1>13. CASE AppliesSwitch
  <2>1. nodes' \in Seq(Nodes) /\ index' \in DOMAIN nodes'
    BY <1>13, SwitchIndex
  <2> QED
    BY <1>13, <2>1 DEF AppliesSwitch
<1> QED
  BY <1>1, <1>2, <1>3, <1>4, <1>5, <1>6, <1>7, <1>8, <1>9, <1>10, <1>11, <1>12, <1>13
     DEF Step

\* Every step keeps what holds of the nodes.
LEMMA StepNode == Inv /\ Step => NodeInv'
<1> SUFFICES ASSUME Inv, Step PROVE NodeInv'
  OBVIOUS
<1> USE DEF Inv, NodeInv, AtNode, Goto, Send, control, place
<1>1. CASE Begin \/ Digest \/ ResolvesNodes
  BY <1>1 DEF Begin, Digest, ResolvesNodes
<1>2. CASE NextNode
  BY <1>2 DEF NextNode, TypeOK
<1>3. CASE ProbeNode
  BY <1>3 DEF ProbeNode
<1>4. CASE RangesEnd \/ MergesParts
  BY <1>4 DEF RangesEnd, MergesParts
<1>5. CASE StartSingle \/ SingleArrives \/ SingleFails
  BY <1>5 DEF StartSingle, SingleArrives, SingleFails
<1>6. CASE ComparesHash
  BY <1>6 DEF ComparesHash
<1>7. CASE LeavesNode
  BY <1>7 DEF LeavesNode
<1>8. CASE AppliesSwitch
  BY <1>8, SwitchIndex DEF AppliesSwitch
<1> QED
  BY <1>1, <1>2, <1>3, <1>4, <1>5, <1>6, <1>7, <1>8 DEF Step

\* Every step keeps what holds of the file and of the threads.
LEMMA StepFile == Inv /\ Step => FileInv'
<1> SUFFICES ASSUME Inv, Step PROVE FileInv'
  OBVIOUS
<1> USE DEF Inv, FileInv, Running, Goto, Send, control, place
<1>1. CASE Begin \/ Digest \/ ResolvesNodes \/ NextNode
  BY <1>1 DEF Begin, Digest, ResolvesNodes, NextNode
<1>2. CASE ProbeNode
  BY <1>2 DEF ProbeNode
<1>3. CASE RangesEnd
  BY <1>3 DEF RangesEnd
<1>4. CASE MergesParts \/ StartSingle \/ SingleArrives \/ SingleFails
  BY <1>4 DEF MergesParts, StartSingle, SingleArrives, SingleFails
<1>5. CASE ComparesHash
  BY <1>5 DEF ComparesHash
<1>6. CASE LeavesNode \/ AppliesSwitch
  BY <1>6 DEF LeavesNode, AppliesSwitch
<1> QED
  BY <1>1, <1>2, <1>3, <1>4, <1>5, <1>6 DEF Step

-----------------------------------------------------------------------------
\* The invariant holds in every state of every download.
THEOREM Invariance == Spec => []Inv
<1>1. Inv /\ [Next]_vars => Inv'
  <2> SUFFICES ASSUME Inv, [Next]_vars PROVE Inv'
    OBVIOUS
  <2>1. CASE User
    BY <2>1, UserInv
  <2>2. CASE Interrupt
    BY <2>2, InterruptInv
  <2>3. CASE Step
    BY <2>3, StepType, StepNode, StepFile DEF Inv
  <2>4. CASE \E r \in Ranges : StepOfRange(r)
    BY <2>4, RangeInv
  <2>5. CASE UNCHANGED vars
    BY <2>5 DEF vars, control, place, Inv, TypeOK, NodeInv, FileInv
  <2> QED
    BY <2>1, <2>2, <2>3, <2>4, <2>5 DEF Next
<1> QED
  BY <1>1, InitInv, PTL DEF Spec

\* download_and_verify and the control stay within their types; the index is
\* never past the nodes when one is used.
THEOREM DownloadTypes == Spec => []TypeOK
  BY Invariance, PTL DEF Inv

\* download_and_verify returns the file that was compared with the digest, and no
\* thread of an attempt that failed still writes a part of it.
THEOREM ReturnedAlways == Spec => []Returned
<1>1. Inv => Returned
  BY DEF Inv, FileInv, Running, Returned
<1> QED
  BY <1>1, Invariance, PTL
=============================================================================
