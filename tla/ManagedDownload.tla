---------------------------- MODULE ManagedDownload ----------------------------
(***************************************************************************)
(* UpdateClient.DownloadAndVerifyAsync with what it calls                  *)
(* (src/DesktopUpdateKit/UpdateClient.cs) and UpdateDownloadControl        *)
(* (UpdateModels.cs), which other threads use at the same time.            *)
(*                                                                         *)
(* A request is a step that sends it and a step that ends it; a range has  *)
(* a task of its own.  An answer is right, wrong in its bytes but not in   *)
(* its size, or not acceptable at all (an error, a timeout, HTML, a size   *)
(* or a Content-Range that does not match).                                *)
(***************************************************************************)
EXTENDS DownloadNodes, FiniteSets

CONSTANTS
  Ranges,   \* the byte ranges of a parallel download
  Retries,  \* EffectiveMaxRetriesPerNode
  MaxCalls  \* bound: calls of the control

ASSUME DownloadAssumption ==
  /\ IsFiniteSet(Ranges)
  /\ Retries \in 0 .. 1
  /\ MaxCalls \in Nat

VARIABLES
  use,       \* _useAccelerationNodes
  switching, \* _nodeSwitchCancellation is cancelled
  paused,    \* _resumeSignal is not null
  cancelled, \* cancellationToken is cancelled
  stage,     \* where DownloadAndVerifyAsync is
  was,       \* usingAccelerationNodes
  nodes,     \* the nodes resolved last
  index,     \* nodeIndex, counted from 1
  request,   \* the switch request that was consumed
  attempt,   \* attempt on the single connection
  range,     \* what the task of each range is doing
  file,      \* content of downloadedPath
  fault,     \* history: whether the last failure was a switch or the source's own
  calls      \* calls made so far

control == <<use, switching, paused, cancelled>>
place   == <<was, nodes, index, request>>
vars    == <<control, stage, place, attempt, range, file, fault, calls>>

Verdicts == {"completed", "failed", "cancelled"}
Requests == {"none", "next", "useAcceleration", "useDirect"}
Stages   == Verdicts \cup
  {"published", "resolve", "loop", "probe", "ranges", "start", "single", "leave",
   "hash", "save", "switch"}

TypeOK ==
  /\ use \in BOOLEAN
  /\ switching \in BOOLEAN
  /\ paused \in BOOLEAN
  /\ cancelled \in BOOLEAN
  /\ stage \in Stages
  /\ was \in BOOLEAN
  /\ nodes \in Seq(Nodes)
  /\ index \in 1 .. Len(nodes) + 1
  /\ request \in Requests
  /\ attempt \in 0 .. Retries
  /\ range \in [Ranges -> {"none", "active", "good", "bad", "broken"}]
  /\ file \in {"none", "partial", "good", "bad"}
  /\ fault \in {"none", "own", "switch"}
  /\ calls \in 0 .. MaxCalls

Init ==
  /\ use \in BOOLEAN
  /\ switching = FALSE
  /\ paused = FALSE
  /\ cancelled = FALSE
  /\ stage = "published"
  /\ was = use
  /\ nodes = <<>>
  /\ index = 1
  /\ request = "none"
  /\ attempt = 0
  /\ range = [r \in Ranges |-> "none"]
  /\ file = "none"
  /\ fault = "none"
  /\ calls = 0

Ended == stage \in Verdicts
Goto(s) == stage' = s

\* The token of the attempt, linked to that of the caller.
Interrupted == cancelled \/ switching

\* Mutant: WaitIfPausedAsync does not look at the token.
HeldUntilResume == paused

\* Before each read WaitIfPausedAsync waits for Resume or for that token.
Held == paused /\ ~Interrupted

(***************************************************************************)
(* The control                                                             *)
(***************************************************************************)
Calls ==
  /\ ~Ended
  /\ calls < MaxCalls
  /\ calls' = calls + 1
  /\ UNCHANGED <<stage, place, attempt, range, file, fault>>

SetUseAccelerationNodes ==
  /\ Calls
  /\ use' = ~use
  /\ switching' = TRUE
  /\ UNCHANGED <<paused, cancelled>>

RequestNextAcceleratedNode ==
  /\ Calls
  /\ use
  /\ ~switching
  /\ switching' = TRUE
  /\ UNCHANGED <<use, paused, cancelled>>

Pause ==
  /\ Calls
  /\ paused' = TRUE
  /\ UNCHANGED <<use, switching, cancelled>>

Resume ==
  /\ Calls
  /\ paused' = FALSE
  /\ UNCHANGED <<use, switching, cancelled>>

Cancel ==
  /\ Calls
  /\ cancelled' = TRUE
  /\ UNCHANGED <<use, switching, paused>>

(***************************************************************************)
(* The published digest and the nodes                                      *)
(***************************************************************************)
\* The .sha256 asset is read from the official address and compared.
PublishedSha256 ==
  /\ stage = "published"
  /\ \/ Goto("resolve")
     \/ Goto("failed")
     \/ cancelled /\ Goto("cancelled")
  /\ UNCHANGED <<control, place, attempt, range, file, fault, calls>>

ResolvesNodes ==
  /\ stage = "resolve"
  /\ was' = use
  /\ nodes' = Resolved(use)
  /\ Goto("loop")
  /\ UNCHANGED <<control, index, request, attempt, range, file, fault, calls>>

\* while (nodeIndex < nodes.Count)
NextNode ==
  /\ stage = "loop"
  /\ Goto(IF index > Len(nodes) THEN "failed"
          ELSE IF cancelled THEN "cancelled" ELSE "probe")
  /\ UNCHANGED <<control, place, attempt, range, file, fault, calls>>

(***************************************************************************)
(* A node                                                                  *)
(***************************************************************************)
\* Mutant: only a change of mode is a request.
ConsumedMode ==
  IF ~switching \/ use = was THEN "none"
  ELSE (IF use THEN "useAcceleration" ELSE "useDirect")

\* ConsumeNodeSwitchRequest compares what is wanted now with what was used.
Consumed ==
  IF ~switching THEN "none"
  ELSE IF use = was THEN (IF use THEN "next" ELSE "none")
  ELSE (IF use THEN "useAcceleration" ELSE "useDirect")

\* Mutant: the token source is not replaced, so that the request stays.
LeavesNodeStillAsked ==
  /\ request' = Consumed
  /\ fault' = IF switching THEN "switch" ELSE "own"
  /\ IF Consumed = "none"
     THEN index' = index + 1 /\ Goto("loop")
     ELSE UNCHANGED index /\ Goto("switch")
  /\ UNCHANGED <<control, was, nodes, attempt, range, calls>>

\* The node is left: because a switch was requested, or because it failed.
LeavesNode ==
  /\ switching' = FALSE
  /\ request' = Consumed
  /\ fault' = IF switching THEN "switch" ELSE "own"
  /\ IF Consumed = "none"
     THEN index' = index + 1 /\ Goto("loop")
     ELSE UNCHANGED index /\ Goto("switch")
  /\ UNCHANGED <<use, paused, cancelled, was, nodes, attempt, range, calls>>

\* TryApplyNodeSwitchRequest resolves the nodes anew.  When it finds no node to
\* go to, its caller counts a failure and goes to the one after that.
AppliesSwitch ==
  /\ stage = "switch"
  /\ was' = use
  /\ nodes' = Resolved(use)
  /\ LET next == IF request = "next" THEN NextAccelerated(nodes', index) ELSE 1
     IN  index' = IF next = 0 THEN 1 ELSE next
  /\ Goto("loop")
  /\ UNCHANGED <<control, request, attempt, range, file, fault, calls>>

\* ProbeNodeAsync returns null whatever goes wrong, the caller's cancellation
\* included.  With ranges and enough bytes the download is parallel, if the file
\* can be created; FileMode.CreateNew refuses one that could not be deleted.
ProbeNode ==
  /\ stage = "probe"
  /\ \/ /\ file = "none"
        /\ Goto("ranges")
        /\ range' = [r \in Ranges |-> "active"]
        /\ file' = "partial"
        /\ attempt' = 0
        /\ UNCHANGED <<control, place, fault, calls>>
     \/ /\ Goto("start")
        /\ attempt' = 0
        /\ UNCHANGED <<control, place, range, file, fault, calls>>
     \/ LeavesNode /\ UNCHANGED file

\* TryDeleteFile ignores a failure.
TriesDelete == file' \in {"none", file}

\* One range: the task ends with its bytes or without.  A pause holds the next
\* read back, but one in flight may still fail.
RangeEnds(r) ==
  /\ range[r] = "active"
  /\ \E s \in {"good", "bad", "broken"} :
       /\ Held => s = "broken"
       /\ range' = [range EXCEPT ![r] = s]
  /\ file' = "partial"
  /\ UNCHANGED <<control, stage, place, attempt, fault, calls>>

\* Mutant: the first range that fails decides.
RangesFailFast ==
  /\ stage = "ranges"
  /\ \E r \in Ranges : range[r] = "broken"
  /\ Goto("start")
  /\ TriesDelete
  /\ UNCHANGED <<control, place, attempt, range, fault, calls>>

\* Task.WhenAll waits for every task, and the flush heeds the token.  Another
\* failure of the parallel download falls back to a single connection to the
\* same node.
RangesEnd ==
  /\ stage = "ranges"
  /\ \A r \in Ranges : range[r] # "active"
  /\ range' = [r \in Ranges |-> "none"]
  /\ \/ Interrupted /\ Goto("leave") /\ UNCHANGED file
     \/ /\ \E r \in Ranges : range[r] = "broken"
        /\ Goto("start")
        /\ TriesDelete
     \/ /\ \A r \in Ranges : range[r] # "broken"
        /\ Goto("hash")
        /\ file' = IF \E r \in Ranges : range[r] = "bad" THEN "bad" ELSE "good"
  /\ UNCHANGED <<control, place, attempt, fault, calls>>

\* An attempt on a single connection: the file is deleted and the request sent.
StartSingle ==
  /\ stage = "start"
  /\ TriesDelete
  /\ Goto(IF Interrupted THEN "leave" ELSE "single")
  /\ UNCHANGED <<control, place, attempt, range, fault, calls>>

\* The whole file is received, with the right size.
SingleArrives ==
  /\ stage = "single"
  /\ ~Held
  /\ file = "none"
  /\ file' \in {"good", "bad"}
  /\ Goto("hash")
  /\ UNCHANGED <<control, place, attempt, range, fault, calls>>

\* The attempt fails: once more, unless that was the last one.
SingleFails ==
  /\ stage = "single"
  /\ file' \in {file, "partial"}
  /\ IF attempt < Retries /\ ~Interrupted
     THEN attempt' = attempt + 1 /\ Goto("start")
     ELSE UNCHANGED attempt /\ Goto("leave")
  /\ UNCHANGED <<control, place, range, fault, calls>>

\* It differs, or the file cannot be read.
ComparesHash ==
  /\ stage = "hash"
  /\ \/ file = "good" /\ Goto("save")
     \/ Goto("leave")
     \/ cancelled /\ Goto("cancelled")
  /\ UNCHANGED <<control, place, attempt, range, file, fault, calls>>

\* The cache is written as far as it can be, and the path returned.
SavesSuccess ==
  /\ stage = "save"
  /\ Goto("completed")
  /\ UNCHANGED <<control, place, attempt, range, file, fault, calls>>

\* The catch clauses of the loop.
CatchesNodeFailure ==
  /\ stage = "leave"
  /\ TriesDelete
  /\ \/ LeavesNode
     \/ /\ cancelled
        /\ Goto("cancelled")
        /\ UNCHANGED <<control, place, attempt, range, fault, calls>>

Step ==
  \/ PublishedSha256
  \/ ResolvesNodes
  \/ NextNode
  \/ ProbeNode
  \/ AppliesSwitch
  \/ RangesEnd
  \/ StartSingle
  \/ SingleArrives
  \/ SingleFails
  \/ ComparesHash
  \/ SavesSuccess
  \/ CatchesNodeFailure

User ==
  \/ SetUseAccelerationNodes
  \/ RequestNextAcceleratedNode
  \/ Pause
  \/ Resume
  \/ Cancel

Next == User \/ Step \/ \E r \in Ranges : RangeEnds(r)

Spec == Init /\ [][Next]_vars

\* Every request has its timeouts and is told of its token; nothing need happen
\* while a pause holds the download.
FairSpec ==
  /\ Spec
  /\ WF_vars(~Held /\ Step)
  /\ \A r \in Ranges : WF_vars(~Held /\ RangeEnds(r))

(***************************************************************************)
(* Properties                                                              *)
(***************************************************************************)
\* What is returned is the file that was verified: nothing of an attempt that
\* failed is written to it afterwards.
Returned == stage = "completed" => file = "good"

\* A node switch or a cancellation is answered, even while the download is
\* paused.
InterruptAnswered == Interrupted ~> (Ended \/ ~Interrupted)

\* A download ends, unless a pause holds it back: the nodes, the attempts and
\* the switches do not keep it going round.
DownloadEnds == <>[](Ended \/ Held)

\* With acceleration nodes in use, switching interrupts the attempt at a node and
\* not the download: it fails only when the last node has failed by itself.
SwitchKeepsDownload == (stage = "failed" /\ fault = "switch") => nodes = <<Direct>>
=============================================================================
