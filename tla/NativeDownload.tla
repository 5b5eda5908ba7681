---------------------------- MODULE NativeDownload ----------------------------
(***************************************************************************)
(* UpdateClient::download_and_verify with what it calls, and               *)
(* DownloadControl (native/src/UpdateKit.cpp), which other threads use at  *)
(* the same time.                                                          *)
(*                                                                         *)
(* A call of the control that interrupts has two steps: it sets its flag   *)
(* under the mutex, and then closes the requests that are active at that   *)
(* moment, those of the attempt it meant or of a later one.  A request is  *)
(* active from the step that sends it to the step that ends it; each range *)
(* has a thread of its own.                                                *)
(***************************************************************************)
EXTENDS DownloadNodes, FiniteSets

CONSTANTS
  Ranges,   \* the byte ranges of a parallel download
  Retries,  \* retries_per_node
  MaxCalls  \* bound: calls of the control

ASSUME DownloadAssumption ==
  /\ IsFiniteSet(Ranges)
  /\ Retries \in 0 .. 1
  /\ MaxCalls \in Nat

VARIABLES
  acceleration, \* acceleration_
  request,      \* node_switch_request_
  paused,       \* paused_
  cancelled,    \* cancelled_
  interrupts,   \* calls that have yet to close the active requests
  stage,        \* where download_and_verify is
  nodes,        \* the nodes resolved last
  index,        \* index, counted from 1
  taken,        \* the switch request that was consumed
  attempt,      \* attempt on the single connection
  aborted,      \* the request of this stage was closed by abort_active
  range,        \* what the thread of each range is doing
  file,         \* content of output_path, "none" also when it is incomplete
  fault,        \* history: whether the last failure was an interruption
  calls         \* calls made so far

control == <<acceleration, request, paused, cancelled>>
place   == <<nodes, index, taken>>
vars    == <<control, interrupts, stage, place, attempt, aborted, range, file,
             fault, calls>>

Requests == {"none", "next", "useAcceleration", "useOfficial"}
Active   == {"digesting", "probing", "single"}
Stages   == {"begin", "resolve", "loop", "probe", "ranges", "merge", "start",
             "hash", "leave", "switch", "completed", "failed"} \cup Active

TypeOK ==
  /\ acceleration \in BOOLEAN
  /\ request \in Requests
  /\ paused \in BOOLEAN
  /\ cancelled \in BOOLEAN
  /\ interrupts \in 0 .. MaxCalls
  /\ stage \in Stages
  /\ nodes \in Seq(Nodes)
  /\ index \in 1 .. Len(nodes) + 1
  /\ taken \in Requests
  /\ attempt \in 0 .. Retries
  /\ aborted \in BOOLEAN
  /\ range \in [Ranges -> {"none", "starting", "active", "aborted", "good", "bad",
          "broken"}]
  /\ file \in {"none", "good", "bad"}
  /\ fault \in {"none", "own", "interrupted"}
  /\ calls \in 0 .. MaxCalls

Init ==
  /\ acceleration \in BOOLEAN
  /\ request = "none"
  /\ paused = FALSE
  /\ cancelled = FALSE
  /\ interrupts = 0
  /\ stage = "begin"
  /\ nodes = <<>>
  /\ index = 1
  /\ taken = "none"
  /\ attempt = 0
  /\ aborted = FALSE
  /\ range = [r \in Ranges |-> "none"]
  /\ file = "none"
  /\ fault = "none"
  /\ calls = 0

Ended   == stage \in {"completed", "failed"}
Goto(s) == stage' = s

\* A request is sent that abort_active can close.
Send(s) == Goto(s) /\ aborted' = FALSE

\* wait_if_paused does not return.
Held == paused /\ ~cancelled

(***************************************************************************)
(* The control                                                             *)
(***************************************************************************)
Calls ==
  /\ ~Ended
  /\ calls < MaxCalls
  /\ calls' = calls + 1
  /\ UNCHANGED <<stage, place, attempt, aborted, range, file, fault>>

UseAcceleration ==
  /\ Calls
  /\ ~cancelled
  /\ acceleration' = ~acceleration
  /\ request' = IF acceleration' THEN "useAcceleration" ELSE "useOfficial"
  /\ interrupts' = interrupts + 1
  /\ UNCHANGED <<paused, cancelled>>

NextAcceleratedNode ==
  /\ Calls
  /\ acceleration
  /\ ~cancelled
  /\ request' = "next"
  /\ interrupts' = interrupts + 1
  /\ UNCHANGED <<acceleration, paused, cancelled>>

Pause ==
  /\ Calls
  /\ paused' = ~cancelled
  /\ UNCHANGED <<acceleration, request, cancelled, interrupts>>

Resume ==
  /\ Calls
  /\ paused' = FALSE
  /\ UNCHANGED <<acceleration, request, cancelled, interrupts>>

Cancel ==
  /\ Calls
  /\ cancelled' = TRUE
  /\ paused' = FALSE
  /\ interrupts' = interrupts + 1
  /\ UNCHANGED <<acceleration, request>>

\* abort_active closes every request that is active.
AbortActive ==
  /\ aborted' = (aborted \/ stage \in Active)
  /\ range' = [r \in Ranges |-> IF range[r] = "active" THEN "aborted" ELSE range[r]]

\* request_interrupt, which does nothing once the download has ended.
Interrupt ==
  /\ interrupts > 0
  /\ interrupts' = interrupts - 1
  /\ IF Ended THEN UNCHANGED <<aborted, range>> ELSE AbortActive
  /\ UNCHANGED <<control, stage, place, attempt, file, fault, calls>>

(***************************************************************************)
(* The published digest and the nodes                                      *)
(***************************************************************************)
Fails == fault' = IF aborted THEN "interrupted" ELSE "own"

\* ensure_running, then the .sha256 asset is requested.
Begin ==
  /\ stage = "begin"
  /\ ~Held
  /\ IF cancelled THEN Goto("failed") /\ UNCHANGED aborted ELSE Send("digesting")
  /\ UNCHANGED <<control, interrupts, place, attempt, range, file, fault, calls>>

\* A failure here is outside of the loop over the nodes and ends the download.
Digest ==
  /\ stage = "digesting"
  /\ \/ ~aborted /\ Goto("resolve") /\ UNCHANGED fault
     \/ Goto("failed") /\ Fails
  /\ UNCHANGED <<control, interrupts, place, attempt, aborted, range, file, calls>>

ResolvesNodes ==
  /\ stage = "resolve"
  /\ nodes' = Resolved(acceleration)
  /\ Goto("loop")
  /\ UNCHANGED <<control, interrupts, index, taken, attempt, aborted, range, file,
          fault, calls>>

\* while (index < nodes.size()) ensure_running
NextNode ==
  /\ stage = "loop"
  /\ IF index > Len(nodes)
     THEN Goto("failed") /\ UNCHANGED aborted
     ELSE /\ ~Held
          /\ IF cancelled THEN Goto("leave") /\ UNCHANGED aborted ELSE Send("probing")
  /\ UNCHANGED <<control, interrupts, place, attempt, range, file, fault, calls>>

(***************************************************************************)
(* A node                                                                  *)
(***************************************************************************)
\* With ranges and enough bytes the download is parallel.
ProbeNode ==
  /\ stage = "probing"
  /\ \/ /\ ~Held
        /\ ~aborted
        /\ ~cancelled
        /\ \/ Goto("ranges") /\ range' = [r \in Ranges |-> "starting"]
           \/ Goto("start") /\ UNCHANGED range
        /\ UNCHANGED fault
     \/ Goto("leave") /\ Fails /\ UNCHANGED range
  /\ attempt' = 0
  /\ UNCHANGED <<control, interrupts, place, aborted, file, calls>>

RangeStarts(r) ==
  /\ range[r] = "starting"
  /\ range' = [range EXCEPT ![r] = "active"]
  /\ UNCHANGED <<control, interrupts, stage, place, attempt, aborted, file, fault, calls>>

RangeArrives(r) ==
  /\ range[r] = "active"
  /\ ~Held
  /\ ~cancelled
  /\ \E s \in {"good", "bad"} : range' = [range EXCEPT ![r] = s]
  /\ UNCHANGED <<control, interrupts, stage, place, attempt, aborted, file, fault, calls>>

\* A range that fails has the others closed.  A pause holds back what arrives;
\* a request that is in flight may still fail.
RangeFails(r) ==
  /\ range[r] \in {"active", "aborted"}
  /\ range' = [s \in Ranges |-> IF s = r THEN "broken"
                                ELSE IF range[s] = "active" THEN "aborted" ELSE range[s]]
  /\ UNCHANGED <<control, interrupts, stage, place, attempt, aborted, file, fault, calls>>

\* Mutant: the threads are not joined when one has failed.
RangesNotJoined ==
  /\ stage = "ranges"
  /\ IF \E r \in Ranges : range[r] = "broken"
     THEN Goto(IF cancelled \/ request # "none" THEN "leave" ELSE "start")
     ELSE (\A r \in Ranges : range[r] \in {"good", "bad"}) /\ Goto("merge")
  /\ UNCHANGED <<control, interrupts, place, attempt, aborted, range, file, fault, calls>>

\* workers.clear() joins every thread.  When one failed, the same node is asked
\* again on a single connection, unless the download was cancelled or a switch
\* requested.
RangesEnd ==
  /\ stage = "ranges"
  /\ \A r \in Ranges : range[r] \in {"good", "bad", "broken"}
  /\ IF \E r \in Ranges : range[r] = "broken"
     THEN Goto(IF cancelled \/ request # "none" THEN "leave" ELSE "start")
     ELSE Goto("merge")
  /\ UNCHANGED <<control, interrupts, place, attempt, aborted, range, file, fault, calls>>

\* The parts are put together and removed, or something is wrong with them.
MergesParts ==
  /\ stage = "merge"
  /\ \/ /\ file' = IF \E r \in Ranges : range[r] = "bad" THEN "bad" ELSE "good"
        /\ Goto("hash")
     \/ /\ file' = "none"
        /\ Goto(IF cancelled \/ request # "none" THEN "leave" ELSE "start")
  /\ UNCHANGED <<control, interrupts, place, attempt, aborted, range, fault, calls>>

\* download_single opens the file anew and sends its request.
StartSingle ==
  /\ stage = "start"
  /\ Send("single")
  /\ file' = "none"
  /\ UNCHANGED <<control, interrupts, place, attempt, range, fault, calls>>

\* The whole file is received, with the right size.
SingleArrives ==
  /\ stage = "single"
  /\ ~Held
  /\ ~aborted
  /\ ~cancelled
  /\ file' \in {"good", "bad"}
  /\ Goto("hash")
  /\ UNCHANGED <<control, interrupts, place, attempt, aborted, range, fault, calls>>

\* It fails or was closed: once more on the same node, whatever was requested
\* meanwhile, unless this was the last attempt.
SingleFails ==
  /\ stage = "single"
  /\ Fails
  /\ IF attempt < Retries
     THEN attempt' = attempt + 1 /\ Goto("start")
     ELSE UNCHANGED attempt /\ Goto("leave")
  /\ UNCHANGED <<control, interrupts, place, aborted, range, file, calls>>

\* The digest is compared, the cache written as far as it can be, and the path
\* returned.  It may differ, or the file cannot be read.
ComparesHash ==
  /\ stage = "hash"
  /\ \/ file = "good" /\ Goto("completed") /\ UNCHANGED fault
     \/ Goto("leave") /\ fault' = "own"
  /\ UNCHANGED <<control, interrupts, place, attempt, aborted, range, file, calls>>

\* Mutant: the switch request is read but not taken.
LeavesNodeStillAsked ==
  /\ stage = "leave"
  /\ IF cancelled
     THEN Goto("failed") /\ UNCHANGED <<taken, index>>
     ELSE /\ taken' = request
          /\ IF request = "none"
             THEN index' = index + 1 /\ Goto("loop")
             ELSE UNCHANGED index /\ Goto("switch")
  /\ UNCHANGED <<control, interrupts, nodes, attempt, aborted, range, file, fault, calls>>

\* The catch clause of the loop: cancelled, switched or failed.
LeavesNode ==
  /\ stage = "leave"
  /\ IF cancelled
     THEN Goto("failed") /\ UNCHANGED <<request, taken, index>>
     ELSE /\ taken' = request
          /\ request' = "none"
          /\ IF request = "none"
             THEN index' = index + 1 /\ Goto("loop")
             ELSE UNCHANGED index /\ Goto("switch")
  /\ UNCHANGED <<acceleration, paused, cancelled, interrupts, nodes, attempt,
          aborted, range, file, fault, calls>>

\* Where the node of the attempt is in the nodes resolved anew, else the last.
Position(ns, node) ==
  IF \E i \in DOMAIN ns : ns[i] = node
  THEN CHOOSE i \in DOMAIN ns : ns[i] = node ELSE Len(ns)

\* The nodes are resolved anew.  When none is left to go to, the download ends.
AppliesSwitch ==
  /\ stage = "switch"
  /\ nodes' = Resolved(acceleration)
  /\ LET next == IF taken = "next"
                 THEN NextAccelerated(nodes', Position(nodes', nodes[index])) ELSE 1
     IN  IF next = 0
         THEN index' = 1 /\ Goto("failed") /\ fault' = "interrupted"
         ELSE index' = next /\ Goto("loop") /\ UNCHANGED fault
  /\ UNCHANGED <<control, interrupts, taken, attempt, aborted, range, file, calls>>

Step ==
  \/ Begin
  \/ Digest
  \/ ResolvesNodes
  \/ NextNode
  \/ ProbeNode
  \/ RangesEnd
  \/ MergesParts
  \/ StartSingle
  \/ SingleArrives
  \/ SingleFails
  \/ ComparesHash
  \/ LeavesNode
  \/ AppliesSwitch

StepOfRange(r) == RangeStarts(r) \/ RangeArrives(r) \/ RangeFails(r)

User ==
  \/ UseAcceleration
  \/ NextAcceleratedNode
  \/ Pause
  \/ Resume
  \/ Cancel

Next == User \/ Interrupt \/ Step \/ \E r \in Ranges : StepOfRange(r)

Spec == Init /\ [][Next]_vars

\* Every request has its timeouts; nothing need happen while a pause holds the
\* download.
FairSpec ==
  /\ Spec
  /\ WF_vars(~Held /\ Step)
  /\ WF_vars(Interrupt)
  /\ \A r \in Ranges : WF_vars(~Held /\ StepOfRange(r))

(***************************************************************************)
(* Properties                                                              *)
(***************************************************************************)
\* What is returned is the file that was verified, and no thread of an attempt
\* that failed goes on writing a part of it.
Returned ==
  stage = "completed" =>
    /\ file = "good"
    /\ \A r \in Ranges : range[r] \notin {"starting", "active", "aborted"}

\* A download ends, cancelled or not, unless a pause holds it back: the nodes,
\* the attempts and the switches do not keep it going round.
DownloadEnds == <>[](Ended \/ Held)
=============================================================================
