---------------------------- MODULE NativeSession ----------------------------
(***************************************************************************)
(* DownloadSession, DownloadControl and the callback slot of the native    *)
(* frontend (native/src/UpdateKit.cpp): one application thread, the worker *)
(* thread of the current download, and the changed callback either of them *)
(* may be in.                                                              *)
(*                                                                         *)
(* A thread is a stack of frames, the innermost first.  No mutex but that  *)
(* of a callback slot is held while foreign code runs, so what happens     *)
(* between two unlocks is one step; the session's mutex and that of the    *)
(* control are taken one after the other, and other threads get between.   *)
(* start, wait_for_stop without a timeout and the destructor join the      *)
(* worker and are taken to be called by the application outside of the     *)
(* callback.                                                               *)
(***************************************************************************)
EXTENDS Integers, Sequences

CONSTANTS
  MaxCalls, \* bound: calls of the session
  MaxSlots  \* bound: callbacks registered

Slots   == 1 .. MaxSlots
NoSlot  == 0
Threads == {"ui", "worker"}

ASSUME SessionAssumption == MaxCalls \in Nat /\ MaxSlots \in Nat \ {0}

VARIABLES
  state,        \* snapshot_.state
  background,   \* snapshot_.background
  acceleration, \* snapshot_.acceleration
  downloaded,   \* is snapshot_.downloaded_path set?
  control,      \* the flags of *control_; constructed is FALSE for nullptr
  work,         \* what the worker thread is doing
  finished,     \* worker_finished_
  changed,      \* changed_, the slot in use
  slots,        \* slots registered so far
  active,       \* CallbackSlot::active
  retirer,      \* history: the threads that made a slot inactive
  stack,        \* frames of each thread
  gone,         \* the session is being destroyed, or is destroyed
  calls         \* calls made so far

snapshot == <<state, background, acceleration, downloaded>>
worker   == <<work, finished>>
callback == <<changed, slots, active, retirer>>
sessionVars == <<snapshot, control, worker, callback, stack, gone, calls>>

Ongoing  == {"downloading", "paused"}
Terminal == {"completed", "failed", "cancelled"}
States   == {"idle"} \cup Ongoing \cup Terminal
Labels   ==
  {"pause1", "pause2", "resume1", "resume2", "background", "prefer", "publish",
   "stopping", "joining", "retire", "destroy", "notify", "deliver", "callback"}

At(th, l)     == stack[th] # <<>> /\ Head(stack[th]).at = l
Frame(l)      == [at |-> l]
Push(th, fs)  == stack' = [stack EXCEPT ![th] = fs \o @]
Become(th, fs) == stack' = [stack EXCEPT ![th] = fs \o Tail(@)]
Return(th)    == stack' = [stack EXCEPT ![th] = Tail(@)]

InCallback(th, s) ==
  \E i \in DOMAIN stack[th] : stack[th][i].at = "callback" /\ stack[th][i].slot = s

\* lock (slot.mutex) does not wait: a recursive mutex.
SlotFree(th, s) == \A u \in Threads \ {th} : ~InCallback(u, s)

SessionTypeOK ==
  /\ state \in States
  /\ background \in BOOLEAN
  /\ acceleration \in BOOLEAN
  /\ downloaded \in BOOLEAN
  /\ control \in [constructed : BOOLEAN, paused : BOOLEAN, cancelled : BOOLEAN, preferred : BOOLEAN]
  /\ work \in {"none", "running", "blocked", "ending", "ended"}
  /\ finished \in BOOLEAN
  /\ changed \in {NoSlot} \cup Slots
  /\ slots \in 0 .. MaxSlots
  /\ active \in [Slots -> BOOLEAN]
  /\ retirer \in [Slots -> SUBSET Threads]
  /\ \A th \in Threads : \A i \in DOMAIN stack[th] : stack[th][i].at \in Labels
  /\ gone \in BOOLEAN
  /\ calls \in 0 .. MaxCalls

SessionInit ==
  /\ state = "idle"
  /\ background = FALSE
  /\ acceleration = TRUE
  /\ downloaded = FALSE
  /\ control = [constructed |-> FALSE, paused |-> FALSE, cancelled |-> FALSE, preferred |-> TRUE]
  /\ work = "none"
  /\ finished = TRUE
  /\ changed = NoSlot
  /\ slots = 0
  /\ active = [s \in Slots |-> TRUE]
  /\ retirer = [s \in Slots |-> {}]
  /\ stack = [th \in Threads |-> <<>>]
  /\ gone = FALSE
  /\ calls = 0

(***************************************************************************)
(* Calls: by the application, or from the callback                         *)
(***************************************************************************)
Outside == stack["ui"] = <<>> /\ ~gone

CallIf(allowed) ==
  /\ calls < MaxCalls
  /\ allowed
  /\ calls' = calls + 1

Calls(th) == CallIf(At(th, "callback") \/ (th = "ui" /\ Outside))

\* start: not while a download is going on ...
Start ==
  /\ CallIf(Outside)
  /\ state \notin Ongoing
  /\ Push("ui", <<Frame("joining")>>)
  /\ UNCHANGED <<snapshot, control, worker, callback, gone>>

Joinable == work \in {"none", "ended"} /\ stack["worker"] = <<>>

\* ... join the last worker, and begin with a new control and a new snapshot.
StartsWork ==
  /\ At("ui", "joining")
  /\ Joinable
  /\ \E preferred \in BOOLEAN :
       /\ control' = [constructed |-> TRUE, paused |-> FALSE,
                      cancelled |-> FALSE, preferred |-> preferred]
       /\ acceleration' = preferred
  /\ state' = "downloading"
  /\ background' = FALSE
  /\ downloaded' = FALSE
  /\ work' = "running"
  /\ finished' = FALSE
  /\ Become("ui", <<Frame("notify")>>)
  /\ UNCHANGED <<callback, gone, calls>>

\* pause and pause_when_ui_closes: control_->pause() comes first.
Pause(th) ==
  /\ Calls(th)
  /\ control.constructed
  /\ Push(th, <<[at |-> "pause1", closing |-> FALSE]>>)
  /\ UNCHANGED <<snapshot, control, worker, callback, gone>>

PauseWhenUiCloses(th) ==
  /\ Calls(th)
  /\ state = "downloading"
  /\ Push(th, <<[at |-> "pause1", closing |-> TRUE]>>)
  /\ UNCHANGED <<snapshot, control, worker, callback, gone>>

PausesControl(th) ==
  /\ At(th, "pause1")
  /\ control' = [control EXCEPT !.paused = @ \/ ~control.cancelled]
  /\ Become(th, <<[Head(stack[th]) EXCEPT !.at = "pause2"]>>)
  /\ UNCHANGED <<snapshot, worker, callback, gone, calls>>

PausesState(th) ==
  /\ At(th, "pause2")
  /\ IF state = "downloading"
     THEN state' = "paused" /\ Become(th, <<Frame("notify")>>)
     ELSE UNCHANGED state /\ Return(th)
  /\ UNCHANGED <<background, acceleration, downloaded, control, worker, callback, gone, calls>>

\* resume, by itself or (then = TRUE) from continue_in_background
Resume(th) ==
  /\ Calls(th)
  /\ control.constructed
  /\ Push(th, <<[at |-> "resume1", then |-> FALSE]>>)
  /\ UNCHANGED <<snapshot, control, worker, callback, gone>>

ContinueInBackground(th) ==
  /\ Calls(th)
  /\ Push(th, <<IF state = "paused" THEN [at |-> "resume1", then |-> TRUE]
                                    ELSE Frame("background")>>)
  /\ UNCHANGED <<snapshot, control, worker, callback, gone>>

\* Mutant: the state is not looked at again under the mutex.
ResumesAnyState(th) ==
  /\ At(th, "resume1")
  /\ state' = "downloading"
  /\ Become(th, <<[Head(stack[th]) EXCEPT !.at = "resume2"]>>)
  /\ UNCHANGED <<background, acceleration, downloaded, control, worker, callback, gone, calls>>

ResumesState(th) ==
  /\ At(th, "resume1")
  /\ IF state = "paused"
     THEN /\ state' = "downloading"
          /\ Become(th, <<[Head(stack[th]) EXCEPT !.at = "resume2"]>>)
     ELSE UNCHANGED state /\ Return(th)
  /\ UNCHANGED <<background, acceleration, downloaded, control, worker, callback, gone, calls>>

ResumesControl(th) ==
  /\ At(th, "resume2")
  /\ control' = [control EXCEPT !.paused = FALSE]
  /\ Become(th, <<Frame("notify")>> \o
                (IF Head(stack[th]).then THEN <<Frame("background")>> ELSE <<>>))
  /\ UNCHANGED <<snapshot, worker, callback, gone, calls>>

GoesToBackground(th) ==
  /\ At(th, "background")
  /\ IF state = "downloading"
     THEN background' = TRUE /\ Become(th, <<Frame("notify")>>)
     ELSE UNCHANGED background /\ Return(th)
  /\ UNCHANGED <<state, acceleration, downloaded, control, worker, callback, gone, calls>>

\* set_acceleration: the snapshot is compared, the control told (unless it is
\* cancelled), the snapshot replaced.
SetAcceleration(th) ==
  /\ Calls(th)
  /\ control.constructed
  /\ Push(th, <<[at |-> "prefer", enabled |-> ~acceleration]>>)
  /\ UNCHANGED <<snapshot, control, worker, callback, gone>>

PrefersNodes(th) ==
  /\ At(th, "prefer")
  /\ control' = [control EXCEPT
       !.preferred = IF control.cancelled THEN @ ELSE Head(stack[th]).enabled]
  /\ Become(th, <<[Head(stack[th]) EXCEPT !.at = "publish"]>>)
  /\ UNCHANGED <<snapshot, worker, callback, gone, calls>>

PublishesPreference(th) ==
  /\ At(th, "publish")
  /\ acceleration' = Head(stack[th]).enabled
  /\ Become(th, <<Frame("notify")>>)
  /\ UNCHANGED <<state, background, downloaded, control, worker, callback, gone, calls>>

\* control_->cancel() and request_stop; a waiting request is interrupted.
Cancelled == control' = [control EXCEPT !.cancelled = TRUE, !.paused = FALSE]

Cancel(th) ==
  /\ Calls(th)
  /\ control.constructed
  /\ Cancelled
  /\ UNCHANGED <<snapshot, worker, callback, stack, gone>>

\* wait_for_stop: cancel, then wait for worker_finished_ ...
WaitForStop(th) ==
  /\ Calls(th)
  /\ IF control.constructed THEN Cancelled ELSE UNCHANGED control
  /\ Push(th, <<Frame("stopping")>>)
  /\ UNCHANGED <<snapshot, worker, callback, gone>>

\* ... and join, or give up when the timeout is over (the worker itself would
\* be thrown out of join).
WaitEnds(th) ==
  /\ At(th, "stopping")
  /\ (finished /\ Joinable) \/ th = "worker"
  /\ Return(th)
  /\ UNCHANGED <<snapshot, control, worker, callback, gone, calls>>

WaitTimesOut(th) ==
  /\ At(th, "stopping")
  /\ ~finished
  /\ Return(th)
  /\ UNCHANGED <<snapshot, control, worker, callback, gone, calls>>

DiscardCompleted(th) ==
  /\ Calls(th)
  /\ downloaded
  /\ downloaded' = FALSE
  /\ UNCHANGED <<state, background, acceleration, control, worker, callback, stack, gone>>

\* The slot changes under the session's mutex; the prior one is closed after.
Exchange(new) ==
  /\ changed' = new
  /\ UNCHANGED <<active, retirer>>

Closing(s) == IF s = NoSlot THEN <<>> ELSE <<[at |-> "retire", slot |-> s]>>

SetChangedCallback(th) ==
  /\ Calls(th)
  /\ \/ Exchange(NoSlot) /\ UNCHANGED slots
     \/ /\ slots < MaxSlots
        /\ slots' = slots + 1
        /\ Exchange(slots')
  /\ Push(th, Closing(changed))
  /\ UNCHANGED <<snapshot, control, worker, gone>>

\* Mutant: the prior slot is made inactive while its callback may be running.
RetiresAtOnce(th) ==
  /\ At(th, "retire")
  /\ active' = [active EXCEPT ![Head(stack[th]).slot] = FALSE]
  /\ retirer' = [retirer EXCEPT ![Head(stack[th]).slot] = @ \cup {th}]
  /\ Return(th)
  /\ UNCHANGED <<snapshot, control, worker, changed, slots, gone, calls>>

Retires(th) ==
  /\ At(th, "retire")
  /\ SlotFree(th, Head(stack[th]).slot)
  /\ active' = [active EXCEPT ![Head(stack[th]).slot] = FALSE]
  /\ retirer' = [retirer EXCEPT ![Head(stack[th]).slot] = @ \cup {th}]
  /\ Return(th)
  /\ UNCHANGED <<snapshot, control, worker, changed, slots, gone, calls>>

\* ~DownloadSession: set_changed_callback({}), cancel, join
Destroy ==
  /\ Outside
  /\ gone' = TRUE
  /\ Exchange(NoSlot)
  /\ Push("ui", Closing(changed) \o <<Frame("destroy")>>)
  /\ UNCHANGED <<snapshot, control, worker, slots, calls>>

\* Mutant: the destructor only joins.
DestroyJoins ==
  /\ At("ui", "destroy")
  /\ Joinable
  /\ Return("ui")
  /\ UNCHANGED <<snapshot, control, worker, callback, gone, calls>>

DestroyCancels ==
  /\ At("ui", "destroy")
  /\ \/ ~Joinable /\ ~control.cancelled /\ Cancelled /\ UNCHANGED stack
     \/ Joinable /\ Return("ui") /\ UNCHANGED control
  /\ UNCHANGED <<snapshot, worker, callback, gone, calls>>

(***************************************************************************)
(* The worker                                                              *)
(***************************************************************************)
Working == work = "running" /\ stack["worker"] = <<>>

\* Progress is written to the snapshot; most of the reports notify.
ReportsProgress ==
  /\ Working
  /\ calls < MaxCalls
  /\ calls' = calls + 1
  /\ Push("worker", <<Frame("notify")>>)
  /\ UNCHANGED <<snapshot, control, worker, callback, gone>>

\* wait_if_paused
Blocks ==
  /\ Working
  /\ control.paused
  /\ work' = "blocked"
  /\ UNCHANGED <<snapshot, control, finished, callback, stack, gone, calls>>

Wakes ==
  /\ work = "blocked"
  /\ ~control.paused \/ control.cancelled
  /\ work' = "running"
  /\ UNCHANGED <<snapshot, control, finished, callback, stack, gone, calls>>

\* download_and_verify returns a path, or it throws; a late cancel is not noticed.
EndsWith(result) ==
  /\ Working
  /\ work' = "ending"
  /\ state' = result
  /\ Push("worker", <<Frame("notify")>>)
  /\ UNCHANGED <<background, acceleration, control, finished, callback, gone, calls>>

Completes == EndsWith("completed") /\ downloaded' = TRUE

Throws ==
  /\ EndsWith(IF control.cancelled THEN "cancelled" ELSE "failed")
  /\ UNCHANGED downloaded

\* Mutant: the worker is reported finished before it has said how it ended.
FinishesEarly ==
  /\ work = "running"
  /\ ~finished
  /\ finished' = TRUE
  /\ UNCHANGED <<snapshot, control, work, callback, stack, gone, calls>>

Finishes ==
  /\ work = "ending"
  /\ stack["worker"] = <<>>
  /\ work' = "ended"
  /\ finished' = TRUE
  /\ UNCHANGED <<snapshot, control, callback, stack, gone, calls>>

(***************************************************************************)
(* notify                                                                  *)
(***************************************************************************)
CopiesSnapshot(th) ==
  /\ At(th, "notify")
  /\ IF changed = NoSlot
     THEN Return(th)
     ELSE Become(th, <<[at |-> "deliver", slot |-> changed]>>)
  /\ UNCHANGED <<snapshot, control, worker, callback, gone, calls>>

Delivers(th) ==
  /\ At(th, "deliver")
  /\ LET f == Head(stack[th])
     IN  /\ SlotFree(th, f.slot)
         /\ IF active[f.slot]
            THEN Become(th, <<[at |-> "callback", slot |-> f.slot]>>)
            ELSE Return(th)
  /\ UNCHANGED <<snapshot, control, worker, callback, gone, calls>>

CallbackReturns(th) ==
  /\ At(th, "callback")
  /\ Return(th)
  /\ UNCHANGED <<snapshot, control, worker, callback, gone, calls>>

(***************************************************************************)
(* The whole                                                               *)
(***************************************************************************)
CallsSession(th) ==
  \/ Pause(th)
  \/ PauseWhenUiCloses(th)
  \/ Resume(th)
  \/ ContinueInBackground(th)
  \/ SetAcceleration(th)
  \/ Cancel(th)
  \/ WaitForStop(th)
  \/ DiscardCompleted(th)
  \/ SetChangedCallback(th)

GoesOn(th) ==
  \/ PausesControl(th)
  \/ PausesState(th)
  \/ ResumesState(th)
  \/ ResumesControl(th)
  \/ GoesToBackground(th)
  \/ PrefersNodes(th)
  \/ PublishesPreference(th)
  \/ WaitEnds(th)
  \/ WaitTimesOut(th)
  \/ Retires(th)
  \/ CopiesSnapshot(th)
  \/ Delivers(th)
  \/ CallbackReturns(th)

Downloads ==
  \/ ReportsProgress
  \/ Blocks
  \/ Wakes
  \/ Completes
  \/ Throws
  \/ Finishes

Owns == Start \/ StartsWork \/ Destroy \/ DestroyCancels

SessionNext ==
  \/ \E th \in Threads : CallsSession(th) \/ GoesOn(th)
  \/ Downloads
  \/ Owns

SessionSpec == SessionInit /\ [][SessionNext]_sessionVars

\* Threads are scheduled, callbacks return, and a download that was cancelled
\* notices: every request takes the token and is interrupted.
FairSession ==
  /\ SessionSpec
  /\ \A th \in Threads : WF_sessionVars(GoesOn(th))
  /\ WF_sessionVars(StartsWork) /\ WF_sessionVars(DestroyCancels)
  /\ WF_sessionVars(Wakes) /\ WF_sessionVars(Finishes)
  /\ SF_sessionVars(control.cancelled /\ Throws)

(***************************************************************************)
(* Properties                                                              *)
(***************************************************************************)
\* Once set_changed_callback has replaced a callback, the old one neither runs
\* nor will run again, except that it may itself have asked for it.
QuietAfterReset ==
  \A s \in Slots : ~active[s] =>
    \A th \in Threads \ retirer[s] : ~InCallback(th, s)

\* When wait_for_stop says that the worker has stopped, its outcome is there to
\* be read, whatever pauses and resumes were under way.
FinishedIsTerminal == (finished /\ state # "idle") => state \in Terminal

\* A download that has ended stays as it ended until the next one is started.
OutcomeStays ==
  [][(state \in Terminal /\ state' # state) => At("ui", "joining")]_sessionVars

\* A session that is being destroyed comes to its end, paused or not, and takes
\* the worker with it.
DestroyEnds == gone ~> (stack["ui"] = <<>> /\ Joinable)
=============================================================================
