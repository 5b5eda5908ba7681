---------------------------- MODULE ManagedSession ----------------------------
(***************************************************************************)
(* UpdateDownloadSession (src/DesktopUpdateKit/UpdateDownloadSession.cs):  *)
(* the threads that call it, the download it runs, its two locks and the   *)
(* Changed event.                                                          *)
(*                                                                         *)
(* A thread is a stack of frames, the innermost first, because three kinds *)
(* of code run inside another call: a Changed handler may call the session *)
(* again, a download that fails before its first await ends inside         *)
(* TryStart, and a cancelled download may resume inside the call that      *)
(* cancels it.  A lock is held by the thread with a frame that holds it,   *)
(* and the same thread may take it again.  A call that neither invokes     *)
(* foreign code nor takes the other lock under _sync is one step.          *)
(***************************************************************************)
EXTENDS Integers, Sequences

CONSTANTS
  Callers,     \* threads of the application
  MaxRuns,     \* bound: downloads started; run r works on thread r
  MaxCalls,    \* bound: calls of the session
  MaxReports   \* bound: progress reports

Runs    == 1 .. MaxRuns
Threads == Callers \cup Runs

ASSUME SessionAssumption ==
  /\ MaxRuns \in Nat \ {0}
  /\ MaxCalls \in Nat
  /\ MaxReports \in Nat
  /\ Callers \cap Runs = {}

VARIABLES
  state,      \* _snapshot.State
  background, \* _snapshot.ContinueInBackground
  accelerate, \* _snapshot.UseAccelerationNodes
  version,    \* how often _snapshot was replaced
  run,        \* the run that owns _control and _cancellation, 0 for null
  begun,      \* runs started so far
  paused,     \* the _resumeSignal of each run's control is set
  cancelled,  \* the token of each run is cancelled
  work,       \* what the asynchronous method of each run is doing
  disposed,   \* _disposed
  disposer,   \* history: the thread that disposed the session, {} before
  stack,      \* frames of each thread
  shown,      \* history: version last delivered to Changed
  calls,      \* calls made so far
  reports     \* progress reports made so far

snapshot == <<state, background, accelerate, version>>
tasks    == <<run, begun, paused, cancelled, work>>
life     == <<disposed, disposer>>
sessionVars == <<snapshot, tasks, life, stack, shown, calls, reports>>

Ongoing  == {"Downloading", "Paused"}
Terminal == {"Completed", "Failed", "Cancelled"}
Waiting  == {"await", "blocked"}

\* Frames that hold _sync and those that hold _callbackSync.
SyncFrames     == {"starting", "cancelling", "stopping", "disposing"}
CallbackFrames == {"read", "invoke", "handler", "dispose", "disposing"}
Labels == SyncFrames \cup CallbackFrames \cup {"raise", "close", "terminal"}

Frames(th)   == {stack[th][i].at : i \in DOMAIN stack[th]}
At(th, l)    == stack[th] # <<>> /\ Head(stack[th]).at = l
Frame(l)     == [at |-> l]
Push(th, fs) == stack' = [stack EXCEPT ![th] = fs \o @]
Become(th, f) == stack' = [stack EXCEPT ![th] = <<f>> \o Tail(@)]
Return(th)   == stack' = [stack EXCEPT ![th] = Tail(@)]

\* lock (_sync) and lock (_callbackSync) do not wait.
SyncFree(th) ==
  \A u \in Threads \ {th} : Frames(u) \cap SyncFrames = {}
CallbackFree(th) ==
  \A u \in Threads \ {th} : Frames(u) \cap CallbackFrames = {}

SessionTypeOK ==
  /\ state \in {"Idle"} \cup Ongoing \cup Terminal
  /\ background \in BOOLEAN
  /\ accelerate \in BOOLEAN
  /\ version \in Nat
  /\ run \in 0 .. MaxRuns
  /\ begun \in 0 .. MaxRuns
  /\ paused \in [Runs -> BOOLEAN]
  /\ cancelled \in [Runs -> BOOLEAN]
  /\ work \in [Runs -> {"none", "running", "end"} \cup Waiting]
  /\ disposed \in BOOLEAN
  /\ disposer \subseteq Threads
  /\ \A th \in Threads : Frames(th) \subseteq Labels
  /\ shown \in 0 .. version
  /\ calls \in 0 .. MaxCalls
  /\ reports \in 0 .. MaxReports

SessionInit ==
  /\ state = "Idle"
  /\ background = FALSE
  /\ accelerate = TRUE
  /\ version = 0
  /\ run = 0
  /\ begun = 0
  /\ paused = [r \in Runs |-> FALSE]
  /\ cancelled = [r \in Runs |-> FALSE]
  /\ work = [r \in Runs |-> "none"]
  /\ disposed = FALSE
  /\ disposer = {}
  /\ stack = [th \in Threads |-> <<>>]
  /\ shown = 0
  /\ calls = 0
  /\ reports = 0

(***************************************************************************)
(* Calls of the session: by a thread of the application, or from a handler *)
(***************************************************************************)
CallsFrom(th) ==
  /\ calls < MaxCalls
  /\ At(th, "handler") \/ (th \in Callers /\ stack[th] = <<>>)
  /\ calls' = calls + 1

Replace(s, b) ==
  /\ state' = s
  /\ background' = b
  /\ version' = version + 1

Ends(r, result) == [at |-> "terminal", run |-> r, result |-> result]

\* Mutant: a paused download is forgotten and another one started.
CanStartWhilePaused == state # "Downloading"

CanStart == state \notin Ongoing

\* DownloadAndVerifyAsync returns at its first await, or it throws before (a
\* release without a size or a digest) and ends while TryStart holds _sync.
TryStart(th) ==
  /\ CallsFrom(th)
  /\ SyncFree(th)
  /\ ~disposed
  /\ CanStart
  /\ begun < MaxRuns
  /\ begun' = begun + 1
  /\ run' = begun'
  /\ Replace("Downloading", FALSE)
  /\ accelerate' \in BOOLEAN
  /\ \/ /\ work' = [work EXCEPT ![begun'] = "await"]
        /\ Push(th, <<Frame("raise")>>)
     \/ /\ work' = [work EXCEPT ![begun'] = "end"]
        /\ Push(th, <<Ends(begun', "Failed"), Frame("starting")>>)
  /\ UNCHANGED <<paused, cancelled, life, shown, reports>>

StartReturns(th) ==
  /\ At(th, "starting")
  /\ Become(th, Frame("raise"))
  /\ UNCHANGED <<snapshot, tasks, life, shown, calls, reports>>

\* What Pause does to the session, once it has _sync.
PauseIt ==
  /\ state = "Downloading"
  /\ paused' = [paused EXCEPT ![run] = TRUE]
  /\ Replace("Paused", FALSE)

Pause(th) ==
  /\ CallsFrom(th)
  /\ SyncFree(th)
  /\ PauseIt
  /\ Push(th, <<Frame("raise")>>)
  /\ UNCHANGED <<accelerate, run, begun, cancelled, work, life, shown, reports>>

Resume(th) ==
  /\ CallsFrom(th)
  /\ SyncFree(th)
  /\ state = "Paused"
  /\ paused' = [paused EXCEPT ![run] = FALSE]
  /\ Replace("Downloading", background)
  /\ Push(th, <<Frame("raise")>>)
  /\ UNCHANGED <<accelerate, run, begun, cancelled, work, life, shown, reports>>

\* Mutant: the control is not resumed.
BackgroundOnly(th) ==
  /\ CallsFrom(th)
  /\ SyncFree(th)
  /\ state \in Ongoing
  /\ Replace("Downloading", TRUE)
  /\ Push(th, <<Frame("raise")>>)
  /\ UNCHANGED <<accelerate, run, begun, paused, cancelled, work, life, shown, reports>>

ContinueInBackground(th) ==
  /\ CallsFrom(th)
  /\ SyncFree(th)
  /\ state \in Ongoing
  /\ paused' = [paused EXCEPT ![run] = FALSE]
  /\ Replace("Downloading", TRUE)
  /\ Push(th, <<Frame("raise")>>)
  /\ UNCHANGED <<accelerate, run, begun, cancelled, work, life, shown, reports>>

\* Whether the choice differs is checked before; the control is told as well.
SetUseAccelerationNodes(th) ==
  /\ CallsFrom(th)
  /\ SyncFree(th)
  /\ accelerate' = ~accelerate
  /\ Replace(state, background)
  /\ Push(th, <<Frame("raise")>>)
  /\ UNCHANGED <<tasks, life, shown, reports>>

\* PauseWhenUiCloses reads the snapshot, lets _sync go, and then pauses.
PauseWhenUiCloses(th) ==
  /\ CallsFrom(th)
  /\ SyncFree(th)
  /\ ~background
  /\ Push(th, <<Frame("close")>>)
  /\ UNCHANGED <<snapshot, tasks, life, shown, reports>>

ClosePauses(th) ==
  /\ At(th, "close")
  /\ SyncFree(th)
  /\ \/ PauseIt /\ Become(th, Frame("raise"))
     \/ /\ state # "Downloading"
        /\ Return(th)
        /\ UNCHANGED <<paused, state, background, version>>
  /\ UNCHANGED <<accelerate, run, begun, cancelled, work, life, shown, calls, reports>>

\* _control.Resume(), _cancellation.Cancel(), CancelActiveRequests(), under
\* _sync.  A waiting download may resume on another thread later, or at once on
\* this one: a cancelled delay or pause runs its continuation inside Cancel().
CancelRun(th, l) ==
  /\ paused' = [paused EXCEPT ![run] = FALSE]
  /\ cancelled' = [cancelled EXCEPT ![run] = TRUE]
  /\ \/ /\ work[run] \in Waiting
        /\ work' = [work EXCEPT ![run] = "end"]
        /\ \E result \in {"Cancelled", "Failed"} :
             Push(th, <<Ends(run, result), Frame(l)>>)
     \/ UNCHANGED work /\ Push(th, <<Frame(l)>>)
  /\ UNCHANGED <<snapshot, run, begun, shown, reports>>

Cancel(th) ==
  /\ CallsFrom(th)
  /\ SyncFree(th)
  /\ state \in Ongoing
  /\ run # 0
  /\ CancelRun(th, "cancelling")
  /\ UNCHANGED life

\* The wait for the worker that follows holds no lock and ends by its timeout.
StopAsync(th) ==
  /\ CallsFrom(th)
  /\ SyncFree(th)
  /\ run # 0
  /\ CancelRun(th, "stopping")
  /\ UNCHANGED life

CancelReturns(th) ==
  /\ At(th, "cancelling") \/ At(th, "stopping") \/ At(th, "disposing")
  /\ Return(th)
  /\ UNCHANGED <<snapshot, tasks, life, shown, calls, reports>>

\* Deleting the downloaded file holds no lock and ignores every failure.
DiscardCompleted(th) ==
  /\ CallsFrom(th)
  /\ SyncFree(th)
  /\ ~disposed
  /\ state = "Completed"
  /\ Replace("Idle", FALSE)
  /\ Push(th, <<Frame("raise")>>)
  /\ UNCHANGED <<accelerate, tasks, life, shown, reports>>

\* Mutant: Dispose does not wait for a handler that runs.
DisposeAtOnce(th) ==
  /\ CallsFrom(th)
  /\ Push(th, <<Frame("dispose")>>)
  /\ UNCHANGED <<snapshot, tasks, life, shown, reports>>

\* Dispose takes _callbackSync first ...
Dispose(th) ==
  /\ CallsFrom(th)
  /\ CallbackFree(th)
  /\ Push(th, <<Frame("dispose")>>)
  /\ UNCHANGED <<snapshot, tasks, life, shown, reports>>

\* ... then _sync, and cancels what there is to cancel.
Disposes(th) ==
  /\ At(th, "dispose")
  /\ SyncFree(th)
  /\ \/ /\ disposed \/ run = 0
        /\ disposed' = TRUE
        /\ disposer' = IF disposed THEN disposer ELSE {th}
        /\ Return(th)
        /\ UNCHANGED <<snapshot, tasks, shown, calls, reports>>
     \/ /\ ~disposed
        /\ run # 0
        /\ disposed' = TRUE
        /\ disposer' = {th}
        /\ CancelRun(th, "disposing")
        /\ UNCHANGED calls

(***************************************************************************)
(* The download                                                            *)
(***************************************************************************)
OnItsThread(r) == work[r] = "running" /\ stack[r] = <<>>

\* It waits for the network, or for Resume if it finds the control paused.
Suspends(r) ==
  /\ OnItsThread(r)
  /\ work' = [work EXCEPT ![r] = IF paused[r] THEN "blocked" ELSE "await"]
  /\ UNCHANGED <<snapshot, run, begun, paused, cancelled, life, stack, shown, calls, reports>>

Wakes(r) ==
  /\ work[r] = "await" \/ (work[r] = "blocked" /\ (cancelled[r] \/ ~paused[r]))
  /\ work' = [work EXCEPT ![r] = "running"]
  /\ UNCHANGED <<snapshot, run, begun, paused, cancelled, life, stack, shown, calls, reports>>

ReportProgress(r) ==
  /\ OnItsThread(r)
  /\ SyncFree(r)
  /\ reports < MaxReports
  /\ reports' = reports + 1
  /\ state \in Ongoing
  /\ Replace(state, background)
  /\ Push(r, <<Frame("raise")>>)
  /\ UNCHANGED <<accelerate, tasks, life, shown, calls>>

\* It returns or throws; Cancel may come too late to be noticed.
Finishes(r) ==
  /\ OnItsThread(r)
  /\ work' = [work EXCEPT ![r] = "end"]
  /\ \E result \in Terminal :
       /\ result = "Cancelled" => cancelled[r]
       /\ Push(r, <<Ends(r, result)>>)
  /\ UNCHANGED <<snapshot, run, begun, paused, cancelled, life, shown, calls, reports>>

\* Mutant: the terminal state is not announced.
SetTerminalStateQuietly(th) ==
  /\ At(th, "terminal")
  /\ SyncFree(th)
  /\ Head(stack[th]).run = run
  /\ Replace(Head(stack[th]).result, FALSE)
  /\ run' = 0
  /\ Return(th)
  /\ UNCHANGED <<accelerate, begun, paused, cancelled, work, life, shown, calls, reports>>

\* Mutant: nothing is recorded any more once the session is disposed.
SetTerminalStateUnlessDisposed(th) ==
  /\ At(th, "terminal")
  /\ SyncFree(th)
  /\ IF Head(stack[th]).run = run /\ ~disposed
     THEN /\ Replace(Head(stack[th]).result, FALSE)
          /\ run' = 0
          /\ Become(th, Frame("raise"))
     ELSE /\ Return(th)
          /\ UNCHANGED <<state, background, version, run>>
  /\ UNCHANGED <<accelerate, begun, paused, cancelled, work, life, shown, calls, reports>>

\* Ignored unless the run still owns _cancellation.
SetTerminalState(th) ==
  /\ At(th, "terminal")
  /\ SyncFree(th)
  /\ IF Head(stack[th]).run = run
     THEN /\ Replace(Head(stack[th]).result, FALSE)
          /\ run' = 0
          /\ Become(th, Frame("raise"))
     ELSE /\ Return(th)
          /\ UNCHANGED <<state, background, version, run>>
  /\ UNCHANGED <<accelerate, begun, paused, cancelled, work, life, shown, calls, reports>>

(***************************************************************************)
(* RaiseChanged                                                            *)
(***************************************************************************)
\* Mutant: the handlers are called outside of _callbackSync.
RaisesUnlocked(th) ==
  /\ At(th, "raise")
  /\ Become(th, Frame("read"))
  /\ UNCHANGED <<snapshot, tasks, life, shown, calls, reports>>

Raises(th) ==
  /\ At(th, "raise")
  /\ CallbackFree(th)
  /\ Become(th, Frame("read"))
  /\ UNCHANGED <<snapshot, tasks, life, shown, calls, reports>>

ReadsSnapshot(th) ==
  /\ At(th, "read")
  /\ SyncFree(th)
  /\ IF disposed THEN Return(th)
                 ELSE Become(th, [at |-> "invoke", version |-> version])
  /\ UNCHANGED <<snapshot, tasks, life, shown, calls, reports>>

Invokes(th) ==
  /\ At(th, "invoke")
  /\ shown' = Head(stack[th]).version
  /\ Become(th, Frame("handler"))
  /\ UNCHANGED <<snapshot, tasks, life, calls, reports>>

HandlerReturns(th) ==
  /\ At(th, "handler")
  /\ Return(th)
  /\ UNCHANGED <<snapshot, tasks, life, shown, calls, reports>>

(***************************************************************************)
(* The whole                                                               *)
(***************************************************************************)
CallsSession(th) ==
  \/ TryStart(th)
  \/ Pause(th)
  \/ Resume(th)
  \/ ContinueInBackground(th)
  \/ SetUseAccelerationNodes(th)
  \/ PauseWhenUiCloses(th)
  \/ Cancel(th)
  \/ StopAsync(th)
  \/ DiscardCompleted(th)
  \/ Dispose(th)

GoesOn(th) ==
  \/ StartReturns(th)
  \/ ClosePauses(th)
  \/ CancelReturns(th)
  \/ Disposes(th)
  \/ SetTerminalState(th)
  \/ Raises(th)
  \/ ReadsSnapshot(th)
  \/ Invokes(th)
  \/ HandlerReturns(th)

WorksOn(r) ==
  \/ Suspends(r)
  \/ Wakes(r)
  \/ ReportProgress(r)
  \/ Finishes(r)

SessionNext ==
  \/ \E th \in Threads : CallsSession(th) \/ GoesOn(th)
  \/ \E r \in Runs : WorksOn(r)

SessionSpec == SessionInit /\ [][SessionNext]_sessionVars

\* Threads are scheduled, handlers return, and a download that waits is woken;
\* one that was cancelled finds out, as every request takes the token.
FairSession ==
  /\ SessionSpec
  /\ \A th \in Threads : WF_sessionVars(GoesOn(th))
  /\ \A r \in Runs : WF_sessionVars(Wakes(r)) /\ SF_sessionVars(cancelled[r] /\ Finishes(r))

(***************************************************************************)
(* Properties                                                              *)
(***************************************************************************)
\* A download that is under way is the one the session shows and controls:
\* there are never two, and none is out of the reach of Pause and Cancel.
NoOrphan ==
  \A r \in Runs : work[r] \in {"running"} \cup Waiting => run = r /\ state \in Ongoing

\* The control holds the download back exactly when the session says Paused,
\* but for a cancelled one: it never waits for a Resume that nobody offers.
PausedAgrees ==
  (run # 0 /\ ~cancelled[run]) => (paused[run] <=> state = "Paused")

\* Changed is delivered in the order of the changes, whichever threads made them.
InOrder == [][shown' >= shown]_sessionVars

\* When every call has returned, the last change has been delivered.
LastShown ==
  (~disposed /\ \A th \in Threads : stack[th] = <<>>) => shown = version

\* Once the session is disposed no handler runs, nor is about to, but the one
\* that called Dispose itself.
QuietAfterDispose ==
  disposed => \A th \in Threads \ disposer : Frames(th) \cap {"invoke", "handler"} = {}

\* Two threads wait for each other, each with the lock that the other takes.
Deadlocked ==
  \E th, u \in Threads :
    /\ \E l \in {"read", "dispose", "close", "terminal"} : At(th, l)
    /\ At(u, "raise")
    /\ Frames(th) \cap CallbackFrames # {}
    /\ Frames(u) \cap SyncFrames # {}

\* A cancelled download ends and the session says so, unless the two locks are
\* taken in opposite orders.
CancelEnds ==
  \A r \in Runs : cancelled[r] ~> (Deadlocked \/ (work[r] = "end" /\ run # r))
=============================================================================
