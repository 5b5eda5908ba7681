------------------------- MODULE NativeClientProofs --------------------------
(***************************************************************************)
(* Theorems about the native client, for every number of threads, calls and*)
(* directories: its download session and the transaction directories it    *)
(* shares with the stubs and their clean-up.                               *)
(***************************************************************************)
EXTENDS NativeSession, TransactionDirectory, TLAPS

(***************************************************************************)
(* The session: the stacks of its threads and the state they agree on.     *)
(***************************************************************************)

\* What the frames remember: the intention of a pause or of a resume, a preference, the
\* slot that is closed, delivered to or running.
FrameSet ==
  [at : {"background", "stopping", "joining", "destroy", "notify"}]
    \cup [at : {"pause1", "pause2"}, closing : BOOLEAN]
    \cup [at : {"resume1", "resume2"}, then : BOOLEAN]
    \cup [at : {"prefer", "publish"}, enabled : BOOLEAN]
    \cup [at : {"retire", "deliver", "callback"}, slot : Slots]

Stacks == stack \in [Threads -> Seq(FrameSet)]

\* The state says what the worker does, and it says how the download has ended before
\* worker_finished_ does.
WorkInv ==
  /\ state = "idle" <=> work = "none"
  /\ state \in Ongoing <=> work \in {"running", "blocked"}
  /\ finished <=> work \in {"none", "ended"}

SessionInv == SessionTypeOK /\ Stacks /\ WorkInv /\ QuietAfterReset

-----------------------------------------------------------------------------
\* No frame of these is in a callback.
Silent(fs) == \A i \in DOMAIN fs : fs[i].at # "callback"

\* Every frame of a stack after a push is one that was pushed or one that was there, and
\* after a return one that was there.
LEMMA Joined ==
  ASSUME NEW s \in Seq(FrameSet), NEW fs \in Seq(FrameSet)
  PROVE  /\ fs \o s \in Seq(FrameSet)
         /\ \A i \in DOMAIN (fs \o s) :
              \/ i \in DOMAIN fs /\ (fs \o s)[i] = fs[i]
              \/ \E j \in DOMAIN s : (fs \o s)[i] = s[j]
<1> DEFINE t == fs \o s
<1>1. /\ t \in Seq(FrameSet)
      /\ \A i \in DOMAIN t : \/ i \in DOMAIN fs /\ t[i] = fs[i]
                             \/ i - Len(fs) \in DOMAIN s /\ t[i] = s[i - Len(fs)]
  OBVIOUS
<1> QED
  BY <1>1

\* What a return leaves, and what it takes.
LEMMA Cut ==
  ASSUME NEW s \in Seq(FrameSet), s # <<>>
  PROVE  /\ Tail(s) \in Seq(FrameSet) /\ Head(s) \in FrameSet
         /\ Head(s) = s[1] /\ 1 \in DOMAIN s
         /\ \A i \in DOMAIN Tail(s) : \E j \in DOMAIN s : Tail(s)[i] = s[j]
<1>1. /\ Tail(s) \in Seq(FrameSet) /\ Head(s) \in FrameSet /\ Head(s) = s[1] /\ 1 \in DOMAIN s
      /\ \A i \in DOMAIN Tail(s) : i + 1 \in DOMAIN s /\ Tail(s)[i] = s[i + 1]
  OBVIOUS
<1> QED
  BY <1>1

\* The innermost frame is one of the frames.
LEMMA Innermost ==
  ASSUME Stacks, NEW th \in Threads, stack[th] # <<>>
  PROVE  Head(stack[th]) \in FrameSet
  BY Cut DEF Stacks

\* What a frame of each label remembers.
LEMMA FrameKinds ==
  ASSUME NEW f \in FrameSet
  PROVE  /\ f.at \in Labels
         /\ f.at \in {"pause1", "pause2"} => f \in [at : {"pause1", "pause2"}, closing : BOOLEAN]
         /\ f.at \in {"resume1", "resume2"} => f \in [at : {"resume1", "resume2"}, then : BOOLEAN]
         /\ f.at \in {"prefer", "publish"} =>
              f.enabled \in BOOLEAN /\ f \in [at : {"prefer", "publish"}, enabled : BOOLEAN]
         /\ f.at \in {"retire", "deliver", "callback"} => f.slot \in Slots
<1>1. CASE f \in [at : {"background", "stopping", "joining", "destroy", "notify"}]
  BY <1>1 DEF Labels
<1>2. CASE f \in [at : {"pause1", "pause2"}, closing : BOOLEAN]
  BY <1>2 DEF Labels
<1>3. CASE f \in [at : {"resume1", "resume2"}, then : BOOLEAN]
  BY <1>3 DEF Labels
<1>4. CASE f \in [at : {"prefer", "publish"}, enabled : BOOLEAN]
  BY <1>4 DEF Labels
<1>5. CASE f \in [at : {"retire", "deliver", "callback"}, slot : Slots]
  BY <1>5 DEF Labels
<1> QED
  BY <1>1, <1>2, <1>3, <1>4, <1>5 DEF FrameSet

\* Every frame has a label.
LEMMA Labelled ==
  Stacks => \A th \in Threads : \A i \in DOMAIN stack[th] : stack[th][i].at \in Labels
  BY FrameKinds DEF Stacks

\* It has one after a step too.
LEMMA LabelledNext ==
  (Stacks => \A th \in Threads : \A i \in DOMAIN stack[th] : stack[th][i].at \in Labels)'
  BY Labelled, PTL

\* What a move adds to a stack and takes from it.
Move(th, fs) ==
  \/ Push(th, fs)
  \/ stack[th] # <<>> /\ Become(th, fs)
  \/ stack[th] # <<>> /\ Return(th)

\* A move is one of one stack, to frames that were added or that were there.
LEMMA FrameMoved ==
  ASSUME Stacks, NEW th \in Threads, NEW fs \in Seq(FrameSet), Move(th, fs)
  PROVE  /\ Stacks'
         /\ \A u \in Threads \ {th} : stack'[u] = stack[u]
         /\ \A i \in DOMAIN stack'[th] :
              \/ \E j \in DOMAIN fs : stack'[th][i] = fs[j]
              \/ \E j \in DOMAIN stack[th] : stack'[th][i] = stack[th][j]
<1>1. stack[th] \in Seq(FrameSet)
  BY DEF Stacks
<1>2. CASE Push(th, fs)
  <2>1. stack'[th] = fs \o stack[th]
    BY <1>2 DEF Push, Stacks
  <2>2. /\ stack'[th] \in Seq(FrameSet)
        /\ \A i \in DOMAIN stack'[th] :
              \/ i \in DOMAIN fs /\ stack'[th][i] = fs[i]
              \/ \E j \in DOMAIN stack[th] : stack'[th][i] = stack[th][j]
    BY <1>1, <2>1, Joined
  <2>3. stack' = [stack EXCEPT ![th] = stack'[th]]
    BY <1>2, <2>1 DEF Push, Stacks
  <2> QED
    BY <2>2, <2>3 DEF Stacks
<1>3. CASE stack[th] # <<>> /\ Become(th, fs)
  <2>1. stack'[th] = fs \o Tail(stack[th])
    BY <1>3 DEF Become, Stacks
  <2>2. /\ Tail(stack[th]) \in Seq(FrameSet)
        /\ \A i \in DOMAIN Tail(stack[th]) :
             \E j \in DOMAIN stack[th] : Tail(stack[th])[i] = stack[th][j]
    BY <1>1, <1>3, Cut
  <2>3. /\ stack'[th] \in Seq(FrameSet)
        /\ \A i \in DOMAIN stack'[th] :
              \/ i \in DOMAIN fs /\ stack'[th][i] = fs[i]
              \/ \E j \in DOMAIN Tail(stack[th]) : stack'[th][i] = Tail(stack[th])[j]
    BY <2>1, <2>2, Joined
  <2>4. stack' = [stack EXCEPT ![th] = stack'[th]]
    BY <1>3, <2>1 DEF Become, Stacks
  <2>5. Stacks' /\ \A u \in Threads \ {th} : stack'[u] = stack[u]
    BY <2>3, <2>4 DEF Stacks
  <2>6. ASSUME NEW i \in DOMAIN stack'[th], ~ \E j \in DOMAIN fs : stack'[th][i] = fs[j]
        PROVE  \E j \in DOMAIN stack[th] : stack'[th][i] = stack[th][j]
    <3>1. PICK k \in DOMAIN Tail(stack[th]) : stack'[th][i] = Tail(stack[th])[k]
      BY <2>3, <2>6
    <3> QED
      BY <2>2, <3>1
  <2> QED
    BY <2>5, <2>6
<1>4. CASE stack[th] # <<>> /\ Return(th)
  <2>1. stack'[th] = Tail(stack[th])
    BY <1>4 DEF Return, Stacks
  <2>2. /\ stack'[th] \in Seq(FrameSet)
        /\ \A i \in DOMAIN stack'[th] : \E j \in DOMAIN stack[th] : stack'[th][i] = stack[th][j]
    BY <1>1, <1>4, <2>1, Cut
  <2>3. stack' = [stack EXCEPT ![th] = stack'[th]]
    BY <1>4, <2>1 DEF Return, Stacks
  <2> QED
    BY <2>2, <2>3 DEF Stacks
<1> QED
  BY <1>2, <1>3, <1>4 DEF Move

\* A move that enters no callback, while every slot is as it was.
LEMMA Quietly ==
  ASSUME SessionInv, NEW th \in Threads, NEW fs \in Seq(FrameSet), Silent(fs), Move(th, fs),
         UNCHANGED <<active, retirer>>
  PROVE  Stacks' /\ QuietAfterReset'
<1>1. /\ Stacks'
      /\ \A u \in Threads \ {th} : stack'[u] = stack[u]
      /\ \A i \in DOMAIN stack'[th] :
           \/ \E j \in DOMAIN fs : stack'[th][i] = fs[j]
           \/ \E j \in DOMAIN stack[th] : stack'[th][i] = stack[th][j]
  BY FrameMoved DEF SessionInv
<1>2. \A u \in Threads : \A s \in Slots : InCallback(u, s)' => InCallback(u, s)
  <2> SUFFICES ASSUME NEW u \in Threads, NEW s \in Slots, InCallback(u, s)'
               PROVE  InCallback(u, s)
    OBVIOUS
  <2>1. PICK i \in DOMAIN stack'[u] : stack'[u][i].at = "callback" /\ stack'[u][i].slot = s
    BY DEF InCallback
  <2>2. CASE u # th
    BY <1>1, <2>1, <2>2 DEF InCallback
  <2>3. CASE u = th
    BY <1>1, <2>1, <2>3 DEF InCallback, Silent
  <2> QED
    BY <2>2, <2>3
<1> QED
  BY <1>1, <1>2 DEF SessionInv, QuietAfterReset

\* The same for one frame,
LEMMA QuietlyOne ==
  ASSUME SessionInv, NEW th \in Threads, NEW f \in FrameSet, f.at # "callback", Move(th, <<f>>),
         UNCHANGED <<active, retirer>>
  PROVE  Stacks' /\ QuietAfterReset'
<1>1. <<f>> \in Seq(FrameSet) /\ Silent(<<f>>)
  BY DEF Silent
<1> QED
  BY <1>1, Quietly

\* for two frames,
LEMMA QuietlyTwo ==
  ASSUME SessionInv, NEW th \in Threads, NEW f \in FrameSet, NEW g \in FrameSet,
         f.at # "callback", g.at # "callback", Move(th, <<f>> \o <<g>>),
         UNCHANGED <<active, retirer>>
  PROVE  Stacks' /\ QuietAfterReset'
<1> DEFINE fs == <<f>> \o <<g>>
<1>1. fs \in Seq(FrameSet) /\ \A i \in DOMAIN fs : fs[i] \in {f, g}
  OBVIOUS
<1>2. fs \in Seq(FrameSet) /\ Silent(fs)
  BY <1>1 DEF Silent
<1> HIDE DEF fs
<1>3. Move(th, fs)
  BY DEF fs
<1> QED
  BY <1>2, <1>3, Quietly

\* and for none.
LEMMA QuietlyNone ==
  ASSUME SessionInv, NEW th \in Threads, Move(th, <<>>), UNCHANGED <<active, retirer>>
  PROVE  Stacks' /\ QuietAfterReset'
<1>1. <<>> \in Seq(FrameSet) /\ Silent(<<>>)
  BY DEF Silent
<1> QED
  BY <1>1, Quietly

\* A step that moves no stack and touches no slot.
LEMMA Unmoved ==
  ASSUME SessionInv, UNCHANGED <<stack, active, retirer>>
  PROVE  Stacks' /\ QuietAfterReset'
  BY DEF SessionInv, Stacks, QuietAfterReset, InCallback

\* A frame of a label alone.
LEMMA Plain ==
  ASSUME NEW l \in {"background", "stopping", "joining", "destroy", "notify"}
  PROVE  Frame(l) \in FrameSet /\ Frame(l).at = l
  BY DEF Frame, FrameSet

-----------------------------------------------------------------------------
\* The calls, the steps by which they go on, and those of the worker.
LEMMA StartInv == ASSUME SessionInv, Start PROVE SessionInv'
<1> USE DEF Start, Threads
<1>1. Frame("joining") \in FrameSet /\ (Frame("joining")).at # "callback"
  BY Plain
<1>2. Stacks' /\ QuietAfterReset'
  BY <1>1, QuietlyOne DEF Move, callback, Threads
<1>3. WorkInv'
  BY DEF SessionInv, WorkInv, snapshot, worker
<1>4. SessionTypeOK'
  BY <1>2, LabelledNext, SessionAssumption
     DEF SessionInv, SessionTypeOK, snapshot, worker, callback, Calls, CallIf, Ongoing,
         Terminal, States
<1> QED
  BY <1>2, <1>3, <1>4 DEF SessionInv

\* Pause keeps SessionInv.
LEMMA PauseInv == ASSUME SessionInv, NEW th \in Threads, Pause(th) PROVE SessionInv'
<1> USE DEF Pause
<1>1. /\ [at |-> "pause1", closing |-> FALSE] \in FrameSet
      /\ ([at |-> "pause1", closing |-> FALSE]).at # "callback"
  BY DEF FrameSet
<1>2. Stacks' /\ QuietAfterReset'
  BY <1>1, QuietlyOne DEF Move, callback
<1>3. WorkInv'
  BY DEF SessionInv, WorkInv, snapshot, worker
<1>4. SessionTypeOK'
  BY <1>2, LabelledNext, SessionAssumption
     DEF SessionInv, SessionTypeOK, snapshot, worker, callback, Calls, CallIf, Ongoing,
         Terminal, States
<1> QED
  BY <1>2, <1>3, <1>4 DEF SessionInv

\* PauseWhenUiCloses keeps SessionInv.
LEMMA PauseWhenUiClosesInv ==
  ASSUME SessionInv, NEW th \in Threads, PauseWhenUiCloses(th)
  PROVE  SessionInv'
<1> USE DEF PauseWhenUiCloses
<1>1. /\ [at |-> "pause1", closing |-> TRUE] \in FrameSet
      /\ ([at |-> "pause1", closing |-> TRUE]).at # "callback"
  BY DEF FrameSet
<1>2. Stacks' /\ QuietAfterReset'
  BY <1>1, QuietlyOne DEF Move, callback
<1>3. WorkInv'
  BY DEF SessionInv, WorkInv, snapshot, worker
<1>4. SessionTypeOK'
  BY <1>2, LabelledNext, SessionAssumption
     DEF SessionInv, SessionTypeOK, snapshot, worker, callback, Calls, CallIf, Ongoing,
         Terminal, States
<1> QED
  BY <1>2, <1>3, <1>4 DEF SessionInv

\* Resume keeps SessionInv.
LEMMA ResumeInv == ASSUME SessionInv, NEW th \in Threads, Resume(th) PROVE SessionInv'
<1> USE DEF Resume
<1>1. /\ [at |-> "resume1", then |-> FALSE] \in FrameSet
      /\ ([at |-> "resume1", then |-> FALSE]).at # "callback"
  BY DEF FrameSet
<1>2. Stacks' /\ QuietAfterReset'
  BY <1>1, QuietlyOne DEF Move, callback
<1>3. WorkInv'
  BY DEF SessionInv, WorkInv, snapshot, worker
<1>4. SessionTypeOK'
  BY <1>2, LabelledNext, SessionAssumption
     DEF SessionInv, SessionTypeOK, snapshot, worker, callback, Calls, CallIf, Ongoing,
         Terminal, States
<1> QED
  BY <1>2, <1>3, <1>4 DEF SessionInv

\* WaitForStop keeps SessionInv.
LEMMA WaitForStopInv == ASSUME SessionInv, NEW th \in Threads, WaitForStop(th) PROVE SessionInv'
<1> USE DEF WaitForStop
<1>1. Frame("stopping") \in FrameSet /\ (Frame("stopping")).at # "callback"
  BY Plain
<1>2. Stacks' /\ QuietAfterReset'
  BY <1>1, QuietlyOne DEF Move, callback
<1>3. WorkInv'
  BY DEF SessionInv, WorkInv, snapshot, worker
<1>4. control' \in
           [constructed : BOOLEAN, paused : BOOLEAN, cancelled : BOOLEAN, preferred : BOOLEAN]
  BY DEF SessionInv, SessionTypeOK, Cancelled
<1>5. SessionTypeOK'
  BY <1>2, <1>4, LabelledNext, SessionAssumption
     DEF SessionInv, SessionTypeOK, snapshot, worker, callback, Calls, CallIf, Ongoing,
         Terminal, States
<1> QED
  BY <1>2, <1>3, <1>5 DEF SessionInv

\* SetAcceleration keeps SessionInv.
LEMMA SetAccelerationInv ==
  ASSUME SessionInv, NEW th \in Threads, SetAcceleration(th)
  PROVE  SessionInv'
<1> USE DEF SetAcceleration
<1>1. /\ [at |-> "prefer", enabled |-> ~acceleration] \in FrameSet
      /\ ([at |-> "prefer", enabled |-> ~acceleration]).at # "callback"
  BY DEF FrameSet, SessionInv, SessionTypeOK
<1>2. Stacks' /\ QuietAfterReset'
  BY <1>1, QuietlyOne DEF Move, callback
<1>3. WorkInv'
  BY DEF SessionInv, WorkInv, snapshot, worker
<1>4. SessionTypeOK'
  BY <1>2, LabelledNext, SessionAssumption
     DEF SessionInv, SessionTypeOK, snapshot, worker, callback, Calls, CallIf, Ongoing,
         Terminal, States
<1> QED
  BY <1>2, <1>3, <1>4 DEF SessionInv

\* ContinueInBackground keeps SessionInv.
LEMMA ContinueInBackgroundInv ==
  ASSUME SessionInv, NEW th \in Threads, ContinueInBackground(th)
  PROVE  SessionInv'
<1> USE DEF ContinueInBackground
<1>1. Stacks' /\ QuietAfterReset'
  <2>1. CASE state = "paused"
    <3>1. [at |-> "resume1", then |-> TRUE] \in FrameSet
      BY DEF FrameSet
    <3> QED
      BY <2>1, <3>1, QuietlyOne DEF Move, callback
  <2>2. CASE state # "paused"
    <3>1. Frame("background") \in FrameSet /\ Frame("background").at = "background"
      BY Plain
    <3> QED
      BY <2>2, <3>1, QuietlyOne DEF Move, callback
  <2> QED
    BY <2>1, <2>2
<1>2. WorkInv'
  BY DEF SessionInv, WorkInv, snapshot, worker
<1>3. SessionTypeOK'
  BY <1>1, LabelledNext, SessionAssumption
     DEF SessionInv, SessionTypeOK, snapshot, worker, callback, Calls, CallIf, Ongoing,
         Terminal, States
<1> QED
  BY <1>1, <1>2, <1>3 DEF SessionInv

\* Cancel keeps SessionInv.
LEMMA CancelInv == ASSUME SessionInv, NEW th \in Threads, Cancel(th) PROVE SessionInv'
<1> USE DEF Cancel, Cancelled
<1>1. Stacks' /\ QuietAfterReset'
  BY Unmoved DEF callback
<1>2. WorkInv'
  BY DEF SessionInv, WorkInv, snapshot, worker
<1>3. control' \in
           [constructed : BOOLEAN, paused : BOOLEAN, cancelled : BOOLEAN, preferred : BOOLEAN]
  BY DEF SessionInv, SessionTypeOK, Cancelled
<1>4. SessionTypeOK'
  BY <1>1, <1>3, LabelledNext, SessionAssumption
     DEF SessionInv, SessionTypeOK, snapshot, worker, callback, Calls, CallIf, Ongoing,
         Terminal, States
<1> QED
  BY <1>1, <1>2, <1>4 DEF SessionInv

\* DiscardCompleted keeps SessionInv.
LEMMA DiscardCompletedInv ==
  ASSUME SessionInv, NEW th \in Threads, DiscardCompleted(th)
  PROVE  SessionInv'
<1> USE DEF DiscardCompleted
<1>1. Stacks' /\ QuietAfterReset'
  BY Unmoved DEF callback
<1>2. WorkInv'
  BY DEF SessionInv, WorkInv, worker
<1>3. downloaded' \in BOOLEAN
  BY Zenon
<1>4. SessionTypeOK'
  BY <1>1, <1>3, LabelledNext, SessionAssumption
     DEF SessionInv, SessionTypeOK, snapshot, worker, callback, Calls, CallIf, Ongoing,
         Terminal, States
<1> QED
  BY <1>1, <1>2, <1>4 DEF SessionInv

\* SetChangedCallback keeps SessionInv.
LEMMA SetChangedCallbackInv ==
  ASSUME SessionInv, NEW th \in Threads, SetChangedCallback(th)
  PROVE  SessionInv'
<1> USE DEF SetChangedCallback, Exchange
<1>1. Stacks' /\ QuietAfterReset'
  <2>1. CASE changed = NoSlot
    BY <2>1, QuietlyNone DEF Move, Closing, Exchange
  <2>2. CASE changed # NoSlot
    <3>1. [at |-> "retire", slot |-> changed] \in FrameSet
      BY <2>2 DEF FrameSet, SessionInv, SessionTypeOK
    <3> QED
      BY <2>2, <3>1, QuietlyOne DEF Move, Closing, Exchange
  <2> QED
    BY <2>1, <2>2
<1>2. WorkInv'
  BY DEF SessionInv, WorkInv, snapshot, worker
<1>3. changed' \in {NoSlot} \cup Slots /\ slots' \in 0 .. MaxSlots
  BY SessionAssumption DEF SessionInv, SessionTypeOK, Exchange, Slots, NoSlot
<1>4. SessionTypeOK'
  BY <1>1, <1>3, LabelledNext, SessionAssumption
     DEF SessionInv, SessionTypeOK, snapshot, worker, callback, Calls, CallIf, Ongoing,
         Terminal, States
<1> QED
  BY <1>1, <1>2, <1>4 DEF SessionInv

\* StartsWork keeps SessionInv.
LEMMA StartsWorkInv == ASSUME SessionInv, StartsWork PROVE SessionInv'
<1> USE DEF StartsWork
<1>1. Frame("notify") \in FrameSet /\ Frame("notify").at = "notify"
  BY Plain
<1>2. Stacks' /\ QuietAfterReset'
  BY <1>1, QuietlyOne DEF Move, callback, Threads, At
<1>3. WorkInv'
  BY DEF WorkInv, Ongoing
<1>4. /\ control' \in
           [constructed : BOOLEAN, paused : BOOLEAN, cancelled : BOOLEAN, preferred : BOOLEAN]
      /\ acceleration' \in BOOLEAN
  OBVIOUS
<1>5. background' \in BOOLEAN /\ downloaded' \in BOOLEAN /\ finished' \in BOOLEAN
  BY Zenon
<1>6. SessionTypeOK'
  BY <1>2, <1>4, <1>5, LabelledNext, SessionAssumption
     DEF SessionInv, SessionTypeOK, snapshot, worker, callback, Calls, CallIf, Ongoing,
         Terminal, States
<1> QED
  BY <1>2, <1>3, <1>6 DEF SessionInv

\* PausesControl keeps SessionInv.
LEMMA PausesControlInv ==
  ASSUME SessionInv, NEW th \in Threads, PausesControl(th)
  PROVE  SessionInv'
<1> USE DEF PausesControl
<1>1. /\ [Head(stack[th]) EXCEPT !.at = "pause2"] \in FrameSet
      /\ ([Head(stack[th]) EXCEPT !.at = "pause2"]).at # "callback"
  BY Innermost, FrameKinds DEF At, SessionInv, FrameSet
<1>2. Stacks' /\ QuietAfterReset'
  BY <1>1, QuietlyOne DEF Move, callback, At
<1>3. WorkInv'
  BY DEF SessionInv, WorkInv, snapshot, worker
<1>4. control' \in
           [constructed : BOOLEAN, paused : BOOLEAN, cancelled : BOOLEAN, preferred : BOOLEAN]
  BY DEF SessionInv, SessionTypeOK
<1>5. SessionTypeOK'
  BY <1>2, <1>4, LabelledNext, SessionAssumption
     DEF SessionInv, SessionTypeOK, snapshot, worker, callback, Calls, CallIf, Ongoing,
         Terminal, States
<1> QED
  BY <1>2, <1>3, <1>5 DEF SessionInv

\* PausesState keeps SessionInv.
LEMMA PausesStateInv == ASSUME SessionInv, NEW th \in Threads, PausesState(th) PROVE SessionInv'
<1> USE DEF PausesState
<1>1. Frame("notify") \in FrameSet /\ Frame("notify").at = "notify"
  BY Plain
<1>2. Stacks' /\ QuietAfterReset'
  <2>1. CASE state = "downloading"
    BY <1>1, <2>1, QuietlyOne DEF Move, callback, At
  <2>2. CASE ~ (state = "downloading")
    BY <2>2, QuietlyNone DEF Move, callback, At
  <2> QED
    BY <2>1, <2>2
<1>3. WorkInv'
  BY DEF SessionInv, WorkInv, worker, Ongoing
<1>4. SessionTypeOK'
  BY <1>2, LabelledNext, SessionAssumption
     DEF SessionInv, SessionTypeOK, snapshot, worker, callback, Calls, CallIf, Ongoing,
         Terminal, States
<1> QED
  BY <1>2, <1>3, <1>4 DEF SessionInv

\* GoesToBackground keeps SessionInv.
LEMMA GoesToBackgroundInv ==
  ASSUME SessionInv, NEW th \in Threads, GoesToBackground(th)
  PROVE  SessionInv'
<1> USE DEF GoesToBackground
<1>1. Frame("notify") \in FrameSet /\ Frame("notify").at = "notify"
  BY Plain
<1>2. Stacks' /\ QuietAfterReset'
  <2>1. CASE state = "downloading"
    BY <1>1, <2>1, QuietlyOne DEF Move, callback, At
  <2>2. CASE ~ (state = "downloading")
    BY <2>2, QuietlyNone DEF Move, callback, At
  <2> QED
    BY <2>1, <2>2
<1>3. WorkInv'
  BY DEF SessionInv, WorkInv, worker
<1>4. background' \in BOOLEAN
  <2>1. CASE state = "downloading"
    BY <2>1, Zenon
  <2>2. CASE state # "downloading"
    BY <2>2 DEF SessionInv, SessionTypeOK
  <2> QED
    BY <2>1, <2>2
<1>5. SessionTypeOK'
  BY <1>2, <1>4, LabelledNext, SessionAssumption
     DEF SessionInv, SessionTypeOK, snapshot, worker, callback, Calls, CallIf, Ongoing,
         Terminal, States
<1> QED
  BY <1>2, <1>3, <1>5 DEF SessionInv

\* ResumesState keeps SessionInv.
LEMMA ResumesStateInv ==
  ASSUME SessionInv, NEW th \in Threads, ResumesState(th)
  PROVE  SessionInv'
<1> USE DEF ResumesState
<1>1. [Head(stack[th]) EXCEPT !.at = "resume2"] \in FrameSet
  BY Innermost, FrameKinds DEF At, SessionInv, FrameSet
<1>2. [Head(stack[th]) EXCEPT !.at = "resume2"].at = "resume2"
  BY Innermost, FrameKinds DEF At, SessionInv
<1>3. Stacks' /\ QuietAfterReset'
  <2>1. CASE state = "paused"
    BY <1>1, <1>2, <2>1, QuietlyOne DEF Move, callback, At
  <2>2. CASE state # "paused"
    BY <2>2, QuietlyNone DEF Move, callback, At
  <2> QED
    BY <2>1, <2>2
<1>4. WorkInv'
  BY DEF SessionInv, WorkInv, worker, Ongoing
<1>5. SessionTypeOK'
  BY <1>3, LabelledNext, SessionAssumption
     DEF SessionInv, SessionTypeOK, snapshot, worker, callback, Calls, CallIf, Ongoing,
         Terminal, States
<1> QED
  BY <1>3, <1>4, <1>5 DEF SessionInv

\* ResumesControl keeps SessionInv.
LEMMA ResumesControlInv ==
  ASSUME SessionInv, NEW th \in Threads, ResumesControl(th)
  PROVE  SessionInv'
<1> USE DEF ResumesControl
<1>1. /\ Frame("notify") \in FrameSet /\ Frame("notify").at = "notify"
      /\ Frame("background") \in FrameSet /\ Frame("background").at = "background"
  BY Plain
<1>2. Stacks' /\ QuietAfterReset'
  <2>1. CASE Head(stack[th]).then
    <3>1. Move(th, <<Frame("notify")>> \o <<Frame("background")>>)
      BY <2>1 DEF Move, At
    <3> QED
      BY <1>1, <3>1, QuietlyTwo DEF callback
  <2>2. CASE ~ Head(stack[th]).then
    <3>1. <<Frame("notify")>> \o <<>> = <<Frame("notify")>>
      OBVIOUS
    <3>2. Move(th, <<Frame("notify")>>)
      BY <2>2, <3>1 DEF Move, At
    <3> QED
      BY <1>1, <3>2, QuietlyOne DEF callback
  <2> QED
    BY <2>1, <2>2
<1>3. WorkInv'
  BY DEF SessionInv, WorkInv, snapshot, worker
<1>4. control' \in
           [constructed : BOOLEAN, paused : BOOLEAN, cancelled : BOOLEAN, preferred : BOOLEAN]
  BY DEF SessionInv, SessionTypeOK, Cancelled
<1>5. SessionTypeOK'
  BY <1>2, <1>4, LabelledNext, SessionAssumption
     DEF SessionInv, SessionTypeOK, snapshot, worker, callback, Calls, CallIf, Ongoing,
         Terminal, States
<1> QED
  BY <1>2, <1>3, <1>5 DEF SessionInv

\* PrefersNodes keeps SessionInv.
LEMMA PrefersNodesInv ==
  ASSUME SessionInv, NEW th \in Threads, PrefersNodes(th)
  PROVE  SessionInv'
<1> USE DEF PrefersNodes
<1>1. Head(stack[th]).enabled \in BOOLEAN
  BY Innermost, FrameKinds DEF At, SessionInv
<1>2. [Head(stack[th]) EXCEPT !.at = "publish"] \in FrameSet
  BY Innermost, FrameKinds DEF At, SessionInv, FrameSet
<1>3. [Head(stack[th]) EXCEPT !.at = "publish"].at = "publish"
  BY Innermost, FrameKinds DEF At, SessionInv
<1>4. Stacks' /\ QuietAfterReset'
  BY <1>2, <1>3, QuietlyOne DEF Move, callback, At
<1>5. WorkInv'
  BY DEF SessionInv, WorkInv, snapshot, worker
<1>6. control' \in
           [constructed : BOOLEAN, paused : BOOLEAN, cancelled : BOOLEAN, preferred : BOOLEAN]
  BY <1>1 DEF SessionInv, SessionTypeOK
<1>7. SessionTypeOK'
  BY <1>4, <1>6, LabelledNext, SessionAssumption
     DEF SessionInv, SessionTypeOK, snapshot, worker, callback, Calls, CallIf, Ongoing,
         Terminal, States
<1> QED
  BY <1>4, <1>5, <1>7 DEF SessionInv

\* PublishesPreference keeps SessionInv.
LEMMA PublishesPreferenceInv ==
  ASSUME SessionInv, NEW th \in Threads, PublishesPreference(th)
  PROVE  SessionInv'
<1> USE DEF PublishesPreference
<1>1. Head(stack[th]).enabled \in BOOLEAN
  BY Innermost, FrameKinds DEF At, SessionInv
<1>2. Frame("notify") \in FrameSet /\ Frame("notify").at = "notify"
  BY Plain
<1>3. Stacks' /\ QuietAfterReset'
  BY <1>2, QuietlyOne DEF Move, callback, At
<1>4. WorkInv'
  BY DEF SessionInv, WorkInv, worker
<1>5. SessionTypeOK'
  BY <1>3, <1>1, LabelledNext, SessionAssumption
     DEF SessionInv, SessionTypeOK, snapshot, worker, callback, Calls, CallIf, Ongoing,
         Terminal, States
<1> QED
  BY <1>3, <1>4, <1>5 DEF SessionInv

\* WaitEnds keeps SessionInv.
LEMMA WaitEndsInv == ASSUME SessionInv, NEW th \in Threads, WaitEnds(th) PROVE SessionInv'
<1> USE DEF WaitEnds
<1>1. Stacks' /\ QuietAfterReset'
  BY QuietlyNone DEF Move, callback, At
<1>2. WorkInv'
  BY DEF SessionInv, WorkInv, snapshot, worker
<1>3. SessionTypeOK'
  BY <1>1, LabelledNext, SessionAssumption
     DEF SessionInv, SessionTypeOK, snapshot, worker, callback, Calls, CallIf, Ongoing,
         Terminal, States
<1> QED
  BY <1>1, <1>2, <1>3 DEF SessionInv

\* WaitTimesOut keeps SessionInv.
LEMMA WaitTimesOutInv ==
  ASSUME SessionInv, NEW th \in Threads, WaitTimesOut(th)
  PROVE  SessionInv'
<1> USE DEF WaitTimesOut
<1>1. Stacks' /\ QuietAfterReset'
  BY QuietlyNone DEF Move, callback, At
<1>2. WorkInv'
  BY DEF SessionInv, WorkInv, snapshot, worker
<1>3. SessionTypeOK'
  BY <1>1, LabelledNext, SessionAssumption
     DEF SessionInv, SessionTypeOK, snapshot, worker, callback, Calls, CallIf, Ongoing,
         Terminal, States
<1> QED
  BY <1>1, <1>2, <1>3 DEF SessionInv

\* CallbackReturns keeps SessionInv.
LEMMA CallbackReturnsInv ==
  ASSUME SessionInv, NEW th \in Threads, CallbackReturns(th)
  PROVE  SessionInv'
<1> USE DEF CallbackReturns
<1>1. Stacks' /\ QuietAfterReset'
  BY QuietlyNone DEF Move, callback, At
<1>2. WorkInv'
  BY DEF SessionInv, WorkInv, snapshot, worker
<1>3. SessionTypeOK'
  BY <1>1, LabelledNext, SessionAssumption
     DEF SessionInv, SessionTypeOK, snapshot, worker, callback, Calls, CallIf, Ongoing,
         Terminal, States
<1> QED
  BY <1>1, <1>2, <1>3 DEF SessionInv

\* Retires keeps SessionInv.
LEMMA RetiresInv == ASSUME SessionInv, NEW th \in Threads, Retires(th) PROVE SessionInv'
<1> USE DEF Retires
<1> DEFINE gone0 == Head(stack[th]).slot
<1>1. gone0 \in Slots
  BY Innermost, FrameKinds DEF At, SessionInv
<1>2. /\ Stacks' /\ \A u \in Threads \ {th} : stack'[u] = stack[u]
      /\ \A i \in DOMAIN stack'[th] : \E j \in DOMAIN stack[th] : stack'[th][i] = stack[th][j]
  <2>1. <<>> \in Seq(FrameSet) /\ DOMAIN <<>> = {}
    OBVIOUS
  <2>2. Move(th, <<>>)
    BY DEF Move, At
  <2> QED
    BY <2>1, <2>2, FrameMoved DEF SessionInv
<1>3. \A u \in Threads, s \in Slots : InCallback(u, s)' => InCallback(u, s)
  BY <1>2 DEF InCallback
<1>4. QuietAfterReset'
  <2> SUFFICES ASSUME NEW s \in Slots, ~ active'[s],
                      NEW u \in Threads \ retirer'[s]
               PROVE  ~ InCallback(u, s)'
    BY DEF QuietAfterReset
  <2>1. CASE s = gone0
    <3>1. u # th
      BY <1>1, <2>1 DEF SessionInv, SessionTypeOK
    <3>2. ~ InCallback(u, s)
      BY <2>1, <3>1 DEF SlotFree
    <3> QED
      BY <1>3, <3>2
  <2>2. CASE s # gone0
    <3>1. ~ active[s] /\ u \notin retirer[s]
      BY <1>1, <2>2 DEF SessionInv, SessionTypeOK
    <3> QED
      BY <1>3, <3>1 DEF SessionInv, QuietAfterReset
  <2> QED
    BY <2>1, <2>2
<1>5. Stacks' /\ QuietAfterReset'
  BY <1>2, <1>4
<1>6. WorkInv'
  BY DEF SessionInv, WorkInv, snapshot, worker
<1>7. active' \in [Slots -> BOOLEAN]
  <2>1. active \in [Slots -> BOOLEAN]
    BY DEF SessionInv, SessionTypeOK
  <2> QED
    BY <2>1, Zenon
<1>8. retirer' \in [Slots -> SUBSET Threads]
  BY DEF SessionInv, SessionTypeOK
<1>9. SessionTypeOK'
  BY <1>5, <1>7, <1>8, LabelledNext, SessionAssumption
     DEF SessionInv, SessionTypeOK, snapshot, worker, callback, Calls, CallIf, Ongoing,
         Terminal, States
<1> QED
  BY <1>5, <1>6, <1>9 DEF SessionInv

\* CopiesSnapshot keeps SessionInv.
LEMMA CopiesSnapshotInv ==
  ASSUME SessionInv, NEW th \in Threads, CopiesSnapshot(th)
  PROVE  SessionInv'
<1> USE DEF CopiesSnapshot
<1>1. Stacks' /\ QuietAfterReset'
  <2>1. CASE changed = NoSlot
    BY <2>1, QuietlyNone DEF Move, callback, At
  <2>2. CASE changed # NoSlot
    <3>1. [at |-> "deliver", slot |-> changed] \in FrameSet
      BY <2>2 DEF FrameSet, SessionInv, SessionTypeOK
    <3> QED
      BY <2>2, <3>1, QuietlyOne DEF Move, callback, At
  <2> QED
    BY <2>1, <2>2
<1>2. WorkInv'
  BY DEF SessionInv, WorkInv, snapshot, worker
<1>3. SessionTypeOK'
  BY <1>1, LabelledNext, SessionAssumption
     DEF SessionInv, SessionTypeOK, snapshot, worker, callback, Calls, CallIf, Ongoing,
         Terminal, States
<1> QED
  BY <1>1, <1>2, <1>3 DEF SessionInv

\* Delivers keeps SessionInv.
LEMMA DeliversInv == ASSUME SessionInv, NEW th \in Threads, Delivers(th) PROVE SessionInv'
<1> USE DEF Delivers
<1> DEFINE here == Head(stack[th]).slot
           f == [at |-> "callback", slot |-> here]
<1>1. here \in Slots /\ f \in FrameSet
  BY Innermost, FrameKinds DEF At, SessionInv, FrameSet
<1>2. Stacks' /\ QuietAfterReset'
  <2>1. CASE ~ active[here]
    BY <2>1, QuietlyNone DEF Move, callback, At
  <2>2. CASE active[here]
    <3>1. <<f>> \in Seq(FrameSet) /\ Move(th, <<f>>) /\ DOMAIN <<f>> = {1} /\ <<f>>[1] = f
      BY <1>1, <2>2 DEF Move, At
    <3>2. /\ Stacks' /\ \A u \in Threads \ {th} : stack'[u] = stack[u]
          /\ \A i \in DOMAIN stack'[th] :
               \/ \E j \in DOMAIN <<f>> : stack'[th][i] = <<f>>[j]
               \/ \E j \in DOMAIN stack[th] : stack'[th][i] = stack[th][j]
      <4> HIDE DEF f
      <4> QED
        BY <3>1, FrameMoved DEF SessionInv
    <3>3. \A i \in DOMAIN stack'[th] :
            stack'[th][i] = f \/ \E j \in DOMAIN stack[th] : stack'[th][i] = stack[th][j]
      <4> HIDE DEF f
      <4> QED
        BY <3>1, <3>2
    <3>4. ASSUME NEW u \in Threads, NEW s \in Slots, InCallback(u, s)', ~ active[s]
          PROVE  InCallback(u, s)
      <4>1. PICK i \in DOMAIN stack'[u] : stack'[u][i].at = "callback" /\ stack'[u][i].slot = s
        BY <3>4 DEF InCallback
      <4>2. CASE u # th
        BY <3>2, <4>1, <4>2 DEF InCallback
      <4>3. CASE u = th
        <5>1. stack'[th][i] # f
          BY <2>2, <3>4, <4>1, <4>3
        <5>2. PICK j \in DOMAIN stack[th] : stack'[th][i] = stack[th][j]
          BY <3>3, <4>3, <5>1
        <5> QED
          BY <4>1, <4>3, <5>2 DEF InCallback
      <4> QED
        BY <4>2, <4>3
    <3> QED
      BY <3>2, <3>4 DEF SessionInv, QuietAfterReset, callback
  <2> QED
    BY <2>1, <2>2
<1>3. WorkInv'
  BY DEF SessionInv, WorkInv, snapshot, worker
<1>4. SessionTypeOK'
  BY <1>2, LabelledNext, SessionAssumption
     DEF SessionInv, SessionTypeOK, snapshot, worker, callback, Calls, CallIf, Ongoing,
         Terminal, States
<1> QED
  BY <1>2, <1>3, <1>4 DEF SessionInv

\* Destroy keeps SessionInv.
LEMMA DestroyInv == ASSUME SessionInv, Destroy PROVE SessionInv'
<1> USE DEF Destroy, Exchange
<1>1. Frame("destroy") \in FrameSet /\ Frame("destroy").at = "destroy"
  BY Plain
<1>2. Stacks' /\ QuietAfterReset'
  <2>1. CASE changed = NoSlot
    <3>1. <<>> \o <<Frame("destroy")>> = <<Frame("destroy")>>
      OBVIOUS
    <3>2. Move("ui", <<Frame("destroy")>>)
      BY <2>1, <3>1 DEF Move, Closing
    <3> QED
      BY <1>1, <3>2, QuietlyOne DEF Exchange, Threads
  <2>2. CASE changed # NoSlot
    <3>1. [at |-> "retire", slot |-> changed] \in FrameSet
      BY <2>2 DEF FrameSet, SessionInv, SessionTypeOK
    <3>2. Move("ui", <<[at |-> "retire", slot |-> changed]>> \o <<Frame("destroy")>>)
      BY <2>2 DEF Move, Closing
    <3> QED
      BY <1>1, <3>1, <3>2, QuietlyTwo DEF Exchange, Threads
  <2> QED
    BY <2>1, <2>2
<1>3. WorkInv'
  BY DEF SessionInv, WorkInv, snapshot, worker
<1>4. gone' \in BOOLEAN
  BY Zenon
<1>5. SessionTypeOK'
  BY <1>2, <1>4, LabelledNext, SessionAssumption
     DEF SessionInv, SessionTypeOK, snapshot, worker, callback, Calls, CallIf, Ongoing,
         Terminal, States
<1> QED
  BY <1>2, <1>3, <1>5 DEF SessionInv

\* DestroyCancels keeps SessionInv.
LEMMA DestroyCancelsInv == ASSUME SessionInv, DestroyCancels PROVE SessionInv'
<1> USE DEF DestroyCancels
<1>1. Stacks' /\ QuietAfterReset'
  <2>1. CASE UNCHANGED stack
    BY <2>1, Unmoved DEF callback
  <2>2. CASE Return("ui")
    BY <2>2, QuietlyNone DEF Move, callback, At, Threads
  <2> QED
    BY <2>1, <2>2
<1>2. WorkInv'
  BY DEF SessionInv, WorkInv, snapshot, worker
<1>3. control' \in
           [constructed : BOOLEAN, paused : BOOLEAN, cancelled : BOOLEAN, preferred : BOOLEAN]
  BY DEF SessionInv, SessionTypeOK, Cancelled
<1>4. SessionTypeOK'
  BY <1>1, <1>3, LabelledNext, SessionAssumption
     DEF SessionInv, SessionTypeOK, snapshot, worker, callback, Calls, CallIf, Ongoing,
         Terminal, States
<1> QED
  BY <1>1, <1>2, <1>4 DEF SessionInv

\* ReportsProgress keeps SessionInv.
LEMMA ReportsProgressInv == ASSUME SessionInv, ReportsProgress PROVE SessionInv'
<1> USE DEF ReportsProgress
<1>1. Frame("notify") \in FrameSet /\ Frame("notify").at = "notify"
  BY Plain
<1>2. Stacks' /\ QuietAfterReset'
  BY <1>1, QuietlyOne DEF Move, callback, Threads
<1>3. WorkInv'
  BY DEF SessionInv, WorkInv, snapshot, worker
<1>4. SessionTypeOK'
  BY <1>2, LabelledNext, SessionAssumption
     DEF SessionInv, SessionTypeOK, snapshot, worker, callback, Calls, CallIf, Ongoing,
         Terminal, States
<1> QED
  BY <1>2, <1>3, <1>4 DEF SessionInv

\* Blocks keeps SessionInv.
LEMMA BlocksInv == ASSUME SessionInv, Blocks PROVE SessionInv'
<1> USE DEF Blocks
<1>1. Stacks' /\ QuietAfterReset'
  BY Unmoved DEF callback
<1>2. WorkInv'
  BY DEF SessionInv, WorkInv, Working, snapshot
<1>3. SessionTypeOK'
  BY <1>1, LabelledNext, SessionAssumption
     DEF SessionInv, SessionTypeOK, snapshot, worker, callback, Calls, CallIf, Ongoing,
         Terminal, States
<1> QED
  BY <1>1, <1>2, <1>3 DEF SessionInv

\* Wakes keeps SessionInv.
LEMMA WakesInv == ASSUME SessionInv, Wakes PROVE SessionInv'
<1> USE DEF Wakes
<1>1. Stacks' /\ QuietAfterReset'
  BY Unmoved DEF callback
<1>2. WorkInv'
  BY DEF SessionInv, WorkInv, snapshot
<1>3. SessionTypeOK'
  BY <1>1, LabelledNext, SessionAssumption
     DEF SessionInv, SessionTypeOK, snapshot, worker, callback, Calls, CallIf, Ongoing,
         Terminal, States
<1> QED
  BY <1>1, <1>2, <1>3 DEF SessionInv

\* Finishes keeps SessionInv.
LEMMA FinishesInv == ASSUME SessionInv, Finishes PROVE SessionInv'
<1> USE DEF Finishes
<1>1. Stacks' /\ QuietAfterReset'
  BY Unmoved DEF callback
<1>2. WorkInv'
  BY DEF SessionInv, WorkInv, snapshot, Ongoing
<1>3. finished' \in BOOLEAN
  BY Zenon
<1>4. SessionTypeOK'
  BY <1>1, <1>3, LabelledNext, SessionAssumption
     DEF SessionInv, SessionTypeOK, snapshot, worker, callback, Calls, CallIf, Ongoing,
         Terminal, States
<1> QED
  BY <1>1, <1>2, <1>4 DEF SessionInv

\* The worker records how the download has ended.
LEMMA EndsWithInv ==
  ASSUME SessionInv, NEW result \in Terminal, EndsWith(result), downloaded' \in BOOLEAN
  PROVE  SessionInv'
<1> USE DEF EndsWith, Working
<1>1. Frame("notify") \in FrameSet /\ Frame("notify").at = "notify"
  BY Plain
<1>2. Stacks' /\ QuietAfterReset'
  BY <1>1, QuietlyOne DEF Move, callback, Threads
<1>3. WorkInv'
  BY DEF SessionInv, WorkInv, Ongoing, Terminal
<1>4. SessionTypeOK'
  BY <1>2, LabelledNext DEF SessionInv, SessionTypeOK, callback, States
<1> QED
  BY <1>2, <1>3, <1>4 DEF SessionInv

-----------------------------------------------------------------------------
\* A session starts idle, with nothing on any stack.
LEMMA InitSession == SessionInit => SessionInv
<1> SUFFICES ASSUME SessionInit PROVE SessionInv
  OBVIOUS
<1> USE DEF SessionInit
<1>1. \A th \in Threads : stack[th] = <<>> /\ DOMAIN stack[th] = {}
  OBVIOUS
<1>2. Stacks
  BY DEF Stacks
<1>3. QuietAfterReset
  BY <1>1 DEF QuietAfterReset, InCallback
<1>4. /\ background \in BOOLEAN /\ acceleration \in BOOLEAN /\ downloaded \in BOOLEAN
      /\ finished \in BOOLEAN /\ gone \in BOOLEAN
  BY Zenon
<1>5. active \in [Slots -> BOOLEAN] /\ retirer \in [Slots -> SUBSET Threads]
  BY Zenon
<1>6. SessionTypeOK
  BY <1>1, <1>4, <1>5, SessionAssumption DEF SessionTypeOK, States
<1>7. WorkInv
  BY DEF WorkInv, Ongoing
<1> QED
  BY <1>2, <1>3, <1>6, <1>7 DEF SessionInv

\* Every action keeps what the session and its threads agree on.
LEMMA NextSession == SessionInv /\ [SessionNext]_sessionVars => SessionInv'
<1> SUFFICES ASSUME SessionInv, [SessionNext]_sessionVars PROVE SessionInv'
  OBVIOUS
<1>1. ASSUME NEW th \in Threads, CallsSession(th)
      PROVE  SessionInv'
  BY <1>1, PauseInv, PauseWhenUiClosesInv, ResumeInv, ContinueInBackgroundInv,
     SetAccelerationInv,
     CancelInv, WaitForStopInv, DiscardCompletedInv, SetChangedCallbackInv DEF CallsSession
<1>2. ASSUME NEW th \in Threads, GoesOn(th)
      PROVE  SessionInv'
  BY <1>2, PausesControlInv, PausesStateInv, ResumesStateInv, ResumesControlInv,
     GoesToBackgroundInv, PrefersNodesInv, PublishesPreferenceInv, WaitEndsInv, WaitTimesOutInv,
     RetiresInv, CopiesSnapshotInv, DeliversInv, CallbackReturnsInv DEF GoesOn
<1>3. ASSUME Downloads
      PROVE  SessionInv'
  <2>1. ASSUME Completes
        PROVE  SessionInv'
    <3>1. downloaded' \in BOOLEAN
      BY <2>1, Zenon DEF Completes
    <3> QED
      BY <2>1, <3>1, EndsWithInv DEF Completes, Terminal
  <2>2. ASSUME Throws
        PROVE  SessionInv'
    BY <2>2, EndsWithInv DEF Throws, Terminal, SessionInv, SessionTypeOK
  <2> QED
    BY <1>3, <2>1, <2>2, ReportsProgressInv, BlocksInv, WakesInv, FinishesInv DEF Downloads
<1>4. ASSUME Owns
      PROVE  SessionInv'
  BY <1>4, StartInv, StartsWorkInv, DestroyInv, DestroyCancelsInv DEF Owns
<1>5. ASSUME UNCHANGED sessionVars
      PROVE  SessionInv'
  <2>1. Stacks' /\ QuietAfterReset'
    BY <1>5, Unmoved DEF sessionVars, callback
  <2>2. WorkInv' /\ SessionTypeOK'
    BY <1>5, <2>1, LabelledNext
       DEF SessionInv, WorkInv, SessionTypeOK, sessionVars, snapshot, worker,
           callback
  <2> QED
    BY <2>1, <2>2 DEF SessionInv
<1> QED
  BY <1>1, <1>2, <1>3, <1>4, <1>5 DEF SessionNext

\* So they agree in every state.
LEMMA AlwaysInv == SessionSpec => []SessionInv
  BY InitSession, NextSession, PTL DEF SessionSpec

-----------------------------------------------------------------------------
\* The session's variables have the values that SessionTypeOK names.
THEOREM SessionTypes == SessionSpec => []SessionTypeOK
<1>1. SessionInv => SessionTypeOK
  BY DEF SessionInv
<1> QED
  BY <1>1, AlwaysInv, PTL

\* A callback that set_changed_callback has replaced neither runs nor will run again on
\* a thread that did not ask for it itself.
THEOREM QuietOnceReset == SessionSpec => []QuietAfterReset
<1>1. SessionInv => QuietAfterReset
  BY DEF SessionInv
<1> QED
  BY <1>1, AlwaysInv, PTL

\* Whoever is told by wait_for_stop that the worker has stopped can read how it ended.
THEOREM OutcomeIsThere == SessionSpec => []FinishedIsTerminal
<1>1. SessionInv => FinishedIsTerminal
  BY DEF SessionInv, WorkInv, SessionTypeOK, FinishedIsTerminal, States
<1> QED
  BY <1>1, AlwaysInv, PTL

\* No pause, resume or late end of the worker replaces the outcome of a download.
THEOREM OutcomeRemains == SessionSpec => OutcomeStays
<1>1. SessionInv /\ [SessionNext]_sessionVars =>
     [(state \in Terminal /\ state' # state) => At("ui", "joining")]_sessionVars
  <2> SUFFICES ASSUME SessionInv, [SessionNext]_sessionVars, state \in Terminal, state' # state
               PROVE  At("ui", "joining")
    OBVIOUS
  <2>1. state \notin Ongoing /\ work # "running"
    BY DEF SessionInv, WorkInv, Ongoing, Terminal
  <2>2. ASSUME NEW th \in Threads, CallsSession(th)
        PROVE  FALSE
    BY <2>2 DEF CallsSession, Pause, PauseWhenUiCloses, Resume, ContinueInBackground,
       SetAcceleration, Cancel, WaitForStop, DiscardCompleted, SetChangedCallback, snapshot
  <2>3. ASSUME NEW th \in Threads, GoesOn(th)
        PROVE  FALSE
    BY <2>1, <2>3 DEF GoesOn, PausesControl, PausesState, ResumesState, ResumesControl,
       GoesToBackground, PrefersNodes, PublishesPreference, WaitEnds, WaitTimesOut, Retires,
       CopiesSnapshot, Delivers, CallbackReturns, snapshot, Ongoing
  <2>4. ASSUME Downloads
        PROVE  FALSE
    BY <2>1, <2>4
       DEF Downloads, ReportsProgress, Blocks, Wakes, Completes, Throws, EndsWith,
       Working, Finishes, snapshot
  <2>5. ASSUME Owns
        PROVE  At("ui", "joining")
    BY <2>5 DEF Owns, Start, StartsWork, Destroy, DestroyCancels, snapshot
  <2> QED
    BY <2>2, <2>3, <2>4, <2>5 DEF SessionNext, sessionVars, snapshot
<1> QED
  BY <1>1, AlwaysInv, PTL DEF SessionSpec, OutcomeStays

(***************************************************************************)
(* The transaction directory                                               *)
(***************************************************************************)

\* The steps at which the stub may run, and those by which it was waited for.
Running == Stub \cup Cleaner \cup {"delayed", "cleaned"}
Waited == {"remove stub", "remove transaction", "remove directory", "cleaned"}

Reasons == Failures \cup {"crash"}

\* The files of a launch of which nothing has failed.
Expected(step) ==
  IF step \in {"read body", "remove body"} THEN {"body"}
  ELSE IF step = "write transaction" THEN {"stub"}
  ELSE IF step \in {"start", "wait", "remove stub"} \cup Stub THEN {"stub", "transaction"}
  ELSE IF step = "remove transaction" THEN {"transaction"}
  ELSE {}

\* The transaction of the launch gets through to the stub.
Carries(l) ==
  /\ pc[l] = "read body" => text[dir[l]] = l
  /\ pc[l] \in {"remove body", "extract", "write transaction"} => body[l] = l
  /\ pc[l] \in {"start", "read"} => Has(l, "transaction") /\ text[dir[l]] = l
  /\ pc[l] \in {"work", "schedule"} \cup Cleaner => body[l] = l

\* Nothing is in the way of the next removal as long as nothing has failed.
Tidy(l) ==
  reasons[l] = {} =>
    /\ pc[l] # "discard" /\ files[dir[l]] = Expected(pc[l])
    /\ pc[l] \in Waited => l \notin alive
    /\ pc[l] \in Ended => dir[l] \notin exists

Discarded(l) == pc[l] = "failed" /\ dir[l] \in exists => "remove all" \in reasons[l]

Good(l) == Carries(l) /\ Tidy(l) /\ Discarded(l)

\* A name is made once, and nothing is in a directory whose name was not made.
Named == \A l \in Launches : dir[l] = None <=> pc[l] \in {"call", "refused"}
Fresh ==
  \A d \in Directories : (\A l \in Launches : dir[l] # d) => files[d] = {} /\ d \notin exists
Alive == \A l \in alive : pc[l] \in Running

Inv ==
  /\ TypeOK /\ Named /\ Fresh /\ Alive
  /\ \A l \in Launches : Alone(l) /\ dir[l] # None => Good(l)

-----------------------------------------------------------------------------
\* How a step of launch k may change each variable: at its own place, within its type.
Moved(k) ==
  /\ pc' \in [Launches -> Host \cup Stub \cup Cleaner \cup Ended]
  /\ \A l \in Launches \ {k} : pc'[l] = pc[l]
Held(k) ==
  /\ files' \in [Directories -> SUBSET Names]
  /\ \A d \in Directories \ {dir[k]} : files'[d] = files[d]
Told(k) ==
  /\ text' \in [Directories -> Launches \cup {None}]
  /\ \A d \in Directories \ {dir[k]} : text'[d] = text[d]
Taken(k) ==
  /\ body' \in [Launches -> Launches \cup {None}]
  /\ \A l \in Launches \ {k} : body'[l] = body[l]
Counted(k) ==
  /\ failures' \in 0 .. MaxFailures /\ reasons' \in [Launches -> SUBSET Reasons]
  /\ \A l \in Launches \ {k} : reasons'[l] = reasons[l]
Made(k) ==
  /\ exists' \subseteq Directories
  /\ \A d \in Directories \ {dir[k]} : d \in exists' <=> d \in exists
Ran(k) ==
  /\ alive' \subseteq Launches
  /\ \A l \in Launches \ {k} : l \in alive' <=> l \in alive

\* What a step of launch k may touch: its own record and its own directory.
Local(k) ==
  /\ dir' = dir /\ dir[k] \in Directories /\ delayed' \subseteq Directories
  /\ pc'[k] \notin {"call", "refused"} /\ pc[k] \notin {"call", "refused"}
  /\ k \in alive' => pc'[k] \in Running
  /\ Moved(k) /\ Held(k) /\ Told(k) /\ Taken(k) /\ Counted(k) /\ Made(k) /\ Ran(k)

\* A step that keeps to that preserves the invariant if it does for its own launch.
LEMMA LocalInv ==
  ASSUME Inv, NEW k \in Launches, Local(k), Alone(k) => Good(k)'
  PROVE Inv'
<1>0. TypeOK'
  BY DEF Inv, TypeOK, Reasons, Local, Moved, Held, Told, Taken, Counted, Made, Ran
<1>1. Named'
  BY DEF Inv, Named, Local, Moved
<1>2. Fresh'
  BY DEF Inv, Fresh, Local, Held, Made
<1>3. Alive'
  BY DEF Inv, Alive, Local, Moved, Ran, TypeOK
<1>4. ASSUME NEW l \in Launches, Alone(l)', dir'[l] # None
      PROVE Good(l)'
  <2>1. Alone(l) /\ dir[l] # None
    BY <1>4 DEF Alone, Local
  <2>2. CASE l = k
    BY <2>1, <2>2
  <2>3. CASE l # k
    <3>1. dir[l] \in Directories \ {dir[k]}
      BY <2>1, <2>3 DEF Inv, TypeOK, Alone
    <3>2. Good(l)
      BY <2>1 DEF Inv
    <3>3. /\ pc'[l] = pc[l] /\ body'[l] = body[l] /\ reasons'[l] = reasons[l] /\ dir' = dir
          /\ l \in alive' <=> l \in alive
          /\ files'[dir[l]] = files[dir[l]] /\ text'[dir[l]] = text[dir[l]]
          /\ dir[l] \in exists' <=> dir[l] \in exists
      BY <2>3, <3>1 DEF Local, Moved, Held, Told, Taken, Counted, Made, Ran
    <3>4. Carries(l)'
      BY <3>2, <3>3 DEF Good, Carries, Has
    <3>5. Tidy(l)' /\ Discarded(l)'
      BY <3>2, <3>3 DEF Good, Tidy, Discarded
    <3> QED
      BY <3>4, <3>5 DEF Good
  <2> QED
    BY <2>2, <2>3
<1> QED
  BY <1>0, <1>1, <1>2, <1>3, <1>4 DEF Inv

\* In a directory of its own only the launch's stub can be in the way.
LEMMA InUseAlone ==
  ASSUME Inv, NEW l \in Launches, Alone(l)
  PROVE InUse(l) <=> l \in alive
BY DEF Inv, TypeOK, Alone, InUse

\* A step that is no longer that of a name has a directory.
LEMMA HasDirectory ==
  ASSUME Inv, NEW l \in Launches, pc[l] \notin {"call", "refused"}
  PROVE dir[l] \in Directories /\ (Alone(l) => Good(l))
BY DEF Inv, TypeOK, Named

\* The initial state satisfies the invariant.
LEMMA InitInv == Init => Inv
BY DirectoryAssumption
   DEF Init, Inv, TypeOK, Named, Fresh, Alive, Host, Stub, Cleaner, Ended, Names

\* A failed operation is counted and remembered.
LEMMA FailsTypes ==
  ASSUME Inv, NEW l \in Launches, NEW reason \in Reasons, Fails(l, reason)
  PROVE /\ failures' \in 0 .. MaxFailures /\ reasons' \in [Launches -> SUBSET Reasons]
        /\ reason \in reasons'[l] /\ \A k \in Launches \ {l} : reasons'[k] = reasons[k]
<1>1. failures' \in 0 .. MaxFailures
  BY DirectoryAssumption DEF Inv, TypeOK, Fails
<1>2. reasons' = [reasons EXCEPT ![l] = reasons[l] \cup {reason}]
  BY DEF Fails, Because
<1>3. reasons \in [Launches -> SUBSET Reasons]
  BY DEF Inv, TypeOK, Reasons
<1>4. reasons[l] \cup {reason} \in SUBSET Reasons
  BY <1>3
<1> QED
  BY <1>1, <1>2, <1>3, <1>4, Zenon

-----------------------------------------------------------------------------
\* The host refuses, or makes a name.
LEMMA CallInv ==
  ASSUME Inv, NEW k \in Launches, Refuses(k) \/ \E d \in Directories : MakesName(k, d)
  PROVE Inv'
<1>1. CASE Refuses(k)
  <2>1. TypeOK' /\ Named' /\ Fresh' /\ Alive'
    BY <1>1
       DEF Inv, TypeOK, Named, Fresh, Alive, Refuses, Go, place, Ended, Running,
           Stub, Cleaner
  <2>2. ASSUME NEW l \in Launches, Alone(l)', dir'[l] # None
        PROVE Good(l)'
    <3>1. UNCHANGED <<dir, exists, files, text, body, alive, reasons>>
      BY <1>1 DEF Refuses, place
    <3>2. Alone(l) /\ dir[l] # None /\ Good(l)
      BY <2>2, <3>1 DEF Inv, Alone
    <3>3. pc'[l] = pc[l]
      BY <1>1, <3>2 DEF Inv, TypeOK, Named, Refuses, Go
    <3> QED
      BY <3>1, <3>2, <3>3 DEF Good, Carries, Tidy, Discarded, Has
  <2> QED
    BY <2>1, <2>2 DEF Inv
<1>2. ASSUME NEW d \in Directories, MakesName(k, d)
      PROVE Inv'
  <2>0. TypeOK'
    BY <1>2 DEF Inv, TypeOK, MakesName, Go, Host
  <2>1. Named' /\ Alive'
    <3>1. d # None /\ pc[k] \notin Running
      BY <1>2, DirectoryAssumption DEF MakesName, Running, Stub, Cleaner
    <3> QED
      BY <1>2, <3>1 DEF Inv, TypeOK, Named, Alive, MakesName, Go
  <2>2. Fresh'
    BY <1>2, DirectoryAssumption DEF Inv, TypeOK, Named, Fresh, MakesName
  <2>3. ASSUME NEW l \in Launches, Alone(l)', dir'[l] # None
        PROVE Good(l)'
    <3>1. CASE l = k
      <4>1. dir'[l] = d /\ pc'[l] = "write body" /\ \A j \in Launches : dir[j] # d
        BY <1>2, <2>3, <3>1, DirectoryAssumption
           DEF Inv, TypeOK, Named, MakesName, Go, Alone
      <4>2. files'[d] = {}
        BY <1>2, <4>1 DEF Inv, Fresh, MakesName
      <4> QED
        BY <4>1, <4>2
           DEF Good, Carries, Tidy, Discarded, Expected, Waited, Ended, Stub, Cleaner
    <3>2. CASE l # k
      <4>1. /\ UNCHANGED <<exists, files, text, body, alive, reasons>>
            /\ pc'[l] = pc[l] /\ dir'[l] = dir[l]
        BY <1>2, <3>2 DEF Inv, TypeOK, MakesName, Go
      <4>2. Alone(l)
        BY <1>2, <2>3, <3>2, DirectoryAssumption DEF Inv, TypeOK, Named, MakesName, Alone
      <4>3. Good(l)
        BY <2>3, <4>1, <4>2 DEF Inv
      <4> QED
        BY <4>1, <4>3 DEF Good, Carries, Tidy, Discarded, Has
    <3> QED
      BY <3>1, <3>2
  <2> QED
    BY <2>0, <2>1, <2>2, <2>3 DEF Inv
<1> QED
  BY <1>1, <1>2

-----------------------------------------------------------------------------
\* What does not change is within those limits.
LEMMA SameLocal ==
  ASSUME Inv, NEW k \in Launches
  PROVE /\ UNCHANGED text => Told(k)
        /\ UNCHANGED body => Taken(k)
        /\ UNCHANGED exists => Made(k)
        /\ UNCHANGED alive => Ran(k)
        /\ UNCHANGED delayed => delayed' \subseteq Directories
        /\ UNCHANGED files => Held(k)
        /\ UNCHANGED <<failures, reasons>> => Counted(k)
BY DEF Inv, TypeOK, Reasons, Told, Taken, Made, Ran, Held, Counted

\* A reason is added.
LEMMA CountedBecause ==
  ASSUME Inv, NEW k \in Launches, NEW reason \in Reasons, Because(k, reason), UNCHANGED failures
  PROVE Counted(k) /\ reason \in reasons'[k]
<1>1. reasons' = [reasons EXCEPT ![k] = reasons[k] \cup {reason}]
  BY DEF Because
<1>2. failures \in 0 .. MaxFailures /\ reasons \in [Launches -> SUBSET Reasons]
  BY DEF Inv, TypeOK, Reasons
<1>3. reasons[k] \cup {reason} \in SUBSET Reasons
  BY <1>2
<1> QED
  BY <1>1, <1>2, <1>3, Zenon DEF Counted

\* An operation fails.
LEMMA CountedFails ==
  ASSUME Inv, NEW k \in Launches, NEW reason \in Reasons, Fails(k, reason)
  PROVE Counted(k) /\ reason \in reasons'[k]
BY FailsTypes DEF Counted

\* The launch goes to its next step.
LEMMA MovedGo ==
  ASSUME Inv, NEW k \in Launches, NEW step \in Host \cup Stub \cup Cleaner \cup Ended, Go(k, step)
  PROVE Moved(k) /\ pc'[k] = step
BY DEF Inv, TypeOK, Go, Moved

\* The files of its directory change.
LEMMA HeldHolds ==
  ASSUME Inv, NEW k \in Launches, dir[k] \in Directories, NEW names \in SUBSET Names, Holds(k, names)
  PROVE Held(k) /\ files'[dir[k]] = names
<1>1. files \in [Directories -> SUBSET Names]
  BY DEF Inv, TypeOK, Reasons
<1> QED
  BY <1>1 DEF Held, Holds

\* What the invariant says of the types.
LEMMA InvTypes == Inv => delayed \subseteq Directories
BY DEF Inv, TypeOK

\* The stub does not run while the host is at it.
LEMMA HostNotAlive == ASSUME Inv, NEW k \in Launches, pc[k] \in Host PROVE k \notin alive
BY DEF Inv, Alive, Running, Host, Stub, Cleaner

\* A step that gives up, or ends badly, has a reason.
LEMMA ReasonInv ==
  ASSUME Inv, NEW k \in Launches, Local(k), reasons'[k] # {},
         pc'[k] \in {"discard", "thrown", "unread", "died", "delayed"}
  PROVE Inv'
<1>1. Good(k)'
  BY DEF Good, Carries, Tidy, Discarded, Cleaner
<1> QED
  BY <1>1, LocalInv

-----------------------------------------------------------------------------
\* The host writes the body.
LEMMA WritesBodyInv ==
  ASSUME Inv, NEW k \in Launches, WritesBody(k)
  PROVE Inv'
<1>1. dir[k] \in Directories /\ (Alone(k) => Good(k)) /\ pc[k] = "write body"
  BY HasDirectory DEF WritesBody, Writes
<1>2. UNCHANGED <<dir, body, alive, delayed>> /\ k \notin alive
  BY <1>1, HostNotAlive DEF WritesBody, Writes, place, Host
<1>3. CASE Go(k, "read body") /\ Holds(k, files[dir[k]] \cup {"body"})
           /\ text' = [text EXCEPT ![dir[k]] = k] /\ exists' = exists \cup {dir[k]}
           /\ UNCHANGED <<failures, reasons>>
  <2>1. Moved(k) /\ pc'[k] = "read body"
    BY <1>3, MovedGo DEF Host, Stub, Cleaner, Ended
  <2>2. Held(k) /\ files'[dir[k]] = files[dir[k]] \cup {"body"}
    BY <1>1, <1>3, HeldHolds DEF Inv, TypeOK, Names
  <2>3. Told(k) /\ text'[dir[k]] = k
    BY <1>1, <1>3 DEF Inv, TypeOK, Told
  <2>4. Made(k)
    BY <1>1, <1>3 DEF Inv, TypeOK, Made
  <2>5. Local(k)
    BY <1>1, <1>2, <1>3, <2>1, <2>2, <2>3, <2>4, SameLocal, InvTypes
       DEF Local, Running, Host, Stub, Cleaner, Ended
  <2>6. ASSUME Alone(k)
        PROVE Good(k)'
    BY <1>1, <1>2, <1>3, <2>1, <2>2, <2>3, <2>4, <2>6, SameLocal
       DEF Good, Carries, Tidy, Discarded, Expected, Waited, Running, Has, Host, Stub, Cleaner, Ended
  <2> QED
    BY <2>5, <2>6, LocalInv
<1>4. CASE Go(k, "discard") /\ Fails(k, "write") /\ UNCHANGED <<files, text>>
           /\ exists' = exists \cup {dir[k]}
  <2>1. Moved(k) /\ pc'[k] = "discard"
    BY <1>4, MovedGo DEF Host, Stub, Cleaner, Ended
  <2>2. Counted(k) /\ "write" \in reasons'[k]
    BY <1>4, CountedFails DEF Reasons, Failures
  <2>3. Made(k)
    BY <1>1, <1>4 DEF Inv, TypeOK, Made
  <2>4. Local(k)
    BY <1>1, <1>2, <1>4, <2>1, <2>2, <2>3, SameLocal, InvTypes
       DEF Local, Running, Host, Stub, Cleaner, Ended
  <2> QED
    BY <2>1, <2>2, <2>3, <2>4, ReasonInv
<1> QED
  BY <1>1, <1>3, <1>4 DEF WritesBody, Writes

\* It reads the body back.
LEMMA ReadsBodyInv ==
  ASSUME Inv, NEW k \in Launches, ReadsBody(k)
  PROVE Inv'
<1>1. dir[k] \in Directories /\ (Alone(k) => Good(k)) /\ pc[k] = "read body"
  BY HasDirectory DEF ReadsBody
<1>2. UNCHANGED <<dir, exists, files, text, alive, delayed>> /\ k \notin alive
  BY <1>1, HostNotAlive DEF ReadsBody, place, Host
<1>3. CASE Has(k, "body") /\ Go(k, "remove body")
           /\ body' = [body EXCEPT ![k] = text[dir[k]]] /\ UNCHANGED <<failures, reasons>>
  <2>1. Moved(k) /\ pc'[k] = "remove body"
    BY <1>3, MovedGo DEF Host, Stub, Cleaner, Ended
  <2>2. Taken(k) /\ body'[k] = text[dir[k]]
    BY <1>1, <1>3 DEF Inv, TypeOK, Taken
  <2>3. Local(k)
    BY <1>1, <1>2, <1>3, <2>1, <2>2, SameLocal, InvTypes
       DEF Local, Running, Host, Stub, Cleaner, Ended
  <2>4. ASSUME Alone(k)
        PROVE Good(k)'
    BY <1>1, <1>2, <1>3, <2>1, <2>2, <2>4, SameLocal
       DEF Good, Carries, Tidy, Discarded, Expected, Waited, Running, Has, Host, Stub, Cleaner, Ended
  <2> QED
    BY <2>3, <2>4, LocalInv
<1>4. CASE Go(k, "thrown") /\ Because(k, "read") /\ UNCHANGED <<body, failures>>
  <2>1. Moved(k) /\ pc'[k] = "thrown"
    BY <1>4, MovedGo DEF Host, Stub, Cleaner, Ended
  <2>2. Counted(k) /\ "read" \in reasons'[k]
    BY <1>4, CountedBecause DEF Reasons, Failures
  <2>3. Local(k)
    BY <1>1, <1>2, <1>4, <2>1, <2>2, SameLocal, InvTypes
       DEF Local, Running, Host, Stub, Cleaner, Ended
  <2> QED
    BY <2>1, <2>2, <2>3, ReasonInv
<1>5. CASE Go(k, "thrown") /\ Fails(k, "read") /\ UNCHANGED body
  <2>1. Moved(k) /\ pc'[k] = "thrown"
    BY <1>5, MovedGo DEF Host, Stub, Cleaner, Ended
  <2>2. Counted(k) /\ "read" \in reasons'[k]
    BY <1>5, CountedFails DEF Reasons, Failures
  <2>3. Local(k)
    BY <1>1, <1>2, <1>5, <2>1, <2>2, SameLocal, InvTypes
       DEF Local, Running, Host, Stub, Cleaner, Ended
  <2> QED
    BY <2>1, <2>2, <2>3, ReasonInv
<1> QED
  BY <1>1, <1>3, <1>4, <1>5 DEF ReadsBody

\* It removes the body.
LEMMA RemovesBodyInv ==
  ASSUME Inv, NEW k \in Launches, RemovesBody(k)
  PROVE Inv'
<1>1. dir[k] \in Directories /\ (Alone(k) => Good(k)) /\ pc[k] = "remove body"
  BY HasDirectory DEF RemovesBody
<1>2. UNCHANGED <<dir, exists, text, body, alive, delayed>> /\ k \notin alive
  BY <1>1, HostNotAlive DEF RemovesBody, place, Host
<1>3. CASE Go(k, "extract") /\ Holds(k, files[dir[k]] \ {"body"})
           /\ UNCHANGED <<failures, reasons>>
  <2>1. Moved(k) /\ pc'[k] = "extract"
    BY <1>3, MovedGo DEF Host, Stub, Cleaner, Ended
  <2>2. Held(k) /\ files'[dir[k]] = files[dir[k]] \ {"body"}
    BY <1>1, <1>3, HeldHolds DEF Inv, TypeOK, Names
  <2>3. Local(k)
    BY <1>1, <1>2, <1>3, <2>1, <2>2, SameLocal, InvTypes
       DEF Local, Running, Host, Stub, Cleaner, Ended
  <2>4. ASSUME Alone(k)
        PROVE Good(k)'
    BY <1>1, <1>2, <1>3, <2>1, <2>2, <2>4, SameLocal
       DEF Good, Carries, Tidy, Discarded, Expected, Waited, Running, Has, Host, Stub, Cleaner, Ended
  <2> QED
    BY <2>3, <2>4, LocalInv
<1>4. CASE Go(k, "extract") /\ Fails(k, "remove body") /\ UNCHANGED files
  <2>1. Moved(k) /\ pc'[k] = "extract"
    BY <1>4, MovedGo DEF Host, Stub, Cleaner, Ended
  <2>2. Counted(k) /\ "remove body" \in reasons'[k]
    BY <1>4, CountedFails DEF Reasons, Failures
  <2>3. Local(k)
    BY <1>1, <1>2, <1>4, <2>1, <2>2, SameLocal, InvTypes
       DEF Local, Running, Host, Stub, Cleaner, Ended
  <2>4. ASSUME Alone(k)
        PROVE Good(k)'
    BY <1>1, <1>2, <1>4, <2>1, <2>2, <2>4, SameLocal
       DEF Good, Carries, Tidy, Discarded, Expected, Waited, Running, Has, Host, Stub, Cleaner, Ended
  <2> QED
    BY <2>3, <2>4, LocalInv
<1> QED
  BY <1>1, <1>3, <1>4 DEF RemovesBody

\* It puts the stub there.
LEMMA ExtractsInv ==
  ASSUME Inv, NEW k \in Launches, Extracts(k)
  PROVE Inv'
<1>1. dir[k] \in Directories /\ (Alone(k) => Good(k)) /\ pc[k] = "extract"
  BY HasDirectory DEF Extracts
<1>2. UNCHANGED <<dir, text, body, alive, delayed>> /\ k \notin alive
  BY <1>1, HostNotAlive DEF Extracts, place, Host
<1>3. CASE Go(k, "write transaction") /\ exists' = exists \cup {dir[k]}
           /\ Holds(k, files[dir[k]] \cup {"stub"}) /\ UNCHANGED <<failures, reasons>>
  <2>1. Moved(k) /\ pc'[k] = "write transaction"
    BY <1>3, MovedGo DEF Host, Stub, Cleaner, Ended
  <2>2. Held(k) /\ files'[dir[k]] = files[dir[k]] \cup {"stub"}
    BY <1>1, <1>3, HeldHolds DEF Inv, TypeOK, Names
  <2>3. Made(k)
    BY <1>1, <1>3 DEF Inv, TypeOK, Made
  <2>4. Local(k)
    BY <1>1, <1>2, <1>3, <2>1, <2>2, <2>3, SameLocal, InvTypes
       DEF Local, Running, Host, Stub, Cleaner, Ended
  <2>5. ASSUME Alone(k)
        PROVE Good(k)'
    BY <1>1, <1>2, <1>3, <2>1, <2>2, <2>3, <2>5, SameLocal
       DEF Good, Carries, Tidy, Discarded, Expected, Waited, Running, Has, Host, Stub, Cleaner, Ended
  <2> QED
    BY <2>4, <2>5, LocalInv
<1>4. CASE InUse(k) /\ Go(k, "discard") /\ UNCHANGED <<exists, files, failures, reasons>>
  <2>1. Moved(k) /\ pc'[k] = "discard"
    BY <1>4, MovedGo DEF Host, Stub, Cleaner, Ended
  <2>2. Local(k)
    BY <1>1, <1>2, <1>4, <2>1, SameLocal, InvTypes
       DEF Local, Running, Host, Stub, Cleaner, Ended
  <2>3. ASSUME Alone(k)
        PROVE Good(k)'
    BY <1>1, <1>2, <1>4, <2>1, <2>3, InUseAlone
       DEF Good, Carries, Tidy, Discarded, Expected, Waited, Running, Has, Host, Stub, Cleaner, Ended
  <2> QED
    BY <2>2, <2>3, LocalInv
<1>5. CASE Go(k, "discard") /\ Fails(k, "extract")
           /\ \/ UNCHANGED <<exists, files>>
              \/ exists' = exists \cup {dir[k]} /\ Holds(k, files[dir[k]] \cup {"stub"})
  <2>1. Moved(k) /\ pc'[k] = "discard"
    BY <1>5, MovedGo DEF Host, Stub, Cleaner, Ended
  <2>2. Counted(k) /\ "extract" \in reasons'[k]
    BY <1>5, CountedFails DEF Reasons, Failures
  <2>3. Held(k) /\ Made(k)
    <3>1. CASE UNCHANGED <<exists, files>>
      BY <3>1, SameLocal
    <3>2. CASE exists' = exists \cup {dir[k]} /\ Holds(k, files[dir[k]] \cup {"stub"})
      <4>1. Held(k)
        BY <1>1, <3>2, HeldHolds DEF Inv, TypeOK, Names
      <4>2. Made(k)
        BY <1>1, <3>2 DEF Inv, TypeOK, Made
      <4> QED
        BY <4>1, <4>2
    <3> QED
      BY <1>5, <3>1, <3>2
  <2>4. Local(k)
    BY <1>1, <1>2, <1>5, <2>1, <2>2, <2>3, SameLocal, InvTypes
       DEF Local, Running, Host, Stub, Cleaner, Ended
  <2> QED
    BY <2>1, <2>2, <2>4, ReasonInv
<1> QED
  BY <1>1, <1>3, <1>4, <1>5 DEF Extracts

\* It writes the transaction.
LEMMA WritesTransactionInv ==
  ASSUME Inv, NEW k \in Launches, WritesTransaction(k)
  PROVE Inv'
<1>1. dir[k] \in Directories /\ (Alone(k) => Good(k)) /\ pc[k] = "write transaction"
  BY HasDirectory DEF WritesTransaction, Writes
<1>2. UNCHANGED <<dir, body, alive, delayed>> /\ k \notin alive
  BY <1>1, HostNotAlive DEF WritesTransaction, Writes, place, Host
<1>3. CASE Go(k, "start") /\ Holds(k, files[dir[k]] \cup {"transaction"})
           /\ text' = [text EXCEPT ![dir[k]] = body[k]] /\ exists' = exists \cup {dir[k]}
           /\ UNCHANGED <<failures, reasons>>
  <2>1. Moved(k) /\ pc'[k] = "start"
    BY <1>3, MovedGo DEF Host, Stub, Cleaner, Ended
  <2>2. Held(k) /\ files'[dir[k]] = files[dir[k]] \cup {"transaction"}
    BY <1>1, <1>3, HeldHolds DEF Inv, TypeOK, Names
  <2>3. Told(k) /\ text'[dir[k]] = body[k]
    BY <1>1, <1>3 DEF Inv, TypeOK, Told
  <2>4. Made(k)
    BY <1>1, <1>3 DEF Inv, TypeOK, Made
  <2>5. Local(k)
    BY <1>1, <1>2, <1>3, <2>1, <2>2, <2>3, <2>4, SameLocal, InvTypes
       DEF Local, Running, Host, Stub, Cleaner, Ended
  <2>6. ASSUME Alone(k)
        PROVE Good(k)'
    BY <1>1, <1>2, <1>3, <2>1, <2>2, <2>3, <2>4, <2>6, SameLocal
       DEF Good, Carries, Tidy, Discarded, Expected, Waited, Running, Has, Host, Stub, Cleaner, Ended
  <2> QED
    BY <2>5, <2>6, LocalInv
<1>4. CASE Go(k, "discard") /\ Fails(k, "write") /\ UNCHANGED <<files, text>>
           /\ exists' = exists \cup {dir[k]}
  <2>1. Moved(k) /\ pc'[k] = "discard"
    BY <1>4, MovedGo DEF Host, Stub, Cleaner, Ended
  <2>2. Counted(k) /\ "write" \in reasons'[k]
    BY <1>4, CountedFails DEF Reasons, Failures
  <2>3. Made(k)
    BY <1>1, <1>4 DEF Inv, TypeOK, Made
  <2>4. Local(k)
    BY <1>1, <1>2, <1>4, <2>1, <2>2, <2>3, SameLocal, InvTypes
       DEF Local, Running, Host, Stub, Cleaner, Ended
  <2> QED
    BY <2>1, <2>2, <2>3, <2>4, ReasonInv
<1> QED
  BY <1>1, <1>3, <1>4 DEF WritesTransaction, Writes

\* It starts the stub.
LEMMA StartsInv ==
  ASSUME Inv, NEW k \in Launches, Starts(k)
  PROVE Inv'
<1>1. dir[k] \in Directories /\ (Alone(k) => Good(k)) /\ pc[k] = "start"
  BY HasDirectory DEF Starts
<1>2. UNCHANGED <<dir, exists, files, text, body, delayed>> /\ k \notin alive
  BY <1>1, HostNotAlive DEF Starts, place, Host
<1>3. CASE Go(k, "read") /\ alive' = alive \cup {k} /\ UNCHANGED <<failures, reasons>>
  <2>1. Moved(k) /\ pc'[k] = "read"
    BY <1>3, MovedGo DEF Host, Stub, Cleaner, Ended
  <2>2. Ran(k)
    BY <1>3 DEF Inv, TypeOK, Ran
  <2>3. Local(k)
    BY <1>1, <1>2, <1>3, <2>1, <2>2, SameLocal, InvTypes
       DEF Local, Running, Host, Stub, Cleaner, Ended
  <2>4. ASSUME Alone(k)
        PROVE Good(k)'
    BY <1>1, <1>2, <1>3, <2>1, <2>2, <2>4, SameLocal
       DEF Good, Carries, Tidy, Discarded, Expected, Waited, Running, Has, Host, Stub, Cleaner, Ended
  <2> QED
    BY <2>3, <2>4, LocalInv
<1>4. CASE ~Has(k, "stub") /\ Go(k, "discard") /\ UNCHANGED <<alive, failures, reasons>>
  <2>1. Moved(k) /\ pc'[k] = "discard"
    BY <1>4, MovedGo DEF Host, Stub, Cleaner, Ended
  <2>2. Local(k)
    BY <1>1, <1>2, <1>4, <2>1, SameLocal, InvTypes
       DEF Local, Running, Host, Stub, Cleaner, Ended
  <2>3. ASSUME Alone(k)
        PROVE Good(k)'
    BY <1>1, <1>2, <1>4, <2>1, <2>3, SameLocal
       DEF Good, Carries, Tidy, Discarded, Expected, Waited, Running, Has, Host, Stub, Cleaner, Ended
  <2> QED
    BY <2>2, <2>3, LocalInv
<1>5. CASE Go(k, "discard") /\ Fails(k, "start") /\ UNCHANGED alive
  <2>1. Moved(k) /\ pc'[k] = "discard"
    BY <1>5, MovedGo DEF Host, Stub, Cleaner, Ended
  <2>2. Counted(k) /\ "start" \in reasons'[k]
    BY <1>5, CountedFails DEF Reasons, Failures
  <2>3. Local(k)
    BY <1>1, <1>2, <1>5, <2>1, <2>2, SameLocal, InvTypes
       DEF Local, Running, Host, Stub, Cleaner, Ended
  <2> QED
    BY <2>1, <2>2, <2>3, ReasonInv
<1> QED
  BY <1>1, <1>3, <1>4, <1>5 DEF Starts

\* It takes everything back.
LEMMA DiscardsInv ==
  ASSUME Inv, NEW k \in Launches, Discards(k)
  PROVE Inv'
<1>1. dir[k] \in Directories /\ (Alone(k) => Good(k)) /\ pc[k] = "discard"
  BY HasDirectory DEF Discards
<1>2. UNCHANGED <<dir, text, body, alive, delayed>> /\ k \notin alive
  BY <1>1, HostNotAlive DEF Discards, place, Host
<1>3. CASE Go(k, "failed") /\ Holds(k, {}) /\ exists' = exists \ {dir[k]}
           /\ UNCHANGED <<failures, reasons>>
  <2>1. Moved(k) /\ pc'[k] = "failed"
    BY <1>3, MovedGo DEF Host, Stub, Cleaner, Ended
  <2>2. Held(k) /\ files'[dir[k]] = {}
    BY <1>1, <1>3, HeldHolds DEF Inv, TypeOK, Names
  <2>3. Made(k)
    BY <1>1, <1>3 DEF Inv, TypeOK, Made
  <2>4. Local(k)
    BY <1>1, <1>2, <1>3, <2>1, <2>2, <2>3, SameLocal, InvTypes
       DEF Local, Running, Host, Stub, Cleaner, Ended
  <2>5. ASSUME Alone(k)
        PROVE Good(k)'
    BY <1>1, <1>2, <1>3, <2>1, <2>2, <2>3, <2>5, SameLocal
       DEF Good, Carries, Tidy, Discarded, Expected, Waited, Running, Has, Host, Stub, Cleaner, Ended
  <2> QED
    BY <2>4, <2>5, LocalInv
<1>4. CASE /\ Go(k, "failed") /\ UNCHANGED exists
           /\ InUse(k) /\ UNCHANGED <<failures, reasons>>
           /\ \E rest \in SUBSET files[dir[k]] :
                Holds(k, IF InUse(k) THEN rest \cup {"stub"} ELSE rest)
  <2>1. Moved(k) /\ pc'[k] = "failed"
    BY <1>4, MovedGo DEF Host, Stub, Cleaner, Ended
  <2>2. Held(k)
    BY <1>1, <1>4, HeldHolds DEF Inv, TypeOK, Names
  <2>3. Local(k)
    BY <1>1, <1>2, <1>4, <2>1, <2>2, SameLocal, InvTypes
       DEF Local, Running, Host, Stub, Cleaner, Ended
  <2>4. ASSUME Alone(k)
        PROVE Good(k)'
    BY <1>1, <1>2, <1>4, <2>1, <2>2, <2>4, InUseAlone
       DEF Good, Carries, Tidy, Discarded, Expected, Waited, Running, Has, Host, Stub, Cleaner, Ended
  <2> QED
    BY <2>3, <2>4, LocalInv
<1>5. CASE /\ Go(k, "failed") /\ UNCHANGED exists /\ Fails(k, "remove all")
           /\ \E rest \in SUBSET files[dir[k]] :
                Holds(k, IF InUse(k) THEN rest \cup {"stub"} ELSE rest)
  <2>1. Moved(k) /\ pc'[k] = "failed"
    BY <1>5, MovedGo DEF Host, Stub, Cleaner, Ended
  <2>2. Held(k)
    BY <1>1, <1>5, HeldHolds DEF Inv, TypeOK, Names
  <2>3. Counted(k) /\ "remove all" \in reasons'[k]
    BY <1>5, CountedFails DEF Reasons, Failures
  <2>4. Local(k)
    BY <1>1, <1>2, <1>5, <2>1, <2>2, <2>3, SameLocal, InvTypes
       DEF Local, Running, Host, Stub, Cleaner, Ended
  <2>5. ASSUME Alone(k)
        PROVE Good(k)'
    BY <1>1, <1>2, <1>5, <2>1, <2>2, <2>3, <2>5, SameLocal
       DEF Good, Carries, Tidy, Discarded, Expected, Waited, Running, Has, Host, Stub, Cleaner, Ended
  <2> QED
    BY <2>4, <2>5, LocalInv
<1> QED
  BY <1>1, <1>3, <1>4, <1>5 DEF Discards

\* The stub reads its transaction.
LEMMA ReadsTransactionInv ==
  ASSUME Inv, NEW k \in Launches, ReadsTransaction(k)
  PROVE Inv'
<1>1. dir[k] \in Directories /\ (Alone(k) => Good(k)) /\ pc[k] = "read"
  BY HasDirectory DEF ReadsTransaction
<1>2. UNCHANGED <<dir, exists, files, text, delayed>>
  BY DEF ReadsTransaction, place
<1>3. CASE Has(k, "transaction") /\ Go(k, "work")
           /\ body' = [body EXCEPT ![k] = text[dir[k]]]
           /\ UNCHANGED <<alive, failures, reasons>>
  <2>1. Moved(k) /\ pc'[k] = "work"
    BY <1>3, MovedGo DEF Host, Stub, Cleaner, Ended
  <2>2. Taken(k) /\ body'[k] = text[dir[k]]
    BY <1>1, <1>3 DEF Inv, TypeOK, Taken
  <2>3. Local(k)
    BY <1>1, <1>2, <1>3, <2>1, <2>2, SameLocal, InvTypes
       DEF Local, Running, Host, Stub, Cleaner, Ended
  <2>4. ASSUME Alone(k)
        PROVE Good(k)'
    BY <1>1, <1>2, <1>3, <2>1, <2>2, <2>4, SameLocal
       DEF Good, Carries, Tidy, Discarded, Expected, Waited, Running, Has, Host, Stub, Cleaner, Ended
  <2> QED
    BY <2>3, <2>4, LocalInv
<1>4. CASE Go(k, "unread") /\ Because(k, "unread") /\ alive' = alive \ {k}
           /\ UNCHANGED <<body, failures>>
  <2>1. Moved(k) /\ pc'[k] = "unread"
    BY <1>4, MovedGo DEF Host, Stub, Cleaner, Ended
  <2>2. Counted(k) /\ "unread" \in reasons'[k]
    BY <1>4, CountedBecause DEF Reasons, Failures
  <2>3. Ran(k)
    BY <1>4 DEF Inv, TypeOK, Ran
  <2>4. Local(k)
    BY <1>1, <1>2, <1>4, <2>1, <2>2, <2>3, SameLocal, InvTypes
       DEF Local, Running, Host, Stub, Cleaner, Ended
  <2> QED
    BY <2>1, <2>2, <2>3, <2>4, ReasonInv
<1>5. CASE Go(k, "unread") /\ Fails(k, "unread") /\ alive' = alive \ {k} /\ UNCHANGED body
  <2>1. Moved(k) /\ pc'[k] = "unread"
    BY <1>5, MovedGo DEF Host, Stub, Cleaner, Ended
  <2>2. Counted(k) /\ "unread" \in reasons'[k]
    BY <1>5, CountedFails DEF Reasons, Failures
  <2>3. Ran(k)
    BY <1>5 DEF Inv, TypeOK, Ran
  <2>4. Local(k)
    BY <1>1, <1>2, <1>5, <2>1, <2>2, <2>3, SameLocal, InvTypes
       DEF Local, Running, Host, Stub, Cleaner, Ended
  <2> QED
    BY <2>1, <2>2, <2>3, <2>4, ReasonInv
<1> QED
  BY <1>1, <1>3, <1>4, <1>5 DEF ReadsTransaction

\* It does what the transaction says.
LEMMA WorksInv ==
  ASSUME Inv, NEW k \in Launches, Works(k)
  PROVE Inv'
<1>1. dir[k] \in Directories /\ (Alone(k) => Good(k)) /\ pc[k] = "work"
  BY HasDirectory DEF Works
<1>2. UNCHANGED <<dir, exists, text, body, alive, delayed>>
  BY DEF Works, place
<1>3. CASE Go(k, "schedule") /\ UNCHANGED <<files, failures, reasons>>
  <2>1. Moved(k) /\ pc'[k] = "schedule"
    BY <1>3, MovedGo DEF Host, Stub, Cleaner, Ended
  <2>2. Local(k)
    BY <1>1, <1>2, <1>3, <2>1, SameLocal, InvTypes
       DEF Local, Running, Host, Stub, Cleaner, Ended
  <2>3. ASSUME Alone(k)
        PROVE Good(k)'
    BY <1>1, <1>2, <1>3, <2>1, <2>3, SameLocal
       DEF Good, Carries, Tidy, Discarded, Expected, Waited, Running, Has, Host, Stub, Cleaner, Ended
  <2> QED
    BY <2>2, <2>3, LocalInv
<1>4. CASE Go(k, "schedule") /\ Holds(k, files[dir[k]] \cup {"marker"}) /\ Fails(k, "marker")
  <2>1. Moved(k) /\ pc'[k] = "schedule"
    BY <1>4, MovedGo DEF Host, Stub, Cleaner, Ended
  <2>2. Held(k) /\ files'[dir[k]] = files[dir[k]] \cup {"marker"}
    BY <1>1, <1>4, HeldHolds DEF Inv, TypeOK, Names
  <2>3. Counted(k) /\ "marker" \in reasons'[k]
    BY <1>4, CountedFails DEF Reasons, Failures
  <2>4. Local(k)
    BY <1>1, <1>2, <1>4, <2>1, <2>2, <2>3, SameLocal, InvTypes
       DEF Local, Running, Host, Stub, Cleaner, Ended
  <2>5. ASSUME Alone(k)
        PROVE Good(k)'
    BY <1>1, <1>2, <1>4, <2>1, <2>2, <2>3, <2>5, SameLocal
       DEF Good, Carries, Tidy, Discarded, Expected, Waited, Running, Has, Host, Stub, Cleaner, Ended
  <2> QED
    BY <2>4, <2>5, LocalInv
<1> QED
  BY <1>1, <1>3, <1>4 DEF Works

\* It schedules its removal.
LEMMA SchedulesInv ==
  ASSUME Inv, NEW k \in Launches, Schedules(k)
  PROVE Inv'
<1>1. dir[k] \in Directories /\ (Alone(k) => Good(k)) /\ pc[k] = "schedule"
  BY HasDirectory DEF Schedules
<1>2. UNCHANGED <<dir, exists, files, text, body, alive>>
  BY DEF Schedules, place
<1>3. CASE Go(k, "wait") /\ UNCHANGED <<delayed, failures, reasons>>
  <2>1. Moved(k) /\ pc'[k] = "wait"
    BY <1>3, MovedGo DEF Host, Stub, Cleaner, Ended
  <2>2. Local(k)
    BY <1>1, <1>2, <1>3, <2>1, SameLocal, InvTypes
       DEF Local, Running, Host, Stub, Cleaner, Ended
  <2>3. ASSUME Alone(k)
        PROVE Good(k)'
    BY <1>1, <1>2, <1>3, <2>1, <2>3, SameLocal
       DEF Good, Carries, Tidy, Discarded, Expected, Waited, Running, Has, Host, Stub, Cleaner, Ended
  <2> QED
    BY <2>2, <2>3, LocalInv
<1>4. CASE Go(k, "delayed") /\ Fails(k, "schedule") /\ delayed' \in {delayed, delayed \cup {dir[k]}}
  <2>1. Moved(k) /\ pc'[k] = "delayed"
    BY <1>4, MovedGo DEF Host, Stub, Cleaner, Ended
  <2>2. Counted(k) /\ "schedule" \in reasons'[k]
    BY <1>4, CountedFails DEF Reasons, Failures
  <2>3. delayed' \subseteq Directories
    BY <1>1, <1>4 DEF Inv, TypeOK
  <2>4. Local(k)
    BY <1>1, <1>2, <1>4, <2>1, <2>2, <2>3, SameLocal, InvTypes
       DEF Local, Running, Host, Stub, Cleaner, Ended
  <2> QED
    BY <2>1, <2>2, <2>3, <2>4, ReasonInv
<1> QED
  BY <1>1, <1>3, <1>4 DEF Schedules

\* It exits.
LEMMA StubExitsInv ==
  ASSUME Inv, NEW k \in Launches, StubExits(k)
  PROVE Inv'
<1>1. /\ dir[k] \in Directories /\ (Alone(k) => Good(k)) /\ k \in alive
      /\ pc[k] \in Cleaner \cup {"delayed", "cleaned"}
  BY HasDirectory DEF StubExits, Cleaner
<1>2. UNCHANGED <<pc, dir, exists, files, text, body, delayed, failures, reasons>>
  BY DEF StubExits, place
<1>3. Ran(k) /\ k \notin alive' /\ Moved(k)
  BY <1>2 DEF StubExits, Inv, TypeOK, Ran, Moved
<1>4. Local(k)
  BY <1>1, <1>2, <1>3, SameLocal, InvTypes DEF Local, Cleaner
<1>5. ASSUME Alone(k)
      PROVE Good(k)'
  BY <1>1, <1>2, <1>3, <1>5 DEF Good, Carries, Tidy, Discarded, Has
<1> QED
  BY <1>4, <1>5, LocalInv

\* The cleaner waits for the stub.
LEMMA WaitsInv ==
  ASSUME Inv, NEW k \in Launches, Waits(k)
  PROVE Inv'
<1>1. dir[k] \in Directories /\ (Alone(k) => Good(k)) /\ pc[k] = "wait"
  BY HasDirectory DEF Waits
<1>2. UNCHANGED <<dir, exists, files, text, body, alive, delayed>>
  BY DEF Waits, place
<1>3. CASE Go(k, "remove stub") /\ k \notin alive /\ UNCHANGED <<failures, reasons>>
  <2>1. Moved(k) /\ pc'[k] = "remove stub"
    BY <1>3, MovedGo DEF Host, Stub, Cleaner, Ended
  <2>2. Local(k)
    BY <1>1, <1>2, <1>3, <2>1, SameLocal, InvTypes
       DEF Local, Running, Host, Stub, Cleaner, Ended
  <2>3. ASSUME Alone(k)
        PROVE Good(k)'
    BY <1>1, <1>2, <1>3, <2>1, <2>3, SameLocal
       DEF Good, Carries, Tidy, Discarded, Expected, Waited, Running, Has, Host, Stub, Cleaner, Ended
  <2> QED
    BY <2>2, <2>3, LocalInv
<1>4. CASE Go(k, "remove stub") /\ Fails(k, "wait")
  <2>1. Moved(k) /\ pc'[k] = "remove stub"
    BY <1>4, MovedGo DEF Host, Stub, Cleaner, Ended
  <2>2. Counted(k) /\ "wait" \in reasons'[k]
    BY <1>4, CountedFails DEF Reasons, Failures
  <2>3. Local(k)
    BY <1>1, <1>2, <1>4, <2>1, <2>2, SameLocal, InvTypes
       DEF Local, Running, Host, Stub, Cleaner, Ended
  <2>4. ASSUME Alone(k)
        PROVE Good(k)'
    BY <1>1, <1>2, <1>4, <2>1, <2>2, <2>4, SameLocal
       DEF Good, Carries, Tidy, Discarded, Expected, Waited, Running, Has, Host, Stub, Cleaner, Ended
  <2> QED
    BY <2>3, <2>4, LocalInv
<1> QED
  BY <1>1, <1>3, <1>4 DEF Waits

\* The cleaner removes the stub.
LEMMA RemovesStubInv ==
  ASSUME Inv, NEW k \in Launches, RemovesStub(k)
  PROVE Inv'
<1>1. dir[k] \in Directories /\ (Alone(k) => Good(k)) /\ pc[k] = "remove stub"
  BY HasDirectory DEF RemovesStub, Removes
<1>2. UNCHANGED <<dir, exists, text, body, alive, delayed>>
  BY DEF RemovesStub, Removes, place
<1>3. CASE Go(k, "remove transaction") /\ Holds(k, files[dir[k]] \ {"stub"})
           /\ UNCHANGED <<failures, reasons>>
  <2>1. Moved(k) /\ pc'[k] = "remove transaction"
    BY <1>3, MovedGo DEF Host, Stub, Cleaner, Ended
  <2>2. Held(k) /\ files'[dir[k]] = files[dir[k]] \ {"stub"}
    BY <1>1, <1>3, HeldHolds DEF Inv, TypeOK, Names
  <2>3. Local(k)
    BY <1>1, <1>2, <1>3, <2>1, <2>2, SameLocal, InvTypes
       DEF Local, Running, Host, Stub, Cleaner, Ended
  <2>4. ASSUME Alone(k)
        PROVE Good(k)'
    BY <1>1, <1>2, <1>3, <2>1, <2>2, <2>4, SameLocal
       DEF Good, Carries, Tidy, Discarded, Expected, Waited, Running, Has, Host, Stub, Cleaner, Ended
  <2> QED
    BY <2>3, <2>4, LocalInv
<1>4. CASE InUse(k) /\ Go(k, "remove transaction") /\ UNCHANGED <<files, failures, reasons>>
  <2>1. Moved(k) /\ pc'[k] = "remove transaction"
    BY <1>4, MovedGo DEF Host, Stub, Cleaner, Ended
  <2>2. Local(k)
    BY <1>1, <1>2, <1>4, <2>1, SameLocal, InvTypes
       DEF Local, Running, Host, Stub, Cleaner, Ended
  <2>3. ASSUME Alone(k)
        PROVE Good(k)'
    BY <1>1, <1>2, <1>4, <2>1, <2>3, InUseAlone
       DEF Good, Carries, Tidy, Discarded, Expected, Waited, Running, Has, Host, Stub, Cleaner, Ended
  <2> QED
    BY <2>2, <2>3, LocalInv
<1>5. CASE Go(k, "remove transaction") /\ Fails(k, "remove") /\ UNCHANGED files
  <2>1. Moved(k) /\ pc'[k] = "remove transaction"
    BY <1>5, MovedGo DEF Host, Stub, Cleaner, Ended
  <2>2. Counted(k) /\ "remove" \in reasons'[k]
    BY <1>5, CountedFails DEF Reasons, Failures
  <2>3. Local(k)
    BY <1>1, <1>2, <1>5, <2>1, <2>2, SameLocal, InvTypes
       DEF Local, Running, Host, Stub, Cleaner, Ended
  <2>4. ASSUME Alone(k)
        PROVE Good(k)'
    BY <1>1, <1>2, <1>5, <2>1, <2>2, <2>4, SameLocal
       DEF Good, Carries, Tidy, Discarded, Expected, Waited, Running, Has, Host, Stub, Cleaner, Ended
  <2> QED
    BY <2>3, <2>4, LocalInv
<1> QED
  BY <1>1, <1>3, <1>4, <1>5 DEF RemovesStub, Removes

\* The cleaner removes the transaction.
LEMMA RemovesTransactionInv ==
  ASSUME Inv, NEW k \in Launches, RemovesTransaction(k)
  PROVE Inv'
<1>1. dir[k] \in Directories /\ (Alone(k) => Good(k)) /\ pc[k] = "remove transaction"
  BY HasDirectory DEF RemovesTransaction, Removes
<1>2. UNCHANGED <<dir, exists, text, body, alive, delayed>>
  BY DEF RemovesTransaction, Removes, place
<1>3. CASE Go(k, "remove directory") /\ Holds(k, files[dir[k]] \ {"transaction"})
           /\ UNCHANGED <<failures, reasons>>
  <2>1. Moved(k) /\ pc'[k] = "remove directory"
    BY <1>3, MovedGo DEF Host, Stub, Cleaner, Ended
  <2>2. Held(k) /\ files'[dir[k]] = files[dir[k]] \ {"transaction"}
    BY <1>1, <1>3, HeldHolds DEF Inv, TypeOK, Names
  <2>3. Local(k)
    BY <1>1, <1>2, <1>3, <2>1, <2>2, SameLocal, InvTypes
       DEF Local, Running, Host, Stub, Cleaner, Ended
  <2>4. ASSUME Alone(k)
        PROVE Good(k)'
    BY <1>1, <1>2, <1>3, <2>1, <2>2, <2>4, SameLocal
       DEF Good, Carries, Tidy, Discarded, Expected, Waited, Running, Has, Host, Stub, Cleaner, Ended
  <2> QED
    BY <2>3, <2>4, LocalInv
<1>4. CASE Go(k, "remove directory") /\ Fails(k, "remove") /\ UNCHANGED files
  <2>1. Moved(k) /\ pc'[k] = "remove directory"
    BY <1>4, MovedGo DEF Host, Stub, Cleaner, Ended
  <2>2. Counted(k) /\ "remove" \in reasons'[k]
    BY <1>4, CountedFails DEF Reasons, Failures
  <2>3. Local(k)
    BY <1>1, <1>2, <1>4, <2>1, <2>2, SameLocal, InvTypes
       DEF Local, Running, Host, Stub, Cleaner, Ended
  <2>4. ASSUME Alone(k)
        PROVE Good(k)'
    BY <1>1, <1>2, <1>4, <2>1, <2>2, <2>4, SameLocal
       DEF Good, Carries, Tidy, Discarded, Expected, Waited, Running, Has, Host, Stub, Cleaner, Ended
  <2> QED
    BY <2>3, <2>4, LocalInv
<1> QED
  BY <1>1, <1>3, <1>4 DEF RemovesTransaction, Removes

\* The cleaner removes the directory.
LEMMA RemovesDirectoryInv ==
  ASSUME Inv, NEW k \in Launches, RemovesDirectory(k)
  PROVE Inv'
<1>1. dir[k] \in Directories /\ (Alone(k) => Good(k)) /\ pc[k] = "remove directory"
  BY HasDirectory DEF RemovesDirectory
<1>2. UNCHANGED <<dir, files, text, body, alive, delayed>>
  BY DEF RemovesDirectory, place
<1>3. CASE /\ Go(k, "cleaned") /\ UNCHANGED <<failures, reasons>>
           /\ exists' = IF files[dir[k]] = {} /\ ~InUse(k) THEN exists \ {dir[k]} ELSE exists
  <2>1. Moved(k) /\ pc'[k] = "cleaned"
    BY <1>3, MovedGo DEF Host, Stub, Cleaner, Ended
  <2>2. Made(k)
    BY <1>1, <1>3 DEF Inv, TypeOK, Made
  <2>3. Local(k)
    BY <1>1, <1>2, <1>3, <2>1, <2>2, SameLocal, InvTypes
       DEF Local, Running, Host, Stub, Cleaner, Ended
  <2>4. ASSUME Alone(k)
        PROVE Good(k)'
    BY <1>1, <1>2, <1>3, <2>1, <2>2, <2>4, InUseAlone
       DEF Good, Carries, Tidy, Discarded, Expected, Waited, Running, Has, Host, Stub, Cleaner, Ended
  <2> QED
    BY <2>3, <2>4, LocalInv
<1>4. CASE Go(k, "cleaned") /\ Fails(k, "remove directory") /\ UNCHANGED exists
  <2>1. Moved(k) /\ pc'[k] = "cleaned"
    BY <1>4, MovedGo DEF Host, Stub, Cleaner, Ended
  <2>2. Counted(k) /\ "remove directory" \in reasons'[k]
    BY <1>4, CountedFails DEF Reasons, Failures
  <2>3. Local(k)
    BY <1>1, <1>2, <1>4, <2>1, <2>2, SameLocal, InvTypes
       DEF Local, Running, Host, Stub, Cleaner, Ended
  <2>4. ASSUME Alone(k)
        PROVE Good(k)'
    BY <1>1, <1>2, <1>4, <2>1, <2>2, <2>4, SameLocal
       DEF Good, Carries, Tidy, Discarded, Expected, Waited, Running, Has, Host, Stub, Cleaner, Ended
  <2> QED
    BY <2>3, <2>4, LocalInv
<1> QED
  BY <1>1, <1>3, <1>4 DEF RemovesDirectory
\* Somebody is killed.
LEMMA CrashInv ==
  ASSUME Inv, NEW k \in Launches, Crash(k)
  PROVE Inv'
<1>1. dir[k] \in Directories /\ pc[k] \notin {"call", "refused"}
  BY HasDirectory DEF Crash, Host, Stub, Cleaner
<1>2. UNCHANGED <<dir, exists, files, text, body, delayed>>
  BY DEF Crash, place
<1>3. Moved(k) /\ pc'[k] = "died"
  BY MovedGo DEF Crash, Ended
<1>4. Counted(k) /\ "crash" \in reasons'[k]
  BY CountedBecause DEF Crash, Reasons
<1>5. Ran(k) /\ k \notin alive'
  BY DEF Crash, Inv, TypeOK, Ran
<1>6. Local(k)
  BY <1>1, <1>2, <1>3, <1>4, <1>5, SameLocal DEF Local
<1> QED
  BY <1>3, <1>4, <1>6, ReasonInv

\* The machine starts again: whoever was at work has a reason for what it leaves.
LEMMA RestartsInv ==
  ASSUME Inv, Restarts
  PROVE Inv'
<1>1. /\ UNCHANGED <<dir, exists, text, body, failures>> /\ alive' = {} /\ delayed' = {}
      /\ pc' = [l \in Launches |-> IF pc[l] \in Ended \cup {"call"} THEN pc[l] ELSE "died"]
      /\ reasons' = [l \in Launches |->
           IF pc[l] \in Ended \cup {"call"} THEN reasons[l] ELSE reasons[l] \cup {"crash"}]
      /\ files' = [d \in Directories |->
           IF d \in delayed THEN files[d] \ {"stub", "transaction"} ELSE files[d]]
  BY DEF Restarts
<1>2. TypeOK'
  <2>1. pc' \in [Launches -> Host \cup Stub \cup Cleaner \cup Ended]
    BY <1>1 DEF Inv, TypeOK, Ended
  <2>2. reasons' \in [Launches -> SUBSET Reasons]
    BY <1>1 DEF Inv, TypeOK, Reasons
  <2>3. files' \in [Directories -> SUBSET Names]
    BY <1>1 DEF Inv, TypeOK
  <2> QED
    BY <1>1, <2>1, <2>2, <2>3 DEF Inv, TypeOK, Reasons
<1>3. Named'
  BY <1>1 DEF Inv, Named, Ended
<1>4. Fresh'
  BY <1>1 DEF Inv, Fresh
<1>5. Alive'
  BY <1>1 DEF Alive
<1>6. ASSUME NEW l \in Launches, Alone(l)', dir'[l] # None
      PROVE Good(l)'
  <2>0. Alone(l) /\ dir[l] # None
    BY <1>1, <1>6 DEF Alone
  <2>1. Good(l) /\ pc[l] # "call" /\ dir[l] \in Directories
    BY <2>0 DEF Inv, TypeOK, Named
  <2>2. CASE pc[l] \in Ended
    <3>1. pc'[l] = pc[l] /\ reasons'[l] = reasons[l]
      BY <1>1, <2>2
    <3>2. files[dir[l]] = {} => files'[dir[l]] = {}
      BY <1>1, <2>1
    <3>3. Expected(pc[l]) = {}
      BY <2>2 DEF Expected, Ended, Stub
    <3>4. Carries(l)'
      BY <2>2, <3>1 DEF Carries, Ended, Cleaner
    <3> QED
      BY <1>1, <2>1, <3>1, <3>2, <3>3, <3>4 DEF Good, Tidy, Discarded
  <2>3. CASE pc[l] \notin Ended
    <3>1. pc'[l] = "died" /\ "crash" \in reasons'[l]
      BY <1>1, <2>1, <2>3
    <3> QED
      BY <3>1 DEF Good, Carries, Tidy, Discarded, Cleaner
  <2> QED
    BY <2>2, <2>3
<1> QED
  BY <1>2, <1>3, <1>4, <1>5, <1>6 DEF Inv

-----------------------------------------------------------------------------
\* Every action keeps the invariant of the directory.
LEMMA NextInv == Inv /\ [Next]_vars => Inv'
<1> SUFFICES ASSUME Inv, [Next]_vars PROVE Inv'
  OBVIOUS
<1>1. ASSUME NEW k \in Launches, HostStep(k) PROVE Inv'
  BY <1>1, CallInv, WritesBodyInv, ReadsBodyInv, RemovesBodyInv, ExtractsInv,
     WritesTransactionInv, StartsInv, DiscardsInv DEF HostStep
<1>2. ASSUME NEW k \in Launches, StubStep(k) PROVE Inv'
  BY <1>2, ReadsTransactionInv, WorksInv, SchedulesInv, StubExitsInv DEF StubStep
<1>3. ASSUME NEW k \in Launches, CleanerStep(k) PROVE Inv'
  BY <1>3, WaitsInv, RemovesStubInv, RemovesTransactionInv, RemovesDirectoryInv
     DEF CleanerStep
<1>4. CASE UNCHANGED vars
  <2>1. UNCHANGED <<pc, dir, exists, files, text, body, alive, delayed, failures, reasons>>
    BY <1>4 DEF vars
  <2>2. TypeOK' /\ Named' /\ Fresh' /\ Alive'
    BY <2>1 DEF Inv, TypeOK, Named, Fresh, Alive
  <2>3. ASSUME NEW l \in Launches, Alone(l)', dir'[l] # None
        PROVE Good(l)'
    <3>1. Good(l)
      BY <2>1, <2>3 DEF Inv, Alone
    <3> QED
      BY <2>1, <3>1 DEF Good, Carries, Tidy, Discarded, Has
  <2> QED
    BY <2>2, <2>3 DEF Inv
<1> QED
  BY <1>1, <1>2, <1>3, <1>4, CrashInv, RestartsInv DEF Next

\* The invariant holds in every reachable state.
LEMMA InvAlways == Spec => []Inv
BY InitInv, NextInv, PTL DEF Spec

\* The processes stay within their types, for any number of launches and directories.
THEOREM DirectoryTypes == Spec => []TypeOK
BY InvAlways, PTL DEF Inv

\* A stub in a directory of its own gets the transaction of its launch, however many
\* other launches there are and whatever fails (launch_common).
THEOREM AlwaysDelivered == Spec => []Delivered
<1>1. Inv => Delivered
  BY DEF Inv, Named, Delivered, Good, Carries, Cleaner
<1> QED
  BY <1>1, InvAlways, PTL

\* A launch that nothing has happened to leaves no directory of its own behind
\* (cleanup_after_stub).
THEOREM NothingIsLeft == Spec => []NothingLeft
<1>1. Inv => NothingLeft
  BY DirectoryAssumption DEF Inv, TypeOK, NothingLeft, Good, Tidy
<1> QED
  BY <1>1, InvAlways, PTL

\* An error of launch_update leaves its directory behind only when remove_all failed.
THEOREM FailuresLeaveNothing == Spec => []FailedLeavesNothing
<1>1. Inv => FailedLeavesNothing
  BY DirectoryAssumption DEF Inv, TypeOK, FailedLeavesNothing, Good, Discarded
<1> QED
  BY <1>1, InvAlways, PTL
==============================================================================
