------------------------- MODULE ManagedClientProofs -------------------------
(***************************************************************************)
(* Theorems about the managed client, for every number of threads, runs,   *)
(* calls and directories: its download session and the transaction         *)
(* directories it shares with the stubs and their clean-up.                *)
(***************************************************************************)
EXTENDS ManagedSession, ManagedDirectory, TLAPS

(***************************************************************************)
(* The session: the stacks of its threads and the state they agree on.     *)
(***************************************************************************)

\* A frame with nothing but a label, and those that say which run has ended or which
\* version a handler is going to see.
FrameSet ==
  [at : Labels \ {"terminal", "invoke"}]
    \cup [at : {"terminal"}, run : Runs, result : Terminal]
    \cup [at : {"invoke"}, version : Nat]

Stacks == stack \in [Threads -> Seq(FrameSet)]

\* The frames below the innermost one, and those that may be there: foreign code runs
\* from them.
Above(s)  == {s[i].at : i \in DOMAIN s}
Rest(s)   == {s[i].at : i \in 2 .. Len(s)}
Under(th) == Rest(stack[th])
Lower == {"starting", "cancelling", "stopping", "dispose", "disposing", "handler"}

OnlyForeignAbove == \A th \in Threads : Under(th) \subseteq Lower

\* The session owns the run that was started last, as long as it goes on, and what a
\* run that was never started has is as it was.
RunInv ==
  /\ run \in {0, begun}
  /\ run # 0 <=> state \in Ongoing
  /\ \A r \in Runs : r > begun => work[r] = "none" /\ ~paused[r] /\ ~cancelled[r]
  /\ NoOrphan
  /\ PausedAgrees

\* What is about to be recorded has ended.
EndInv == \A th \in Threads : At(th, "terminal") => work[Head(stack[th]).run] = "end"

\* _callbackSync has one owner, and Dispose had it.
LockInv ==
  /\ \A th, u \in Threads :
       th # u => Frames(th) \cap CallbackFrames = {} \/ Frames(u) \cap CallbackFrames = {}
  /\ QuietAfterDispose

\* Who is to deliver a version that nobody has seen.
Delivers(th) ==
  \/ "starting" \in Frames(th)
  \/ At(th, "raise")
  \/ At(th, "read")
  \/ At(th, "invoke") /\ Head(stack[th]).version = version

\* What is about to be delivered is no older than what was, and a change that was not
\* delivered is going to be.
ShownInv ==
  /\ \A th \in Threads :
       At(th, "invoke") => shown <= Head(stack[th]).version /\ Head(stack[th]).version <= version
  /\ (~disposed /\ shown # version) => \E th \in Threads : Delivers(th)

SessionInv ==
  SessionTypeOK /\ Stacks /\ OnlyForeignAbove /\ RunInv /\ EndInv /\ LockInv /\ ShownInv

-----------------------------------------------------------------------------
\* The labels of a stack after a push of one or two frames, after the innermost one was
\* replaced, and after it was removed.
LEMMA OneMore ==
  ASSUME NEW s \in Seq(FrameSet), NEW f \in FrameSet
  PROVE  /\ <<f>> \o s \in Seq(FrameSet) /\ <<f>> \o s # <<>> /\ Head(<<f>> \o s) = f
         /\ Above(<<f>> \o s) = Above(s) \cup {f.at} /\ Rest(<<f>> \o s) = Above(s)
<1> DEFINE t == <<f>> \o s
<1>1. /\ t \in Seq(FrameSet) /\ t # <<>> /\ Head(t) = f
      /\ t[1] = f /\ 1 \in DOMAIN t
      /\ \A i \in DOMAIN t : i = 1 \/ (i - 1 \in DOMAIN s /\ t[i] = s[i - 1])
      /\ \A i \in DOMAIN s : i + 1 \in 2 .. Len(t) /\ i + 1 \in DOMAIN t /\ t[i + 1] = s[i]
      /\ \A i \in 2 .. Len(t) : i \in DOMAIN t /\ i # 1
  OBVIOUS
<1> HIDE DEF t
<1>8. ASSUME NEW i \in DOMAIN t
      PROVE  t[i].at \in Above(s) \cup {f.at}
  <2>1. CASE i = 1
    BY <1>1, <2>1
  <2>2. CASE i - 1 \in DOMAIN s /\ t[i] = s[i - 1]
    BY <2>2 DEF Above
  <2> QED
    BY <1>1, <2>1, <2>2
<1>2. Above(t) \subseteq Above(s) \cup {f.at}
  BY <1>8 DEF Above
<1>3. Rest(t) \subseteq Above(s)
  BY <1>1 DEF Above, Rest
<1>4. ASSUME NEW i \in DOMAIN s
      PROVE  s[i].at \in Above(t) /\ s[i].at \in Rest(t)
  <2>1. i + 1 \in DOMAIN t /\ i + 1 \in 2 .. Len(t) /\ s[i].at = t[i + 1].at
    BY <1>1
  <2> QED
    BY <2>1 DEF Above, Rest
<1>5. Above(s) \subseteq Above(t) /\ Above(s) \subseteq Rest(t)
  BY <1>4 DEF Above
<1>6. f.at \in Above(t)
  BY <1>1 DEF Above
<1>7. /\ t \in Seq(FrameSet) /\ t # <<>> /\ Head(t) = f
      /\ Above(t) = Above(s) \cup {f.at} /\ Rest(t) = Above(s)
  BY <1>1, <1>2, <1>3, <1>5, <1>6
<1> QED
  BY <1>7 DEF t

\* The same for two frames.
LEMMA TwoMore ==
  ASSUME NEW s \in Seq(FrameSet), NEW f \in FrameSet, NEW g \in FrameSet
  PROVE  /\ <<f, g>> \o s \in Seq(FrameSet) /\ <<f, g>> \o s # <<>> /\ Head(<<f, g>> \o s) = f
         /\ Above(<<f, g>> \o s) = Above(s) \cup {f.at, g.at}
         /\ Rest(<<f, g>> \o s) = Above(s) \cup {g.at}
<1> DEFINE t == <<f, g>> \o s
<1>1. /\ t \in Seq(FrameSet) /\ t # <<>> /\ Head(t) = f
      /\ t[1] = f /\ 1 \in DOMAIN t /\ t[2] = g /\ 2 \in DOMAIN t /\ 2 \in 2 .. Len(t)
      /\ \A i \in DOMAIN t : i = 1 \/ i = 2 \/ (i - 2 \in DOMAIN s /\ t[i] = s[i - 2])
      /\ \A i \in DOMAIN s : i + 2 \in 2 .. Len(t) /\ i + 2 \in DOMAIN t /\ t[i + 2] = s[i]
      /\ \A i \in 2 .. Len(t) : i \in DOMAIN t /\ i # 1
  OBVIOUS
<1> HIDE DEF t
<1>8. ASSUME NEW i \in DOMAIN t
      PROVE  t[i].at \in Above(s) \cup {f.at, g.at}
  <2>1. CASE i \in {1, 2}
    BY <1>1, <2>1
  <2>2. CASE i - 2 \in DOMAIN s /\ t[i] = s[i - 2]
    BY <2>2 DEF Above
  <2> QED
    BY <1>1, <2>1, <2>2
<1>2. Above(t) \subseteq Above(s) \cup {f.at, g.at}
  BY <1>8 DEF Above
<1>3. Rest(t) \subseteq Above(s) \cup {g.at}
  BY <1>1 DEF Above, Rest
<1>4. ASSUME NEW i \in DOMAIN s
      PROVE  s[i].at \in Above(t) /\ s[i].at \in Rest(t)
  <2>1. i + 2 \in DOMAIN t /\ i + 2 \in 2 .. Len(t) /\ s[i].at = t[i + 2].at
    BY <1>1
  <2> QED
    BY <2>1 DEF Above, Rest
<1>5. Above(s) \subseteq Above(t) /\ Above(s) \subseteq Rest(t)
  BY <1>4 DEF Above
<1>6. f.at \in Above(t) /\ g.at \in Above(t) /\ g.at \in Rest(t)
  BY <1>1 DEF Above, Rest
<1>7. /\ t \in Seq(FrameSet) /\ t # <<>> /\ Head(t) = f
      /\ Above(t) = Above(s) \cup {f.at, g.at} /\ Rest(t) = Above(s) \cup {g.at}
  BY <1>1, <1>2, <1>3, <1>5, <1>6
<1> QED
  BY <1>7 DEF t

\* What is left after the innermost frame was removed.
LEMMA OneLess ==
  ASSUME NEW s \in Seq(FrameSet), s # <<>>
  PROVE  /\ Tail(s) \in Seq(FrameSet)
         /\ Head(s) \in FrameSet /\ Above(s) = Rest(s) \cup {Head(s).at}
         /\ Above(Tail(s)) = Rest(s) /\ Rest(Tail(s)) \subseteq Rest(s)
         /\ Tail(s) # <<>> => Head(Tail(s)).at \in Above(Tail(s))
<1> DEFINE t == Tail(s)
<1>1. /\ t \in Seq(FrameSet) /\ Head(s) \in FrameSet
      /\ t # <<>> => Head(t) = t[1] /\ 1 \in DOMAIN t
      /\ s[1] = Head(s) /\ 1 \in DOMAIN s
      /\ \A i \in DOMAIN t : i + 1 \in 2 .. Len(s) /\ t[i] = s[i + 1]
      /\ \A i \in 2 .. Len(s) : i - 1 \in DOMAIN t /\ t[i - 1] = s[i] /\ i \in DOMAIN s
      /\ \A i \in DOMAIN s : i = 1 \/ i \in 2 .. Len(s)
      /\ \A i \in 2 .. Len(t) : i \in DOMAIN t
  OBVIOUS
<1> HIDE DEF t
<1>2. Above(t) \subseteq Rest(s)
  BY <1>1 DEF Above, Rest
<1>3. ASSUME NEW i \in 2 .. Len(s)
      PROVE  s[i].at \in Above(t)
  <2>1. i - 1 \in DOMAIN t /\ s[i].at = t[i - 1].at
    BY <1>1
  <2> QED
    BY <2>1 DEF Above
<1>7. Rest(s) \subseteq Above(t)
  BY <1>3 DEF Rest
<1>4. Rest(s) \subseteq Above(s) /\ Above(s) \subseteq Rest(s) \cup {Head(s).at}
  BY <1>1 DEF Above, Rest
<1>5. Head(s).at \in Above(s)
  BY <1>1 DEF Above
<1>6. Rest(t) \subseteq Above(t) /\ (t # <<>> => Head(t).at \in Above(t))
  BY <1>1 DEF Above, Rest
<1> QED
  BY <1>1, <1>2, <1>4, <1>5, <1>6, <1>7 DEF t

-----------------------------------------------------------------------------
\* What a move of a thread does to its frames.  The other threads keep theirs.
Others(th) == \A u \in Threads \ {th} : stack'[u] = stack[u]

\* The labels of a thread are those of its stack.
LEMMA FramesAbove ==
  ASSUME NEW th \in Threads
  PROVE  /\ Frames(th) = Above(stack[th]) /\ Frames(th)' = Above(stack'[th])
         /\ Under(th) = Rest(stack[th]) /\ Under(th)' = Rest(stack'[th])
  BY DEF Frames, Above, Under

\* Push adds one frame.
LEMMA Pushed ==
  ASSUME Stacks, NEW th \in Threads, NEW f \in FrameSet, Push(th, <<f>>)
  PROVE  /\ Stacks' /\ Others(th)
         /\ stack'[th] # <<>> /\ Head(stack'[th]) = f
         /\ Frames(th)' = Frames(th) \cup {f.at}
         /\ Under(th)' = Frames(th)
<1>1. stack[th] \in Seq(FrameSet) /\ stack'[th] = <<f>> \o stack[th]
  BY DEF Stacks, Push
<1>2. /\ stack'[th] \in Seq(FrameSet) /\ stack'[th] # <<>> /\ Head(stack'[th]) = f
      /\ Above(stack'[th]) = Above(stack[th]) \cup {f.at}
      /\ Rest(stack'[th]) = Above(stack[th])
  BY <1>1, OneMore
<1>3. Stacks' /\ Others(th)
  BY <1>2 DEF Stacks, Push, Others
<1> QED
  BY <1>2, <1>3, FramesAbove

\* Push adds two frames.
LEMMA PushedTwo ==
  ASSUME Stacks, NEW th \in Threads, NEW f \in FrameSet, NEW g \in FrameSet,
         Push(th, <<f, g>>)
  PROVE  /\ Stacks' /\ Others(th)
         /\ stack'[th] # <<>> /\ Head(stack'[th]) = f
         /\ Frames(th)' = Frames(th) \cup {f.at, g.at}
         /\ Under(th)' = Frames(th) \cup {g.at}
<1>1. stack[th] \in Seq(FrameSet) /\ stack'[th] = <<f, g>> \o stack[th]
  BY DEF Stacks, Push
<1>2. /\ stack'[th] \in Seq(FrameSet) /\ stack'[th] # <<>> /\ Head(stack'[th]) = f
      /\ Above(stack'[th]) = Above(stack[th]) \cup {f.at, g.at}
      /\ Rest(stack'[th]) = Above(stack[th]) \cup {g.at}
  BY <1>1, TwoMore
<1>3. Stacks' /\ Others(th)
  BY <1>2 DEF Stacks, Push, Others
<1> QED
  BY <1>2, <1>3, FramesAbove

\* Become replaces the innermost frame.
LEMMA Became ==
  ASSUME Stacks, NEW th \in Threads, stack[th] # <<>>, NEW f \in FrameSet, Become(th, f)
  PROVE  /\ Stacks' /\ Others(th)
         /\ stack'[th] # <<>> /\ Head(stack'[th]) = f
         /\ Frames(th) = Under(th) \cup {Head(stack[th]).at}
         /\ Frames(th)' = Under(th) \cup {f.at}
         /\ Under(th)' = Under(th)
<1>1. stack[th] \in Seq(FrameSet) /\ stack'[th] = <<f>> \o Tail(stack[th])
  BY DEF Stacks, Become
<1>2. /\ Tail(stack[th]) \in Seq(FrameSet)
      /\ Above(stack[th]) = Rest(stack[th]) \cup {Head(stack[th]).at}
      /\ Above(Tail(stack[th])) = Rest(stack[th])
  BY <1>1, OneLess
<1>3. /\ stack'[th] \in Seq(FrameSet) /\ stack'[th] # <<>> /\ Head(stack'[th]) = f
      /\ Above(stack'[th]) = Rest(stack[th]) \cup {f.at}
      /\ Rest(stack'[th]) = Rest(stack[th])
  BY <1>1, <1>2, OneMore
<1>4. Stacks' /\ Others(th)
  BY <1>3 DEF Stacks, Become, Others
<1> QED
  BY <1>2, <1>3, <1>4, FramesAbove

\* Return removes the innermost frame.
LEMMA Returned ==
  ASSUME Stacks, NEW th \in Threads, stack[th] # <<>>, Return(th)
  PROVE  /\ Stacks' /\ Others(th)
         /\ stack'[th] # <<>> => Head(stack'[th]).at \in Under(th)
         /\ Frames(th) = Under(th) \cup {Head(stack[th]).at}
         /\ Frames(th)' = Under(th)
         /\ Under(th)' \subseteq Under(th)
<1>1. stack[th] \in Seq(FrameSet) /\ stack'[th] = Tail(stack[th])
  BY DEF Stacks, Return
<1>2. /\ stack'[th] \in Seq(FrameSet)
      /\ Above(stack[th]) = Rest(stack[th]) \cup {Head(stack[th]).at}
      /\ Above(stack'[th]) = Rest(stack[th]) /\ Rest(stack'[th]) \subseteq Rest(stack[th])
      /\ stack'[th] # <<>> => Head(stack'[th]).at \in Above(stack'[th])
  BY <1>1, OneLess
<1>3. Stacks' /\ Others(th)
  BY <1>2 DEF Stacks, Return, Others
<1> QED
  BY <1>2, <1>3, FramesAbove

-----------------------------------------------------------------------------
\* The innermost frame and the ones below it are all the frames.
LEMMA Split ==
  ASSUME Stacks, NEW th \in Threads
  PROVE  /\ stack[th] = <<>> => Frames(th) = {}
         /\ stack[th] # <<>> => /\ Head(stack[th]) \in FrameSet
                                /\ Frames(th) = Under(th) \cup {Head(stack[th]).at}
<1>1. stack[th] \in Seq(FrameSet)
  BY DEF Stacks
<1>2. stack[th] = <<>> => Above(stack[th]) = {}
  BY DEF Above
<1> QED
  BY <1>1, <1>2, OneLess, FramesAbove

\* What a frame says besides its label.
LEMMA FrameKinds ==
  ASSUME NEW f \in FrameSet
  PROVE  /\ f.at \in Labels
         /\ f.at = "terminal" => f.run \in Runs /\ f.result \in Terminal
         /\ f.at = "invoke" => f.version \in Nat
<1>1. "terminal" \in Labels /\ "invoke" \in Labels
  BY DEF Labels, CallbackFrames
<1>2. CASE f \in [at : Labels \ {"terminal", "invoke"}]
  <2> QED
    BY <1>2
<1>3. CASE f \in [at : {"terminal"}, run : Runs, result : Terminal]
  BY <1>1, <1>3
<1>4. CASE f \in [at : {"invoke"}, version : Nat]
  BY <1>1, <1>4
<1> QED
  BY <1>2, <1>3, <1>4 DEF FrameSet

\* Frames have the labels of the session.
LEMMA Labelled == Stacks => \A th \in Threads : Frames(th) \subseteq Labels
<1> SUFFICES ASSUME Stacks, NEW th \in Threads PROVE Frames(th) \subseteq Labels
  OBVIOUS
<1>1. stack[th] \in Seq(FrameSet)
  BY DEF Stacks
<1>2. \A f \in FrameSet : f.at \in Labels
  BY FrameKinds
<1>3. \A i \in DOMAIN stack[th] : stack[th][i] \in FrameSet
  BY <1>1
<1> QED
  BY <1>2, <1>3 DEF Frames

\* A call is made from a handler or with nothing below it.
LEMMA Caller ==
  ASSUME Stacks, OnlyForeignAbove, NEW th \in Threads, CallsFrom(th)
  PROVE  Frames(th) \subseteq Lower
<1>1. CASE stack[th] = <<>>
  BY <1>1, Split
<1>2. CASE At(th, "handler")
  BY <1>2, Split DEF At, OnlyForeignAbove, Lower
<1> QED
  BY <1>1, <1>2 DEF CallsFrom

\* The session was not disposed by this step, or by a thread that has _callbackSync.
Settles(th) ==
  \/ UNCHANGED life
  \/ /\ disposed' = TRUE
     /\ IF disposed THEN disposer' = disposer ELSE disposer' = {th} /\ At(th, "dispose")

\* A thread that moves without taking _callbackSync from anybody, without a handler it
\* did not run before, and that announces what it has changed, keeps the locks and the
\* deliveries in order.
LEMMA Moves ==
  ASSUME Stacks, OnlyForeignAbove, LockInv, ShownInv, version \in Nat, shown \in Nat,
         NEW th \in Threads, Others(th),
         Under(th)' \subseteq Lower,
         Frames(th)' \cap CallbackFrames \subseteq Frames(th) \/ CallbackFree(th),
         Frames(th)' \cap {"invoke", "handler"} \subseteq Frames(th),
         ~ At(th, "invoke")',
         version' \in {version, version + 1},
         ~ disposed' /\ (Delivers(th) \/ version' # version) => Delivers(th)',
         Settles(th), UNCHANGED shown
  PROVE  OnlyForeignAbove' /\ LockInv' /\ ShownInv'
<1>1. \A u \in Threads \ {th} : /\ Frames(u)' = Frames(u) /\ Under(u)' = Under(u)
                                /\ \A l : At(u, l)' <=> At(u, l)
                                /\ Head(stack'[u]) = Head(stack[u])
  BY FramesAbove DEF Others, At, Frames, Under
<1>2. OnlyForeignAbove'
  BY <1>1 DEF OnlyForeignAbove
<1>3. \A u, v \in Threads :
        u # v => (Frames(u) \cap CallbackFrames = {} \/ Frames(v) \cap CallbackFrames = {})'
  <2>1. \A u \in Threads \ {th} :
          (Frames(u) \cap CallbackFrames = {} \/ Frames(th) \cap CallbackFrames = {})'
    BY <1>1 DEF LockInv, CallbackFree, CallbackFrames
  <2> QED
    BY <1>1, <2>1 DEF LockInv, CallbackFrames
<1>4. QuietAfterDispose'
  <2>1. CASE UNCHANGED life
    BY <1>1, <2>1 DEF LockInv, QuietAfterDispose, life
  <2>2. CASE disposed' = TRUE /\ disposed /\ disposer' = disposer
    BY <1>1, <2>2 DEF LockInv, QuietAfterDispose
  <2>3. CASE ~ disposed /\ disposer' = {th} /\ At(th, "dispose")
    <3>1. "dispose" \in Frames(th) \cap CallbackFrames
      BY <2>3, Split DEF At, CallbackFrames
    <3>2. \A u \in Threads \ {th} : Frames(u)' \cap CallbackFrames = {}
      BY <1>1, <3>1 DEF LockInv
    <3> QED
      BY <2>3, <3>2 DEF QuietAfterDispose, CallbackFrames
  <2> QED
    BY <2>1, <2>2, <2>3 DEF Settles
<1>7. ~ disposed' => ~ disposed
  BY DEF Settles, life
<1>5. \A u \in Threads :
        At(u, "invoke")' => shown' <= Head(stack'[u]).version /\ Head(stack'[u]).version <= version'
  <2> SUFFICES ASSUME NEW u \in Threads, At(u, "invoke")'
               PROVE  shown' <= Head(stack'[u]).version /\ Head(stack'[u]).version <= version'
    OBVIOUS
  <2>1. u # th /\ At(u, "invoke") /\ Head(stack'[u]) = Head(stack[u])
    BY <1>1
  <2>2. Head(stack[u]).version \in Nat
    BY <2>1, Split, FrameKinds DEF At
  <2> QED
    BY <2>1, <2>2 DEF ShownInv
<1>6. ASSUME (~ disposed /\ shown # version)'
      PROVE  \E u \in Threads : Delivers(u)'
  <2>1. CASE version' # version
    BY <1>6, <2>1
  <2>2. CASE version' = version
    <3>1. PICK u \in Threads : Delivers(u)
      BY <1>6, <1>7, <2>2 DEF ShownInv
    <3>2. CASE u = th
      BY <1>6, <3>1, <3>2
    <3>3. CASE u # th
      BY <1>1, <2>2, <3>1, <3>3 DEF Delivers
    <3> QED
      BY <3>2, <3>3
  <2> QED
    BY <2>1, <2>2
<1> QED
  BY <1>2, <1>3, <1>4, <1>5, <1>6 DEF LockInv, ShownInv

\* A thread that moves without ending a run.
LEMMA KeepsEnds ==
  ASSUME EndInv, Stacks, NEW th \in Threads, Others(th), ~ At(th, "terminal")',
         \A r \in Runs : work[r] = "end" => work'[r] = "end"
  PROVE  EndInv'
<1> SUFFICES ASSUME NEW u \in Threads, At(u, "terminal")'
             PROVE  work'[Head(stack'[u]).run] = "end"
  BY DEF EndInv
<1>1. u # th /\ At(u, "terminal") /\ Head(stack'[u]) = Head(stack[u])
  BY DEF Others, At
<1>2. Head(stack[u]).run \in Runs
  BY <1>1, Split, FrameKinds DEF At
<1> QED
  BY <1>1, <1>2 DEF EndInv

\* Every label of a stack is one, after a step too.
LEMMA LabelledNext == (Stacks => \A th \in Threads : Frames(th) \subseteq Labels)'
  BY Labelled, PTL

\* A frame of a label alone.
LEMMA Plain ==
  ASSUME NEW l \in Labels \ {"terminal", "invoke"}
  PROVE  Frame(l) \in FrameSet /\ Frame(l).at = l
  BY DEF Frame, FrameSet

Ordered == OnlyForeignAbove /\ EndInv /\ LockInv /\ ShownInv

\* A change is followed by RaiseChanged: by a call, or instead of what the thread did.
LEMMA Announces ==
  ASSUME SessionInv, NEW th \in Threads,
         \/ Push(th, <<Frame("raise")>>) /\ Frames(th) \subseteq Lower
         \/ Become(th, Frame("raise")) /\ stack[th] # <<>>,
         \A r \in Runs : work[r] = "end" => work'[r] = "end",
         version' \in {version, version + 1}, UNCHANGED <<life, shown>>
  PROVE  Stacks' /\ Ordered'
<1>1. Frame("raise") \in FrameSet /\ Frame("raise").at = "raise"
  BY Plain DEF Labels
<1>2. /\ Stacks' /\ Others(th) /\ At(th, "raise")' /\ Under(th)' \subseteq Lower
      /\ Frames(th)' \subseteq Frames(th) \cup {"raise"}
  <2>1. CASE Push(th, <<Frame("raise")>>) /\ Frames(th) \subseteq Lower
    BY <1>1, <2>1, Pushed DEF SessionInv, At
  <2>2. CASE Become(th, Frame("raise")) /\ stack[th] # <<>>
    BY <1>1, <2>2, Became DEF SessionInv, At, OnlyForeignAbove
  <2> QED
    BY <2>1, <2>2
<1>3. ~ At(th, "terminal")' /\ ~ At(th, "invoke")' /\ Delivers(th)'
  BY <1>2 DEF At, Delivers
<1>4. EndInv'
  BY <1>2, <1>3, KeepsEnds DEF SessionInv
<1>5. /\ Frames(th)' \cap CallbackFrames \subseteq Frames(th)
      /\ Frames(th)' \cap {"invoke", "handler"} \subseteq Frames(th)
  BY <1>2 DEF CallbackFrames
<1>6. OnlyForeignAbove' /\ LockInv' /\ ShownInv'
  BY <1>2, <1>3, <1>5, Moves DEF SessionInv, SessionTypeOK, Settles
<1> QED
  BY <1>2, <1>4, <1>6 DEF Ordered

\* A call returns that had nothing to announce, or whose listeners are gone.
LEMMA Returns ==
  ASSUME SessionInv, NEW th \in Threads, stack[th] # <<>>, Return(th),
         Head(stack[th]).at \notin {"starting", "raise", "invoke"},
         Head(stack[th]).at = "read" => disposed',
         \A r \in Runs : work[r] = "end" => work'[r] = "end",
         Settles(th), UNCHANGED <<version, shown>>
  PROVE  Stacks' /\ Ordered'
<1>1. /\ Stacks' /\ Others(th) /\ Under(th)' \subseteq Under(th) /\ Frames(th)' = Under(th)
      /\ stack'[th] # <<>> => Head(stack'[th]).at \in Under(th)
      /\ Frames(th) = Under(th) \cup {Head(stack[th]).at}
  BY Returned DEF SessionInv
<1>2. Under(th) \subseteq Lower
  BY DEF SessionInv, OnlyForeignAbove
<1>3. ~ At(th, "terminal")' /\ ~ At(th, "invoke")'
  BY <1>1, <1>2 DEF At, Lower
<1>4. ~ disposed' /\ Delivers(th) => Delivers(th)'
  BY <1>1 DEF Delivers, At
<1>5. EndInv'
  BY <1>1, <1>3, KeepsEnds DEF SessionInv
<1>6. OnlyForeignAbove' /\ LockInv' /\ ShownInv'
  BY <1>1, <1>2, <1>3, <1>4, Moves DEF SessionInv, SessionTypeOK
<1> QED
  BY <1>1, <1>5, <1>6 DEF Ordered

\* A step of a download that no thread sees.
LEMMA Unmoved ==
  ASSUME SessionInv, UNCHANGED <<stack, version, life, shown>>,
         \A r \in Runs : work[r] = "end" => work'[r] = "end"
  PROVE  Stacks' /\ Ordered'
<1>1. \A th \in Threads : /\ Frames(th)' = Frames(th) /\ Under(th)' = Under(th)
                          /\ \A l : At(th, l)' <=> At(th, l)
                          /\ Delivers(th)' <=> Delivers(th)
  BY DEF Frames, Under, At, Delivers
<1>2. Stacks' /\ OnlyForeignAbove' /\ LockInv'
  BY <1>1 DEF SessionInv, Stacks, OnlyForeignAbove, LockInv, QuietAfterDispose, life
<1>3. ShownInv'
  BY <1>1 DEF SessionInv, ShownInv, life
<1>4. EndInv'
  <2>1. \A th \in Threads : At(th, "terminal") => Head(stack[th]).run \in Runs
    BY Split, FrameKinds DEF At, SessionInv
  <2> QED
    BY <1>1, <2>1 DEF SessionInv, EndInv
<1> QED
  BY <1>2, <1>3, <1>4 DEF Ordered

\* A flag of a run is set or cleared.
LEMMA Switched ==
  ASSUME NEW f \in [Runs -> BOOLEAN], NEW r, NEW b \in BOOLEAN
  PROVE  [f EXCEPT ![r] = b] \in [Runs -> BOOLEAN]
  BY Zenon

\* The state and the run that owns the session stay.
LEMMA KeepsRuns == RunInv /\ UNCHANGED <<state, tasks>> => RunInv'
  BY DEF RunInv, NoOrphan, PausedAgrees, tasks

-----------------------------------------------------------------------------
\* The calls.
LEMMA PauseInv == ASSUME SessionInv, NEW th \in Threads, Pause(th) PROVE SessionInv'
<1> USE DEF Pause, Replace, PauseIt
<1>1. Stacks' /\ Ordered'
  BY Caller, Announces DEF SessionInv, life, tasks
<1>2. RunInv'
  BY DEF SessionInv, SessionTypeOK, RunInv, NoOrphan, PausedAgrees, Ongoing, tasks, Runs
<1>7. background' \in BOOLEAN
  BY Zenon DEF SessionInv, SessionTypeOK
<1>4. accelerate' \in BOOLEAN /\ version' \in Nat
  BY DEF SessionInv, SessionTypeOK
<1>6. paused' \in [Runs -> BOOLEAN]
  BY Switched DEF SessionInv, SessionTypeOK, tasks
<1>5. shown' \in 0 .. version'
  BY DEF SessionInv, SessionTypeOK, tasks
<1>3. SessionTypeOK'
  BY <1>1, <1>4, <1>5, <1>6, <1>7, LabelledNext, SessionAssumption
     DEF SessionInv, SessionTypeOK, RunInv, CallsFrom, Ongoing, tasks, life, Runs
<1> QED
  BY <1>1, <1>2, <1>3 DEF SessionInv, Ordered

\* Resume keeps SessionInv.
LEMMA ResumeInv == ASSUME SessionInv, NEW th \in Threads, Resume(th) PROVE SessionInv'
<1> USE DEF Resume, Replace
<1>1. Stacks' /\ Ordered'
  BY Caller, Announces DEF SessionInv, life, tasks
<1>2. RunInv'
  BY DEF SessionInv, SessionTypeOK, RunInv, NoOrphan, PausedAgrees, Ongoing, tasks, Runs
<1>7. background' \in BOOLEAN
  BY Zenon DEF SessionInv, SessionTypeOK
<1>4. accelerate' \in BOOLEAN /\ version' \in Nat
  BY DEF SessionInv, SessionTypeOK
<1>6. paused' \in [Runs -> BOOLEAN]
  BY Switched DEF SessionInv, SessionTypeOK, tasks
<1>5. shown' \in 0 .. version'
  BY DEF SessionInv, SessionTypeOK, tasks
<1>3. SessionTypeOK'
  BY <1>1, <1>4, <1>5, <1>6, <1>7, LabelledNext, SessionAssumption
     DEF SessionInv, SessionTypeOK, RunInv, CallsFrom, Ongoing, tasks, life, Runs
<1> QED
  BY <1>1, <1>2, <1>3 DEF SessionInv, Ordered

\* ContinueInBackground keeps SessionInv.
LEMMA ContinueInBackgroundInv ==
  ASSUME SessionInv, NEW th \in Threads, ContinueInBackground(th)
  PROVE  SessionInv'
<1> USE DEF ContinueInBackground, Replace
<1>1. Stacks' /\ Ordered'
  BY Caller, Announces DEF SessionInv, life, tasks
<1>2. RunInv'
  BY DEF SessionInv, SessionTypeOK, RunInv, NoOrphan, PausedAgrees, Ongoing, tasks, Runs
<1>7. background' \in BOOLEAN
  BY Zenon DEF SessionInv, SessionTypeOK
<1>4. accelerate' \in BOOLEAN /\ version' \in Nat
  BY DEF SessionInv, SessionTypeOK
<1>6. paused' \in [Runs -> BOOLEAN]
  BY Switched DEF SessionInv, SessionTypeOK, tasks
<1>5. shown' \in 0 .. version'
  BY DEF SessionInv, SessionTypeOK, tasks
<1>3. SessionTypeOK'
  BY <1>1, <1>4, <1>5, <1>6, <1>7, LabelledNext, SessionAssumption
     DEF SessionInv, SessionTypeOK, RunInv, CallsFrom, Ongoing, tasks, life, Runs
<1> QED
  BY <1>1, <1>2, <1>3 DEF SessionInv, Ordered

\* SetUseAccelerationNodes keeps SessionInv.
LEMMA SetUseAccelerationNodesInv ==
  ASSUME SessionInv, NEW th \in Threads, SetUseAccelerationNodes(th)
  PROVE  SessionInv'
<1> USE DEF SetUseAccelerationNodes, Replace
<1>1. Stacks' /\ Ordered'
  BY Caller, Announces DEF SessionInv, life, tasks
<1>2. RunInv'
  BY DEF SessionInv, SessionTypeOK, RunInv, NoOrphan, PausedAgrees, Ongoing, tasks, Runs
<1>7. background' \in BOOLEAN
  BY Zenon DEF SessionInv, SessionTypeOK
<1>4. accelerate' \in BOOLEAN /\ version' \in Nat
  BY DEF SessionInv, SessionTypeOK
<1>6. paused' \in [Runs -> BOOLEAN]
  BY Switched DEF SessionInv, SessionTypeOK, tasks
<1>5. shown' \in 0 .. version'
  BY DEF SessionInv, SessionTypeOK, tasks
<1>3. SessionTypeOK'
  BY <1>1, <1>4, <1>5, <1>6, <1>7, LabelledNext, SessionAssumption
     DEF SessionInv, SessionTypeOK, RunInv, CallsFrom, Ongoing, tasks, life, Runs
<1> QED
  BY <1>1, <1>2, <1>3 DEF SessionInv, Ordered

\* DiscardCompleted keeps SessionInv.
LEMMA DiscardCompletedInv ==
  ASSUME SessionInv, NEW th \in Threads, DiscardCompleted(th)
  PROVE  SessionInv'
<1> USE DEF DiscardCompleted, Replace
<1>1. Stacks' /\ Ordered'
  BY Caller, Announces DEF SessionInv, life, tasks
<1>2. RunInv'
  BY DEF SessionInv, SessionTypeOK, RunInv, NoOrphan, PausedAgrees, Ongoing, tasks, Runs
<1>7. background' \in BOOLEAN
  BY Zenon DEF SessionInv, SessionTypeOK
<1>4. accelerate' \in BOOLEAN /\ version' \in Nat
  BY DEF SessionInv, SessionTypeOK
<1>6. paused' \in [Runs -> BOOLEAN]
  BY Switched DEF SessionInv, SessionTypeOK, tasks
<1>5. shown' \in 0 .. version'
  BY DEF SessionInv, SessionTypeOK, tasks
<1>3. SessionTypeOK'
  BY <1>1, <1>4, <1>5, <1>6, <1>7, LabelledNext, SessionAssumption
     DEF SessionInv, SessionTypeOK, RunInv, CallsFrom, Ongoing, tasks, life, Runs
<1> QED
  BY <1>1, <1>2, <1>3 DEF SessionInv, Ordered

\* PauseWhenUiCloses keeps SessionInv.
LEMMA PauseWhenUiClosesInv ==
  ASSUME SessionInv, NEW th \in Threads, PauseWhenUiCloses(th)
  PROVE  SessionInv'
<1> USE DEF PauseWhenUiCloses
<1>1. Frames(th) \subseteq Lower
  BY Caller DEF SessionInv
<1>2. Frame("close") \in FrameSet /\ Frame("close").at = "close"
  BY Plain DEF Labels, CallbackFrames
<1>3. /\ Stacks' /\ Others(th) /\ At(th, "close")' /\ Under(th)' \subseteq Lower
      /\ Frames(th)' = Frames(th) \cup {"close"}
  BY <1>1, <1>2, Pushed DEF SessionInv, At
<1>4. ~ At(th, "terminal")' /\ ~ At(th, "invoke")' /\ (Delivers(th) => Delivers(th)')
  BY <1>1, <1>3, Split DEF At, Delivers, Lower, SessionInv
<1>5. EndInv'
  BY <1>3, <1>4, KeepsEnds DEF SessionInv, tasks
<1>6. OnlyForeignAbove' /\ LockInv' /\ ShownInv'
  <2>1. Frames(th)' \cap CallbackFrames \subseteq Frames(th) \/ CallbackFree(th)
    BY <1>3 DEF CallbackFrames
  <2> QED
    BY <1>3, <1>4, <2>1, Moves DEF SessionInv, SessionTypeOK, snapshot, Settles
<1>7. RunInv'
  BY KeepsRuns DEF SessionInv, snapshot
<1>8. SessionTypeOK'
  BY <1>3, LabelledNext, SessionAssumption
     DEF SessionInv, SessionTypeOK, CallsFrom, snapshot, tasks, life
<1> QED
  BY <1>3, <1>5, <1>6, <1>7, <1>8 DEF SessionInv

\* Dispose keeps SessionInv.
LEMMA DisposeInv == ASSUME SessionInv, NEW th \in Threads, Dispose(th) PROVE SessionInv'
<1> USE DEF Dispose
<1>1. Frames(th) \subseteq Lower
  BY Caller DEF SessionInv
<1>2. Frame("dispose") \in FrameSet /\ Frame("dispose").at = "dispose"
  BY Plain DEF Labels, CallbackFrames
<1>3. /\ Stacks' /\ Others(th) /\ At(th, "dispose")' /\ Under(th)' \subseteq Lower
      /\ Frames(th)' = Frames(th) \cup {"dispose"}
  BY <1>1, <1>2, Pushed DEF SessionInv, At
<1>4. ~ At(th, "terminal")' /\ ~ At(th, "invoke")' /\ (Delivers(th) => Delivers(th)')
  BY <1>1, <1>3, Split DEF At, Delivers, Lower, SessionInv
<1>5. EndInv'
  BY <1>3, <1>4, KeepsEnds DEF SessionInv, tasks
<1>6. OnlyForeignAbove' /\ LockInv' /\ ShownInv'
  <2>1. Frames(th)' \cap CallbackFrames \subseteq Frames(th) \/ CallbackFree(th)
    BY <1>3 DEF CallbackFrames
  <2> QED
    BY <1>3, <1>4, <2>1, Moves DEF SessionInv, SessionTypeOK, snapshot, Settles
<1>7. RunInv'
  BY KeepsRuns DEF SessionInv, snapshot
<1>8. SessionTypeOK'
  BY <1>3, LabelledNext, SessionAssumption
     DEF SessionInv, SessionTypeOK, CallsFrom, snapshot, tasks, life
<1> QED
  BY <1>3, <1>5, <1>6, <1>7, <1>8 DEF SessionInv

\* Cancel, StopAsync and Dispose cancel the run, which may end inside of that.
LEMMA CancelRunInv ==
  ASSUME SessionInv, NEW th \in Threads, NEW l \in {"cancelling", "stopping", "disposing"},
         CancelRun(th, l), run # 0, Frames(th) \subseteq Lower,
         Settles(th), l = "disposing" => At(th, "dispose"),
         disposed' \in BOOLEAN, disposer' \subseteq Threads, calls' \in 0 .. MaxCalls
  PROVE  SessionInv'
<1> USE DEF CancelRun
<1>1. /\ run \in Runs
      /\ Frame(l) \in FrameSet /\ Frame(l).at = l
      /\ \A result \in {"Cancelled", "Failed"} :
           /\ Ends(run, result) \in FrameSet
           /\ Ends(run, result).at = "terminal" /\ Ends(run, result).run = run
  BY Plain DEF SessionInv, SessionTypeOK, Runs, Labels, SyncFrames, Ends, FrameSet, Terminal
<1>2. /\ Stacks' /\ Others(th) /\ Under(th)' \subseteq Lower /\ stack'[th] # <<>>
      /\ \/ At(th, l)'
         \/ At(th, "terminal")' /\ Head(stack'[th]).run = run /\ work'[run] = "end"
      /\ Frames(th) \subseteq Frames(th)'
      /\ Frames(th)' \subseteq Frames(th) \cup {l, "terminal"}
  <2>1. CASE /\ work[run] \in Waiting
             /\ work' = [work EXCEPT ![run] = "end"]
             /\ \E result \in {"Cancelled", "Failed"} :
                  Push(th, <<Ends(run, result), Frame(l)>>)
    <3>1. PICK result \in {"Cancelled", "Failed"} : Push(th, <<Ends(run, result), Frame(l)>>)
      BY <2>1
    <3>2. work'[run] = "end"
      BY <1>1, <2>1 DEF SessionInv, SessionTypeOK
    <3> QED
      BY <1>1, <3>1, <3>2, PushedTwo DEF SessionInv, At, Lower
  <2>2. CASE Push(th, <<Frame(l)>>)
    BY <1>1, <2>2, Pushed DEF SessionInv, At
  <2> QED
    BY <2>1, <2>2
<1>3. \A r \in Runs : /\ work[r] = "end" => work'[r] = "end"
                      /\ work'[r] \in {"running"} \cup Waiting => work'[r] = work[r]
  BY <1>1 DEF SessionInv, SessionTypeOK, Waiting
<1>4. EndInv'
  <2> SUFFICES ASSUME NEW u \in Threads, At(u, "terminal")'
               PROVE  work'[Head(stack'[u]).run] = "end"
    BY DEF EndInv
  <2>1. CASE u = th
    BY <1>2, <2>1 DEF At
  <2>2. CASE u # th
    <3>1. At(u, "terminal") /\ Head(stack'[u]) = Head(stack[u])
      BY <1>2, <2>2 DEF Others, At
    <3>2. Head(stack[u]).run \in Runs
      BY <3>1, Split, FrameKinds DEF At, SessionInv
    <3> QED
      BY <1>3, <3>1, <3>2 DEF SessionInv, EndInv
  <2> QED
    BY <2>1, <2>2
<1>5. OnlyForeignAbove' /\ LockInv' /\ ShownInv'
  <2>1. /\ Frames(th)' \cap CallbackFrames \subseteq Frames(th) \/ CallbackFree(th)
        /\ Frames(th)' \cap {"invoke", "handler"} \subseteq Frames(th)
    <3>1. CASE l # "disposing"
      BY <1>2, <3>1 DEF CallbackFrames
    <3>2. CASE l = "disposing"
      <4>1. "dispose" \in Frames(th) \cap CallbackFrames
        BY <3>2, Split DEF At, CallbackFrames, SessionInv
      <4>2. CallbackFree(th)
        BY <4>1 DEF SessionInv, LockInv, CallbackFree
      <4> QED
        BY <1>2, <4>2
    <3> QED
      BY <3>1, <3>2
  <2>2. ~ At(th, "invoke")'
    BY <1>2 DEF At
  <2>3. Delivers(th) => Delivers(th)'
    BY <1>2, Split DEF Delivers, At, Lower, SessionInv
  <2> QED
    BY <1>2, <2>1, <2>2, <2>3, Moves DEF SessionInv, SessionTypeOK, snapshot
<1>6. RunInv'
  <2>1. cancelled'[run]
    BY <1>1 DEF SessionInv, SessionTypeOK
  <2>2. NoOrphan'
    BY <1>3 DEF SessionInv, RunInv, NoOrphan, snapshot
  <2>3. PausedAgrees'
    BY <2>1 DEF PausedAgrees
  <2>4. \A r \in Runs : r > begun => work'[r] = "none" /\ ~ paused'[r] /\ ~ cancelled'[r]
    <3>1. run <= begun /\ run \in Nat /\ begun \in Nat
      BY DEF SessionInv, RunInv, SessionTypeOK
    <3>2. ASSUME NEW r \in Runs, r # run
          PROVE  work'[r] = work[r] /\ paused'[r] = paused[r] /\ cancelled'[r] = cancelled[r]
      BY <3>2 DEF SessionInv, SessionTypeOK
    <3>3. \A r \in Runs : r > begun => r # run
      BY <3>1 DEF Runs
    <3> QED
      BY <3>2, <3>3 DEF SessionInv, RunInv
  <2> QED
    BY <2>2, <2>3, <2>4 DEF SessionInv, RunInv, snapshot
<1>7. SessionTypeOK'
  <2>1. paused' \in [Runs -> BOOLEAN] /\ cancelled' \in [Runs -> BOOLEAN]
    BY Switched DEF SessionInv, SessionTypeOK
  <2>2. work' \in [Runs -> {"none", "running", "end"} \cup Waiting]
    BY DEF SessionInv, SessionTypeOK
  <2> QED
    BY <1>2, <2>1, <2>2, LabelledNext DEF SessionInv, SessionTypeOK, snapshot
<1> QED
  BY <1>2, <1>4, <1>5, <1>6, <1>7 DEF SessionInv

\* Cancel keeps SessionInv.
LEMMA CancelInv == ASSUME SessionInv, NEW th \in Threads, Cancel(th) PROVE SessionInv'
  BY Caller, CancelRunInv, SessionAssumption
     DEF SessionInv, SessionTypeOK, Cancel, CallsFrom, Settles, life

\* StopAsync keeps SessionInv.
LEMMA StopAsyncInv == ASSUME SessionInv, NEW th \in Threads, StopAsync(th) PROVE SessionInv'
  BY Caller, CancelRunInv, SessionAssumption
     DEF SessionInv, SessionTypeOK, StopAsync, CallsFrom, Settles, life

\* TryStart keeps SessionInv.
LEMMA TryStartInv == ASSUME SessionInv, NEW th \in Threads, TryStart(th) PROVE SessionInv'
<1> USE DEF TryStart, Replace
<1>1. /\ begun' \in Runs /\ begun' = begun + 1 /\ run' = begun' /\ begun \in Nat
      /\ work[begun'] = "none" /\ ~ paused[begun'] /\ ~ cancelled[begun']
      /\ \A r \in Runs : work[r] \notin {"running"} \cup Waiting
  BY SessionAssumption DEF SessionInv, SessionTypeOK, RunInv, NoOrphan, CanStart, Runs
<1>2. Frames(th) \subseteq Lower
  BY Caller DEF SessionInv
<1>3. \E w \in {"await", "end"} : work' = [work EXCEPT ![begun'] = w]
  OBVIOUS
<1>4. \A r \in Runs : /\ work[r] = "end" => work'[r] = "end"
                      /\ r # begun' => work'[r] = work[r]
  BY <1>1, <1>3 DEF SessionInv, SessionTypeOK
<1>5. Stacks' /\ Ordered'
  <2>1. CASE Push(th, <<Frame("raise")>>)
    BY <1>2, <1>4, <2>1, Announces DEF life
  <2>2. CASE /\ work' = [work EXCEPT ![begun'] = "end"]
             /\ Push(th, <<Ends(begun', "Failed"), Frame("starting")>>)
    <3>1. /\ Frame("starting") \in FrameSet /\ Frame("starting").at = "starting"
          /\ Ends(begun', "Failed") \in FrameSet
          /\ Ends(begun', "Failed").at = "terminal" /\ Ends(begun', "Failed").run = begun'
      BY <1>1, Plain DEF Labels, SyncFrames, Ends, FrameSet, Terminal
    <3>2. /\ Stacks' /\ Others(th) /\ Under(th)' \subseteq Lower /\ stack'[th] # <<>>
          /\ At(th, "terminal")' /\ Head(stack'[th]).run = begun'
          /\ Frames(th)' = Frames(th) \cup {"terminal", "starting"}
      <4>1. /\ Stacks' /\ Others(th) /\ stack'[th] # <<>>
            /\ Head(stack'[th]) = Ends(begun', "Failed")
            /\ Frames(th)' = Frames(th) \cup {"terminal", "starting"}
            /\ Under(th)' = Frames(th) \cup {"starting"}
        BY <2>2, <3>1, PushedTwo DEF SessionInv
      <4> QED
        BY <1>2, <3>1, <4>1 DEF At, Lower
    <3>3. EndInv'
      <4> SUFFICES ASSUME NEW u \in Threads, At(u, "terminal")'
                   PROVE  work'[Head(stack'[u]).run] = "end"
        BY DEF EndInv
      <4>1. CASE u = th
        BY <1>1, <2>2, <3>2, <4>1 DEF SessionInv, SessionTypeOK
      <4>2. CASE u # th
        <5>1. At(u, "terminal") /\ Head(stack'[u]) = Head(stack[u])
          BY <3>2, <4>2 DEF Others, At
        <5>2. Head(stack[u]).run \in Runs
          BY <5>1, Split, FrameKinds DEF At, SessionInv
        <5> QED
          BY <1>4, <5>1, <5>2 DEF SessionInv, EndInv
      <4> QED
        BY <4>1, <4>2
    <3>4. ~ At(th, "invoke")' /\ Delivers(th)'
      BY <3>2 DEF At, Delivers
    <3>5. /\ Frames(th)' \cap CallbackFrames \subseteq Frames(th)
          /\ Frames(th)' \cap {"invoke", "handler"} \subseteq Frames(th)
      BY <3>2 DEF CallbackFrames
    <3>6. OnlyForeignAbove' /\ LockInv' /\ ShownInv'
      BY <3>2, <3>4, <3>5, Moves DEF SessionInv, SessionTypeOK, Settles
    <3> QED
      BY <3>2, <3>3, <3>6 DEF Ordered
  <2> QED
    BY <2>1, <2>2
<1>6. RunInv'
  <2>1. NoOrphan'
    BY <1>1, <1>4 DEF NoOrphan, Ongoing
  <2>2. PausedAgrees'
    BY <1>1 DEF PausedAgrees
  <2>3. \A r \in Runs : r > begun' => work'[r] = "none" /\ ~ paused'[r] /\ ~ cancelled'[r]
    BY <1>1, <1>4 DEF SessionInv, RunInv, Runs
  <2> QED
    BY <1>1, <2>1, <2>2, <2>3 DEF RunInv, Ongoing, Runs
<1>7. SessionTypeOK'
  <2>1. background' \in BOOLEAN
    BY Zenon
  <2>2. work' \in [Runs -> {"none", "running", "end"} \cup Waiting]
    BY <1>3 DEF SessionInv, SessionTypeOK, Waiting
  <2>3. shown' \in 0 .. version' /\ version' \in Nat /\ calls' \in 0 .. MaxCalls
    BY SessionAssumption DEF SessionInv, SessionTypeOK, CallsFrom
  <2> QED
    BY <1>1, <1>5, <2>1, <2>2, <2>3, LabelledNext
       DEF SessionInv, SessionTypeOK, Ongoing, life, Runs
<1> QED
  BY <1>5, <1>6, <1>7 DEF SessionInv, Ordered

-----------------------------------------------------------------------------
\* How the calls go on.
LEMMA StartReturnsInv ==
  ASSUME SessionInv, NEW th \in Threads, StartReturns(th)
  PROVE  SessionInv'
<1> USE DEF StartReturns, At
<1>1. Stacks' /\ Ordered'
  BY Announces DEF SessionInv, SessionTypeOK, snapshot, tasks
<1>2. RunInv'
  BY KeepsRuns DEF SessionInv, snapshot
<1>3. SessionTypeOK'
  BY <1>1, LabelledNext DEF SessionInv, SessionTypeOK, snapshot, tasks, life
<1> QED
  BY <1>1, <1>2, <1>3 DEF SessionInv, Ordered

\* ClosePauses keeps SessionInv.
LEMMA ClosePausesInv == ASSUME SessionInv, NEW th \in Threads, ClosePauses(th) PROVE SessionInv'
<1> USE DEF ClosePauses, At
<1>1. CASE PauseIt /\ Become(th, Frame("raise"))
  <2> USE DEF PauseIt, Replace
  <2>1. Stacks' /\ Ordered'
    BY <1>1, Announces DEF SessionInv, SessionTypeOK, life
  <2>2. RunInv'
    BY <1>1 DEF SessionInv, SessionTypeOK, RunInv, NoOrphan, PausedAgrees, Ongoing, Runs
  <2>3. background' \in BOOLEAN
    BY <1>1, Zenon
  <2>4. paused' \in [Runs -> BOOLEAN]
    BY <1>1, Switched DEF SessionInv, SessionTypeOK
  <2>5. shown' \in 0 .. version' /\ version' \in Nat
    BY <1>1 DEF SessionInv, SessionTypeOK
  <2>6. SessionTypeOK'
    BY <1>1, <2>1, <2>3, <2>4, <2>5, LabelledNext
       DEF SessionInv, SessionTypeOK, Ongoing, life
  <2> QED
    BY <2>1, <2>2, <2>6 DEF SessionInv, Ordered
<1>2. CASE Return(th) /\ UNCHANGED <<paused, state, background, version>>
  <2>1. Stacks' /\ Ordered'
    BY <1>2, Returns DEF SessionInv, SessionTypeOK, Settles
  <2>2. RunInv'
    BY <1>2, KeepsRuns DEF SessionInv, tasks
  <2>3. SessionTypeOK'
    BY <1>2, <2>1, LabelledNext DEF SessionInv, SessionTypeOK, life
  <2> QED
    BY <2>1, <2>2, <2>3 DEF SessionInv, Ordered
<1> QED
  BY <1>1, <1>2

\* CancelReturns keeps SessionInv.
LEMMA CancelReturnsInv ==
  ASSUME SessionInv, NEW th \in Threads, CancelReturns(th)
  PROVE  SessionInv'
<1> USE DEF CancelReturns, At
<1>1. Stacks' /\ Ordered'
  BY Returns DEF SessionInv, SessionTypeOK, snapshot, tasks, Settles
<1>2. RunInv'
  BY KeepsRuns DEF SessionInv, snapshot
<1>3. SessionTypeOK'
  BY <1>1, LabelledNext DEF SessionInv, SessionTypeOK, snapshot, tasks, life
<1> QED
  BY <1>1, <1>2, <1>3 DEF SessionInv, Ordered

\* HandlerReturns keeps SessionInv.
LEMMA HandlerReturnsInv ==
  ASSUME SessionInv, NEW th \in Threads, HandlerReturns(th)
  PROVE  SessionInv'
<1> USE DEF HandlerReturns, At
<1>1. Stacks' /\ Ordered'
  BY Returns DEF SessionInv, SessionTypeOK, snapshot, tasks, Settles
<1>2. RunInv'
  BY KeepsRuns DEF SessionInv, snapshot
<1>3. SessionTypeOK'
  BY <1>1, LabelledNext DEF SessionInv, SessionTypeOK, snapshot, tasks, life
<1> QED
  BY <1>1, <1>2, <1>3 DEF SessionInv, Ordered

\* Disposes keeps SessionInv.
LEMMA DisposesInv == ASSUME SessionInv, NEW th \in Threads, Disposes(th) PROVE SessionInv'
<1> USE DEF Disposes
<1>1. CASE Return(th) /\ (disposed \/ run = 0)
  <2>1. Settles(th) /\ disposed' \in BOOLEAN /\ disposer' \subseteq Threads
    BY <1>1 DEF Settles, SessionInv, SessionTypeOK
  <2>2. Stacks' /\ Ordered'
    BY <1>1, <2>1, Returns DEF SessionInv, SessionTypeOK, At, snapshot, tasks
  <2>3. RunInv'
    BY <1>1, KeepsRuns DEF SessionInv, snapshot
  <2>4. SessionTypeOK'
    BY <1>1, <2>1, <2>2, LabelledNext DEF SessionInv, SessionTypeOK, snapshot, tasks
  <2> QED
    BY <2>2, <2>3, <2>4 DEF SessionInv, Ordered
<1>2. CASE CancelRun(th, "disposing") /\ ~ disposed /\ run # 0
  <2>1. Settles(th) /\ disposed' \in BOOLEAN /\ disposer' \subseteq Threads
    BY <1>2 DEF Settles, SessionInv, SessionTypeOK
  <2>2. Frames(th) \subseteq Lower
    BY Split DEF At, SessionInv, OnlyForeignAbove, Lower
  <2> QED
    BY <1>2, <2>1, <2>2, CancelRunInv DEF SessionInv, SessionTypeOK
<1> QED
  BY <1>1, <1>2

-----------------------------------------------------------------------------
\* The download.
LEMMA SuspendsInv == ASSUME SessionInv, NEW r \in Runs, Suspends(r) PROVE SessionInv'
<1> USE DEF Suspends, OnItsThread
<1>1. /\ work' \in [Runs -> {"none", "running", "end"} \cup Waiting]
      /\ \A q \in Runs : q # r => work'[q] = work[q]
      /\ work'[r] \in Waiting /\ work[r] = "running"
  BY DEF SessionInv, SessionTypeOK, Waiting
<1>2. Stacks' /\ Ordered'
  BY <1>1, Unmoved DEF snapshot
<1>3. RunInv'
  BY <1>1 DEF SessionInv, RunInv, NoOrphan, PausedAgrees, snapshot, Waiting
<1>4. SessionTypeOK'
  BY <1>1, <1>2, LabelledNext DEF SessionInv, SessionTypeOK, snapshot, life
<1> QED
  BY <1>2, <1>3, <1>4 DEF SessionInv, Ordered

\* Wakes keeps SessionInv.
LEMMA WakesInv == ASSUME SessionInv, NEW r \in Runs, Wakes(r) PROVE SessionInv'
<1> USE DEF Wakes
<1>1. /\ work' \in [Runs -> {"none", "running", "end"} \cup Waiting]
      /\ \A q \in Runs : q # r => work'[q] = work[q]
      /\ work'[r] = "running" /\ work[r] \in Waiting
  BY DEF SessionInv, SessionTypeOK, Waiting
<1>2. Stacks' /\ Ordered'
  BY <1>1, Unmoved DEF snapshot, Waiting
<1>3. RunInv'
  BY <1>1 DEF SessionInv, RunInv, NoOrphan, PausedAgrees, snapshot, Waiting
<1>4. SessionTypeOK'
  BY <1>1, <1>2, LabelledNext DEF SessionInv, SessionTypeOK, snapshot, life
<1> QED
  BY <1>2, <1>3, <1>4 DEF SessionInv, Ordered

\* ReportProgress keeps SessionInv.
LEMMA ReportProgressInv ==
  ASSUME SessionInv, NEW r \in Runs, ReportProgress(r)
  PROVE  SessionInv'
<1> USE DEF ReportProgress, OnItsThread, Replace
<1>1. r \in Threads /\ Frames(r) \subseteq Lower
  BY Split DEF SessionInv, Threads
<1>2. Stacks' /\ Ordered'
  BY <1>1, Announces DEF SessionInv, tasks
<1>3. RunInv'
  BY KeepsRuns DEF SessionInv
<1>4. reports' \in 0 .. MaxReports /\ shown' \in 0 .. version' /\ version' \in Nat
  BY SessionAssumption DEF SessionInv, SessionTypeOK
<1>5. SessionTypeOK'
  BY <1>2, <1>4, LabelledNext DEF SessionInv, SessionTypeOK, tasks, life
<1> QED
  BY <1>2, <1>3, <1>5 DEF SessionInv, Ordered

\* Finishes keeps SessionInv.
LEMMA FinishesInv == ASSUME SessionInv, NEW r \in Runs, Finishes(r) PROVE SessionInv'
<1> USE DEF Finishes, OnItsThread
<1>1. /\ work' \in [Runs -> {"none", "running", "end"} \cup Waiting]
      /\ \A q \in Runs : q # r => work'[q] = work[q]
      /\ work'[r] = "end" /\ work[r] = "running"
  BY DEF SessionInv, SessionTypeOK, Waiting
<1>2. r \in Threads /\ Frames(r) = {}
  BY Split DEF SessionInv, Threads
<1>3. PICK result \in Terminal : Push(r, <<Ends(r, result)>>)
  OBVIOUS
<1>4. Ends(r, result) \in FrameSet /\ Ends(r, result).at = "terminal" /\ Ends(r, result).run = r
  BY DEF Ends, FrameSet
<1>5. /\ Stacks' /\ Others(r) /\ stack'[r] # <<>> /\ Head(stack'[r]) = Ends(r, result)
      /\ Frames(r)' = {"terminal"} /\ Under(r)' = {}
  BY <1>2, <1>3, <1>4, Pushed DEF SessionInv
<1>6. EndInv'
  <2> SUFFICES ASSUME NEW u \in Threads, At(u, "terminal")'
               PROVE  work'[Head(stack'[u]).run] = "end"
    BY DEF EndInv
  <2>1. CASE u = r
    BY <1>1, <1>4, <1>5, <2>1
  <2>2. CASE u # r
    <3>1. At(u, "terminal") /\ Head(stack'[u]) = Head(stack[u])
      BY <1>5, <2>2 DEF Others, At
    <3>2. Head(stack[u]).run \in Runs
      BY <3>1, Split, FrameKinds DEF At, SessionInv
    <3> QED
      BY <1>1, <3>1, <3>2 DEF SessionInv, EndInv
  <2> QED
    BY <2>1, <2>2
<1>7. OnlyForeignAbove' /\ LockInv' /\ ShownInv'
  <2>1. ~ At(r, "invoke")'
    BY <1>4, <1>5 DEF At
  <2>2. ~ Delivers(r)
    BY <1>2 DEF Delivers, At
  <2>3. Frames(r)' \cap CallbackFrames = {} /\ Frames(r)' \cap {"invoke", "handler"} = {}
    BY <1>5 DEF CallbackFrames
  <2> QED
    BY <1>2, <1>5, <2>1, <2>2, <2>3, Moves DEF SessionInv, SessionTypeOK, snapshot, Settles
<1>8. RunInv'
  BY <1>1 DEF SessionInv, RunInv, NoOrphan, PausedAgrees, snapshot, Waiting
<1>9. SessionTypeOK'
  BY <1>1, <1>5, LabelledNext DEF SessionInv, SessionTypeOK, snapshot, life
<1> QED
  BY <1>5, <1>6, <1>7, <1>8, <1>9 DEF SessionInv

\* SetTerminalState keeps SessionInv.
LEMMA SetTerminalStateInv ==
  ASSUME SessionInv, NEW th \in Threads, SetTerminalState(th)
  PROVE  SessionInv'
<1> USE DEF SetTerminalState, Replace
<1>1. /\ stack[th] # <<>> /\ Head(stack[th]).at = "terminal"
      /\ Head(stack[th]).run \in Runs /\ Head(stack[th]).result \in Terminal
      /\ work[Head(stack[th]).run] = "end"
  BY Split, FrameKinds DEF At, SessionInv, EndInv
<1>2. CASE Head(stack[th]).run = run
  <2>1. Stacks' /\ Ordered'
    BY <1>1, <1>2, Announces DEF life
  <2>2. \A r \in Runs : work[r] \notin {"running"} \cup Waiting
    BY <1>1, <1>2 DEF SessionInv, RunInv, NoOrphan, Waiting
  <2>3. RunInv'
    BY <1>1, <1>2, <2>2 DEF SessionInv, RunInv, NoOrphan, PausedAgrees, Ongoing, Terminal
  <2>4. background' \in BOOLEAN
    BY <1>2, Zenon
  <2>5. run' \in 0 .. MaxRuns /\ shown' \in 0 .. version' /\ version' \in Nat
    BY <1>2, SessionAssumption DEF SessionInv, SessionTypeOK
  <2>6. SessionTypeOK'
    BY <1>1, <1>2, <2>1, <2>4, <2>5, LabelledNext DEF SessionInv, SessionTypeOK, life
  <2> QED
    BY <2>1, <2>3, <2>6 DEF SessionInv, Ordered
<1>3. CASE Head(stack[th]).run # run
  <2>1. Stacks' /\ Ordered'
    BY <1>1, <1>3, Returns DEF SessionInv, Settles
  <2>2. RunInv'
    BY <1>3, KeepsRuns DEF SessionInv, tasks
  <2>3. SessionTypeOK'
    BY <1>3, <2>1, LabelledNext DEF SessionInv, SessionTypeOK, life
  <2> QED
    BY <2>1, <2>2, <2>3 DEF SessionInv, Ordered
<1> QED
  BY <1>2, <1>3

-----------------------------------------------------------------------------
\* RaiseChanged.
LEMMA RaisesInv == ASSUME SessionInv, NEW th \in Threads, Raises(th) PROVE SessionInv'
<1> USE DEF Raises
<1>1. Frame("read") \in FrameSet /\ Frame("read").at = "read"
  BY Plain DEF Labels, CallbackFrames
<1>2. /\ Stacks' /\ Others(th) /\ At(th, "read")' /\ Under(th)' = Under(th)
      /\ Frames(th)' = Under(th) \cup {"read"} /\ Under(th) \subseteq Frames(th)
  BY <1>1, Became DEF SessionInv, At
<1>3. ~ At(th, "terminal")' /\ ~ At(th, "invoke")' /\ Delivers(th)'
  BY <1>2 DEF At, Delivers
<1>4. EndInv'
  BY <1>2, <1>3, KeepsEnds DEF SessionInv, tasks
<1>5. OnlyForeignAbove' /\ LockInv' /\ ShownInv'
  <2>1. Under(th)' \subseteq Lower /\ Frames(th)' \cap {"invoke", "handler"} \subseteq Frames(th)
    BY <1>2 DEF SessionInv, OnlyForeignAbove
  <2> QED
    BY <1>2, <1>3, <2>1, Moves DEF SessionInv, SessionTypeOK, snapshot, Settles
<1>6. RunInv'
  BY KeepsRuns DEF SessionInv, snapshot
<1>7. SessionTypeOK'
  BY <1>2, LabelledNext DEF SessionInv, SessionTypeOK, snapshot, tasks, life
<1> QED
  BY <1>2, <1>4, <1>5, <1>6, <1>7 DEF SessionInv

\* The thread that goes from reading to delivering owns _callbackSync already.
LEMMA OwnerStays ==
  ASSUME SessionInv, NEW th \in Threads, Others(th), Frames(th) \cap CallbackFrames # {}
  PROVE  /\ \A u, v \in Threads :
              u # v => (Frames(u) \cap CallbackFrames = {} \/ Frames(v) \cap CallbackFrames = {})'
         /\ \A u \in Threads \ {th} : /\ Frames(u)' = Frames(u) /\ Frames(u) \cap CallbackFrames = {}
                                      /\ Under(u)' = Under(u) /\ stack'[u] = stack[u]
                                      /\ ~ At(u, "invoke")
<1>1. \A u \in Threads \ {th} : /\ Frames(u)' = Frames(u) /\ Under(u)' = Under(u)
                                /\ stack'[u] = stack[u]
  BY FramesAbove DEF Others, Frames, Under
<1>2. \A u \in Threads \ {th} : Frames(u) \cap CallbackFrames = {}
  BY DEF SessionInv, LockInv
<1>3. \A u \in Threads \ {th} : ~ At(u, "invoke")
  BY <1>2, Split DEF At, CallbackFrames, SessionInv
<1> QED
  BY <1>1, <1>2, <1>3

\* ReadsSnapshot keeps SessionInv.
LEMMA ReadsSnapshotInv ==
  ASSUME SessionInv, NEW th \in Threads, ReadsSnapshot(th)
  PROVE  SessionInv'
<1> USE DEF ReadsSnapshot
<1>1. RunInv'
  BY KeepsRuns DEF SessionInv, snapshot
<1>2. CASE disposed
  <2>1. Stacks' /\ Ordered'
    BY <1>2, Returns DEF SessionInv, SessionTypeOK, At, snapshot, tasks, life, Settles
  <2>2. SessionTypeOK'
    BY <2>1, LabelledNext DEF SessionInv, SessionTypeOK, snapshot, tasks, life
  <2> QED
    BY <1>1, <2>1, <2>2 DEF SessionInv, Ordered
<1>3. CASE ~ disposed
  <2> DEFINE f == [at |-> "invoke", version |-> version]
  <2>1. f \in FrameSet /\ f.at = "invoke" /\ f.version = version
    BY DEF SessionInv, SessionTypeOK, FrameSet
  <2>2. stack[th] # <<>> /\ Become(th, f) /\ Head(stack[th]).at = "read"
    BY <1>3 DEF At
  <2> HIDE DEF f
  <2>3. /\ Stacks' /\ Others(th) /\ stack'[th] # <<>> /\ Head(stack'[th]) = f
        /\ Frames(th) = Under(th) \cup {"read"}
        /\ Frames(th)' = Under(th) \cup {"invoke"} /\ Under(th)' = Under(th)
    BY <2>1, <2>2, Became DEF SessionInv
  <2>4. Frames(th) \cap CallbackFrames # {}
    BY <2>3 DEF CallbackFrames
  <2>5. OnlyForeignAbove'
    BY <2>3, <2>4, OwnerStays DEF SessionInv, OnlyForeignAbove
  <2>6. LockInv'
    BY <1>3, <2>3, <2>4, OwnerStays DEF LockInv, QuietAfterDispose, life
  <2>7. ShownInv'
    <3>1. At(th, "invoke")' /\ Delivers(th)'
      BY <2>1, <2>3 DEF At, Delivers, snapshot
    <3>2. \A u \in Threads \ {th} : ~ At(u, "invoke")'
      BY <2>3, <2>4, OwnerStays DEF At
    <3>3. shown' <= Head(stack'[th]).version /\ Head(stack'[th]).version <= version'
      BY <2>1, <2>3 DEF SessionInv, SessionTypeOK, snapshot
    <3> QED
      BY <3>1, <3>2, <3>3 DEF ShownInv
  <2>8. EndInv'
    <3>1. ~ At(th, "terminal")'
      BY <2>1, <2>3 DEF At
    <3> QED
      BY <2>3, <3>1, KeepsEnds DEF SessionInv, tasks
  <2>9. SessionTypeOK'
    BY <2>3, LabelledNext DEF SessionInv, SessionTypeOK, snapshot, tasks, life
  <2> QED
    BY <1>1, <2>3, <2>5, <2>6, <2>7, <2>8, <2>9 DEF SessionInv
<1> QED
  BY <1>2, <1>3

\* Invokes keeps SessionInv.
LEMMA InvokesInv == ASSUME SessionInv, NEW th \in Threads, Invokes(th) PROVE SessionInv'
<1> USE DEF Invokes
<1>1. /\ stack[th] # <<>> /\ Head(stack[th]).at = "invoke"
      /\ Head(stack[th]).version \in Nat
      /\ shown <= Head(stack[th]).version /\ Head(stack[th]).version <= version
  BY Split, FrameKinds DEF SessionInv, At, ShownInv
<1>2. Frame("handler") \in FrameSet /\ Frame("handler").at = "handler"
  BY Plain DEF Labels, CallbackFrames
<1>3. /\ Stacks' /\ Others(th) /\ stack'[th] # <<>> /\ Head(stack'[th]) = Frame("handler")
      /\ Frames(th) = Under(th) \cup {"invoke"}
      /\ Frames(th)' = Under(th) \cup {"handler"} /\ Under(th)' = Under(th)
  BY <1>1, <1>2, Became DEF SessionInv
<1>4. Frames(th) \cap CallbackFrames # {}
  BY <1>3 DEF CallbackFrames
<1>5. OnlyForeignAbove'
  BY <1>3, <1>4, OwnerStays DEF SessionInv, OnlyForeignAbove
<1>6. LockInv'
  <2>1. disposed => th \in disposer
    BY <1>3 DEF SessionInv, LockInv, QuietAfterDispose
  <2> QED
    BY <1>3, <1>4, <2>1, OwnerStays DEF SessionInv, LockInv, QuietAfterDispose, life
<1>7. ShownInv'
  <2>1. \A u \in Threads : ~ At(u, "invoke")'
    BY <1>2, <1>3, <1>4, OwnerStays DEF At
  <2>2. ASSUME ~ disposed', shown' # version'
        PROVE  \E u \in Threads : Delivers(u)'
    <3>1. version' = version /\ ~ disposed /\ shown # version
      BY <1>1, <2>2 DEF SessionInv, SessionTypeOK, snapshot, life
    <3>2. PICK u \in Threads : Delivers(u)
      BY <3>1 DEF SessionInv, ShownInv
    <3>3. CASE u = th
      BY <1>1, <1>3, <2>2, <3>1, <3>2, <3>3 DEF Delivers, At
    <3>4. CASE u # th
      BY <1>3, <1>4, <3>1, <3>2, <3>4, OwnerStays DEF Delivers, At
    <3> QED
      BY <3>3, <3>4
  <2> QED
    BY <2>1, <2>2 DEF ShownInv
<1>8. EndInv'
  <2>1. ~ At(th, "terminal")'
    BY <1>2, <1>3 DEF At
  <2> QED
    BY <1>3, <2>1, KeepsEnds DEF SessionInv, tasks
<1>9. RunInv'
  BY KeepsRuns DEF SessionInv, snapshot
<1>10. SessionTypeOK'
  BY <1>1, <1>3, LabelledNext DEF SessionInv, SessionTypeOK, snapshot, tasks, life
<1> QED
  BY <1>3, <1>5, <1>6, <1>7, <1>8, <1>9, <1>10 DEF SessionInv

-----------------------------------------------------------------------------
\* A session starts with nothing on any stack and nothing to deliver.
LEMMA InitSession == SessionInit => SessionInv
<1> SUFFICES ASSUME SessionInit PROVE SessionInv
  OBVIOUS
<1> USE DEF SessionInit
<1>1. \A th \in Threads : /\ stack[th] = <<>> /\ Frames(th) = {} /\ Under(th) = {}
                          /\ \A l : ~ At(th, l)
  BY DEF Frames, Under, Rest, At
<1>2. Stacks
  BY DEF Stacks
<1>3. SessionTypeOK
  <2>1. background \in BOOLEAN /\ accelerate \in BOOLEAN /\ disposed \in BOOLEAN
    BY Zenon
  <2>2. paused \in [Runs -> BOOLEAN] /\ cancelled \in [Runs -> BOOLEAN]
    BY Zenon
  <2> QED
    BY <1>1, <2>1, <2>2, SessionAssumption DEF SessionTypeOK
<1>4. RunInv
  BY DEF RunInv, NoOrphan, PausedAgrees, Ongoing, Waiting
<1> QED
  BY <1>1, <1>2, <1>3, <1>4
     DEF SessionInv, OnlyForeignAbove, EndInv, LockInv, QuietAfterDispose, ShownInv

\* Every action keeps what the session and its threads agree on.
LEMMA NextSession == SessionInv /\ [SessionNext]_sessionVars => SessionInv'
<1> SUFFICES ASSUME SessionInv, [SessionNext]_sessionVars PROVE SessionInv'
  OBVIOUS
<1>1. ASSUME NEW th \in Threads, CallsSession(th)
      PROVE  SessionInv'
  BY <1>1, TryStartInv, PauseInv, ResumeInv, ContinueInBackgroundInv,
     SetUseAccelerationNodesInv,
     PauseWhenUiClosesInv, CancelInv, StopAsyncInv, DiscardCompletedInv, DisposeInv DEF CallsSession
<1>2. ASSUME NEW th \in Threads, GoesOn(th)
      PROVE  SessionInv'
  BY <1>2, StartReturnsInv, ClosePausesInv, CancelReturnsInv, DisposesInv,
     SetTerminalStateInv,
     RaisesInv, ReadsSnapshotInv, InvokesInv, HandlerReturnsInv DEF GoesOn
<1>3. ASSUME NEW r \in Runs, WorksOn(r)
      PROVE  SessionInv'
  BY <1>3, SuspendsInv, WakesInv, ReportProgressInv, FinishesInv DEF WorksOn
<1>4. CASE UNCHANGED sessionVars
  <2>1. Stacks' /\ Ordered'
    BY <1>4, Unmoved DEF sessionVars, snapshot, tasks
  <2>2. RunInv'
    BY <1>4, KeepsRuns DEF SessionInv, sessionVars, snapshot
  <2>3. SessionTypeOK'
    BY <1>4, <2>1, LabelledNext
       DEF SessionInv, SessionTypeOK, sessionVars, snapshot, tasks, life
  <2> QED
    BY <2>1, <2>2, <2>3 DEF SessionInv, Ordered
<1> QED
  BY <1>1, <1>2, <1>3, <1>4 DEF SessionNext

\* So they agree in every state.
LEMMA AlwaysInv == SessionSpec => []SessionInv
<1> QED
  BY InitSession, NextSession, PTL DEF SessionSpec

-----------------------------------------------------------------------------
\* The session's variables have the values that SessionTypeOK names.
THEOREM SessionTypes == SessionSpec => []SessionTypeOK
<1>1. SessionInv => SessionTypeOK
  BY DEF SessionInv
<1> QED
  BY <1>1, AlwaysInv, PTL

\* A download that is under way is always the one that the session shows and controls:
\* TryStart never begins a second one, whatever ends while Cancel or TryStart runs.
THEOREM NeverAnOrphan == SessionSpec => []NoOrphan
<1>1. SessionInv => NoOrphan
  BY DEF SessionInv, RunInv
<1> QED
  BY <1>1, AlwaysInv, PTL

\* The control always holds the download back exactly when the session says Paused.
THEOREM PausedAlwaysAgrees == SessionSpec => []PausedAgrees
<1>1. SessionInv => PausedAgrees
  BY DEF SessionInv, RunInv
<1> QED
  BY <1>1, AlwaysInv, PTL

\* Whenever every call has returned, Changed has been delivered for the last change.
THEOREM LastIsShown == SessionSpec => []LastShown
<1>1. ASSUME SessionInv
      PROVE  LastShown
  <2>1. \A th \in Threads : stack[th] = <<>> => ~ Delivers(th)
    BY <1>1, Split DEF SessionInv, Delivers, At
  <2> QED
    BY <1>1, <2>1 DEF SessionInv, ShownInv, LastShown
<1> QED
  BY <1>1, AlwaysInv, PTL

\* After Dispose no handler runs, nor is about to, on another thread.
THEOREM QuietOnceDisposed == SessionSpec => []QuietAfterDispose
<1>1. SessionInv => QuietAfterDispose
  BY DEF SessionInv, LockInv
<1> QED
  BY <1>1, AlwaysInv, PTL

\* No handler is given an older snapshot than one that was delivered before.
THEOREM DeliveredInOrder == SessionSpec => InOrder
<1>1. SessionInv /\ [SessionNext]_sessionVars => [shown' >= shown]_sessionVars
  <2> SUFFICES ASSUME SessionInv, [SessionNext]_sessionVars PROVE shown' >= shown
    OBVIOUS
  <2>1. shown \in Nat
    BY DEF SessionInv, SessionTypeOK
  <2>2. ASSUME NEW th \in Threads, Invokes(th)
        PROVE  shown' >= shown
    BY <2>1, <2>2, Split, FrameKinds DEF SessionInv, ShownInv, Invokes, At
  <2>3. ASSUME UNCHANGED shown
        PROVE  shown' >= shown
    BY <2>1, <2>3
  <2>4. ASSUME NEW th \in Threads, CallsSession(th)
        PROVE  UNCHANGED shown
    BY <2>4 DEF CallsSession, TryStart, Pause, Resume, ContinueInBackground,
       SetUseAccelerationNodes, PauseWhenUiCloses, Cancel, StopAsync, CancelRun,
       DiscardCompleted, Dispose
  <2>5. ASSUME NEW th \in Threads, GoesOn(th), ~ Invokes(th)
        PROVE  UNCHANGED shown
    BY <2>5 DEF GoesOn, StartReturns, ClosePauses, CancelReturns, Disposes, CancelRun,
       SetTerminalState, Raises, ReadsSnapshot, HandlerReturns
  <2>6. ASSUME NEW r \in Runs, WorksOn(r)
        PROVE  UNCHANGED shown
    BY <2>6 DEF WorksOn, Suspends, Wakes, ReportProgress, Finishes
  <2> QED
    BY <2>2, <2>3, <2>4, <2>5, <2>6 DEF SessionNext, sessionVars
<1> QED
  BY <1>1, AlwaysInv, PTL DEF SessionSpec, InOrder

(***************************************************************************)
(* The transaction directory                                               *)
(***************************************************************************)

\* The call has created the file of the stub and has not given up.
Past(c) == pc[c] \in {"write", "start"} \/ c \in started

\* Where a call is, and who is running meanwhile.
Placed(c) ==
  /\ pc[c] = "idle" => on[c] = None /\ c \notin started
  /\ pc[c] # "idle" => on[c] \in made
  /\ pc[c] \in Launcher => c \notin started /\ on[c] \in hosts
  /\ pc[c] \in Stub => c \in running
  /\ pc[c] \in Stub \cup Script => c \in started
  /\ pc[c] \in {"work", "delete", "schedule"} \cup Script => on[c] \notin hosts
  /\ c \in running => on[c] \in exists

\* The stub of such a call keeps others out for as long as the host may launch.
Guarded(c) == Past(c) => Has(c, "stub") \/ on[c] \notin hosts \/ Discarded(on[c])

\* Its transaction stays.
Told(c) ==
  pc[c] \in {"start", "read"} => (Has(c, "transaction") /\ text[on[c]] = c) \/ Discarded(on[c])

Single ==
  \A c, k \in Calls : Past(c) /\ Past(k) /\ on[c] = on[k] => c = k \/ Discarded(on[c])

Inv == TypeOK /\ Single /\ \A c \in Calls : Placed(c) /\ Guarded(c) /\ Told(c)

-----------------------------------------------------------------------------
\* What a step of call k may touch: its own record, and its own directory while that exists.
Local(k) ==
  /\ UNCHANGED <<on, made, exists, hosts, held>>
  /\ pc[k] # "idle" /\ pc'[k] # "idle"
  /\ pc' \in [Calls -> {"idle"} \cup Launcher \cup Stub \cup Script \cup Ended]
  /\ \A c \in Calls \ {k} : pc'[c] = pc[c]
  /\ files' \in [Directories -> SUBSET Names]
  /\ \A d \in Directories \ {on[k]} : files'[d] = files[d]
  /\ files'[on[k]] # {} => on[k] \in exists
  /\ files[on[k]] \subseteq files'[on[k]] \/ pc[k] \in {"delete", "remove"}
  /\ text' = text \/ (pc[k] = "write" /\ text' = [text EXCEPT ![on[k]] = k])
  /\ running' \subseteq started' /\ started' \in {started, started \cup {k}}
  /\ \A c \in Calls \ {k} : c \in running' <=> c \in running
  /\ failures' \in 0 .. MaxFailures /\ reasons' \in [Calls -> SUBSET Reasons]
  /\ \A c \in Calls : reasons[c] \subseteq reasons'[c]

\* A call gets past the extraction only where there is no stub.
Enters(k) == Past(k)' => Past(k) \/ (pc[k] = "extract" /\ ~Has(k, "stub") /\ Has(k, "stub")')

\* What is discarded stays so.
LEMMA DiscardedStays ==
  ASSUME \A c \in Calls : reasons[c] \subseteq reasons'[c], UNCHANGED on, NEW d, Discarded(d)
  PROVE Discarded(d)'
BY DEF Discarded

\* A step of a call that keeps to that preserves the invariant.
LEMMA LocalInv ==
  ASSUME Inv, NEW k \in Calls, Local(k), Enters(k), Placed(k)', Told(k)'
  PROVE Inv'
<1>0. /\ on' = on /\ hosts' = hosts /\ exists' = exists /\ made' = made
      /\ \A d : Discarded(d) => Discarded(d)'
  BY DiscardedStays DEF Local
<1>1. on[k] \in Directories /\ on[k] \in made
  BY DEF Inv, TypeOK, Placed, Local
<1>2. TypeOK'
  <2>1. /\ pc' \in [Calls -> {"idle"} \cup Launcher \cup Stub \cup Script \cup Ended]
        /\ files' \in [Directories -> SUBSET Names]
        /\ running' \subseteq started' /\ started' \subseteq Calls
        /\ failures' \in 0 .. MaxFailures /\ reasons' \in [Calls -> SUBSET Reasons]
    BY DEF Inv, TypeOK, Local
  <2>2. text' \in [Directories -> Calls \cup {None}]
    BY DEF Inv, TypeOK, Local
  <2>3. \A d \in Directories \ exists' : files'[d] = {}
    BY <1>0 DEF Inv, TypeOK, Local
  <2> QED
    BY <2>1, <2>2, <2>3 DEF Inv, TypeOK, Local
<1>3. ASSUME NEW c \in Calls \ {k}
      PROVE /\ pc'[c] = pc[c] /\ (c \in started' <=> c \in started)
            /\ (c \in running' <=> c \in running) /\ (Past(c)' <=> Past(c))
  BY DEF Local, Past
<1>4. ASSUME NEW c \in Calls
      PROVE Placed(c)'
  BY <1>0, <1>3 DEF Inv, Placed
\* The other calls of the directory, once k has passed.
<1>5. ASSUME NEW c \in Calls \ {k}, on[c] = on[k], Past(c), Past(k)'
      PROVE Discarded(on[k])
  <2>1. CASE Past(k)
    BY <1>5, <2>1 DEF Inv, Single
  <2>2. CASE pc[k] = "extract" /\ ~Has(k, "stub")
    BY <1>5, <2>2 DEF Inv, Guarded, Placed, Launcher, Has
  <2> QED
    BY <1>5, <2>1, <2>2 DEF Enters
<1>6. Single'
  <2> SUFFICES ASSUME NEW c \in Calls, NEW j \in Calls, Past(c)', Past(j)', on[c] = on[j], c # j
               PROVE Discarded(on[c])'
    BY <1>0 DEF Single
  <2>1. CASE c # k /\ j # k
    BY <2>1, <1>0, <1>3 DEF Inv, Single
  <2>2. CASE c = k
    BY <2>2, <1>0, <1>3, <1>5
  <2>3. CASE j = k
    BY <2>3, <1>0, <1>3, <1>5
  <2> QED
    BY <2>1, <2>2, <2>3
<1>7. ASSUME NEW c \in Calls
      PROVE Guarded(c)'
  <2> SUFFICES ASSUME Past(c)'
               PROVE Has(c, "stub")' \/ on[c] \notin hosts \/ Discarded(on[c])'
    BY <1>0 DEF Guarded
  <2>1. CASE pc[k] \in {"delete", "remove"} /\ on[c] = on[k]
    BY <2>1 DEF Inv, Placed, Script
  <2>2. CASE ~(pc[k] \in {"delete", "remove"} /\ on[c] = on[k])
    <3>1. CASE Past(c)
      <4>1. Has(c, "stub") \/ on[c] \notin hosts \/ Discarded(on[c])
        BY <3>1 DEF Inv, Guarded
      <4>2. on[c] \in Directories
        BY <3>1 DEF Inv, TypeOK, Placed, Past
      <4>3. files[on[c]] \subseteq files'[on[c]]
        BY <2>2, <4>2 DEF Local
      <4> QED
        BY <4>1, <4>3, <1>0 DEF Has
    <3>2. CASE ~Past(c)
      BY <3>2, <1>3 DEF Enters
    <3> QED
      BY <3>1, <3>2
  <2> QED
    BY <2>1, <2>2
<1>8. ASSUME NEW c \in Calls
      PROVE Told(c)'
  <2>1. CASE c = k
    BY <2>1
  <2>2. CASE c # k
    <3> SUFFICES ASSUME pc[c] \in {"start", "read"}
                 PROVE (Has(c, "transaction")' /\ text'[on[c]] = c) \/ Discarded(on[c])'
      BY <2>2, <1>0, <1>3 DEF Told
    <3>1. (Has(c, "transaction") /\ text[on[c]] = c) \/ Discarded(on[c])
      BY DEF Inv, Told
    <3>2. Past(c)
      BY DEF Inv, Placed, Past, Stub
    <3>3. CASE on[c] # on[k]
      <4>1. on[c] \in Directories
        BY DEF Inv, TypeOK, Placed
      <4>2. files'[on[c]] = files[on[c]] /\ text'[on[c]] = text[on[c]]
        BY <3>3, <4>1 DEF Inv, TypeOK, Local
      <4> QED
        BY <3>1, <4>2, <1>0 DEF Has
    <3>4. CASE on[c] = on[k] /\ pc[k] \in {"write", "delete", "remove"}
      <4>1. Past(k)
        BY <3>4 DEF Inv, Placed, Past, Stub, Script
      <4> QED
        BY <2>2, <3>2, <3>4, <4>1, <1>0 DEF Inv, Single
    <3>5. CASE on[c] = on[k] /\ pc[k] \notin {"write", "delete", "remove"}
      BY <3>1, <3>5, <1>0 DEF Local, Has
    <3> QED
      BY <3>3, <3>4, <3>5
  <2> QED
    BY <2>1, <2>2
<1> QED
  BY <1>2, <1>4, <1>6, <1>7, <1>8 DEF Inv

-----------------------------------------------------------------------------
\* A failed operation is counted and remembered.
LEMMA FailsTypes ==
  ASSUME Inv, NEW c \in Calls, NEW reason \in Reasons, Fails(c, reason)
  PROVE /\ failures' \in 0 .. MaxFailures /\ reasons' \in [Calls -> SUBSET Reasons]
        /\ \A k \in Calls : reasons[k] \subseteq reasons'[k]
<1>1. failures' \in 0 .. MaxFailures
  BY ManagedAssumption DEF Inv, TypeOK, Fails
<1>2. /\ reasons' = [reasons EXCEPT ![c] = reasons[c] \cup {reason}]
      /\ reasons \in [Calls -> SUBSET Reasons]
  BY DEF Fails, Because, Inv, TypeOK
<1> QED
  BY <1>1, <1>2

\* So is one that is not counted.
LEMMA BecauseTypes ==
  ASSUME Inv, NEW c \in Calls, NEW reason \in Reasons, Because(c, reason)
  PROVE /\ reasons' \in [Calls -> SUBSET Reasons]
        /\ \A k \in Calls : reasons[k] \subseteq reasons'[k]
BY DEF Because, Inv, TypeOK

\* And nothing is remembered of what works.
LEMMA FineTypes ==
  ASSUME Inv, Fine
  PROVE /\ failures' \in 0 .. MaxFailures /\ reasons' \in [Calls -> SUBSET Reasons]
        /\ \A k \in Calls : reasons[k] \subseteq reasons'[k]
BY DEF Fine, Inv, TypeOK

\* A call that is not idle is in a directory.
LEMMA HasDirectory ==
  ASSUME Inv, NEW c \in Calls, pc[c] # "idle"
  PROVE /\ on[c] \in Directories /\ files[on[c]] \in SUBSET Names
        /\ files[on[c]] # {} => on[c] \in exists
        /\ pc[c] \in Stub => on[c] \in exists
BY DEF Inv, TypeOK, Placed

\* The initial state satisfies the invariant.
LEMMA InitInv == Init => Inv
BY ManagedAssumption
   DEF Init, Inv, TypeOK, Single, Past, Placed, Guarded, Told, Launcher, Stub, Script

\* A new directory is nobody's yet.
LEMMA MakesInv ==
  ASSUME Inv, NEW d \in Directories, NEW names \in SUBSET Names, Makes(d, names),
         held' \subseteq made',
         \/ pc' = pc /\ on' = on
         \/ \E c \in Calls : pc[c] = "idle" /\ Go(c, "extract") /\ on' = [on EXCEPT ![c] = d]
  PROVE Inv'
<1>1. TypeOK'
  <2>1. pc' \in [Calls -> {"idle"} \cup Launcher \cup Stub \cup Script \cup Ended]
    BY DEF Inv, TypeOK, Go, Launcher
  <2>2. on' \in [Calls -> Directories \cup {None}]
    BY DEF Inv, TypeOK
  <2>3. files' \in [Directories -> SUBSET Names] /\ \A e \in Directories \ exists' : files'[e] = {}
    BY DEF Inv, TypeOK, Makes
  <2> QED
    BY <2>1, <2>2, <2>3 DEF Inv, TypeOK, Makes, Fine
<1>2. /\ d \notin made /\ UNCHANGED <<text, running, started, reasons>>
      /\ made' = made \cup {d} /\ exists' = exists \cup {d} /\ hosts' = hosts \cup {d}
      /\ \A e \in made : files'[e] = files[e]
  BY DEF Inv, TypeOK, Makes, Fine
\* Calls that are not in the new directory are where they were.
<1>3. ASSUME NEW c \in Calls, pc'[c] # pc[c] \/ on'[c] # on[c]
      PROVE pc[c] = "idle" /\ pc'[c] = "extract" /\ on'[c] = d
  BY <1>3 DEF Inv, TypeOK, Go
<1>4. ASSUME NEW c \in Calls
      PROVE Discarded(on[c]) => Discarded(on[c])' \/ pc[c] = "idle"
  <2> SUFFICES ASSUME pc[c] # "idle", Discarded(on[c])
               PROVE Discarded(on[c])'
    OBVIOUS
  <2>1. on'[c] = on[c] /\ on[c] # None
    BY <1>3, ManagedAssumption DEF Inv, TypeOK, Placed
  <2>2. PICK j \in Calls : on[j] = on[c] /\ "discarded" \in reasons[j]
    BY DEF Discarded
  <2>3. on'[j] = on[j]
    BY <2>1, <2>2, <1>3 DEF Inv, Placed
  <2> QED
    BY <2>1, <2>2, <2>3, <1>2 DEF Discarded
<1>5. ASSUME NEW c \in Calls
      PROVE Placed(c)' /\ Guarded(c)' /\ Told(c)'
  <2>1. CASE pc'[c] = pc[c] /\ on'[c] = on[c]
    <3>1. CASE pc[c] = "idle"
      BY <2>1, <3>1, <1>2, ManagedAssumption
         DEF Inv, TypeOK, Placed, Guarded, Told, Past, Launcher, Stub, Script
    <3>2. CASE pc[c] # "idle"
      <4>1. on[c] \in made
        BY <3>2 DEF Inv, Placed
      <4> QED
        BY <2>1, <3>2, <4>1, <1>2, <1>4 DEF Inv, Placed, Guarded, Told, Past, Has
    <3> QED
      BY <3>1, <3>2
  <2>2. CASE pc'[c] # pc[c] \/ on'[c] # on[c]
    BY <2>2, <1>2, <1>3
       DEF Inv, TypeOK, Placed, Guarded, Told, Past, Launcher, Stub, Script
  <2> QED
    BY <2>1, <2>2
<1>6. Single'
  <2> SUFFICES ASSUME NEW c \in Calls, NEW k \in Calls, Past(c)', Past(k)', on'[c] = on'[k], c # k
               PROVE Discarded(on[c])'
    BY DEF Single
  <2>1. /\ Past(c) /\ Past(k) /\ on[c] = on[k]
        /\ pc[c] # "idle"
    BY <1>2, <1>3 DEF Inv, Past, Placed
  <2> QED
    BY <2>1, <1>4 DEF Inv, Single
<1> QED
  BY <1>1, <1>5, <1>6 DEF Inv

-----------------------------------------------------------------------------
\* Launches: the call is in the directory, and nothing else has happened.
LEMMA LaunchesInv ==
  ASSUME Inv, NEW k \in Calls, NEW d \in Directories, Launches(k, d)
  PROVE Inv'
<1>1. /\ UNCHANGED <<made, exists, files, text, hosts, held, running, started, failures,
                     reasons>>
      /\ pc' = [pc EXCEPT ![k] = "extract"] /\ on' = [on EXCEPT ![k] = d]
      /\ pc[k] = "idle" /\ d \in hosts
  BY DEF Launches, Go, host, Fine
<1>2. TypeOK'
  BY <1>1 DEF Inv, TypeOK, Launcher
<1>3. ASSUME NEW c \in Calls
      PROVE /\ Past(c)' <=> Past(c)
            /\ c # k => pc'[c] = pc[c] /\ on'[c] = on[c]
            /\ Past(c) => c # k /\ on[c] \in Directories
  BY <1>1 DEF Inv, TypeOK, Placed, Past
<1>4. ASSUME NEW e \in Directories, Discarded(e)
      PROVE Discarded(e)'
  <2>1. PICK j \in Calls : on[j] = e /\ "discarded" \in reasons[j]
    BY <1>4 DEF Discarded
  <2>2. j # k
    BY <2>1, <1>1, ManagedAssumption DEF Inv, Placed
  <2> QED
    BY <2>1, <2>2, <1>1, <1>3 DEF Discarded
<1>5. ASSUME NEW c \in Calls
      PROVE Placed(c)'
  BY <1>1, <1>3 DEF Inv, TypeOK, Placed, Launcher, Stub, Script
<1>6. ASSUME NEW c \in Calls
      PROVE Guarded(c)' /\ Told(c)'
  <2>1. CASE c = k
    BY <2>1, <1>1, <1>3 DEF Inv, TypeOK, Guarded, Told
  <2>2. CASE c # k
    BY <2>2, <1>1, <1>3, <1>4 DEF Inv, TypeOK, Placed, Guarded, Told, Has
  <2> QED
    BY <2>1, <2>2
<1>7. Single'
  BY <1>3, <1>4 DEF Inv, Single
<1> QED
  BY <1>2, <1>5, <1>6, <1>7 DEF Inv

\* The stub is extracted.
LEMMA ExtractsInv ==
  ASSUME Inv, NEW k \in Calls, Extracts(k)
  PROVE Inv'
<1>1. /\ UNCHANGED <<on, made, exists, text, hosts, held, running, started>>
      /\ pc[k] = "extract" /\ pc' \in {[pc EXCEPT ![k] = "write"], [pc EXCEPT ![k] = "failed"]}
  BY DEF Extracts, Go, host
<1>2. /\ files' = files \/ (on[k] \in exists /\ Holds(k, files[on[k]] \cup {"stub"}))
      /\ pc'[k] = "write" => ~Has(k, "stub") /\ Holds(k, files[on[k]] \cup {"stub"})
  BY <1>1 DEF Extracts, Go, Inv, TypeOK
<1>3. /\ failures' \in 0 .. MaxFailures /\ reasons' \in [Calls -> SUBSET Reasons]
      /\ \A c \in Calls : reasons[c] \subseteq reasons'[c]
  BY FineTypes, FailsTypes, BecauseTypes DEF Extracts, Reasons, Inv, TypeOK
<1>4. Local(k)
  BY <1>1, <1>2, <1>3, HasDirectory DEF Inv, TypeOK, Local, Holds, Names, Launcher, Ended
<1>5. Enters(k)
  BY <1>1, <1>2, HasDirectory DEF Inv, TypeOK, Enters, Past, Has, Holds
<1>6. Placed(k)' /\ Told(k)'
  BY <1>1 DEF Inv, TypeOK, Placed, Told, Launcher, Stub, Script
<1> QED
  BY <1>4, <1>5, <1>6, LocalInv

\* The transaction is written.
LEMMA WritesInv ==
  ASSUME Inv, NEW k \in Calls, WritesTransaction(k)
  PROVE Inv'
<1>1. /\ UNCHANGED <<on, made, exists, hosts, held, running, started>>
      /\ pc[k] = "write" /\ pc' \in {[pc EXCEPT ![k] = "start"], [pc EXCEPT ![k] = "failed"]}
  BY DEF WritesTransaction, Go, host
<1>2. /\ files' = files \/ (on[k] \in exists /\ Holds(k, files[on[k]] \cup {"transaction"}))
      /\ text' = text \/ text' = [text EXCEPT ![on[k]] = k]
      /\ pc'[k] = "start" => /\ Holds(k, files[on[k]] \cup {"transaction"})
                             /\ text' = [text EXCEPT ![on[k]] = k]
  BY <1>1 DEF WritesTransaction, Go, Holds, Inv, TypeOK
<1>3. /\ failures' \in 0 .. MaxFailures /\ reasons' \in [Calls -> SUBSET Reasons]
      /\ \A c \in Calls : reasons[c] \subseteq reasons'[c]
  BY FineTypes, FailsTypes DEF WritesTransaction, Reasons
<1>4. Local(k)
  BY <1>1, <1>2, <1>3, HasDirectory DEF Inv, TypeOK, Local, Holds, Names, Launcher, Ended
<1>5. Enters(k)
  BY <1>1 DEF Enters, Past
<1>6. Placed(k)'
  BY <1>1 DEF Inv, TypeOK, Placed, Launcher, Stub, Script
<1>7. Told(k)'
  BY <1>1, <1>2, HasDirectory DEF Inv, TypeOK, Told, Has, Holds
<1> QED
  BY <1>4, <1>5, <1>6, <1>7, LocalInv

\* The stub is started.
LEMMA StartsInv ==
  ASSUME Inv, NEW k \in Calls, Starts(k)
  PROVE Inv'
<1>1. /\ UNCHANGED <<on, made, exists, files, text, hosts, held>> /\ pc[k] = "start"
      /\ \/ /\ Has(k, "stub") /\ pc' = [pc EXCEPT ![k] = "read"]
            /\ running' = running \cup {k} /\ started' = started \cup {k}
         \/ pc' = [pc EXCEPT ![k] = "failed"] /\ UNCHANGED <<running, started>>
  BY DEF Starts, Go, place, host
<1>2. /\ failures' \in 0 .. MaxFailures /\ reasons' \in [Calls -> SUBSET Reasons]
      /\ \A c \in Calls : reasons[c] \subseteq reasons'[c]
  BY FineTypes, FailsTypes DEF Starts, Reasons
<1>3. Local(k)
  BY <1>1, <1>2, HasDirectory DEF Inv, TypeOK, Local, Stub, Ended
<1>4. Enters(k)
  BY <1>1 DEF Enters, Past
<1>5. Placed(k)'
  BY <1>1, HasDirectory DEF Inv, TypeOK, Placed, Has, Launcher, Stub, Script
<1>6. Told(k)'
  <2>1. Discarded(on[k]) => Discarded(on[k])'
    BY <1>1, <1>2, DiscardedStays
  <2> QED
    BY <1>1, <2>1 DEF Inv, TypeOK, Told, Has
<1> QED
  BY <1>3, <1>4, <1>5, <1>6, LocalInv

\* The host discards the download: from now on nothing is promised of the directory.
LEMMA DiscardInv ==
  ASSUME Inv, NEW d \in Directories, Discards(d)
  PROVE Inv'
<1>1. /\ UNCHANGED <<pc, on, made, text, hosts, running, started>> /\ held' = held \ {d}
      /\ reasons' = [c \in Calls |-> IF on[c] = d THEN reasons[c] \cup {"discarded"} ELSE reasons[c]]
  BY DEF Discards
<1>2. /\ files' \in [Directories -> SUBSET Names] /\ failures' \in 0 .. MaxFailures
      /\ \A e \in Directories \ {d} : files'[e] = files[e] /\ (e \in exists' <=> e \in exists)
      /\ exists' \subseteq made /\ (d \notin exists' => files'[d] = {})
  <2>1. CASE /\ files' = [files EXCEPT ![d] = files[d] \cap InUse(d)] /\ failures' = failures
             /\ exists' = IF InUse(d) = {} THEN exists \ {d} ELSE exists
    BY <2>1 DEF Inv, TypeOK
  <2>2. CASE /\ failures < MaxFailures /\ failures' = failures + 1 /\ exists' = exists
             /\ \E rest \in SUBSET files[d] :
                  files' = [files EXCEPT ![d] = (files[d] \cap InUse(d)) \cup rest]
    BY <2>2, ManagedAssumption DEF Inv, TypeOK
  <2> QED
    BY <2>1, <2>2 DEF Discards
<1>3. TypeOK'
  <2>1. reasons' \in [Calls -> SUBSET Reasons]
    BY <1>1 DEF Inv, TypeOK, Reasons
  <2> QED
    BY <1>1, <1>2, <2>1 DEF Inv, TypeOK
<1>4. \A c \in Calls : (on[c] = d \/ Discarded(on[c])) => Discarded(on[c])'
  BY <1>1 DEF Discarded
<1>5. ASSUME NEW c \in Calls, c \in running
      PROVE on[c] \in exists'
  <2>1. on[c] \in exists /\ on[c] \in Directories
    BY <1>5 DEF Inv, TypeOK, Placed
  <2>2. CASE on[c] = d
    BY <1>5, <2>1, <2>2 DEF Discards, InUse
  <2> QED
    BY <2>1, <2>2, <1>2
<1>6. ASSUME NEW c \in Calls
      PROVE Placed(c)'
  BY <1>1, <1>5 DEF Inv, Placed
<1>7. ASSUME NEW c \in Calls
      PROVE Guarded(c)' /\ Told(c)'
  <2>1. CASE on[c] = d
    BY <2>1, <1>1, <1>4 DEF Guarded, Told, Past
  <2>2. CASE on[c] # d
    <3>1. pc[c] # "idle" => on[c] \in Directories
      BY DEF Inv, TypeOK, Placed
    <3> QED
      BY <2>2, <3>1, <1>1, <1>2, <1>4 DEF Inv, Placed, Guarded, Told, Past, Has
  <2> QED
    BY <2>1, <2>2
<1>8. Single'
  BY <1>1, <1>4 DEF Inv, Single, Past
<1> QED
  BY <1>3, <1>6, <1>7, <1>8 DEF Inv

\* The host of a directory exits, and with it the calls that are still launching.
LEMMA HostExitsInv ==
  ASSUME Inv, NEW d \in Directories, HostExits(d)
  PROVE Inv'
<1>1. /\ UNCHANGED <<on, made, exists, files, text, held, running, started, failures, reasons>>
      /\ hosts' = hosts \ {d}
      /\ pc' = [c \in Calls |-> IF on[c] = d /\ pc[c] \in Launcher THEN "died" ELSE pc[c]]
  BY DEF HostExits, place, Fine
<1>2. TypeOK'
  BY <1>1 DEF Inv, TypeOK, Ended
<1>3. \A c \in Calls : (Past(c)' => Past(c)) /\ (Discarded(on[c]) => Discarded(on[c])')
  BY <1>1 DEF Past, Discarded
<1>4. ASSUME NEW c \in Calls
      PROVE Placed(c)' /\ Guarded(c)' /\ Told(c)'
  <2>1. CASE on[c] = d /\ pc[c] \in Launcher
    <3>1. pc'[c] = "died" /\ on'[c] = d /\ d \notin hosts'
      BY <1>1, <2>1
    <3> QED
      BY <1>1, <2>1, <3>1 DEF Inv, Placed, Guarded, Told, Launcher, Stub, Script
  <2>2. CASE ~(on[c] = d /\ pc[c] \in Launcher)
    <3>1. pc'[c] = pc[c]
      BY <1>1, <2>2
    <3>2. Placed(c)'
      BY <1>1, <2>2, <3>1 DEF Inv, Placed
    <3>3. Guarded(c)'
      BY <1>1, <1>3, <3>1 DEF Inv, Guarded, Has
    <3>4. Told(c)'
      BY <1>1, <1>3, <3>1 DEF Inv, Told, Has
    <3> QED
      BY <3>2, <3>3, <3>4
  <2> QED
    BY <2>1, <2>2
<1>5. Single'
  BY <1>1, <1>3 DEF Inv, Single
<1> QED
  BY <1>2, <1>4, <1>5 DEF Inv

-----------------------------------------------------------------------------
\* A step of the stub or of its script that has no part in Told.
LEMMA StubStepInv ==
  ASSUME Inv, NEW k \in Calls,
         pc[k] \in Stub \cup Script \cup Ended,
         UNCHANGED <<on, made, exists, hosts, held, text, started>>,
         NEW step \in (Stub \ {"read"}) \cup Script \cup Ended,
         pc' = [pc EXCEPT ![k] = step],
         NEW names \in SUBSET Names, Holds(k, names),
         names # {} => on[k] \in exists,
         files[on[k]] \subseteq names \/ pc[k] \in {"delete", "remove"},
         running' = running \/ (running' = running \ {k} /\ step \in Script \cup Ended),
         failures' \in 0 .. MaxFailures, reasons' \in [Calls -> SUBSET Reasons],
         \A c \in Calls : reasons[c] \subseteq reasons'[c],
         step \in Stub => pc[k] \in Stub,
         step \in Script => pc[k] \in Stub \cup Script,
         step \in {"work", "delete", "schedule"} \cup Script => on[k] \notin hosts
  PROVE Inv'
<1>1. Local(k)
  <2>1. pc[k] # "idle" /\ step # "idle"
    BY DEF Stub, Script, Ended
  <2>2. on[k] \in Directories
    BY <2>1, HasDirectory
  <2> QED
    BY <2>1, <2>2 DEF Inv, TypeOK, Local, Holds
<1>2. Enters(k)
  BY DEF Inv, TypeOK, Enters, Past, Stub, Script, Ended
<1>3. Placed(k)'
  BY DEF Inv, TypeOK, Placed, Launcher, Stub, Script, Ended
<1>4. Told(k)'
  BY DEF Inv, TypeOK, Told, Stub, Script, Ended
<1> QED
  BY <1>1, <1>2, <1>3, <1>4, LocalInv

\* The stub reads its transaction.
LEMMA ReadsInv ==
  ASSUME Inv, NEW k \in Calls, ReadsTransaction(k)
  PROVE Inv'
<1>1. /\ UNCHANGED <<on, made, exists, hosts, held, text, started, running>>
      /\ pc[k] = "read" /\ files' = files
      /\ pc' = [pc EXCEPT ![k] = "wait"] \/ pc' = [pc EXCEPT ![k] = "unread"]
  BY DEF ReadsTransaction, Go, place, host
<1>2. /\ failures' \in 0 .. MaxFailures /\ reasons' \in [Calls -> SUBSET Reasons]
      /\ \A c \in Calls : reasons[c] \subseteq reasons'[c]
  BY FineTypes, FailsTypes DEF ReadsTransaction, Reasons
<1>3. files[on[k]] \in SUBSET Names /\ (files[on[k]] # {} => on[k] \in exists)
  BY <1>1, HasDirectory DEF Stub, Script
<1>4. Holds(k, files[on[k]])
  BY <1>1 DEF Inv, TypeOK, Holds
<1>5. CASE pc' = [pc EXCEPT ![k] = "wait"]
  <2>1. /\ "wait" \in (Stub \ {"read"}) \cup Script \cup Ended
        /\ pc[k] \in Stub \cup Script \cup Ended
        /\ "wait" \notin Script \cup {"work", "delete", "schedule"}
        /\ pc[k] \in Stub
    BY <1>1 DEF Stub, Script, Ended
  <2> QED
    BY <2>1, <1>1, <1>2, <1>3, <1>4, <1>5, StubStepInv, ZenonT(30)
<1>6. CASE pc' = [pc EXCEPT ![k] = "unread"]
  <2>1. /\ "unread" \in (Stub \ {"read"}) \cup Script \cup Ended
        /\ pc[k] \in Stub \cup Script \cup Ended
        /\ "unread" \notin Stub \cup Script \cup {"work", "delete", "schedule"}
    BY <1>1 DEF Stub, Script, Ended
  <2> QED
    BY <2>1, <1>1, <1>2, <1>3, <1>4, <1>6, StubStepInv, ZenonT(30)
<1> QED
  BY <1>1, <1>5, <1>6

\* The stub waits for the host.
LEMMA WaitsInv ==
  ASSUME Inv, NEW k \in Calls, WaitsForHost(k)
  PROVE Inv'
<1>1. /\ UNCHANGED <<on, made, exists, hosts, held, text, started, running, files>>
      /\ pc[k] = "wait" /\ pc' = [pc EXCEPT ![k] = IF on[k] \in hosts THEN "timeout" ELSE "work"]
  BY DEF WaitsForHost, Go, place, host
<1>2. /\ failures' \in 0 .. MaxFailures /\ reasons' \in [Calls -> SUBSET Reasons]
      /\ \A c \in Calls : reasons[c] \subseteq reasons'[c]
  BY FineTypes, FailsTypes DEF WaitsForHost, Reasons
<1>3. files[on[k]] \in SUBSET Names /\ (files[on[k]] # {} => on[k] \in exists)
  BY <1>1, HasDirectory DEF Stub, Script
<1>4. Holds(k, files[on[k]])
  BY <1>1 DEF Inv, TypeOK, Holds
<1>5. CASE on[k] \in hosts
  <2>1. pc' = [pc EXCEPT ![k] = "timeout"]
    BY <1>1, <1>5
  <2>2. /\ "timeout" \in (Stub \ {"read"}) \cup Script \cup Ended
        /\ "timeout" \notin Stub \cup Script \cup {"work", "delete", "schedule"}
        /\ pc[k] \in Stub \cup Script \cup Ended
    BY <1>1 DEF Stub, Script, Ended
  <2> QED
    BY <2>1, <2>2, <1>1, <1>2, <1>3, <1>4, StubStepInv, ZenonT(30)
<1>6. CASE on[k] \notin hosts
  <2>1. pc' = [pc EXCEPT ![k] = "work"]
    BY <1>1, <1>6
  <2>2. /\ "work" \in (Stub \ {"read"}) \cup Script \cup Ended /\ "work" \notin Script
        /\ pc[k] \in Stub \cup Script \cup Ended /\ pc[k] \in Stub
    BY <1>1 DEF Stub, Script, Ended
  <2> QED
    BY <2>1, <2>2, <1>1, <1>2, <1>3, <1>4, <1>6, StubStepInv, ZenonT(30)
<1> QED
  BY <1>5, <1>6

\* The script waits for the stub to be gone.
LEMMA PausesInv ==
  ASSUME Inv, NEW k \in Calls, Pauses(k)
  PROVE Inv'
<1>1. /\ UNCHANGED <<on, made, exists, hosts, held, text, started, running>>
      /\ pc[k] = "pause" /\ files' = files
      /\ pc' = [pc EXCEPT ![k] = "remove"]
  BY DEF Pauses, Go, place, host
<1>2. /\ failures' \in 0 .. MaxFailures /\ reasons' \in [Calls -> SUBSET Reasons]
      /\ \A c \in Calls : reasons[c] \subseteq reasons'[c]
  BY FineTypes, FailsTypes DEF Pauses, Reasons
<1>3. files[on[k]] \in SUBSET Names /\ (files[on[k]] # {} => on[k] \in exists)
  BY <1>1, HasDirectory DEF Stub, Script
<1>4. Holds(k, files[on[k]])
  BY <1>1 DEF Inv, TypeOK, Holds
<1>5. CASE pc' = [pc EXCEPT ![k] = "remove"]
  <2>1. /\ "remove" \in (Stub \ {"read"}) \cup Script \cup Ended
        /\ pc[k] \in Stub \cup Script \cup Ended
        /\ "remove" \notin Stub
        /\ pc[k] \in Stub \cup Script
    BY <1>1 DEF Stub, Script, Ended
  <2>2. on[k] \notin hosts
    BY <1>1 DEF Inv, Placed, Script
  <2> QED
    BY <2>1, <2>2, <1>1, <1>2, <1>3, <1>4, <1>5, StubStepInv, ZenonT(30)
<1> QED
  BY <1>1, <1>5

\* The stub does its work.
LEMMA WorksInv ==
  ASSUME Inv, NEW k \in Calls, Works(k)
  PROVE Inv'
<1>1. /\ UNCHANGED <<on, made, exists, hosts, held, text, started, running>>
      /\ pc[k] = "work"
  BY DEF Works, host
<1>2. /\ failures' \in 0 .. MaxFailures /\ reasons' \in [Calls -> SUBSET Reasons]
      /\ \A c \in Calls : reasons[c] \subseteq reasons'[c]
  BY FineTypes, FailsTypes DEF Works, Reasons
<1>3. files[on[k]] \in SUBSET Names /\ (files[on[k]] # {} => on[k] \in exists)
  BY <1>1, HasDirectory DEF Stub, Script
<1>4. PICK names \in SUBSET Names :
        Holds(k, names) /\ files[on[k]] \subseteq names /\ on[k] \in exists
  <2>1. on[k] \in exists
    BY <1>1, HasDirectory DEF Stub
  <2>2. Holds(k, files[on[k]]) \/ Holds(k, files[on[k]] \cup {"marker"})
    BY DEF Works, Inv, TypeOK, Holds
  <2> QED
    BY <2>1, <2>2, <1>3 DEF Names
<1>5. CASE pc' = [pc EXCEPT ![k] = "delete"]
  <2>1. /\ "delete" \in (Stub \ {"read"}) \cup Script \cup Ended
        /\ pc[k] \in Stub \cup Script \cup Ended
        /\ "delete" \notin Script
        /\ pc[k] \in Stub
    BY <1>1 DEF Stub, Script, Ended
  <2>2. on[k] \notin hosts
    BY <1>1 DEF Inv, Placed, Script
  <2> QED
    BY <2>1, <2>2, <1>1, <1>2, <1>3, <1>4, <1>5, StubStepInv, ZenonT(30)
<1>6. CASE pc' = [pc EXCEPT ![k] = "schedule"]
  <2>1. /\ "schedule" \in (Stub \ {"read"}) \cup Script \cup Ended
        /\ pc[k] \in Stub \cup Script \cup Ended
        /\ "schedule" \notin Script
        /\ pc[k] \in Stub
    BY <1>1 DEF Stub, Script, Ended
  <2>2. on[k] \notin hosts
    BY <1>1 DEF Inv, Placed, Script
  <2> QED
    BY <2>1, <2>2, <1>1, <1>2, <1>3, <1>4, <1>6, StubStepInv, ZenonT(30)
<1> QED
  BY <1>5, <1>6 DEF Works, Go

\* The stub deletes what it can.
LEMMA DeletesInv ==
  ASSUME Inv, NEW k \in Calls, DeletesDirectory(k)
  PROVE Inv'
<1>1. /\ UNCHANGED <<on, made, exists, hosts, held, text, started, running>>
      /\ pc[k] = "delete"
  BY DEF DeletesDirectory, host
<1>2. /\ failures' \in 0 .. MaxFailures /\ reasons' \in [Calls -> SUBSET Reasons]
      /\ \A c \in Calls : reasons[c] \subseteq reasons'[c]
  BY FineTypes, FailsTypes DEF DeletesDirectory, Reasons
<1>3. files[on[k]] \in SUBSET Names /\ (files[on[k]] # {} => on[k] \in exists)
  BY <1>1, HasDirectory DEF Stub, Script
<1>4. PICK names \in SUBSET Names : Holds(k, names) /\ names \subseteq files[on[k]]
  <2>1. PICK rest \in SUBSET (files[on[k]] \ InUse(on[k])) :
          Holds(k, (files[on[k]] \cap InUse(on[k])) \cup rest)
    BY DEF DeletesDirectory
  <2>2. (files[on[k]] \cap InUse(on[k])) \cup rest \in SUBSET files[on[k]]
    OBVIOUS
  <2> QED
    BY <2>1, <2>2, <1>3, Zenon
<1>5. CASE pc' = [pc EXCEPT ![k] = "schedule"]
  <2>1. /\ "schedule" \in (Stub \ {"read"}) \cup Script \cup Ended
        /\ pc[k] \in Stub \cup Script \cup Ended
        /\ "schedule" \notin Script
        /\ pc[k] \in Stub
    BY <1>1 DEF Stub, Script, Ended
  <2>2. on[k] \notin hosts
    BY <1>1 DEF Inv, Placed, Script
  <2> QED
    BY <2>1, <2>2, <1>1, <1>2, <1>3, <1>4, <1>5, StubStepInv, ZenonT(30)
<1> QED
  BY <1>5 DEF DeletesDirectory, Go

\* The stub leaves a script behind.
LEMMA SchedulesInv ==
  ASSUME Inv, NEW k \in Calls, ScheduleSelfCleanup(k)
  PROVE Inv'
<1>1. /\ UNCHANGED <<on, made, exists, hosts, held, text, started, running>>
      /\ pc[k] = "schedule"
  BY DEF ScheduleSelfCleanup, host
<1>2. /\ failures' \in 0 .. MaxFailures /\ reasons' \in [Calls -> SUBSET Reasons]
      /\ \A c \in Calls : reasons[c] \subseteq reasons'[c]
  BY FineTypes, FailsTypes DEF ScheduleSelfCleanup, Reasons
<1>3. files[on[k]] \in SUBSET Names /\ (files[on[k]] # {} => on[k] \in exists)
  BY <1>1, HasDirectory DEF Stub, Script
<1>4. PICK names \in SUBSET Names :
        Holds(k, names) /\ files[on[k]] \subseteq names /\ on[k] \in exists
  <2>1. on[k] \in exists
    BY <1>1, HasDirectory DEF Stub
  <2>2. Holds(k, files[on[k]]) \/ Holds(k, files[on[k]] \cup {"script"})
    BY DEF ScheduleSelfCleanup, Inv, TypeOK, Holds
  <2> QED
    BY <2>1, <2>2, <1>3 DEF Names
<1>5. CASE pc' = [pc EXCEPT ![k] = "pause"]
  <2>1. /\ "pause" \in (Stub \ {"read"}) \cup Script \cup Ended
        /\ pc[k] \in Stub \cup Script \cup Ended
        /\ "pause" \notin Stub
        /\ pc[k] \in Stub \cup Script
    BY <1>1 DEF Stub, Script, Ended
  <2>2. on[k] \notin hosts
    BY <1>1 DEF Inv, Placed, Script
  <2> QED
    BY <2>1, <2>2, <1>1, <1>2, <1>3, <1>4, <1>5, StubStepInv, ZenonT(30)
<1>6. CASE pc' = [pc EXCEPT ![k] = "unscheduled"]
  <2>1. /\ "unscheduled" \in (Stub \ {"read"}) \cup Script \cup Ended
        /\ pc[k] \in Stub \cup Script \cup Ended
        /\ "unscheduled" \notin Stub \cup Script \cup {"work", "delete", "schedule"}
    BY <1>1 DEF Stub, Script, Ended
  <2> QED
    BY <2>1, <1>1, <1>2, <1>3, <1>4, <1>6, StubStepInv, ZenonT(30)
<1> QED
  BY <1>5, <1>6 DEF ScheduleSelfCleanup, Go

\* The script removes what is left.
LEMMA RemovesInv ==
  ASSUME Inv, NEW k \in Calls, Removes(k)
  PROVE Inv'
<1>1. /\ UNCHANGED <<on, made, exists, hosts, held, text, started, running>>
      /\ pc[k] = "remove"
  BY DEF Removes, host
<1>2. /\ failures' \in 0 .. MaxFailures /\ reasons' \in [Calls -> SUBSET Reasons]
      /\ \A c \in Calls : reasons[c] \subseteq reasons'[c]
  BY FineTypes, FailsTypes DEF Removes, Reasons
<1>3. files[on[k]] \in SUBSET Names /\ (files[on[k]] # {} => on[k] \in exists)
  BY <1>1, HasDirectory DEF Stub, Script
<1>4. PICK names \in SUBSET Names : Holds(k, names) /\ names \subseteq files[on[k]]
  <2>1. PICK rest \in SUBSET (files[on[k]] \ InUse(on[k])) :
          Holds(k, (files[on[k]] \cap InUse(on[k])) \cup rest)
    BY DEF Removes
  <2>2. (files[on[k]] \cap InUse(on[k])) \cup rest \in SUBSET files[on[k]]
    OBVIOUS
  <2> QED
    BY <2>1, <2>2, <1>3, Zenon
<1>5. CASE pc' = [pc EXCEPT ![k] = "cleaned"]
  <2>1. /\ "cleaned" \in (Stub \ {"read"}) \cup Script \cup Ended
        /\ pc[k] \in Stub \cup Script \cup Ended
        /\ "cleaned" \notin Stub \cup Script \cup {"work", "delete", "schedule"}
    BY <1>1 DEF Stub, Script, Ended
  <2> QED
    BY <2>1, <1>1, <1>2, <1>3, <1>4, <1>5, StubStepInv, ZenonT(30)
<1> QED
  BY <1>5 DEF Removes, Go

\* The stub is gone, by itself or because it was killed.
LEMMA GoneInv ==
  ASSUME Inv, NEW k \in Calls, StubExits(k) \/ Crash(k)
  PROVE Inv'
<1>1. /\ UNCHANGED <<on, made, exists, hosts, held, text, started, files, failures>>
      /\ running' = running \ {k} /\ pc[k] \in Stub \cup Script \cup Ended
      /\ \/ pc' = [pc EXCEPT ![k] = "died"]
         \/ pc' = [pc EXCEPT ![k] = pc[k]] /\ pc[k] \in Script \cup Ended
  BY DEF StubExits, Crash, Go, place, host, Fine, Inv, TypeOK
<1>2. /\ reasons' \in [Calls -> SUBSET Reasons] /\ failures' \in 0 .. MaxFailures
      /\ \A c \in Calls : reasons[c] \subseteq reasons'[c]
  <2>1. CASE StubExits(k)
    BY <2>1, FineTypes DEF StubExits
  <2>2. CASE Crash(k)
    BY <2>2, <1>1, BecauseTypes DEF Crash, Reasons, Inv, TypeOK
  <2> QED
    BY <2>1, <2>2
<1>3. files[on[k]] \in SUBSET Names /\ (files[on[k]] # {} => on[k] \in exists)
  BY <1>1, HasDirectory DEF Stub, Script, Ended
<1>4. Holds(k, files[on[k]])
  BY <1>1 DEF Inv, TypeOK, Holds
<1>5. CASE pc' = [pc EXCEPT ![k] = "died"]
  <2>1. /\ "died" \in (Stub \ {"read"}) \cup Script \cup Ended
        /\ pc[k] \in Stub \cup Script \cup Ended
        /\ "died" \notin Stub \cup Script \cup {"work", "delete", "schedule"}
    BY <1>1 DEF Stub, Script, Ended
  <2> QED
    BY <2>1, <1>1, <1>2, <1>3, <1>4, <1>5, StubStepInv, ZenonT(30)
<1>6. CASE pc' = [pc EXCEPT ![k] = pc[k]] /\ pc[k] \in Script \cup Ended
  <2>1. pc[k] \in {"work", "delete", "schedule"} \cup Script => on[k] \notin hosts
    BY DEF Inv, Placed
  <2>2. pc[k] \notin Stub
    BY <1>6 DEF Stub, Script, Ended
  <2> QED
    BY <2>1, <2>2, <1>1, <1>2, <1>3, <1>4, <1>6, StubStepInv, ZenonT(30)
<1> QED
  BY <1>1, <1>5, <1>6

-----------------------------------------------------------------------------
\* Every step preserves the invariant.
LEMMA NextInv == Inv /\ [Next]_vars => Inv'
<1> SUFFICES ASSUME Inv, [Next]_vars
             PROVE Inv'
  OBVIOUS
<1>1. CASE UNCHANGED vars
  BY <1>1 DEF vars, Inv, TypeOK, Single, Past, Placed, Guarded, Told, Discarded, Has
<1>2. ASSUME NEW d \in Directories, Downloads(d)
      PROVE Inv'
  <2>1. Makes(d, {"package"}) /\ held' \subseteq made' /\ pc' = pc /\ on' = on
    BY <1>2 DEF Downloads, Makes, Inv, TypeOK
  <2>2. {"package"} \in SUBSET Names
    BY DEF Names
  <2> QED
    BY <2>1, <2>2, MakesInv
<1>3. ASSUME NEW c \in Calls, NEW d \in Directories, Normalizes(c, d)
      PROVE Inv'
  <2>1. /\ Makes(d, {}) /\ held' \subseteq made'
        /\ pc[c] = "idle" /\ Go(c, "extract") /\ on' = [on EXCEPT ![c] = d]
    BY <1>3 DEF Normalizes, Makes, Inv, TypeOK
  <2> QED
    BY <2>1, MakesInv
<1>4. ASSUME NEW d \in Directories, Discards(d) \/ HostExits(d)
      PROVE Inv'
  BY <1>4, DiscardInv, HostExitsInv
<1>5. ASSUME NEW c \in Calls, NEW d \in Directories, Launches(c, d)
      PROVE Inv'
  BY <1>5, LaunchesInv
<1>6. ASSUME NEW c \in Calls,
             \/ Extracts(c) \/ WritesTransaction(c) \/ Starts(c)
             \/ ReadsTransaction(c) \/ WaitsForHost(c) \/ Works(c) \/ DeletesDirectory(c)
             \/ ScheduleSelfCleanup(c) \/ StubExits(c) \/ Pauses(c) \/ Removes(c) \/ Crash(c)
      PROVE Inv'
  BY <1>6, ExtractsInv, WritesInv, StartsInv, ReadsInv, WaitsInv, WorksInv, DeletesInv,
     SchedulesInv, PausesInv, RemovesInv, GoneInv
<1> QED
  BY <1>1, <1>2, <1>3, <1>4, <1>5, <1>6 DEF Next

\* The invariant holds throughout.
LEMMA Invariant == Spec => []Inv
<1> QED
  BY InitInv, NextInv, PTL DEF Spec

\* The types of the variables, for any number of calls, downloads and failures
\* (LaunchCoreAsync, DiscardCompleted, ScheduleSelfCleanup).
THEOREM ManagedDirectoryTypes == Spec => []TypeOK
<1>1. Inv => TypeOK
  BY DEF Inv
<1> QED
  BY Invariant, <1>1, PTL

\* However many calls race for a download, one stub at most is started for it
\* (ExtractStubAsync creates a new file or fails).
THEOREM OnlyOneStub == Spec => []OneStub
<1>1. Inv => OneStub
  BY DEF Inv, TypeOK, Single, Past, OneStub
<1> QED
  BY Invariant, <1>1, PTL

\* A stub that reads its transaction finds that of the call that started it
\* (LaunchCoreAsync writes it before it starts the stub).
THEOREM AlwaysTold == Spec => []Delivered
<1>1. Inv => Delivered
  BY DEF Inv, Told, Delivered
<1> QED
  BY Invariant, <1>1, PTL

-----------------------------------------------------------------------------
\* The script of c is about to remove its directory or has done so, and nothing has gone
\* wrong that could have left something there.
Undisturbed(c) == pc[c] \in {"remove", "cleaned"} /\ reasons[c] = {} /\ ~Discarded(on[c])

\* The inductive form of Emptied: by then the stub is gone, and no launcher comes back to
\* the directory.
EmptiedInv ==
  \A c \in Calls : Undisturbed(c) =>
    /\ c \in started /\ c \notin running
    /\ on[c] \notin hosts
    /\ pc[c] = "cleaned" => files[on[c]] = {}

\* Nobody else is at work in the directory of a stub whose host is gone.
LEMMA NobodyElse ==
  ASSUME Inv, NEW c \in Calls, c \in started, on[c] \notin hosts, ~Discarded(on[c]),
         NEW k \in Calls, k # c, on[k] = on[c]
  PROVE  k \notin started /\ k \notin running /\ pc[k] \notin Launcher \cup Stub \cup Script
<1>1. k \notin started
  BY DEF Inv, Single, Past
<1>2. pc[k] \notin Launcher \cup Stub \cup Script
  BY <1>1 DEF Inv, Placed
<1> QED
  BY <1>1, <1>2 DEF Inv, TypeOK

\* Where such a directory was made, and that nothing in it is in use.
LEMMA NothingInUse ==
  ASSUME Inv, EmptiedInv, NEW c \in Calls, Undisturbed(c)
  PROVE  on[c] \in made /\ on[c] \in Directories /\ InUse(on[c]) = {}
<1>1. on[c] \in made /\ on[c] \in Directories
  BY DEF Undisturbed, Inv, Placed, TypeOK
<1>2. \A k \in running : on[k] # on[c]
  BY NobodyElse DEF EmptiedInv, Undisturbed, Inv, TypeOK
<1> QED
  BY <1>1, <1>2 DEF InUse

\* No step that leaves the script of c where it is disturbs its directory.
LEMMA StaysEmpty ==
  ASSUME Inv, EmptiedInv, NEW c \in Calls, Undisturbed(c),
         UNCHANGED <<started, hosts>> \/ (started \subseteq started' /\ hosts' \subseteq hosts)
           \/ (UNCHANGED started /\ hosts' \subseteq hosts \cup (Directories \ made)),
         on'[c] = on[c], c \notin running', pc'[c] = pc[c], files'[on[c]] = files[on[c]]
  PROVE  /\ c \in started' /\ c \notin running' /\ on'[c] \notin hosts'
         /\ pc'[c] = "cleaned" => files'[on'[c]] = {}
BY NothingInUse DEF EmptiedInv, Undisturbed

\* Every step of a call keeps to its directory and adds to the reasons.
LEMMA StepFacts ==
  ASSUME Inv, NEW k \in Calls,
         \/ Extracts(k) \/ WritesTransaction(k) \/ Starts(k)
         \/ ReadsTransaction(k) \/ WaitsForHost(k) \/ Works(k) \/ DeletesDirectory(k)
         \/ ScheduleSelfCleanup(k) \/ StubExits(k) \/ Pauses(k) \/ Removes(k) \/ Crash(k)
  PROVE  /\ on' = on /\ hosts' = hosts
         /\ \A c \in Calls : reasons[c] \subseteq reasons'[c]
         /\ started' \in {started, started \cup {k}}
         /\ running' \in {running, running \cup {k}, running \ {k}}
         /\ \A c \in Calls \ {k} : pc'[c] = pc[c]
         /\ \A d \in Directories \ {on[k]} : files'[d] = files[d]
         /\ files' = files \/ pc[k] \in Launcher \cup Stub \cup Script
<1>1. on' = on /\ hosts' = hosts /\ started' \in {started, started \cup {k}}
      /\ running' \in {running, running \cup {k}, running \ {k}}
  BY DEF Extracts, WritesTransaction, Starts, ReadsTransaction, WaitsForHost, Works,
     DeletesDirectory, ScheduleSelfCleanup, StubExits, Pauses, Removes, Crash, place, host
<1>2. reasons' = reasons \/ \E reason \in Reasons : Because(k, reason)
  BY DEF Extracts, WritesTransaction, Starts, ReadsTransaction, WaitsForHost, Works,
     DeletesDirectory, ScheduleSelfCleanup, StubExits, Pauses, Removes, Crash, Fails, Fine,
     Reasons
<1>3. \A c \in Calls : reasons[c] \subseteq reasons'[c]
  BY <1>2 DEF Because, Inv, TypeOK
<1>4. pc' = pc \/ \E step : Go(k, step)
  <2>1. CASE \/ Extracts(k) \/ WritesTransaction(k) \/ Starts(k) \/ WaitsForHost(k)
             \/ DeletesDirectory(k) \/ StubExits(k) \/ Pauses(k) \/ Removes(k) \/ Crash(k)
    BY <2>1
       DEF Extracts, WritesTransaction, Starts, WaitsForHost, DeletesDirectory,
           StubExits,
       Pauses, Removes, Crash
  <2>2. CASE ReadsTransaction(k) \/ Works(k) \/ ScheduleSelfCleanup(k)
    BY <2>2 DEF ReadsTransaction, Works, ScheduleSelfCleanup
  <2> QED
    BY <2>1, <2>2
<1>5. \A c \in Calls \ {k} : pc'[c] = pc[c]
  BY <1>4 DEF Go, Inv, TypeOK
<1>6. files' = files \/ \E names : Holds(k, names)
  BY DEF Extracts, WritesTransaction, Starts, ReadsTransaction, WaitsForHost, Works,
     DeletesDirectory, ScheduleSelfCleanup, StubExits, Pauses, Removes, Crash, place, Holds
<1>7. \A d \in Directories \ {on[k]} : files'[d] = files[d]
  BY <1>6 DEF Holds, Inv, TypeOK
<1>8. files' = files \/ pc[k] \in Launcher \cup Stub \cup Script
  BY DEF Extracts, WritesTransaction, Starts, ReadsTransaction, WaitsForHost, Works,
     DeletesDirectory, ScheduleSelfCleanup, StubExits, Pauses, Removes, Crash, place, Launcher,
     Stub, Script
<1> QED
  BY <1>1, <1>3, <1>5, <1>7, <1>8

\* A step of a call that leads to the end of its own script.
LEMMA Ending ==
  ASSUME Inv, EmptiedInv, NEW c \in Calls, Undisturbed(c)', ~Discarded(on[c]), reasons[c] = {},
         \/ Extracts(c) \/ WritesTransaction(c) \/ Starts(c)
         \/ ReadsTransaction(c) \/ WaitsForHost(c) \/ Works(c) \/ DeletesDirectory(c)
         \/ ScheduleSelfCleanup(c) \/ StubExits(c) \/ Pauses(c) \/ Removes(c) \/ Crash(c)
  PROVE  /\ c \in started' /\ c \notin running' /\ on'[c] \notin hosts'
         /\ pc'[c] = "cleaned" => files'[on'[c]] = {}
<1>1. reasons'[c] = {} /\ pc'[c] \in {"remove", "cleaned"}
  BY DEF Undisturbed
<1>2. \A reason : ~Because(c, reason)
  BY <1>1 DEF Because, Inv, TypeOK
<1>3. Pauses(c) \/ Removes(c) \/ StubExits(c)
  BY <1>1 DEF Extracts, WritesTransaction, Starts, ReadsTransaction, WaitsForHost, Works,
     DeletesDirectory, ScheduleSelfCleanup, Crash, Go, Inv, TypeOK
<1>4. CASE Pauses(c)
  <2>1. c \notin running /\ UNCHANGED <<started, running, hosts, on>> /\ pc'[c] = "remove"
    BY <1>2, <1>4 DEF Pauses, Fails, place, host, Go, Inv, TypeOK
  <2>2. c \in started /\ on[c] \notin hosts
    BY <1>4 DEF Pauses, Inv, Placed, Stub, Script
  <2> QED
    BY <2>1, <2>2
<1>5. CASE Removes(c)
  <2>1. Undisturbed(c)
    BY <1>5 DEF Removes, Undisturbed
  <2>2. InUse(on[c]) = {} /\ on[c] \in Directories
    BY <2>1, NothingInUse
  <2>3. PICK rest \in SUBSET (files[on[c]] \ InUse(on[c])) :
           /\ Holds(c, (files[on[c]] \cap InUse(on[c])) \cup rest)
           /\ IF rest = {} THEN Fine ELSE Fails(c, "remove")
    BY <1>5 DEF Removes
  <2>4. rest = {}
    BY <2>3, <1>2 DEF Fails
  <2>5. files'[on[c]] = {}
    BY <2>2, <2>3, <2>4 DEF Holds, Inv, TypeOK
  <2>6. UNCHANGED <<started, running, hosts, on>>
    BY <1>5 DEF Removes, host
  <2> QED
    BY <2>1, <2>5, <2>6 DEF EmptiedInv
<1>6. CASE StubExits(c)
  <2>1. UNCHANGED <<pc, on, files, started, hosts>> /\ running' = running \ {c}
    BY <1>6 DEF StubExits, place, host
  <2>2. Undisturbed(c)
    BY <1>1, <2>1 DEF Undisturbed
  <2> QED
    BY <2>1, <2>2 DEF EmptiedInv
<1> QED
  BY <1>3, <1>4, <1>5, <1>6

\* Every step preserves EmptiedInv.
LEMMA NextEmptied == Inv /\ EmptiedInv /\ [Next]_vars => EmptiedInv'
<1> SUFFICES ASSUME Inv, EmptiedInv, [Next]_vars, NEW c \in Calls, Undisturbed(c)'
             PROVE  /\ c \in started' /\ c \notin running' /\ on'[c] \notin hosts'
                    /\ pc'[c] = "cleaned" => files'[on'[c]] = {}
  BY DEF EmptiedInv
<1>1. CASE UNCHANGED vars
  BY <1>1 DEF vars, EmptiedInv, Undisturbed, Discarded
<1>2. ASSUME NEW d \in Directories, Downloads(d)
      PROVE  /\ c \in started' /\ c \notin running' /\ on'[c] \notin hosts'
             /\ pc'[c] = "cleaned" => files'[on'[c]] = {}
  <2>1. UNCHANGED <<pc, on, started, running, reasons>>
    BY <1>2 DEF Downloads, Makes, Fine
  <2>2. Undisturbed(c)
    BY <2>1 DEF Undisturbed, Discarded
  <2>3. on[c] # d /\ hosts' \subseteq hosts \cup (Directories \ made)
    BY <1>2, <2>2, NothingInUse DEF Downloads, Makes
  <2>4. files'[on[c]] = files[on[c]]
    BY <1>2, <2>2, <2>3, NothingInUse DEF Downloads, Makes, Inv, TypeOK
  <2> QED
    BY <2>1, <2>2, <2>3, <2>4, StaysEmpty DEF EmptiedInv
<1>3. ASSUME NEW k \in Calls, NEW d \in Directories, Normalizes(k, d)
      PROVE  /\ c \in started' /\ c \notin running' /\ on'[c] \notin hosts'
             /\ pc'[c] = "cleaned" => files'[on'[c]] = {}
  <2>1. UNCHANGED <<started, running, reasons>> /\ pc[k] = "idle" /\ Go(k, "extract")
        /\ on' = [on EXCEPT ![k] = d]
    BY <1>3 DEF Normalizes, Makes, Fine
  <2>2. k # c /\ pc'[c] = pc[c] /\ on'[c] = on[c]
    BY <2>1 DEF Undisturbed, Go, Inv, TypeOK
  <2>3. ~Discarded(on[c])
    <3> SUFFICES ASSUME NEW j \in Calls, on[j] = on[c], "discarded" \in reasons[j] PROVE FALSE
      BY DEF Discarded
    <3>1. on[c] # None
      BY <2>2, ManagedAssumption DEF Undisturbed, Inv, TypeOK, Placed
    <3>2. j # k
      BY <2>1, <2>2, <3>1 DEF Inv, Placed
    <3>3. on'[j] = on'[c]
      BY <2>1, <2>2, <3>2 DEF Inv, TypeOK
    <3> QED
      BY <2>1, <3>3 DEF Undisturbed, Discarded
  <2>4. Undisturbed(c)
    BY <2>1, <2>2, <2>3 DEF Undisturbed
  <2>5. on[c] # d /\ hosts' \subseteq hosts \cup (Directories \ made)
    BY <1>3, <2>4, NothingInUse DEF Normalizes, Makes
  <2>6. files'[on[c]] = files[on[c]]
    BY <1>3, <2>4, <2>5, NothingInUse DEF Normalizes, Makes, Inv, TypeOK
  <2> QED
    BY <2>1, <2>2, <2>4, <2>5, <2>6, StaysEmpty DEF EmptiedInv
<1>4. ASSUME NEW k \in Calls, NEW d \in Directories, Launches(k, d)
      PROVE  /\ c \in started' /\ c \notin running' /\ on'[c] \notin hosts'
             /\ pc'[c] = "cleaned" => files'[on'[c]] = {}
  <2>1. UNCHANGED <<started, running, reasons, hosts, files>> /\ pc[k] = "idle"
        /\ Go(k, "extract") /\ on' = [on EXCEPT ![k] = d]
    BY <1>4 DEF Launches, Fine, host
  <2>2. k # c /\ pc'[c] = pc[c] /\ on'[c] = on[c]
    BY <2>1 DEF Undisturbed, Go, Inv, TypeOK
  <2>3. ~Discarded(on[c])
    <3> SUFFICES ASSUME NEW j \in Calls, on[j] = on[c], "discarded" \in reasons[j] PROVE FALSE
      BY DEF Discarded
    <3>1. on[c] # None
      BY <2>2, ManagedAssumption DEF Undisturbed, Inv, TypeOK, Placed
    <3>2. j # k
      BY <2>1, <2>2, <3>1 DEF Inv, Placed
    <3>3. on'[j] = on'[c]
      BY <2>1, <2>2, <3>2 DEF Inv, TypeOK
    <3> QED
      BY <2>1, <3>3 DEF Undisturbed, Discarded
  <2>4. Undisturbed(c)
    BY <2>1, <2>2, <2>3 DEF Undisturbed
  <2> QED
    BY <2>1, <2>2, <2>4, StaysEmpty DEF EmptiedInv
<1>5. ASSUME NEW d \in Directories, Discards(d)
      PROVE  /\ c \in started' /\ c \notin running' /\ on'[c] \notin hosts'
             /\ pc'[c] = "cleaned" => files'[on'[c]] = {}
  <2>1. UNCHANGED <<pc, on, hosts, started, running>> /\ d \in hosts
        /\ reasons' = [j \in Calls |->
             IF on[j] = d THEN reasons[j] \cup {"discarded"} ELSE reasons[j]]
    BY <1>5 DEF Discards
  <2>2. on[c] # d /\ reasons[c] = {}
    BY <2>1 DEF Undisturbed
  <2>3. ~Discarded(on[c])
    BY <2>1, <2>2 DEF Undisturbed, Discarded
  <2>4. Undisturbed(c)
    BY <2>1, <2>2, <2>3 DEF Undisturbed
  <2>5. files'[on[c]] = files[on[c]]
    BY <1>5, <2>2, <2>4, NothingInUse DEF Discards, Inv, TypeOK
  <2> QED
    BY <2>1, <2>4, <2>5, StaysEmpty DEF EmptiedInv
<1>6. ASSUME NEW d \in Directories, HostExits(d)
      PROVE  /\ c \in started' /\ c \notin running' /\ on'[c] \notin hosts'
             /\ pc'[c] = "cleaned" => files'[on'[c]] = {}
  <2>1. UNCHANGED <<on, files, started, running, reasons>> /\ hosts' \subseteq hosts
        /\ pc' = [j \in Calls |-> IF on[j] = d /\ pc[j] \in Launcher THEN "died" ELSE pc[j]]
    BY <1>6 DEF HostExits, place, Fine
  <2>2. pc'[c] = pc[c]
    BY <2>1 DEF Undisturbed
  <2>3. Undisturbed(c)
    BY <2>1, <2>2 DEF Undisturbed, Discarded
  <2> QED
    BY <2>1, <2>2, <2>3, StaysEmpty DEF EmptiedInv
<1>7. ASSUME NEW k \in Calls,
             \/ Extracts(k) \/ WritesTransaction(k) \/ Starts(k)
             \/ ReadsTransaction(k) \/ WaitsForHost(k) \/ Works(k) \/ DeletesDirectory(k)
             \/ ScheduleSelfCleanup(k) \/ StubExits(k) \/ Pauses(k) \/ Removes(k) \/ Crash(k)
      PROVE  /\ c \in started' /\ c \notin running' /\ on'[c] \notin hosts'
             /\ pc'[c] = "cleaned" => files'[on'[c]] = {}
  <2>1. /\ on' = on /\ hosts' = hosts
        /\ \A j \in Calls : reasons[j] \subseteq reasons'[j]
    BY <1>7, StepFacts
  <2>2. ~Discarded(on[c]) /\ reasons[c] = {}
    BY <2>1, DiscardedStays DEF Undisturbed
  <2>3. CASE k = c
    BY <1>7, <2>2, <2>3, Ending
  <2>4. CASE k # c
    <3>1. /\ started' \in {started, started \cup {k}}
          /\ running' \in {running, running \cup {k}, running \ {k}}
          /\ pc'[c] = pc[c]
          /\ \A d \in Directories \ {on[k]} : files'[d] = files[d]
          /\ files' = files \/ pc[k] \in Launcher \cup Stub \cup Script
      BY <1>7, <2>4, StepFacts
    <3>2. Undisturbed(c)
      BY <2>1, <2>2, <3>1 DEF Undisturbed
    <3>3. c \in started /\ c \notin running /\ on[c] \notin hosts /\ on[c] \in Directories
      BY <3>2, NothingInUse DEF EmptiedInv
    <3>4. files'[on[c]] = files[on[c]]
      BY <2>2, <2>4, <3>1, <3>3, NobodyElse
    <3> QED
      BY <2>1, <2>4, <3>1, <3>2, <3>3, <3>4, StaysEmpty
  <2> QED
    BY <2>3, <2>4
<1> QED
  BY <1>1, <1>2, <1>3, <1>4, <1>5, <1>6, <1>7 DEF Next

\* After the script nothing is left in the directory of a stub, if nothing failed, nobody
\* was killed, the stub was gone in time and the host has not discarded the download
\* (ScheduleSelfCleanup and its script).
THEOREM NothingIsLeft == Spec => []Emptied
<1>1. Init => EmptiedInv
  BY DEF Init, EmptiedInv, Undisturbed
<1>2. Inv /\ EmptiedInv => Emptied
  BY DEF EmptiedInv, Undisturbed, Emptied
<1> QED
  BY <1>1, <1>2, Invariant, NextEmptied, PTL DEF Spec
==============================================================================
