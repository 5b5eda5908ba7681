----------------------------- MODULE HttpTransport -----------------------------
(***************************************************************************)
(* WinHttpTransport (native/src/UpdateKit.cpp): get opens a request,       *)
(* registers it, reads the answer and cleans up; abort_active closes the   *)
(* registered requests from another thread.  Both find out by an atomic    *)
(* exchange which of them closes a handle.                                 *)
(***************************************************************************)
EXTENDS Naturals, FiniteSets

CONSTANTS
  Requests, \* calls of get on one transport, each on a thread of its own
  Endless,  \* those whose server never stops sending
  Aborters, \* threads that call abort_active, any number of times
  None

ASSUME TransportAssumption == Endless \subseteq Requests /\ None \notin Requests

VARIABLES
  pc,     \* per request: the step get is at
  held,   \* requests whose ActiveRequest holds the handle
  active, \* active_
  closes, \* per request: how often its handle was closed
  copy,   \* per aborter: the requests it has still to look at
  taken,  \* per aborter: the handle it is about to close
  seen    \* history: requests that were registered when an abort took its copy

vars == <<pc, held, active, closes, copy, taken, seen>>
aborts == <<copy, taken, seen>>

Go(r, step) == pc' = [pc EXCEPT ![r] = step]
Close(r) == closes' = [closes EXCEPT ![r] = @ + 1]

\* A call on a handle that was closed fails.
IsOpen(r) == closes[r] = 0

Init ==
  /\ pc = [r \in Requests |-> "start"]
  /\ held = {} /\ active = {}
  /\ closes = [r \in Requests |-> 0]
  /\ copy = [t \in Aborters |-> {}]
  /\ taken = [t \in Aborters |-> None]
  /\ seen = {}

-----------------------------------------------------------------------------
\* Connecting or opening the request fails, and what was opened is closed.
OpenFails(r) ==
  /\ pc[r] = "start" /\ Go(r, "unopened")
  /\ UNCHANGED <<held, active, closes>> /\ UNCHANGED aborts

Opens(r) ==
  /\ pc[r] = "start" /\ Go(r, "opened")
  /\ held' = held \cup {r}
  /\ UNCHANGED <<active, closes>> /\ UNCHANGED aborts

Registers(r) ==
  /\ pc[r] = "opened" /\ Go(r, "sending")
  /\ active' = active \cup {r}
  /\ UNCHANGED <<held, closes>> /\ UNCHANGED aborts

\* The header of the answer, and each part of its body.
Answers(r) ==
  /\ pc[r] \in {"sending", "reading"} /\ IsOpen(r)
  /\ Go(r, IF pc[r] = "sending" THEN "reading" ELSE "sink")
  /\ UNCHANGED <<held, active, closes>> /\ UNCHANGED aborts

\* The sink has taken the part.
Takes(r) ==
  /\ pc[r] = "sink" /\ Go(r, "reading")
  /\ UNCHANGED <<held, active, closes>> /\ UNCHANGED aborts

\* The body is complete, or as long as the caller wants it.
Ends(r) ==
  /\ pc[r] = "reading" /\ IsOpen(r) /\ r \notin Endless
  /\ Go(r, "cleanup")
  /\ UNCHANGED <<held, active, closes>> /\ UNCHANGED aborts

\* Mutant: an exception leaves get without the clean-up.
FailsAtOnce(r) ==
  /\ pc[r] \in {"sending", "reading", "sink"} /\ Go(r, "done")
  /\ UNCHANGED <<held, active, closes>> /\ UNCHANGED aborts

\* The server, a timeout, the stop token, the sink or a closed handle.
Fails(r) ==
  /\ pc[r] \in {"sending", "reading", "sink"} /\ Go(r, "cleanup")
  /\ UNCHANGED <<held, active, closes>> /\ UNCHANGED aborts

\* Mutant: the handle is read instead of exchanged.
ExchangesNothing(r) ==
  /\ pc[r] = "cleanup" /\ Go(r, IF r \in held THEN "closing" ELSE "erasing")
  /\ UNCHANGED <<held, active, closes>> /\ UNCHANGED aborts

Exchanges(r) ==
  /\ pc[r] = "cleanup" /\ Go(r, IF r \in held THEN "closing" ELSE "erasing")
  /\ held' = held \ {r}
  /\ UNCHANGED <<active, closes>> /\ UNCHANGED aborts

Closes(r) ==
  /\ pc[r] = "closing" /\ Go(r, "erasing")
  /\ Close(r)
  /\ UNCHANGED <<held, active>> /\ UNCHANGED aborts

Erases(r) ==
  /\ pc[r] = "erasing" /\ Go(r, "done")
  /\ active' = active \ {r}
  /\ UNCHANGED <<held, closes>> /\ UNCHANGED aborts

-----------------------------------------------------------------------------
Copies(t) ==
  /\ copy[t] = {} /\ taken[t] = None /\ active # {}
  /\ copy' = [copy EXCEPT ![t] = active]
  /\ seen' = seen \cup active
  /\ UNCHANGED <<pc, held, active, closes, taken>>

\* Mutant: the first request that another thread closes ends the abort.
AbortTakesFirst(t, r) ==
  /\ r \in copy[t] /\ taken[t] = None
  /\ copy' = [copy EXCEPT ![t] = IF r \in held THEN @ \ {r} ELSE {}]
  /\ taken' = [taken EXCEPT ![t] = IF r \in held THEN r ELSE None]
  /\ held' = held \ {r}
  /\ UNCHANGED <<pc, active, closes, seen>>

AbortTakes(t, r) ==
  /\ r \in copy[t] /\ taken[t] = None
  /\ copy' = [copy EXCEPT ![t] = @ \ {r}]
  /\ taken' = [taken EXCEPT ![t] = IF r \in held THEN r ELSE None]
  /\ held' = held \ {r}
  /\ UNCHANGED <<pc, active, closes, seen>>

AbortCloses(t) ==
  /\ taken[t] # None
  /\ Close(taken[t])
  /\ taken' = [taken EXCEPT ![t] = None]
  /\ UNCHANGED <<pc, held, active, copy, seen>>

-----------------------------------------------------------------------------
Get(r) ==
  \/ OpenFails(r) \/ Opens(r) \/ Registers(r) \/ Answers(r) \/ Takes(r) \/ Ends(r) \/ Fails(r)
  \/ Exchanges(r) \/ Closes(r) \/ Erases(r)
Abort(t) == (\E r \in Requests : AbortTakes(t, r)) \/ AbortCloses(t)

Next ==
  \/ \E r \in Requests : Get(r)
  \/ \E t \in Aborters : Copies(t) \/ Abort(t)

Spec == Init /\ [][Next]_vars

\* Threads go on, and timeouts make every call return: it answers or fails.  Nobody has
\* to call abort_active.
Fairness ==
  /\ \A r \in Requests : WF_vars(Get(r))
  /\ \A t \in Aborters : WF_vars(Abort(t))

FairSpec == Spec /\ Fairness

-----------------------------------------------------------------------------
Steps == {"start", "unopened", "opened", "sending", "reading", "sink", "cleanup", "closing", "erasing",
          "done"}

TypeOK ==
  /\ pc \in [Requests -> Steps]
  /\ held \subseteq Requests /\ active \subseteq Requests /\ seen \subseteq Requests
  /\ closes \in [Requests -> Nat]
  /\ copy \in [Aborters -> SUBSET Requests]
  /\ taken \in [Aborters -> Requests \cup {None}]

\* get and any number of aborts at once never close a handle twice: the second close
\* would hit whatever request has the same handle by then (the exchange at lines 432
\* and 494).
ClosedOnce == \A r \in Requests : closes[r] <= 1

\* When get has returned, however it ended, its handle is closed or in the hands of an
\* abort that closes it next, and it is no longer registered.
NoLeak ==
  \A r \in Requests :
    pc[r] = "done" =>
      /\ r \notin held \cup active
      /\ closes[r] = 1 \/ \E t \in Aborters : taken[t] = r

\* Every request that was registered when an abort took its copy has been taken by
\* somebody, or the abort has not come to it yet: none is passed over.
AbortReaches ==
  \A r \in seen : r \in held => \E t \in Aborters : r \in copy[t]

\* A request that was registered when an abort began ends, even when its server would
\* never stop sending.
AbortedEnds == \A r \in Requests : r \in seen ~> pc[r] = "done"
=============================================================================
