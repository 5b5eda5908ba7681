------------------------ MODULE HealthConfirmedInstall ------------------------
(***************************************************************************)
(* What the updater stubs promise, independent of how they move files      *)
(* (docs/BEHAVIOR_CONTRACT.md: back up the old executable, start the new   *)
(* one, wait for its health marker, roll back on failure).                 *)
(*                                                                         *)
(* good    the build that was last confirmed to run, NoFile when none was  *)
(* copies  the complete builds that exist as the target or as a backup     *)
(* outcome what became of each update transaction                          *)
(*                                                                         *)
(* A copy may disappear at any time unless it is the confirmed build; only *)
(* a transaction that has put its build on disk can confirm it.            *)
(***************************************************************************)
CONSTANTS
  Txns,      \* update transactions; transaction t installs build t
  Installed, \* the build installed before the first transaction
  NoFile     \* "no such file"

VARIABLES good, copies, outcome

vars == <<good, copies, outcome>>

Builds == Txns \cup {Installed}

TypeOK ==
  /\ good \in Builds \cup {NoFile}
  /\ copies \subseteq Builds
  /\ outcome \in [Txns -> {"idle", "open", "committed", "closed"}]

Init ==
  /\ good \in {Installed, NoFile}
  /\ copies = {good} \ {NoFile}
  /\ outcome = [t \in Txns |-> "idle"]

Begin(t) ==
  /\ outcome[t] = "idle"
  /\ outcome' = [outcome EXCEPT ![t] = "open"]
  /\ UNCHANGED <<good, copies>>

Place(t) ==
  /\ outcome[t] = "open"
  /\ copies' = copies \cup {t}
  /\ UNCHANGED <<good, outcome>>

Drop(b) ==
  /\ b \in copies
  /\ b # good
  /\ copies' = copies \ {b}
  /\ UNCHANGED <<good, outcome>>

Confirm(t) ==
  /\ outcome[t] = "open"
  /\ t \in copies
  /\ good' = t
  /\ outcome' = [outcome EXCEPT ![t] = "committed"]
  /\ UNCHANGED copies

Close(t) ==
  /\ outcome[t] = "open"
  /\ outcome' = [outcome EXCEPT ![t] = "closed"]
  /\ UNCHANGED <<good, copies>>

\* The machine goes down: every transaction in progress is over.
CloseAll ==
  /\ outcome' = [t \in Txns |-> IF outcome[t] = "open" THEN "closed" ELSE outcome[t]]
  /\ UNCHANGED <<good, copies>>

Next ==
  \/ \E t \in Txns : Begin(t) \/ Place(t) \/ Confirm(t) \/ Close(t)
  \/ \E b \in Builds : Drop(b)
  \/ CloseAll

Safety == Init /\ [][Next]_vars

\* Every transaction that is begun ends, confirmed or not.
Spec == Safety /\ \A t \in Txns : WF_vars(Confirm(t) \/ Close(t))

\* The confirmed build is never lost.
GoodKept == good # NoFile => good \in copies
=============================================================================
