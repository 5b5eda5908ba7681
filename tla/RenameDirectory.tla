---------------------------- MODULE RenameDirectory ----------------------------
(***************************************************************************)
(* The files and processes of an executable-name normalisation: the        *)
(* application found out that it runs under a name that is not its         *)
(* canonical one and launches a stub that moves it from source to target.  *)
(* A file that already has the canonical name, Prior, is moved to a backup *)
(* first.  NativeRenameStub and ManagedRenameStub add the stub's steps.    *)
(***************************************************************************)
EXTENDS Integers, FiniteSets

CONSTANTS
  Txns,    \* rename transactions, each launched at most once
  App,     \* the application
  Prior,   \* what had the canonical name before
  NoFile,  \* absent file, or no process
  Overlap  \* may a second stub run while one is still working?

ASSUME RenameAssumption ==
  /\ App # Prior
  /\ NoFile \notin {App, Prior}
  /\ Overlap \in BOOLEAN

VARIABLES
  source,    \* SourceExePath, the name the application was started under
  target,    \* TargetExePath, the canonical name
  backup,    \* BackupExePath of each transaction, unique per launch
  marker,    \* does HealthMarkerPath exist?
  parent,    \* the process whose id is ParentProcessId
  child,     \* the process started with --update-health
  hosts,     \* applications running outside any transaction
  pc,        \* control state of each stub
  present,   \* target_present, targetWasPresent
  exitCode,  \* exit code of the stub
  first,     \* history: what had the canonical name before all transactions
  healthy    \* history: transactions whose health marker was seen

files == <<source, target, backup, marker>>
procs == <<parent, child, hosts>>
stub  == <<pc, present, exitCode>>
vars  == <<files, procs, stub, first, healthy>>

Contents == {App, Prior, NoFile}
Ended    == {"idle", "done", "crashed"}
NoCode   == -1
Labels   == Ended \cup
  {"read", "wait", "check", "backup", "move", "undo", "start", "health",
   "exitCheck", "lastCheck", "terminate", "look", "unmove", "delete", "restore",
   "restart", "commit", "cleanup"}

Active(t) == pc[t] \notin Ended
Quiet     == \A t \in Txns : ~Active(t)
InUse(c)  == c \in hosts \/ \E t \in Txns : parent[t] = c \/ child[t] = c

TypeOK ==
  /\ source \in Contents
  /\ target \in Contents
  /\ backup \in [Txns -> Contents]
  /\ marker \in [Txns -> BOOLEAN]
  /\ parent \in [Txns -> Contents]
  /\ child \in [Txns -> Contents]
  /\ hosts \subseteq Contents
  /\ pc \in [Txns -> Labels]
  /\ present \in [Txns -> BOOLEAN]
  /\ exitCode \in [Txns -> {NoCode, 0, 10, 20, 30, 40}]
  /\ first \in {Prior, NoFile}
  /\ healthy \subseteq Txns

Init ==
  /\ source = App
  /\ target \in {Prior, NoFile}
  /\ backup = [t \in Txns |-> NoFile]
  /\ marker = [t \in Txns |-> FALSE]
  /\ parent = [t \in Txns |-> NoFile]
  /\ child = [t \in Txns |-> NoFile]
  /\ hosts = {App}
  /\ pc = [t \in Txns |-> "idle"]
  /\ present = [t \in Txns |-> FALSE]
  /\ exitCode = [t \in Txns |-> NoCode]
  /\ first = target
  /\ healthy = {}

(***************************************************************************)
(* The environment                                                         *)
(***************************************************************************)

\* An application started under the source name launches a stub and names
\* itself as the parent.  With Overlap a second instance may stay behind.
Launch(t) ==
  /\ pc[t] = "idle"
  /\ Overlap \/ Quiet
  /\ source = App
  /\ App \in hosts
  /\ parent' = [parent EXCEPT ![t] = App]
  /\ \/ hosts' = hosts \ {App}
     \/ Overlap /\ hosts' = hosts
  /\ pc' = [pc EXCEPT ![t] = "read"]
  /\ UNCHANGED <<files, child, present, exitCode, first, healthy>>

HostExits(c) ==
  /\ c \in hosts
  /\ hosts' = hosts \ {c}
  /\ UNCHANGED <<files, parent, child, stub, first, healthy>>

UserStarts ==
  /\ \E c \in {source, target} \ {NoFile} : hosts' = hosts \cup {c}
  /\ UNCHANGED <<files, parent, child, stub, first, healthy>>

ParentExits(t) ==
  /\ parent[t] # NoFile
  /\ parent' = [parent EXCEPT ![t] = NoFile]
  /\ UNCHANGED <<files, child, hosts, stub, first, healthy>>

WritesMarker(t) ==
  /\ child[t] # NoFile
  /\ marker' = [marker EXCEPT ![t] = TRUE]
  /\ UNCHANGED <<source, target, backup, procs, stub, first, healthy>>

ChildExits(t) ==
  /\ child[t] # NoFile
  /\ child' = [child EXCEPT ![t] = NoFile]
  /\ UNCHANGED <<files, parent, hosts, stub, first, healthy>>

\* Once the stub is gone, the processes of its transaction are ordinary ones.
Survives(t) ==
  /\ ~Active(t)
  /\ parent[t] # NoFile \/ child[t] # NoFile
  /\ hosts' = (hosts \cup {parent[t], child[t]}) \ {NoFile}
  /\ parent' = [parent EXCEPT ![t] = NoFile]
  /\ child' = [child EXCEPT ![t] = NoFile]
  /\ UNCHANGED <<files, stub, first, healthy>>

Crash(t) ==
  /\ Active(t)
  /\ pc' = [pc EXCEPT ![t] = "crashed"]
  /\ UNCHANGED <<files, procs, present, exitCode, first, healthy>>

PowerLoss ==
  /\ pc' = [t \in Txns |-> IF Active(t) THEN "crashed" ELSE pc[t]]
  /\ parent' = [t \in Txns |-> NoFile]
  /\ child' = [t \in Txns |-> NoFile]
  /\ hosts' = {}
  /\ UNCHANGED <<files, present, exitCode, first, healthy>>

EnvOf(t) ==
  \/ Launch(t)
  \/ ParentExits(t)
  \/ WritesMarker(t)
  \/ ChildExits(t)
  \/ Survives(t)
  \/ Crash(t)

Env ==
  \/ \E t \in Txns : EnvOf(t)
  \/ \E c \in {App, Prior} : HostExits(c)
  \/ UserStarts
  \/ PowerLoss

(***************************************************************************)
(* Moves and deletions the two stubs share                                 *)
(***************************************************************************)
Goto(t, l) == pc' = [pc EXCEPT ![t] = l]

Decide(t, code) ==
  /\ Goto(t, "cleanup")
  /\ exitCode' = [exitCode EXCEPT ![t] = code]

TargetToBackup(t) ==
  /\ target # NoFile
  /\ backup[t] = NoFile
  /\ backup' = [backup EXCEPT ![t] = target]
  /\ target' = NoFile

BackupToTarget(t) ==
  /\ backup[t] # NoFile
  /\ target = NoFile
  /\ target' = backup[t]
  /\ backup' = [backup EXCEPT ![t] = NoFile]

SourceToTarget ==
  /\ source # NoFile
  /\ target = NoFile
  /\ target' = source
  /\ source' = NoFile

TargetToSource ==
  /\ target # NoFile
  /\ source = NoFile
  /\ source' = target
  /\ target' = NoFile

\* A file that a process runs from can be renamed but not deleted.
CanDelete(c) == c # NoFile /\ ~InUse(c)

(***************************************************************************)
(* Properties                                                              *)
(***************************************************************************)
OnDisk(c) == source = c \/ target = c \/ \E t \in Txns : backup[t] = c

\* The application itself is never lost: its only copy is moved about, and no
\* clean-up or rollback deletes it.
AppKept == OnDisk(App)

\* What had the canonical name is kept until the renamed application has
\* reported that it works.
PriorKept == (first = Prior /\ healthy = {}) => OnDisk(Prior)

\* When every stub has ended by itself and none reported 40, either a rename was
\* confirmed and the application has the canonical name, or everything is where
\* it was at first.
HonestCodes ==
  (Quiet /\ \A t \in Txns : pc[t] # "crashed" /\ exitCode[t] # 40)
    => IF healthy = {} THEN source = App /\ target = first
                       ELSE source = NoFile /\ target = App

\* The same when no stub reported 30 either.
HonestSuccess ==
  (Quiet /\ \A t \in Txns : pc[t] # "crashed" /\ exitCode[t] \notin {30, 40})
    => IF healthy = {} THEN source = App /\ target = first
                       ELSE source = NoFile /\ target = App
=============================================================================
