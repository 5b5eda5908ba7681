--------------------------- MODULE InstallDirectory ---------------------------
(***************************************************************************)
(* The files and processes an updater stub works on, the environment that  *)
(* acts on them at the same time, and the properties every stub is held    *)
(* to.  NativeUpdateStub and ManagedUpdateStub add the stub's own steps.   *)
(*                                                                         *)
(* Transaction t delivers build t: the content of a file is the build it   *)
(* holds, Torn when it is incomplete or fails the SHA-256 comparison, and  *)
(* NoFile when the path does not exist.  A process is named by the build   *)
(* its image was loaded from, NoFile when there is none.                   *)
(***************************************************************************)
EXTENDS Integers, FiniteSets

CONSTANTS
  Txns,      \* update transactions, each launched at most once
  Installed, \* the build installed before the first transaction
  NoFile,    \* absent file, or no process
  Torn,      \* content that is not a verified build
  Unhashed,  \* transactions written by an old managed host, without ExpectedSha256
  Overlap    \* may a second stub run while one is still working?

Builds == Txns \cup {Installed}

ASSUME InstallAssumption ==
  /\ Installed \notin Txns
  /\ NoFile \notin Builds
  /\ Torn \notin Builds \cup {NoFile}
  /\ Unhashed \subseteq Txns
  /\ Overlap \in BOOLEAN

VARIABLES
  target,    \* TargetExePath
  backup,    \* BackupExePath of each transaction, unique per launch
  staged,    \* ".<name>.<unique>.new" beside the target
  payload,   \* DownloadedExePath
  marker,    \* does HealthMarkerPath exist?
  parent,    \* the process whose id is ParentProcessId
  child,     \* the process started with --update-health
  hosts,     \* applications running outside any transaction
  pc,        \* control state of each stub
  prior,     \* content the stub found at the target
  exitCode,  \* exit code of the stub
  good,      \* history: the build last confirmed by its health marker
  confirmed  \* history: the transactions confirmed so far

disk    == <<target, backup, staged, payload, marker>>
procs   == <<parent, child, hosts>>
stub    == <<pc, prior, exitCode>>
history == <<good, confirmed>>
vars    == <<disk, procs, stub, history>>

Contents == Builds \cup {NoFile, Torn}
Ended    == {"idle", "done", "crashed"}
NoCode   == -1

Labels == Ended \cup
  {"read", "wait", "stage", "copying", "verify", "check", "backup", "place",
   "undo", "start", "health", "exitCheck", "lastCheck", "terminate", "catch",
   "remove", "restore", "restart", "commit", "cleanup"}

Active(t) == pc[t] \notin Ended
InUse(b)  == b \in hosts \/ \E t \in Txns : parent[t] = b \/ child[t] = b

TypeOK ==
  /\ target \in Contents
  /\ backup \in [Txns -> Contents]
  /\ staged \in [Txns -> Contents]
  /\ payload \in [Txns -> Contents]
  /\ marker \in [Txns -> BOOLEAN]
  /\ parent \in [Txns -> Contents]
  /\ child \in [Txns -> Contents]
  /\ hosts \subseteq Contents
  /\ pc \in [Txns -> Labels]
  /\ prior \in [Txns -> Contents]
  /\ exitCode \in [Txns -> {NoCode, 0, 10, 20, 30, 40}]
  /\ good \in Builds \cup {NoFile}
  /\ confirmed \subseteq Txns

\* The application is installed and running, or (native launch_update does not
\* ask for the target to exist) it is about to be installed for the first time.
Init ==
  /\ target \in {Installed, NoFile}
  /\ backup = [t \in Txns |-> NoFile]
  /\ staged = [t \in Txns |-> NoFile]
  /\ payload = [t \in Txns |-> NoFile]
  /\ marker = [t \in Txns |-> FALSE]
  /\ parent = [t \in Txns |-> NoFile]
  /\ child = [t \in Txns |-> NoFile]
  /\ hosts = {Installed}
  /\ pc = [t \in Txns |-> "idle"]
  /\ prior = [t \in Txns |-> NoFile]
  /\ exitCode = [t \in Txns |-> NoCode]
  /\ good = target
  /\ confirmed = {}

(***************************************************************************)
(* The environment                                                         *)
(***************************************************************************)

\* A running application launches the stub of transaction t and names itself
\* as the parent.  With Overlap a second instance may stay behind.
Launch(t) ==
  /\ pc[t] = "idle"
  /\ Overlap \/ \A u \in Txns : ~Active(u)
  /\ \E b \in hosts :
       /\ parent' = [parent EXCEPT ![t] = b]
       /\ \/ hosts' = hosts \ {b}
          \/ Overlap /\ hosts' = hosts
  /\ payload' = [payload EXCEPT ![t] = t]
  /\ pc' = [pc EXCEPT ![t] = "read"]
  /\ UNCHANGED <<target, backup, staged, marker, child, prior, exitCode, history>>

HostExits(b) ==
  /\ b \in hosts
  /\ hosts' = hosts \ {b}
  /\ UNCHANGED <<disk, parent, child, stub, history>>

UserStarts ==
  /\ target \in Builds
  /\ hosts' = hosts \cup {target}
  /\ UNCHANGED <<disk, parent, child, stub, history>>

ParentExits(t) ==
  /\ parent[t] # NoFile
  /\ parent' = [parent EXCEPT ![t] = NoFile]
  /\ UNCHANGED <<disk, child, hosts, stub, history>>

\* The started build reports that it works; it may do so late.
WritesMarker(t) ==
  /\ child[t] # NoFile
  /\ marker' = [marker EXCEPT ![t] = TRUE]
  /\ UNCHANGED <<target, backup, staged, payload, procs, stub, history>>

\* The started build ends, by itself or because it crashed.
ChildExits(t) ==
  /\ child[t] # NoFile
  /\ child' = [child EXCEPT ![t] = NoFile]
  /\ UNCHANGED <<disk, parent, hosts, stub, history>>

\* Once the stub is gone, the processes of its transaction are ordinary ones.
Survives(t) ==
  /\ ~Active(t)
  /\ parent[t] # NoFile \/ child[t] # NoFile
  /\ hosts' = (hosts \cup {parent[t], child[t]}) \ {NoFile}
  /\ parent' = [parent EXCEPT ![t] = NoFile]
  /\ child' = [child EXCEPT ![t] = NoFile]
  /\ UNCHANGED <<disk, stub, history>>

\* The downloaded file is damaged or deleted by someone else; not while the
\* stub holds it open without FILE_SHARE_WRITE and FILE_SHARE_DELETE, and not
\* after it, when nobody reads it any more.
PayloadDamaged(t) ==
  /\ payload[t] # NoFile
  /\ pc[t] \in {"read", "wait", "stage"}
  /\ \E c \in {NoFile, Torn} : payload' = [payload EXCEPT ![t] = c]
  /\ UNCHANGED <<target, backup, staged, marker, procs, stub, history>>

\* The stub dies: it is killed, or an exception nobody catches ends it.
Crash(t) ==
  /\ Active(t)
  /\ pc' = [pc EXCEPT ![t] = "crashed"]
  /\ UNCHANGED <<disk, procs, prior, exitCode, history>>

\* The machine goes down.  The moves are write-through and the staged copy is
\* flushed before it is moved, so the files stay as they are.
PowerLoss ==
  /\ pc' = [t \in Txns |-> IF Active(t) THEN "crashed" ELSE pc[t]]
  /\ parent' = [t \in Txns |-> NoFile]
  /\ child' = [t \in Txns |-> NoFile]
  /\ hosts' = {}
  /\ UNCHANGED <<disk, prior, exitCode, history>>

EnvOf(t) ==
  \/ Launch(t)
  \/ ParentExits(t)
  \/ WritesMarker(t)
  \/ ChildExits(t)
  \/ Survives(t)
  \/ PayloadDamaged(t)
  \/ Crash(t)

Env ==
  \/ \E t \in Txns : EnvOf(t)
  \/ \E b \in Builds : HostExits(b)
  \/ UserStarts
  \/ PowerLoss

(***************************************************************************)
(* Steps the two stubs share                                               *)
(***************************************************************************)
Goto(t, l) == pc' = [pc EXCEPT ![t] = l]

\* The return value is decided; the trailing clean-up is still to come.
Decide(t, code) ==
  /\ Goto(t, "cleanup")
  /\ exitCode' = [exitCode EXCEPT ![t] = code]

\* CreateProcess on the target path: an incomplete image does not start.
CanStart == target \in Builds

\* A file that a process runs from can be renamed but not deleted.
CanDelete(c) == c # NoFile /\ ~InUse(c)

(***************************************************************************)
(* Properties                                                              *)
(***************************************************************************)
Quiet == \A t \in Txns : ~Active(t)

\* The build last confirmed to run is at the target or in a backup at every
\* moment, through every failed file operation, crash and power loss: an update
\* that does not work can always be undone, by the stub or by hand.
NoLoss ==
  good # NoFile => \/ target = good
                   \/ \E t \in Txns : backup[t] = good

NothingTorn ==
  /\ target # Torn
  /\ \A t \in Txns : backup[t] # Torn

\* Nothing that failed verification, and no half-written copy, is ever at the
\* target path or taken for a backup, until a transaction without a digest begins.
VerifiedOnly == (\A t \in Unhashed : pc[t] = "idle") => NothingTorn

Reported(codes) == \E t \in Txns : pc[t] = "crashed" \/ exitCode[t] \in codes

\* When every stub has ended by itself and none reported 40, the target holds
\* the build last confirmed: 0 means updated, 10 and 20 mean untouched and 30
\* means rolled back.
HonestCodes == (Quiet /\ good # NoFile /\ ~Reported({40})) => target = good

\* The same for 0, 10 and 20 alone, for a stub that also reports 30 when the
\* rollback itself failed.
HonestSuccess == (Quiet /\ good # NoFile /\ ~Reported({30, 40})) => target = good

(***************************************************************************)
(* The promise: what a stub does, seen as HealthConfirmedInstall           *)
(***************************************************************************)
Copies == {b \in Builds : target = b \/ \E t \in Txns : backup[t] = b}

Outcome ==
  [t \in Txns |->
     IF t \in confirmed THEN "committed"
     ELSE IF pc[t] = "idle" THEN "idle"
     ELSE IF Active(t) THEN "open" ELSE "closed"]

Promise == INSTANCE HealthConfirmedInstall WITH copies <- Copies, outcome <- Outcome
=============================================================================
