-------------------------- MODULE ManagedRenameStub --------------------------
(***************************************************************************)
(* The managed updater stub started with --rename-transaction              *)
(* (src/UpdaterStub/Program.cs, RunRename).  The unhealthy path and the    *)
(* catch block both call RestoreRenamedExecutable, which looks at what is  *)
(* on disk to find out what there is to undo.                              *)
(***************************************************************************)
EXTENDS RenameDirectory

ReadTransaction(t) ==
  /\ pc[t] = "read"
  /\ \/ Goto(t, "wait") /\ UNCHANGED exitCode
     \/ Goto(t, "done") /\ exitCode' = [exitCode EXCEPT ![t] = 10]
  /\ UNCHANGED <<files, procs, present, first, healthy>>

WaitForExit(t) ==
  /\ pc[t] = "wait"
  /\ parent[t] = NoFile
  /\ Goto(t, "check")
  /\ UNCHANGED <<files, procs, present, exitCode, first, healthy>>

\* The wait times out (20) or throws what Main turns into 10.
WaitGivesUp(t) ==
  /\ pc[t] = "wait"
  /\ Goto(t, "done")
  /\ \E code \in {10, 20} : exitCode' = [exitCode EXCEPT ![t] = code]
  /\ UNCHANGED <<files, procs, present, first, healthy>>

CheckTarget(t) ==
  /\ pc[t] = "check"
  /\ present' = [present EXCEPT ![t] = target # NoFile]
  /\ Goto(t, IF target # NoFile THEN "backup" ELSE "move")
  /\ UNCHANGED <<files, procs, exitCode, first, healthy>>

\* The catch block and the unhealthy path differ in the code they return.
RollBack(t, code) ==
  /\ Goto(t, "look")
  /\ exitCode' = [exitCode EXCEPT ![t] = code]

Backup(t) ==
  /\ pc[t] = "backup"
  /\ \/ TargetToBackup(t) /\ Goto(t, "move") /\ UNCHANGED exitCode
     \/ RollBack(t, 40) /\ UNCHANGED <<target, backup>>
  /\ UNCHANGED <<source, marker, procs, present, first, healthy>>

Move(t) ==
  /\ pc[t] = "move"
  /\ \/ SourceToTarget /\ Goto(t, "start") /\ UNCHANGED exitCode
     \/ RollBack(t, 40) /\ UNCHANGED <<source, target>>
  /\ UNCHANGED <<backup, marker, procs, present, first, healthy>>

\* Mutant: an application that cannot be started keeps its new name.
StartFailureKept(t) ==
  /\ pc[t] = "start"
  /\ \/ /\ target # NoFile
        /\ child' = [child EXCEPT ![t] = target]
        /\ Goto(t, "health")
     \/ Goto(t, "cleanup") /\ UNCHANGED child
  /\ exitCode' = [exitCode EXCEPT ![t] = 0]
  /\ UNCHANGED <<files, parent, hosts, present, first, healthy>>

StartTarget(t) ==
  /\ pc[t] = "start"
  /\ \/ /\ target # NoFile
        /\ child' = [child EXCEPT ![t] = target]
        /\ Goto(t, "health")
        /\ UNCHANGED exitCode
     \/ RollBack(t, 40) /\ UNCHANGED child
  /\ UNCHANGED <<files, parent, hosts, present, first, healthy>>

MarkerSeen(t) ==
  /\ pc[t] \in {"health", "lastCheck"}
  /\ marker[t]
  /\ Goto(t, "commit")
  /\ healthy' = healthy \cup {t}
  /\ UNCHANGED <<files, procs, present, exitCode, first>>

MarkerNotSeen(t) ==
  /\ pc[t] = "health"
  /\ ~marker[t]
  /\ Goto(t, "exitCheck")
  /\ UNCHANGED <<files, procs, present, exitCode, first, healthy>>

HasExited(t) ==
  /\ pc[t] = "exitCheck"
  /\ Goto(t, IF child[t] = NoFile THEN "terminate" ELSE "health")
  /\ UNCHANGED <<files, procs, present, exitCode, first, healthy>>

Deadline(t) ==
  /\ pc[t] = "health"
  /\ Goto(t, "lastCheck")
  /\ UNCHANGED <<files, procs, present, exitCode, first, healthy>>

NotHealthy(t) ==
  /\ pc[t] = "lastCheck"
  /\ ~marker[t]
  /\ Goto(t, "terminate")
  /\ UNCHANGED <<files, procs, present, exitCode, first, healthy>>

TryTerminate(t) ==
  /\ pc[t] = "terminate"
  /\ \/ child' = [child EXCEPT ![t] = NoFile]
     \/ UNCHANGED child
  /\ RollBack(t, 30)
  /\ UNCHANGED <<files, parent, hosts, present, first, healthy>>

\* Mutant: the target is deleted without a look at the source.
LookNotAtSource(t) ==
  /\ pc[t] = "look"
  /\ Goto(t, IF target = NoFile THEN "restore" ELSE "delete")
  /\ UNCHANGED <<files, procs, present, exitCode, first, healthy>>

\* RestoreRenamedExecutable: what is at the target is moved back to the source,
\* or deleted if the source exists.
Look(t) ==
  /\ pc[t] = "look"
  /\ Goto(t, IF target = NoFile THEN "restore"
             ELSE IF source = NoFile THEN "unmove" ELSE "delete")
  /\ UNCHANGED <<files, procs, present, exitCode, first, healthy>>

\* File.Move; an exception skips the rest of RestoreRenamedExecutable.
MoveBack(t) ==
  /\ pc[t] = "unmove"
  /\ \/ TargetToSource /\ Goto(t, "restore")
     \/ UNCHANGED <<source, target>> /\ Goto(t, "restart")
  /\ UNCHANGED <<backup, marker, procs, present, exitCode, first, healthy>>

DeleteTarget(t) ==
  /\ pc[t] = "delete"
  /\ \/ CanDelete(target) /\ target' = NoFile
     \/ UNCHANGED target
  /\ Goto(t, "restore")
  /\ UNCHANGED <<source, backup, marker, procs, present, exitCode, first, healthy>>

Restore(t) ==
  /\ pc[t] = "restore"
  /\ \/ present[t] /\ BackupToTarget(t)
     \/ UNCHANGED <<target, backup>>
  /\ Goto(t, "restart")
  /\ UNCHANGED <<source, marker, procs, present, exitCode, first, healthy>>

\* TryStartOriginalApplication: only if the source exists.
TryStartOriginal(t) ==
  /\ pc[t] = "restart"
  /\ \/ source # NoFile /\ hosts' = hosts \cup {source}
     \/ UNCHANGED hosts
  /\ Goto(t, "done")
  /\ UNCHANGED <<files, parent, child, present, exitCode, first, healthy>>

DeleteBackup(t) ==
  /\ pc[t] = "commit"
  /\ \/ CanDelete(backup[t]) /\ backup' = [backup EXCEPT ![t] = NoFile]
     \/ UNCHANGED backup
  /\ Decide(t, 0)
  /\ UNCHANGED <<source, target, marker, procs, present, first, healthy>>

DeleteDirectory(t) ==
  /\ pc[t] = "cleanup"
  /\ \E m \in {marker[t], FALSE} : marker' = [marker EXCEPT ![t] = m]
  /\ Goto(t, "done")
  /\ UNCHANGED <<source, target, backup, procs, present, exitCode, first, healthy>>

Step(t) ==
  \/ ReadTransaction(t)
  \/ WaitForExit(t)
  \/ WaitGivesUp(t)
  \/ CheckTarget(t)
  \/ Backup(t)
  \/ Move(t)
  \/ StartTarget(t)
  \/ MarkerSeen(t)
  \/ MarkerNotSeen(t)
  \/ HasExited(t)
  \/ Deadline(t)
  \/ NotHealthy(t)
  \/ TryTerminate(t)
  \/ Look(t)
  \/ MoveBack(t)
  \/ DeleteTarget(t)
  \/ Restore(t)
  \/ TryStartOriginal(t)
  \/ DeleteBackup(t)
  \/ DeleteDirectory(t)

Next == Env \/ \E t \in Txns : Step(t)

Spec == Init /\ [][Next]_vars
=============================================================================
