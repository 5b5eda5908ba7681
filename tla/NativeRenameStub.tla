--------------------------- MODULE NativeRenameStub ---------------------------
(***************************************************************************)
(* The native updater stub started with --rename-transaction               *)
(* (native/updater/main.cpp, rename_executable): the results of most moves *)
(* of the rollback are looked at, and decide between 30 and 40.            *)
(***************************************************************************)
EXTENDS RenameDirectory

ReadTransaction(t) ==
  /\ pc[t] = "read"
  /\ \/ Goto(t, "wait") /\ UNCHANGED exitCode
     \/ Goto(t, "done") /\ exitCode' = [exitCode EXCEPT ![t] = 10]
  /\ UNCHANGED <<files, procs, present, first, healthy>>

WaitForExit(t) ==
  /\ pc[t] = "wait"
  /\ parent[t] = NoFile
  /\ Goto(t, "check")
  /\ UNCHANGED <<files, procs, present, exitCode, first, healthy>>

WaitGivesUp(t) ==
  /\ pc[t] = "wait"
  /\ Decide(t, 20)
  /\ UNCHANGED <<files, procs, present, first, healthy>>

\* The old marker is removed and target_present is read.
CheckTarget(t) ==
  /\ pc[t] = "check"
  /\ marker' = [marker EXCEPT ![t] = FALSE]
  /\ present' = [present EXCEPT ![t] = target # NoFile]
  /\ Goto(t, IF target # NoFile THEN "backup" ELSE "move")
  /\ UNCHANGED <<source, target, backup, procs, exitCode, first, healthy>>

Backup(t) ==
  /\ pc[t] = "backup"
  /\ \/ TargetToBackup(t) /\ Goto(t, "move") /\ UNCHANGED exitCode
     \/ Decide(t, 40) /\ UNCHANGED <<target, backup>>
  /\ UNCHANGED <<source, marker, procs, present, first, healthy>>

Move(t) ==
  /\ pc[t] = "move"
  /\ \/ SourceToTarget /\ Goto(t, "start") /\ UNCHANGED exitCode
     \/ /\ UNCHANGED <<source, target>>
        /\ IF present[t] THEN Goto(t, "undo") /\ UNCHANGED exitCode ELSE Decide(t, 40)
  /\ UNCHANGED <<backup, marker, procs, present, first, healthy>>

\* The source could not be moved: put the backup back, whatever comes of it.
UndoBackup(t) ==
  /\ pc[t] = "undo"
  /\ BackupToTarget(t) \/ UNCHANGED <<target, backup>>
  /\ Decide(t, 40)
  /\ UNCHANGED <<source, marker, procs, present, first, healthy>>

Start(t) ==
  /\ pc[t] = "start"
  /\ marker' = [marker EXCEPT ![t] = FALSE]
  /\ \/ /\ target # NoFile
        /\ child' = [child EXCEPT ![t] = target]
        /\ Goto(t, "health")
     \/ Goto(t, "unmove") /\ UNCHANGED child
  /\ UNCHANGED <<source, target, backup, parent, hosts, present, exitCode, first, healthy>>

MarkerSeen(t) ==
  /\ pc[t] \in {"health", "lastCheck"}
  /\ marker[t]
  /\ Goto(t, "commit")
  /\ healthy' = healthy \cup {t}
  /\ UNCHANGED <<files, procs, present, exitCode, first>>

HealthLoopEnds(t) ==
  /\ pc[t] = "health"
  /\ Goto(t, "lastCheck")
  /\ UNCHANGED <<files, procs, present, exitCode, first, healthy>>

\* Mutant: a process that is still running at the deadline is taken for healthy.
NotHealthyCommits(t) ==
  /\ pc[t] = "lastCheck"
  /\ ~marker[t]
  /\ Goto(t, IF child[t] = NoFile THEN "terminate" ELSE "commit")
  /\ UNCHANGED <<files, procs, present, exitCode, first, healthy>>

NotHealthy(t) ==
  /\ pc[t] = "lastCheck"
  /\ ~marker[t]
  /\ Goto(t, "terminate")
  /\ UNCHANGED <<files, procs, present, exitCode, first, healthy>>

Terminate(t) ==
  /\ pc[t] = "terminate"
  /\ \/ child' = [child EXCEPT ![t] = NoFile]
     \/ UNCHANGED child
  /\ Goto(t, "unmove")
  /\ UNCHANGED <<files, parent, hosts, present, exitCode, first, healthy>>

\* source_restored decides whether the application is restarted, and with
\* prior_target_restored whether 30 or 40 is returned.
MoveBack(t) ==
  /\ pc[t] = "unmove"
  /\ \/ /\ TargetToSource
        /\ exitCode' = [exitCode EXCEPT ![t] = 30]
        /\ Goto(t, IF present[t] THEN "restore" ELSE "restart")
     \/ /\ UNCHANGED <<source, target>>
        /\ exitCode' = [exitCode EXCEPT ![t] = 40]
        /\ Goto(t, IF present[t] THEN "restore" ELSE "cleanup")
  /\ UNCHANGED <<backup, marker, procs, present, first, healthy>>

Restore(t) ==
  /\ pc[t] = "restore"
  /\ \/ BackupToTarget(t) /\ UNCHANGED exitCode
     \/ UNCHANGED <<target, backup>> /\ exitCode' = [exitCode EXCEPT ![t] = 40]
  /\ Goto(t, IF exitCode[t] = 30 THEN "restart" ELSE "cleanup")
  /\ UNCHANGED <<source, marker, procs, present, first, healthy>>

\* restart(source); a failure to start is ignored.
Restart(t) ==
  /\ pc[t] = "restart"
  /\ \/ source # NoFile /\ hosts' = hosts \cup {source}
     \/ UNCHANGED hosts
  /\ Goto(t, "cleanup")
  /\ UNCHANGED <<files, parent, child, present, exitCode, first, healthy>>

RemoveBackup(t) ==
  /\ pc[t] = "commit"
  /\ \/ CanDelete(backup[t]) /\ backup' = [backup EXCEPT ![t] = NoFile]
     \/ UNCHANGED backup
  /\ Decide(t, 0)
  /\ UNCHANGED <<source, target, marker, procs, present, first, healthy>>

\* After a success the marker is removed, if it can be; schedule_cleanup leaves
\* the transaction directory to another process.
Cleanup(t) ==
  /\ pc[t] = "cleanup"
  /\ \/ exitCode[t] = 0 /\ marker' = [marker EXCEPT ![t] = FALSE]
     \/ UNCHANGED marker
  /\ Goto(t, "done")
  /\ UNCHANGED <<source, target, backup, procs, present, exitCode, first, healthy>>

Step(t) ==
  \/ ReadTransaction(t)
  \/ WaitForExit(t)
  \/ WaitGivesUp(t)
  \/ CheckTarget(t)
  \/ Backup(t)
  \/ Move(t)
  \/ UndoBackup(t)
  \/ Start(t)
  \/ MarkerSeen(t)
  \/ HealthLoopEnds(t)
  \/ NotHealthy(t)
  \/ Terminate(t)
  \/ MoveBack(t)
  \/ Restore(t)
  \/ Restart(t)
  \/ RemoveBackup(t)
  \/ Cleanup(t)

Next == Env \/ \E t \in Txns : Step(t)

Spec == Init /\ [][Next]_vars
=============================================================================
