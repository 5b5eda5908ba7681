-------------------------- MODULE ManagedUpdateStub --------------------------
(***************************************************************************)
(* The managed updater stub (src/UpdaterStub/Program.cs): Main and Run     *)
(* with the functions they call.  A statement of the try block that throws *)
(* goes to the catch block, which restores the backup and returns 40.      *)
(***************************************************************************)
EXTENDS InstallDirectory

\* The target is Environment.ProcessPath of the launching host, so it exists.
ManagedInit == Init /\ target = Installed

\* Main: a transaction that cannot be read ends the stub with 10.
ReadTransaction(t) ==
  /\ pc[t] = "read"
  /\ \/ Goto(t, "wait") /\ UNCHANGED exitCode
     \/ Goto(t, "done") /\ exitCode' = [exitCode EXCEPT ![t] = 10]
  /\ UNCHANGED <<disk, procs, prior, history>>

\* WaitForExit: the parent has exited, or no process has its id.
WaitForExit(t) ==
  /\ pc[t] = "wait"
  /\ parent[t] = NoFile
  /\ Goto(t, "stage")
  /\ UNCHANGED <<disk, procs, prior, exitCode, history>>

\* The wait times out (20), or it throws something it does not catch and Main
\* turns it into 10; neither cleans anything up.
WaitGivesUp(t) ==
  /\ pc[t] = "wait"
  /\ Goto(t, "done")
  /\ \E code \in {10, 20} : exitCode' = [exitCode EXCEPT ![t] = code]
  /\ UNCHANGED <<disk, procs, prior, history>>

Throw(t) ==
  /\ Goto(t, "catch")
  /\ exitCode' = [exitCode EXCEPT ![t] = 40]

\* File.Copy(downloaded, staged): first the file appears, then its content.
Stage(t) ==
  /\ pc[t] = "stage"
  /\ \/ /\ payload[t] # NoFile
        /\ staged' = [staged EXCEPT ![t] = Torn]
        /\ Goto(t, "copying")
        /\ UNCHANGED exitCode
     \/ Throw(t) /\ UNCHANGED staged
  /\ UNCHANGED <<target, backup, payload, marker, procs, prior, history>>

Copy(t) ==
  /\ pc[t] = "copying"
  /\ \/ /\ staged' = [staged EXCEPT ![t] = payload[t]]
        /\ Goto(t, "verify")
        /\ UNCHANGED exitCode
     \/ Throw(t) /\ UNCHANGED staged
  /\ UNCHANGED <<target, backup, payload, marker, procs, prior, history>>

\* HasExpectedSha256 reads the staged copy, unless there is no digest.
HasExpectedSha256(t) == t \in Unhashed \/ staged[t] = t

Verify(t) ==
  /\ pc[t] = "verify"
  /\ \/ HasExpectedSha256(t) /\ Goto(t, "backup") /\ UNCHANGED exitCode
     \/ Throw(t)
  /\ UNCHANGED <<disk, procs, prior, history>>

\* File.Move(target, backup, overwrite: false)
Backup(t) ==
  /\ pc[t] = "backup"
  /\ \/ /\ target # NoFile
        /\ backup[t] = NoFile
        /\ backup' = [backup EXCEPT ![t] = target]
        /\ target' = NoFile
        /\ Goto(t, "place")
        /\ UNCHANGED exitCode
     \/ Throw(t) /\ UNCHANGED <<target, backup>>
  /\ UNCHANGED <<staged, payload, marker, procs, prior, history>>

\* File.Move(staged, target, overwrite: false)
Place(t) ==
  /\ pc[t] = "place"
  /\ \/ /\ staged[t] # NoFile
        /\ target = NoFile
        /\ target' = staged[t]
        /\ staged' = [staged EXCEPT ![t] = NoFile]
        /\ Goto(t, "start")
        /\ UNCHANGED exitCode
     \/ Throw(t) /\ UNCHANGED <<target, staged>>
  /\ UNCHANGED <<backup, payload, marker, procs, prior, history>>

StartTarget(t) ==
  /\ pc[t] = "start"
  /\ \/ /\ CanStart
        /\ child' = [child EXCEPT ![t] = target]
        /\ Goto(t, "health")
        /\ UNCHANGED exitCode
     \/ Throw(t) /\ UNCHANGED child
  /\ UNCHANGED <<disk, parent, hosts, prior, history>>

\* WaitForHealth: File.Exists in the loop or after it.
MarkerSeen(t) ==
  /\ pc[t] \in {"health", "lastCheck"}
  /\ marker[t]
  /\ Goto(t, "commit")
  /\ good' = t
  /\ confirmed' = confirmed \cup {t}
  /\ UNCHANGED <<disk, procs, prior, exitCode>>

MarkerNotSeen(t) ==
  /\ pc[t] = "health"
  /\ ~marker[t]
  /\ Goto(t, "exitCheck")
  /\ UNCHANGED <<disk, procs, prior, exitCode, history>>

\* process.HasExited: an exited process is unhealthy at once, the marker is not
\* looked at again; a running one is polled again.
HasExited(t) ==
  /\ pc[t] = "exitCheck"
  /\ Goto(t, IF child[t] = NoFile THEN "terminate" ELSE "health")
  /\ UNCHANGED <<disk, procs, prior, exitCode, history>>

\* Mutant: the loop goes on for as long as the process runs.
DeadlineOfExited(t) ==
  /\ pc[t] = "health"
  /\ child[t] = NoFile
  /\ Goto(t, "lastCheck")
  /\ UNCHANGED <<disk, procs, prior, exitCode, history>>

Deadline(t) ==
  /\ pc[t] = "health"
  /\ Goto(t, "lastCheck")
  /\ UNCHANGED <<disk, procs, prior, exitCode, history>>

NotHealthy(t) ==
  /\ pc[t] = "lastCheck"
  /\ ~marker[t]
  /\ Goto(t, "terminate")
  /\ UNCHANGED <<disk, procs, prior, exitCode, history>>

\* TryTerminate swallows its failures; the result is going to be 30.
TryTerminate(t) ==
  /\ pc[t] = "terminate"
  /\ \/ child' = [child EXCEPT ![t] = NoFile]
     \/ UNCHANGED child
  /\ Goto(t, "remove")
  /\ exitCode' = [exitCode EXCEPT ![t] = 30]
  /\ UNCHANGED <<disk, parent, hosts, prior, history>>

\* The catch block deletes the staged file if it can.
Catch(t) ==
  /\ pc[t] = "catch"
  /\ \E c \in {staged[t], NoFile} : staged' = [staged EXCEPT ![t] = c]
  /\ Goto(t, "remove")
  /\ UNCHANGED <<target, backup, payload, marker, procs, prior, exitCode, history>>

\* Mutant: the target is deleted before anyone asks for the backup.
RestoreDeletesFirst(t) ==
  /\ pc[t] = "remove"
  /\ Goto(t, "restore")
  /\ \/ CanDelete(target) /\ target' = NoFile
     \/ UNCHANGED target
  /\ UNCHANGED <<backup, staged, payload, marker, procs, prior, exitCode, history>>

\* RestoreBackup: only if there is a backup, delete the target ...
RestoreDeletes(t) ==
  /\ pc[t] = "remove"
  /\ IF backup[t] = NoFile
     THEN Goto(t, "restart") /\ UNCHANGED target
     ELSE /\ Goto(t, "restore")
          /\ \/ CanDelete(target) /\ target' = NoFile
             \/ UNCHANGED target
  /\ UNCHANGED <<backup, staged, payload, marker, procs, prior, exitCode, history>>

\* ... and move the backup into its place; an exception is swallowed.
RestoreMoves(t) ==
  /\ pc[t] = "restore"
  /\ \/ /\ backup[t] # NoFile
        /\ target = NoFile
        /\ target' = backup[t]
        /\ backup' = [backup EXCEPT ![t] = NoFile]
     \/ UNCHANGED <<target, backup>>
  /\ Goto(t, "restart")
  /\ UNCHANGED <<staged, payload, marker, procs, prior, exitCode, history>>

\* TryStartRestoredApplication, whatever is at the target by now.
TryStartRestored(t) ==
  /\ pc[t] = "restart"
  /\ \/ CanStart /\ hosts' = hosts \cup {target}
     \/ UNCHANGED hosts
  /\ Goto(t, "done")
  /\ UNCHANGED <<disk, parent, child, prior, exitCode, history>>

DeleteBackup(t) ==
  /\ pc[t] = "commit"
  /\ \/ CanDelete(backup[t]) /\ backup' = [backup EXCEPT ![t] = NoFile]
     \/ UNCHANGED backup
  /\ Decide(t, 0)
  /\ UNCHANGED <<target, staged, payload, marker, procs, prior, history>>

\* TryDeleteDirectory removes as much of the transaction directory as it can.
DeleteDirectory(t) ==
  /\ pc[t] = "cleanup"
  /\ \E c \in {payload[t], NoFile} : payload' = [payload EXCEPT ![t] = c]
  /\ \E m \in {marker[t], FALSE} : marker' = [marker EXCEPT ![t] = m]
  /\ Goto(t, "done")
  /\ UNCHANGED <<target, backup, staged, procs, prior, exitCode, history>>

Step(t) ==
  \/ ReadTransaction(t)
  \/ WaitForExit(t)
  \/ WaitGivesUp(t)
  \/ Stage(t)
  \/ Copy(t)
  \/ Verify(t)
  \/ Backup(t)
  \/ Place(t)
  \/ StartTarget(t)
  \/ MarkerSeen(t)
  \/ MarkerNotSeen(t)
  \/ HasExited(t)
  \/ Deadline(t)
  \/ NotHealthy(t)
  \/ TryTerminate(t)
  \/ Catch(t)
  \/ RestoreDeletes(t)
  \/ RestoreMoves(t)
  \/ TryStartRestored(t)
  \/ DeleteBackup(t)
  \/ DeleteDirectory(t)

Next == Env \/ \E t \in Txns : Step(t)

Spec == ManagedInit /\ [][Next]_vars
=============================================================================
