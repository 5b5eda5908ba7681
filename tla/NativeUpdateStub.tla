--------------------------- MODULE NativeUpdateStub ---------------------------
(***************************************************************************)
(* The native updater stub (native/updater/main.cpp): wmain and update()   *)
(* with the functions it calls.  Each file or process operation that the   *)
(* environment, another stub or a crash can fall between is a step; a step *)
(* that can fail lists what the code does on failure.                      *)
(***************************************************************************)
EXTENDS InstallDirectory

\* wmain: a transaction that cannot be read ends the stub with 10.
ReadTransaction(t) ==
  /\ pc[t] = "read"
  /\ \/ Goto(t, "wait") /\ UNCHANGED exitCode
     \/ Goto(t, "done") /\ exitCode' = [exitCode EXCEPT ![t] = 10]
  /\ UNCHANGED <<disk, procs, prior, history>>

\* wait_for_exit: the parent is gone, or its id names no process any more.
WaitForExit(t) ==
  /\ pc[t] = "wait"
  /\ parent[t] = NoFile
  /\ Goto(t, "stage")
  /\ UNCHANGED <<disk, procs, prior, exitCode, history>>

\* Mutant: the timeout returns a code of its own making.
WaitGivesUpWithOne(t) ==
  /\ pc[t] = "wait"
  /\ Decide(t, 1)
  /\ UNCHANGED <<disk, procs, prior, history>>

\* The wait times out, OpenProcess is refused, or the id was given to another
\* process, so this can happen whether or not the parent is still there.
WaitGivesUp(t) ==
  /\ pc[t] = "wait"
  /\ Decide(t, 20)
  /\ UNCHANGED <<disk, procs, prior, history>>

\* Remove leftovers, open the payload for reading and create the staged file.
Stage(t) ==
  /\ pc[t] = "stage"
  /\ marker' = [marker EXCEPT ![t] = FALSE]
  /\ \/ /\ payload[t] # NoFile
        /\ staged' = [staged EXCEPT ![t] = Torn]
        /\ Goto(t, "copying")
        /\ UNCHANGED exitCode
     \/ /\ staged' = [staged EXCEPT ![t] = NoFile]
        /\ Decide(t, 40)
  /\ UNCHANGED <<target, backup, payload, procs, prior, history>>

\* Mutant: the digest is computed but not compared.
CopiedUnchecked(t) == payload[t] # NoFile

\* copy_verified_payload hashes what it copies and compares the digest.
Copied(t) == payload[t] = t

Copy(t) ==
  /\ pc[t] = "copying"
  /\ \/ /\ Copied(t)
        /\ staged' = [staged EXCEPT ![t] = payload[t]]
        /\ Goto(t, "check")
        /\ UNCHANGED exitCode
     \/ /\ Decide(t, 40)
        /\ UNCHANGED staged
  /\ UNCHANGED <<target, backup, payload, marker, procs, prior, history>>

CheckTarget(t) ==
  /\ pc[t] = "check"
  /\ prior' = [prior EXCEPT ![t] = target]
  /\ Goto(t, IF target # NoFile THEN "backup" ELSE "place")
  /\ UNCHANGED <<disk, procs, exitCode, history>>

\* move_no_replace(target, backup)
Backup(t) ==
  /\ pc[t] = "backup"
  /\ \/ /\ target # NoFile
        /\ backup[t] = NoFile
        /\ backup' = [backup EXCEPT ![t] = target]
        /\ target' = NoFile
        /\ Goto(t, "place")
        /\ UNCHANGED exitCode
     \/ /\ Decide(t, 40)
        /\ UNCHANGED <<target, backup>>
  /\ UNCHANGED <<staged, payload, marker, procs, prior, history>>

\* move_no_replace(staged, target)
Place(t) ==
  /\ pc[t] = "place"
  /\ \/ /\ staged[t] # NoFile
        /\ target = NoFile
        /\ target' = staged[t]
        /\ staged' = [staged EXCEPT ![t] = NoFile]
        /\ Goto(t, "start")
     \/ /\ Goto(t, "undo")
        /\ UNCHANGED <<target, staged>>
  /\ UNCHANGED <<backup, payload, marker, procs, prior, exitCode, history>>

\* move_no_replace(backup, target): it may itself fail.
BackToTarget(t) ==
  /\ backup[t] # NoFile
  /\ target = NoFile
  /\ target' = backup[t]
  /\ backup' = [backup EXCEPT ![t] = NoFile]

\* The staged file could not be moved in: put the backup back, whatever comes
\* of it, and return 40.
UndoBackup(t) ==
  /\ pc[t] = "undo"
  /\ \/ BackToTarget(t)
     \/ UNCHANGED <<target, backup>>
  /\ Decide(t, 40)
  /\ UNCHANGED <<staged, payload, marker, procs, prior, history>>

\* start_and_wait_for_health, up to the loop
Start(t) ==
  /\ pc[t] = "start"
  /\ marker' = [marker EXCEPT ![t] = FALSE]
  /\ \/ /\ CanStart
        /\ child' = [child EXCEPT ![t] = target]
        /\ Goto(t, "health")
     \/ /\ Goto(t, "remove")
        /\ UNCHANGED child
  /\ UNCHANGED <<target, backup, staged, payload, parent, hosts, prior, exitCode, history>>

\* The loop sees the marker, or the check after the loop does.
MarkerSeen(t) ==
  /\ pc[t] \in {"health", "lastCheck"}
  /\ marker[t]
  /\ Goto(t, "commit")
  /\ good' = t
  /\ confirmed' = confirmed \cup {t}
  /\ UNCHANGED <<disk, procs, prior, exitCode>>

\* Mutant: the marker is not looked at again after the loop.
HealthLoopWithoutLastCheck(t) ==
  /\ pc[t] = "health"
  /\ Goto(t, "terminate")
  /\ UNCHANGED <<disk, procs, prior, exitCode, history>>

\* The deadline passes or the process is found to have ended.
HealthLoopEnds(t) ==
  /\ pc[t] = "health"
  /\ Goto(t, "lastCheck")
  /\ UNCHANGED <<disk, procs, prior, exitCode, history>>

NotHealthy(t) ==
  /\ pc[t] = "lastCheck"
  /\ ~marker[t]
  /\ Goto(t, "terminate")
  /\ UNCHANGED <<disk, procs, prior, exitCode, history>>

\* TerminateProcess and a wait of three seconds, neither result looked at.
Terminate(t) ==
  /\ pc[t] = "terminate"
  /\ \/ child' = [child EXCEPT ![t] = NoFile]
     \/ UNCHANGED child
  /\ Goto(t, "remove")
  /\ UNCHANGED <<disk, parent, hosts, prior, exitCode, history>>

\* Mutant: the result of the restoring move is not looked at.
RestoreUnchecked(t) ==
  /\ pc[t] = "restore"
  /\ BackToTarget(t) \/ UNCHANGED <<target, backup>>
  /\ Goto(t, "restart")
  /\ UNCHANGED <<staged, payload, marker, procs, prior, exitCode, history>>

\* remove_if_exists(target).  Without a backup there is nothing to restore and
\* the stub returns 30 whether or not the file is gone.
RemoveNew(t) ==
  /\ pc[t] = "remove"
  /\ \/ CanDelete(target) /\ target' = NoFile
     \/ UNCHANGED target
  /\ IF prior[t] = NoFile
     THEN Decide(t, 30)
     ELSE Goto(t, "restore") /\ UNCHANGED exitCode
  /\ UNCHANGED <<backup, staged, payload, marker, procs, prior, history>>

Restore(t) ==
  /\ pc[t] = "restore"
  /\ \/ /\ BackToTarget(t)
        /\ Goto(t, "restart")
        /\ UNCHANGED exitCode
     \/ /\ Decide(t, 40)
        /\ UNCHANGED <<target, backup>>
  /\ UNCHANGED <<staged, payload, marker, procs, prior, history>>

\* restart(target); a failure to start is ignored.
Restart(t) ==
  /\ pc[t] = "restart"
  /\ \/ CanStart /\ hosts' = hosts \cup {target}
     \/ UNCHANGED hosts
  /\ Decide(t, 30)
  /\ UNCHANGED <<disk, parent, child, prior, history>>

\* remove_if_exists(backup) after a healthy start
RemoveBackup(t) ==
  /\ pc[t] = "commit"
  /\ \/ CanDelete(backup[t]) /\ backup' = [backup EXCEPT ![t] = NoFile]
     \/ UNCHANGED backup
  /\ Decide(t, 0)
  /\ UNCHANGED <<target, staged, payload, marker, procs, prior, history>>

\* What every return path does last: the staged file, the downloaded payload
\* and, after a success, the marker are removed, each if it can be.
\* schedule_cleanup then leaves the transaction directory to another process.
Cleanup(t) ==
  /\ pc[t] = "cleanup"
  /\ \E c \in {staged[t], NoFile} : staged' = [staged EXCEPT ![t] = c]
  /\ \E c \in {payload[t], NoFile} : payload' = [payload EXCEPT ![t] = c]
  /\ \/ exitCode[t] = 0 /\ marker' = [marker EXCEPT ![t] = FALSE]
     \/ UNCHANGED marker
  /\ Goto(t, "done")
  /\ UNCHANGED <<target, backup, procs, prior, exitCode, history>>

Step(t) ==
  \/ ReadTransaction(t)
  \/ WaitForExit(t)
  \/ WaitGivesUp(t)
  \/ Stage(t)
  \/ Copy(t)
  \/ CheckTarget(t)
  \/ Backup(t)
  \/ Place(t)
  \/ UndoBackup(t)
  \/ Start(t)
  \/ MarkerSeen(t)
  \/ HealthLoopEnds(t)
  \/ NotHealthy(t)
  \/ Terminate(t)
  \/ RemoveNew(t)
  \/ Restore(t)
  \/ Restart(t)
  \/ RemoveBackup(t)
  \/ Cleanup(t)

Next == Env \/ \E t \in Txns : Step(t)

Spec == Init /\ [][Next]_vars
=============================================================================
