--------------------------- MODULE UpdateStubsProofs ---------------------------
(***************************************************************************)
(* Theorems about the two updater stubs, for every set of transactions:    *)
(* their type invariant, that nothing unverified is ever installed, and,   *)
(* when stubs run one after another, that the confirmed build is never     *)
(* lost, that exit codes are true and that the stubs keep the promise of   *)
(* HealthConfirmedInstall.                                                 *)
(***************************************************************************)
EXTENDS UpdateStubs, TLAPS

\* Both stubs start in a directory that InstallDirectory describes.
LEMMA StartsAsInit == StubsInit => Init
BY DEF StubsInit, N!Init, M!ManagedInit, M!Init, Init, N!NoCode, M!NoCode, NoCode

\* Every state of the stubs and of their environment is well-typed.
THEOREM TypeCorrect == Spec => []TypeOK
<1> USE InstallAssumption DEF Builds, Contents, Ended, Labels, NoCode
<1>1. StubsInit => TypeOK
  BY StartsAsInit DEF Init, TypeOK
<1>2. TypeOK /\ [Next]_<<vars, frontend>> => TypeOK'
  <2> SUFFICES ASSUME TypeOK, [Next]_<<vars, frontend>>
               PROVE  TypeOK'
    OBVIOUS
  <2> USE DEF TypeOK,
          disk, procs, stub, history, N!disk, N!procs, N!stub, N!history, N!Goto, N!Decide,
          M!disk, M!procs, M!stub, M!history, M!Goto, M!Decide, NativeStep, ManagedStep
  <2>1. CASE Env /\ UNCHANGED frontend
    <3>1. ASSUME NEW t \in Txns, Launch(t) PROVE TypeOK'
      BY <2>1, <3>1 DEF Launch
    <3>2. ASSUME NEW t \in Txns, ParentExits(t) PROVE TypeOK'
      BY <2>1, <3>2 DEF ParentExits
    <3>3. ASSUME NEW t \in Txns, WritesMarker(t) PROVE TypeOK'
      BY <2>1, <3>3 DEF WritesMarker
    <3>4. ASSUME NEW t \in Txns, ChildExits(t) PROVE TypeOK'
      BY <2>1, <3>4 DEF ChildExits
    <3>5. ASSUME NEW t \in Txns, Survives(t) PROVE TypeOK'
      BY <2>1, <3>5 DEF Survives
    <3>6. ASSUME NEW t \in Txns, PayloadDamaged(t) PROVE TypeOK'
      BY <2>1, <3>6 DEF PayloadDamaged
    <3>7. ASSUME NEW t \in Txns, Crash(t) PROVE TypeOK'
      BY <2>1, <3>7 DEF Crash
    <3>8. ASSUME NEW b \in Builds, HostExits(b) PROVE TypeOK'
      BY <2>1, <3>8 DEF HostExits
    <3>9. CASE UserStarts
      BY <2>1, <3>9 DEF UserStarts
    <3>10. CASE PowerLoss
      BY <2>1, <3>10 DEF PowerLoss
    <3> QED
      BY <2>1, <3>1, <3>2, <3>3, <3>4, <3>5, <3>6, <3>7, <3>8, <3>9, <3>10 DEF Env, EnvOf
  <2>2. ASSUME NEW t \in Txns, NativeStep(t) PROVE TypeOK'
    <3>1. CASE N!ReadTransaction(t)
      BY <2>2, <3>1 DEF N!ReadTransaction
    <3>2. CASE N!WaitForExit(t)
      BY <2>2, <3>2 DEF N!WaitForExit
    <3>3. CASE N!WaitGivesUp(t)
      BY <2>2, <3>3 DEF N!WaitGivesUp
    <3>4. CASE N!Stage(t)
      BY <2>2, <3>4 DEF N!Stage
    <3>5. CASE N!Copy(t)
      BY <2>2, <3>5 DEF N!Copy, N!Copied
    <3>6. CASE N!CheckTarget(t)
      BY <2>2, <3>6 DEF N!CheckTarget
    <3>7. CASE N!Backup(t)
      BY <2>2, <3>7 DEF N!Backup
    <3>8. CASE N!Place(t)
      BY <2>2, <3>8 DEF N!Place
    <3>9. CASE N!UndoBackup(t)
      BY <2>2, <3>9 DEF N!UndoBackup, N!BackToTarget
    <3>10. CASE N!Start(t)
      BY <2>2, <3>10 DEF N!Start, N!CanStart, N!Builds
    <3>11. CASE N!MarkerSeen(t)
      BY <2>2, <3>11 DEF N!MarkerSeen
    <3>12. CASE N!HealthLoopEnds(t)
      BY <2>2, <3>12 DEF N!HealthLoopEnds
    <3>13. CASE N!NotHealthy(t)
      BY <2>2, <3>13 DEF N!NotHealthy
    <3>14. CASE N!Terminate(t)
      BY <2>2, <3>14 DEF N!Terminate
    <3>15. CASE N!RemoveNew(t)
      BY <2>2, <3>15 DEF N!RemoveNew, N!CanDelete, N!InUse
    <3>16. CASE N!Restore(t)
      BY <2>2, <3>16 DEF N!Restore, N!BackToTarget
    <3>17. CASE N!Restart(t)
      BY <2>2, <3>17 DEF N!Restart, N!CanStart, N!Builds
    <3>18. CASE N!RemoveBackup(t)
      BY <2>2, <3>18 DEF N!RemoveBackup, N!CanDelete, N!InUse
    <3>19. CASE N!Cleanup(t)
      <4>1. staged' \in [Txns -> Contents] /\ payload' \in [Txns -> Contents]
        BY <2>2, <3>19 DEF TypeOK, N!Cleanup
      <4>2. marker' \in [Txns -> BOOLEAN]
        <5>1. marker' = [marker EXCEPT ![t] = FALSE] \/ marker' = marker
          BY <2>2, <3>19 DEF N!Cleanup
        <5>2. marker \in [Txns -> BOOLEAN]
          BY DEF TypeOK
        <5>3. [marker EXCEPT ![t] = FALSE] \in [Txns -> BOOLEAN]
          BY <5>2
        <5> QED
          BY <5>1, <5>2, <5>3, Zenon
      <4>3. pc' \in [Txns -> Labels]
        BY <2>2, <3>19 DEF TypeOK, N!Cleanup
      <4> QED
        BY <2>2, <3>19, <4>1, <4>2, <4>3 DEF TypeOK, N!Cleanup
    <3> QED
      BY <2>2, <3>1, <3>2, <3>3, <3>4, <3>5, <3>6, <3>7, <3>8, <3>9, <3>10, <3>11, <3>12,
         <3>13, <3>14, <3>15, <3>16, <3>17, <3>18, <3>19 DEF N!Step
  <2>3. ASSUME NEW t \in Txns, ManagedStep(t) PROVE TypeOK'
    <3>1. CASE M!ReadTransaction(t)
      BY <2>3, <3>1 DEF M!ReadTransaction
    <3>2. CASE M!WaitForExit(t)
      BY <2>3, <3>2 DEF M!WaitForExit
    <3>3. CASE M!WaitGivesUp(t)
      BY <2>3, <3>3 DEF M!WaitGivesUp
    <3>4. CASE M!Stage(t)
      BY <2>3, <3>4 DEF M!Stage, M!Throw
    <3>5. CASE M!Copy(t)
      BY <2>3, <3>5 DEF M!Copy, M!Throw
    <3>6. CASE M!Verify(t)
      BY <2>3, <3>6 DEF M!Verify, M!Throw, M!HasExpectedSha256
    <3>7. CASE M!Backup(t)
      BY <2>3, <3>7 DEF M!Backup, M!Throw
    <3>8. CASE M!Place(t)
      BY <2>3, <3>8 DEF M!Place, M!Throw
    <3>9. CASE M!StartTarget(t)
      BY <2>3, <3>9 DEF M!StartTarget, M!Throw, M!CanStart, M!Builds
    <3>10. CASE M!MarkerSeen(t)
      BY <2>3, <3>10 DEF M!MarkerSeen
    <3>11. CASE M!MarkerNotSeen(t)
      BY <2>3, <3>11 DEF M!MarkerNotSeen
    <3>12. CASE M!HasExited(t)
      BY <2>3, <3>12 DEF M!HasExited
    <3>13. CASE M!Deadline(t)
      BY <2>3, <3>13 DEF M!Deadline
    <3>14. CASE M!NotHealthy(t)
      BY <2>3, <3>14 DEF M!NotHealthy
    <3>15. CASE M!TryTerminate(t)
      BY <2>3, <3>15 DEF M!TryTerminate
    <3>16. CASE M!Catch(t)
      BY <2>3, <3>16 DEF M!Catch
    <3>17. CASE M!RestoreDeletes(t)
      BY <2>3, <3>17 DEF M!RestoreDeletes, M!CanDelete, M!InUse
    <3>18. CASE M!RestoreMoves(t)
      BY <2>3, <3>18 DEF M!RestoreMoves
    <3>19. CASE M!TryStartRestored(t)
      BY <2>3, <3>19 DEF M!TryStartRestored, M!CanStart, M!Builds
    <3>20. CASE M!DeleteBackup(t)
      BY <2>3, <3>20 DEF M!DeleteBackup, M!CanDelete, M!InUse
    <3>21. CASE M!DeleteDirectory(t)
      <4>1. payload' \in [Txns -> Contents] /\ pc' \in [Txns -> Labels]
        BY <2>3, <3>21 DEF TypeOK, M!DeleteDirectory
      <4>2. marker' \in [Txns -> BOOLEAN]
        <5>1. ASSUME NEW m \in BOOLEAN PROVE [marker EXCEPT ![t] = m] \in [Txns -> BOOLEAN]
          BY DEF TypeOK
        <5>2. marker[t] \in BOOLEAN
          BY DEF TypeOK
        <5>3. \/ marker' = [marker EXCEPT ![t] = FALSE]
              \/ marker' = [marker EXCEPT ![t] = marker[t]]
          BY <2>3, <3>21 DEF M!DeleteDirectory
        <5>4. [marker EXCEPT ![t] = FALSE] \in [Txns -> BOOLEAN]
          BY <5>1
        <5>5. [marker EXCEPT ![t] = marker[t]] \in [Txns -> BOOLEAN]
          BY <5>1, <5>2
        <5> QED
          BY <5>3, <5>4, <5>5
      <4> QED
        BY <2>3, <3>21, <4>1, <4>2 DEF TypeOK, M!DeleteDirectory
    <3> QED
      BY <2>3, <3>1, <3>2, <3>3, <3>4, <3>5, <3>6, <3>7, <3>8, <3>9, <3>10, <3>11, <3>12,
         <3>13, <3>14, <3>15, <3>16, <3>17, <3>18, <3>19, <3>20, <3>21 DEF M!Step
  <2>4. CASE UNCHANGED <<vars, frontend>>
    BY <2>4 DEF vars
  <2> QED
    BY <2>1, <2>2, <2>3, <2>4 DEF Next
<1> QED
  BY <1>1, <1>2, PTL DEF Spec

-----------------------------------------------------------------------------
\* While every transaction seen so far names a digest: nothing torn is installed, and from
\* the comparison of the digests until the move to the target the staged file is the build
\* of its transaction.  The inductive form of VerifiedOnly.
VerifiedInv ==
  (frontend = "managed" => \A t \in Unhashed : pc[t] = "idle") =>
    /\ NothingTorn
    /\ \A t \in Txns : pc[t] \in {"check", "backup", "place"} => staged[t] = t

\* VerifiedInv is an invariant, whether or not stubs overlap.
LEMMA VerifiedInvariant == Spec => []VerifiedInv
<1> USE InstallAssumption DEF Builds, Contents, Ended, Labels
<1>1. StubsInit => VerifiedInv
  BY StartsAsInit DEF Init, VerifiedInv, NothingTorn
<1>2. TypeOK /\ VerifiedInv /\ [Next]_<<vars, frontend>> => VerifiedInv'
  <2> SUFFICES ASSUME TypeOK, VerifiedInv, [Next]_<<vars, frontend>>
               PROVE  VerifiedInv'
    OBVIOUS
  <2> USE DEF TypeOK, VerifiedInv, NothingTorn,
          disk, procs, stub, history, N!disk, N!procs, N!stub, N!history, N!Goto, N!Decide,
          M!disk, M!procs, M!stub, M!history, M!Goto, M!Decide, NativeStep, ManagedStep
  <2>1. CASE Env /\ UNCHANGED frontend
    <3>1. ASSUME NEW t \in Txns, Launch(t) PROVE VerifiedInv'
      BY <2>1, <3>1 DEF Launch
    <3>2. ASSUME NEW t \in Txns, ParentExits(t) PROVE VerifiedInv'
      BY <2>1, <3>2 DEF ParentExits
    <3>3. ASSUME NEW t \in Txns, WritesMarker(t) PROVE VerifiedInv'
      BY <2>1, <3>3 DEF WritesMarker
    <3>4. ASSUME NEW t \in Txns, ChildExits(t) PROVE VerifiedInv'
      BY <2>1, <3>4 DEF ChildExits
    <3>5. ASSUME NEW t \in Txns, Survives(t) PROVE VerifiedInv'
      BY <2>1, <3>5 DEF Survives
    <3>6. ASSUME NEW t \in Txns, PayloadDamaged(t) PROVE VerifiedInv'
      BY <2>1, <3>6 DEF PayloadDamaged
    <3>7. ASSUME NEW t \in Txns, Crash(t) PROVE VerifiedInv'
      BY <2>1, <3>7 DEF Crash
    <3>8. ASSUME NEW b \in Builds, HostExits(b) PROVE VerifiedInv'
      BY <2>1, <3>8 DEF HostExits
    <3>9. CASE UserStarts
      BY <2>1, <3>9 DEF UserStarts
    <3>10. CASE PowerLoss
      BY <2>1, <3>10 DEF PowerLoss
    <3> QED
      BY <2>1, <3>1, <3>2, <3>3, <3>4, <3>5, <3>6, <3>7, <3>8, <3>9, <3>10 DEF Env, EnvOf
  <2>2. ASSUME NEW t \in Txns, NativeStep(t) PROVE VerifiedInv'
    <3>1. CASE N!ReadTransaction(t)
      BY <2>2, <3>1 DEF N!ReadTransaction
    <3>2. CASE N!WaitForExit(t)
      BY <2>2, <3>2 DEF N!WaitForExit
    <3>3. CASE N!WaitGivesUp(t)
      BY <2>2, <3>3 DEF N!WaitGivesUp
    <3>4. CASE N!Stage(t)
      BY <2>2, <3>4 DEF N!Stage
    <3>5. CASE N!Copy(t)
      BY <2>2, <3>5 DEF N!Copy, N!Copied
    <3>6. CASE N!CheckTarget(t)
      BY <2>2, <3>6 DEF N!CheckTarget
    <3>7. CASE N!Backup(t)
      BY <2>2, <3>7 DEF N!Backup
    <3>8. CASE N!Place(t)
      BY <2>2, <3>8 DEF N!Place
    <3>9. CASE N!UndoBackup(t)
      BY <2>2, <3>9 DEF N!UndoBackup, N!BackToTarget
    <3>10. CASE N!Start(t)
      BY <2>2, <3>10 DEF N!Start, N!CanStart, N!Builds
    <3>11. CASE N!MarkerSeen(t)
      BY <2>2, <3>11 DEF N!MarkerSeen
    <3>12. CASE N!HealthLoopEnds(t)
      BY <2>2, <3>12 DEF N!HealthLoopEnds
    <3>13. CASE N!NotHealthy(t)
      BY <2>2, <3>13 DEF N!NotHealthy
    <3>14. CASE N!Terminate(t)
      BY <2>2, <3>14 DEF N!Terminate
    <3>15. CASE N!RemoveNew(t)
      BY <2>2, <3>15 DEF N!RemoveNew, N!CanDelete, N!InUse
    <3>16. CASE N!Restore(t)
      BY <2>2, <3>16 DEF N!Restore, N!BackToTarget
    <3>17. CASE N!Restart(t)
      BY <2>2, <3>17 DEF N!Restart, N!CanStart, N!Builds
    <3>18. CASE N!RemoveBackup(t)
      BY <2>2, <3>18 DEF N!RemoveBackup, N!CanDelete, N!InUse
    <3>19. CASE N!Cleanup(t)
      BY <2>2, <3>19 DEF N!Cleanup
    <3> QED
      BY <2>2, <3>1, <3>2, <3>3, <3>4, <3>5, <3>6, <3>7, <3>8, <3>9, <3>10, <3>11, <3>12,
         <3>13, <3>14, <3>15, <3>16, <3>17, <3>18, <3>19 DEF N!Step
  <2>3. ASSUME NEW t \in Txns, ManagedStep(t) PROVE VerifiedInv'
    <3>1. CASE M!ReadTransaction(t)
      BY <2>3, <3>1 DEF M!ReadTransaction
    <3>2. CASE M!WaitForExit(t)
      BY <2>3, <3>2 DEF M!WaitForExit
    <3>3. CASE M!WaitGivesUp(t)
      BY <2>3, <3>3 DEF M!WaitGivesUp
    <3>4. CASE M!Stage(t)
      BY <2>3, <3>4 DEF M!Stage, M!Throw
    <3>5. CASE M!Copy(t)
      BY <2>3, <3>5 DEF M!Copy, M!Throw
    <3>6. CASE M!Verify(t)
      BY <2>3, <3>6 DEF M!Verify, M!Throw, M!HasExpectedSha256
    <3>7. CASE M!Backup(t)
      BY <2>3, <3>7 DEF M!Backup, M!Throw
    <3>8. CASE M!Place(t)
      BY <2>3, <3>8 DEF M!Place, M!Throw
    <3>9. CASE M!StartTarget(t)
      BY <2>3, <3>9 DEF M!StartTarget, M!Throw, M!CanStart, M!Builds
    <3>10. CASE M!MarkerSeen(t)
      BY <2>3, <3>10 DEF M!MarkerSeen
    <3>11. CASE M!MarkerNotSeen(t)
      BY <2>3, <3>11 DEF M!MarkerNotSeen
    <3>12. CASE M!HasExited(t)
      BY <2>3, <3>12 DEF M!HasExited
    <3>13. CASE M!Deadline(t)
      BY <2>3, <3>13 DEF M!Deadline
    <3>14. CASE M!NotHealthy(t)
      BY <2>3, <3>14 DEF M!NotHealthy
    <3>15. CASE M!TryTerminate(t)
      BY <2>3, <3>15 DEF M!TryTerminate
    <3>16. CASE M!Catch(t)
      BY <2>3, <3>16 DEF M!Catch
    <3>17. CASE M!RestoreDeletes(t)
      BY <2>3, <3>17 DEF M!RestoreDeletes, M!CanDelete, M!InUse
    <3>18. CASE M!RestoreMoves(t)
      BY <2>3, <3>18 DEF M!RestoreMoves
    <3>19. CASE M!TryStartRestored(t)
      BY <2>3, <3>19 DEF M!TryStartRestored, M!CanStart, M!Builds
    <3>20. CASE M!DeleteBackup(t)
      BY <2>3, <3>20 DEF M!DeleteBackup, M!CanDelete, M!InUse
    <3>21. CASE M!DeleteDirectory(t)
      BY <2>3, <3>21 DEF M!DeleteDirectory
    <3> QED
      BY <2>3, <3>1, <3>2, <3>3, <3>4, <3>5, <3>6, <3>7, <3>8, <3>9, <3>10, <3>11, <3>12,
         <3>13, <3>14, <3>15, <3>16, <3>17, <3>18, <3>19, <3>20, <3>21 DEF M!Step
  <2>4. CASE UNCHANGED <<vars, frontend>>
    BY <2>4 DEF vars
  <2> QED
    BY <2>1, <2>2, <2>3, <2>4 DEF Next
<1> QED
  BY <1>1, <1>2, TypeCorrect, PTL DEF Spec

\* Whatever fails, crashes or overlaps, neither the target nor a backup ever holds content
\* whose digest was not compared, until a transaction without a digest begins.
THEOREM VerifiedAlways == Spec => []VerifiedOnly
<1>1. VerifiedInv => VerifiedOnly
  BY DEF VerifiedInv, VerifiedOnly
<1> QED
  BY <1>1, VerifiedInvariant, PTL
-----------------------------------------------------------------------------
\* Build t is on disk only as the payload of its transaction.
NotInstalled(t) ==
  /\ target # t
  /\ good # t
  /\ t \notin confirmed
  /\ \A u \in Txns : backup[u] # t

\* What transaction t has installed, if it is still there, is the target; it is
\* unconfirmed, and there is no other copy of it.
OnTrial(t) ==
  /\ target \in {t, Torn, NoFile}
  /\ good # t
  /\ t \notin confirmed
  /\ \A u \in Txns : backup[u] # t

\* The old executable has not been moved yet.
Before == {"idle", "read", "wait", "stage", "copying", "verify", "check", "backup"}

\* The stub is going to delete the target: the native one when it has started a build, the
\* managed one, which comes here also by an exception, when there is a backup.
RollsBack(t) == pc[t] \in {"catch", "remove"} /\ (frontend = "native" \/ backup[t] # NoFile)

\* The inductive form of NoLoss for stubs that run one after another.  The build
\* on trial has no second copy and is not the confirmed one: so the confirmed
\* build is in a backup when the stub deletes the target, and it is the target
\* when the stub deletes the backup.
SequentialInv ==
  /\ NoLoss
  /\ \A t, u \in Txns : Active(t) /\ Active(u) => t = u
  /\ \A t \in Txns :
       /\ {staged[t], payload[t]} \subseteq {t, Torn, NoFile}
       /\ pc[t] \in Before => backup[t] = NoFile
       /\ pc[t] \in Before \cup {"place", "undo"} => NotInstalled(t)
       /\ pc[t] \in {"place", "undo"} => target = NoFile
       /\ pc[t] \in {"start", "health", "exitCheck", "lastCheck", "terminate"} \/ RollsBack(t)
            => OnTrial(t)
       /\ pc[t] \in {"health", "exitCheck", "lastCheck"} => target = t
       /\ pc[t] = "commit" => target = t /\ good = t

\* SequentialInv is an invariant of stubs that run one after another.
LEMMA SequentialInvariant == ASSUME ~Overlap PROVE Spec => []SequentialInv
<1> USE InstallAssumption DEF Builds, Contents, Ended, Labels, Before
<1>1. StubsInit => SequentialInv
  BY StartsAsInit DEF Init, SequentialInv, NoLoss, NotInstalled, RollsBack, Active
<1>2. TypeOK /\ VerifiedInv /\ SequentialInv /\ [Next]_<<vars, frontend>> => SequentialInv'
  <2> SUFFICES ASSUME TypeOK, VerifiedInv, SequentialInv, [Next]_<<vars, frontend>>
               PROVE  SequentialInv'
    OBVIOUS
  <2> USE DEF TypeOK, VerifiedInv, SequentialInv, NoLoss, NotInstalled, OnTrial, RollsBack,
          Active,
          disk, procs, stub, history, N!disk, N!procs, N!stub, N!history, N!Goto, N!Decide,
          M!disk, M!procs, M!stub, M!history, M!Goto, M!Decide, NativeStep, ManagedStep
  <2>1. CASE Env /\ UNCHANGED frontend
    <3>1. ASSUME NEW t \in Txns, Launch(t) PROVE SequentialInv'
      BY <2>1, <3>1 DEF Launch
    <3>2. ASSUME NEW t \in Txns, ParentExits(t) PROVE SequentialInv'
      BY <2>1, <3>2 DEF ParentExits
    <3>3. ASSUME NEW t \in Txns, WritesMarker(t) PROVE SequentialInv'
      BY <2>1, <3>3 DEF WritesMarker
    <3>4. ASSUME NEW t \in Txns, ChildExits(t) PROVE SequentialInv'
      BY <2>1, <3>4 DEF ChildExits
    <3>5. ASSUME NEW t \in Txns, Survives(t) PROVE SequentialInv'
      BY <2>1, <3>5 DEF Survives
    <3>6. ASSUME NEW t \in Txns, PayloadDamaged(t) PROVE SequentialInv'
      BY <2>1, <3>6 DEF PayloadDamaged
    <3>7. ASSUME NEW t \in Txns, Crash(t) PROVE SequentialInv'
      BY <2>1, <3>7 DEF Crash
    <3>8. ASSUME NEW b \in Builds, HostExits(b) PROVE SequentialInv'
      BY <2>1, <3>8 DEF HostExits
    <3>9. CASE UserStarts
      BY <2>1, <3>9 DEF UserStarts
    <3>10. CASE PowerLoss
      BY <2>1, <3>10 DEF PowerLoss
    <3> QED
      BY <2>1, <3>1, <3>2, <3>3, <3>4, <3>5, <3>6, <3>7, <3>8, <3>9, <3>10 DEF Env, EnvOf
  <2>2. ASSUME NEW t \in Txns, NativeStep(t) PROVE SequentialInv'
    <3>1. CASE N!ReadTransaction(t)
      BY <2>2, <3>1 DEF N!ReadTransaction
    <3>2. CASE N!WaitForExit(t)
      BY <2>2, <3>2 DEF N!WaitForExit
    <3>3. CASE N!WaitGivesUp(t)
      BY <2>2, <3>3 DEF N!WaitGivesUp
    <3>4. CASE N!Stage(t)
      BY <2>2, <3>4 DEF N!Stage
    <3>5. CASE N!Copy(t)
      BY <2>2, <3>5 DEF N!Copy, N!Copied
    <3>6. CASE N!CheckTarget(t)
      BY <2>2, <3>6 DEF N!CheckTarget
    <3>7. CASE N!Backup(t)
      BY <2>2, <3>7 DEF N!Backup
    <3>8. CASE N!Place(t)
      BY <2>2, <3>8 DEF N!Place
    <3>9. CASE N!UndoBackup(t)
      BY <2>2, <3>9 DEF N!UndoBackup, N!BackToTarget
    <3>10. CASE N!Start(t)
      BY <2>2, <3>10 DEF N!Start, N!CanStart, N!Builds
    <3>11. CASE N!MarkerSeen(t)
      BY <2>2, <3>11 DEF N!MarkerSeen
    <3>12. CASE N!HealthLoopEnds(t)
      BY <2>2, <3>12 DEF N!HealthLoopEnds
    <3>13. CASE N!NotHealthy(t)
      BY <2>2, <3>13 DEF N!NotHealthy
    <3>14. CASE N!Terminate(t)
      BY <2>2, <3>14 DEF N!Terminate
    <3>15. CASE N!RemoveNew(t)
      BY <2>2, <3>15 DEF N!RemoveNew, N!CanDelete, N!InUse
    <3>16. CASE N!Restore(t)
      BY <2>2, <3>16 DEF N!Restore, N!BackToTarget
    <3>17. CASE N!Restart(t)
      BY <2>2, <3>17 DEF N!Restart, N!CanStart, N!Builds
    <3>18. CASE N!RemoveBackup(t)
      BY <2>2, <3>18 DEF N!RemoveBackup, N!CanDelete, N!InUse
    <3>19. CASE N!Cleanup(t)
      BY <2>2, <3>19 DEF N!Cleanup
    <3> QED
      BY <2>2, <3>1, <3>2, <3>3, <3>4, <3>5, <3>6, <3>7, <3>8, <3>9, <3>10, <3>11, <3>12,
         <3>13, <3>14, <3>15, <3>16, <3>17, <3>18, <3>19 DEF N!Step
  <2>3. ASSUME NEW t \in Txns, ManagedStep(t) PROVE SequentialInv'
    <3>1. CASE M!ReadTransaction(t)
      BY <2>3, <3>1 DEF M!ReadTransaction
    <3>2. CASE M!WaitForExit(t)
      BY <2>3, <3>2 DEF M!WaitForExit
    <3>3. CASE M!WaitGivesUp(t)
      BY <2>3, <3>3 DEF M!WaitGivesUp
    <3>4. CASE M!Stage(t)
      BY <2>3, <3>4 DEF M!Stage, M!Throw
    <3>5. CASE M!Copy(t)
      BY <2>3, <3>5 DEF M!Copy, M!Throw
    <3>6. CASE M!Verify(t)
      BY <2>3, <3>6 DEF M!Verify, M!Throw, M!HasExpectedSha256
    <3>7. CASE M!Backup(t)
      BY <2>3, <3>7 DEF M!Backup, M!Throw
    <3>8. CASE M!Place(t)
      BY <2>3, <3>8 DEF M!Place, M!Throw
    <3>9. CASE M!StartTarget(t)
      BY <2>3, <3>9 DEF M!StartTarget, M!Throw, M!CanStart, M!Builds
    <3>10. CASE M!MarkerSeen(t)
      BY <2>3, <3>10 DEF M!MarkerSeen
    <3>11. CASE M!MarkerNotSeen(t)
      BY <2>3, <3>11 DEF M!MarkerNotSeen
    <3>12. CASE M!HasExited(t)
      BY <2>3, <3>12 DEF M!HasExited
    <3>13. CASE M!Deadline(t)
      BY <2>3, <3>13 DEF M!Deadline
    <3>14. CASE M!NotHealthy(t)
      BY <2>3, <3>14 DEF M!NotHealthy
    <3>15. CASE M!TryTerminate(t)
      BY <2>3, <3>15 DEF M!TryTerminate
    <3>16. CASE M!Catch(t)
      BY <2>3, <3>16 DEF M!Catch
    <3>17. CASE M!RestoreDeletes(t)
      BY <2>3, <3>17 DEF M!RestoreDeletes, M!CanDelete, M!InUse
    <3>18. CASE M!RestoreMoves(t)
      BY <2>3, <3>18 DEF M!RestoreMoves
    <3>19. CASE M!TryStartRestored(t)
      BY <2>3, <3>19 DEF M!TryStartRestored, M!CanStart, M!Builds
    <3>20. CASE M!DeleteBackup(t)
      BY <2>3, <3>20 DEF M!DeleteBackup, M!CanDelete, M!InUse
    <3>21. CASE M!DeleteDirectory(t)
      BY <2>3, <3>21 DEF M!DeleteDirectory
    <3> QED
      BY <2>3, <3>1, <3>2, <3>3, <3>4, <3>5, <3>6, <3>7, <3>8, <3>9, <3>10, <3>11, <3>12,
         <3>13, <3>14, <3>15, <3>16, <3>17, <3>18, <3>19, <3>20, <3>21 DEF M!Step
  <2>4. CASE UNCHANGED <<vars, frontend>>
    BY <2>4 DEF vars
  <2> QED
    BY <2>1, <2>2, <2>3, <2>4 DEF Next
<1> QED
  BY <1>1, <1>2, TypeCorrect, VerifiedInvariant, PTL DEF Spec

\* When stubs run one after another, the build last confirmed to run is always
\* at the target or in a backup, through failures, crashes and power losses.
THEOREM NeverLost == ASSUME ~Overlap PROVE Spec => []NoLoss
<1>1. SequentialInv => NoLoss
  BY DEF SequentialInv
<1> QED
  BY <1>1, SequentialInvariant, PTL
-----------------------------------------------------------------------------
\* The native stub has moved the target away and has not yet brought it back.
Trial == {"place", "undo", "start", "health", "lastCheck", "terminate", "remove", "restore"}

\* The inductive form of HonestCodes.  As long as no stub has crashed or reported 40,
\* the confirmed build is at the target, or in the backup of the one stub on trial,
\* which knows that it has a backup to restore.  A code once decided stays.
HonestInv ==
  frontend = "native" =>
    /\ \A t \in Txns : exitCode[t] # NoCode => pc[t] \in {"cleanup", "done", "crashed"}
    /\ good # NoFile /\ ~Reported({40}) =>
         /\ (\A t \in Txns : pc[t] \notin Trial) => target = good
         /\ \A t \in Txns : pc[t] \in Trial => backup[t] = good
         /\ \A t \in Txns : pc[t] \in Trial \cup {"backup"} => prior[t] # NoFile

\* HonestInv is an invariant of stubs that run one after another.
LEMMA HonestInvariant == ASSUME ~Overlap PROVE Spec => []HonestInv
<1> USE InstallAssumption DEF Builds, Contents, Ended, Labels, NoCode, Trial, Before
<1>1. StubsInit => HonestInv
  BY StartsAsInit DEF Init, HonestInv
<1>2. TypeOK /\ SequentialInv /\ HonestInv /\ [Next]_<<vars, frontend>> => HonestInv'
  <2> SUFFICES ASSUME TypeOK, SequentialInv, HonestInv, [Next]_<<vars, frontend>>
               PROVE  HonestInv'
    OBVIOUS
  <2> USE DEF TypeOK, SequentialInv, HonestInv, Reported, OnTrial, RollsBack,
          Active,
          disk, procs, stub, history, N!disk, N!procs, N!stub, N!history, N!Goto, N!Decide,
          M!disk, M!procs, M!stub, M!history, M!Goto, M!Decide, NativeStep, ManagedStep
  <2>1. CASE Env /\ UNCHANGED frontend
    <3>1. ASSUME NEW t \in Txns, Launch(t) PROVE HonestInv'
      BY <2>1, <3>1 DEF Launch
    <3>2. ASSUME NEW t \in Txns, ParentExits(t) PROVE HonestInv'
      BY <2>1, <3>2 DEF ParentExits
    <3>3. ASSUME NEW t \in Txns, WritesMarker(t) PROVE HonestInv'
      BY <2>1, <3>3 DEF WritesMarker
    <3>4. ASSUME NEW t \in Txns, ChildExits(t) PROVE HonestInv'
      BY <2>1, <3>4 DEF ChildExits
    <3>5. ASSUME NEW t \in Txns, Survives(t) PROVE HonestInv'
      BY <2>1, <3>5 DEF Survives
    <3>6. ASSUME NEW t \in Txns, PayloadDamaged(t) PROVE HonestInv'
      BY <2>1, <3>6 DEF PayloadDamaged
    <3>7. ASSUME NEW t \in Txns, Crash(t) PROVE HonestInv'
      BY <2>1, <3>7 DEF Crash
    <3>8. ASSUME NEW b \in Builds, HostExits(b) PROVE HonestInv'
      BY <2>1, <3>8 DEF HostExits
    <3>9. CASE UserStarts
      BY <2>1, <3>9 DEF UserStarts
    <3>10. CASE PowerLoss
      BY <2>1, <3>10 DEF PowerLoss
    <3> QED
      BY <2>1, <3>1, <3>2, <3>3, <3>4, <3>5, <3>6, <3>7, <3>8, <3>9, <3>10 DEF Env, EnvOf
  <2>2. ASSUME NEW t \in Txns, NativeStep(t) PROVE HonestInv'
    <3>1. CASE N!ReadTransaction(t)
      BY <2>2, <3>1 DEF N!ReadTransaction
    <3>2. CASE N!WaitForExit(t)
      BY <2>2, <3>2 DEF N!WaitForExit
    <3>3. CASE N!WaitGivesUp(t)
      BY <2>2, <3>3 DEF N!WaitGivesUp
    <3>4. CASE N!Stage(t)
      BY <2>2, <3>4 DEF N!Stage
    <3>5. CASE N!Copy(t)
      BY <2>2, <3>5 DEF N!Copy, N!Copied
    <3>6. CASE N!CheckTarget(t)
      BY <2>2, <3>6 DEF N!CheckTarget
    <3>7. CASE N!Backup(t)
      BY <2>2, <3>7 DEF N!Backup
    <3>8. CASE N!Place(t)
      BY <2>2, <3>8 DEF N!Place
    <3>9. CASE N!UndoBackup(t)
      BY <2>2, <3>9 DEF N!UndoBackup, N!BackToTarget
    <3>10. CASE N!Start(t)
      BY <2>2, <3>10 DEF N!Start, N!CanStart, N!Builds
    <3>11. CASE N!MarkerSeen(t)
      BY <2>2, <3>11 DEF N!MarkerSeen
    <3>12. CASE N!HealthLoopEnds(t)
      BY <2>2, <3>12 DEF N!HealthLoopEnds
    <3>13. CASE N!NotHealthy(t)
      BY <2>2, <3>13 DEF N!NotHealthy
    <3>14. CASE N!Terminate(t)
      BY <2>2, <3>14 DEF N!Terminate
    <3>15. CASE N!RemoveNew(t)
      BY <2>2, <3>15 DEF N!RemoveNew, N!CanDelete, N!InUse
    <3>16. CASE N!Restore(t)
      BY <2>2, <3>16 DEF N!Restore, N!BackToTarget
    <3>17. CASE N!Restart(t)
      BY <2>2, <3>17 DEF N!Restart, N!CanStart, N!Builds
    <3>18. CASE N!RemoveBackup(t)
      BY <2>2, <3>18 DEF N!RemoveBackup, N!CanDelete, N!InUse
    <3>19. CASE N!Cleanup(t)
      BY <2>2, <3>19 DEF N!Cleanup
    <3> QED
      BY <2>2, <3>1, <3>2, <3>3, <3>4, <3>5, <3>6, <3>7, <3>8, <3>9, <3>10, <3>11, <3>12,
         <3>13, <3>14, <3>15, <3>16, <3>17, <3>18, <3>19 DEF N!Step
  <2>3. ASSUME NEW t \in Txns, ManagedStep(t) PROVE HonestInv'
    <3>1. CASE M!ReadTransaction(t)
      BY <2>3, <3>1 DEF M!ReadTransaction
    <3>2. CASE M!WaitForExit(t)
      BY <2>3, <3>2 DEF M!WaitForExit
    <3>3. CASE M!WaitGivesUp(t)
      BY <2>3, <3>3 DEF M!WaitGivesUp
    <3>4. CASE M!Stage(t)
      BY <2>3, <3>4 DEF M!Stage, M!Throw
    <3>5. CASE M!Copy(t)
      BY <2>3, <3>5 DEF M!Copy, M!Throw
    <3>6. CASE M!Verify(t)
      BY <2>3, <3>6 DEF M!Verify, M!Throw, M!HasExpectedSha256
    <3>7. CASE M!Backup(t)
      BY <2>3, <3>7 DEF M!Backup, M!Throw
    <3>8. CASE M!Place(t)
      BY <2>3, <3>8 DEF M!Place, M!Throw
    <3>9. CASE M!StartTarget(t)
      BY <2>3, <3>9 DEF M!StartTarget, M!Throw, M!CanStart, M!Builds
    <3>10. CASE M!MarkerSeen(t)
      BY <2>3, <3>10 DEF M!MarkerSeen
    <3>11. CASE M!MarkerNotSeen(t)
      BY <2>3, <3>11 DEF M!MarkerNotSeen
    <3>12. CASE M!HasExited(t)
      BY <2>3, <3>12 DEF M!HasExited
    <3>13. CASE M!Deadline(t)
      BY <2>3, <3>13 DEF M!Deadline
    <3>14. CASE M!NotHealthy(t)
      BY <2>3, <3>14 DEF M!NotHealthy
    <3>15. CASE M!TryTerminate(t)
      BY <2>3, <3>15 DEF M!TryTerminate
    <3>16. CASE M!Catch(t)
      BY <2>3, <3>16 DEF M!Catch
    <3>17. CASE M!RestoreDeletes(t)
      BY <2>3, <3>17 DEF M!RestoreDeletes, M!CanDelete, M!InUse
    <3>18. CASE M!RestoreMoves(t)
      BY <2>3, <3>18 DEF M!RestoreMoves
    <3>19. CASE M!TryStartRestored(t)
      BY <2>3, <3>19 DEF M!TryStartRestored, M!CanStart, M!Builds
    <3>20. CASE M!DeleteBackup(t)
      BY <2>3, <3>20 DEF M!DeleteBackup, M!CanDelete, M!InUse
    <3>21. CASE M!DeleteDirectory(t)
      BY <2>3, <3>21 DEF M!DeleteDirectory
    <3> QED
      BY <2>3, <3>1, <3>2, <3>3, <3>4, <3>5, <3>6, <3>7, <3>8, <3>9, <3>10, <3>11, <3>12,
         <3>13, <3>14, <3>15, <3>16, <3>17, <3>18, <3>19, <3>20, <3>21 DEF M!Step
  <2>4. CASE UNCHANGED <<vars, frontend>>
    BY <2>4 DEF vars
  <2> QED
    BY <2>1, <2>2, <2>3, <2>4 DEF Next
<1> QED
  BY <1>1, <1>2, TypeCorrect, SequentialInvariant, PTL DEF Spec

\* The managed stub is on the way back: it has thrown, or the build was not healthy.
Back == {"catch", "remove", "restore", "restart"}

\* The inductive form of HonestSuccess.  The managed stub decides for 30 or 40 before it
\* rolls back; until then the confirmed build is at the target or this stub has moved it.
SuccessInv ==
  frontend # "native" =>
    /\ \A t \in Txns :
         /\ exitCode[t] # NoCode => pc[t] \in Back \cup {"cleanup", "done", "crashed"}
         /\ pc[t] \in Back => exitCode[t] \in {30, 40}
    /\ good # NoFile /\ ~Reported({30, 40}) =>
         \/ target = good
         \/ \E t \in Txns :
              pc[t] \in {"place", "start", "health", "exitCheck", "lastCheck", "terminate"}

\* SuccessInv is an invariant of stubs that run one after another.
LEMMA SuccessInvariant == ASSUME ~Overlap PROVE Spec => []SuccessInv
<1> USE InstallAssumption DEF Builds, Contents, Ended, Labels, NoCode, Back, Before
<1>1. StubsInit => SuccessInv
  BY StartsAsInit DEF Init, SuccessInv
<1>2. TypeOK /\ SequentialInv /\ SuccessInv /\ [Next]_<<vars, frontend>> => SuccessInv'
  <2> SUFFICES ASSUME TypeOK, SequentialInv, SuccessInv, [Next]_<<vars, frontend>>
               PROVE  SuccessInv'
    OBVIOUS
  <2> USE DEF TypeOK, SequentialInv, NoLoss, SuccessInv, Reported, OnTrial, RollsBack,
          Active,
          disk, procs, stub, history, N!disk, N!procs, N!stub, N!history, N!Goto, N!Decide,
          M!disk, M!procs, M!stub, M!history, M!Goto, M!Decide, NativeStep, ManagedStep
  <2>1. CASE Env /\ UNCHANGED frontend
    <3>1. ASSUME NEW t \in Txns, Launch(t) PROVE SuccessInv'
      BY <2>1, <3>1 DEF Launch
    <3>2. ASSUME NEW t \in Txns, ParentExits(t) PROVE SuccessInv'
      BY <2>1, <3>2 DEF ParentExits
    <3>3. ASSUME NEW t \in Txns, WritesMarker(t) PROVE SuccessInv'
      BY <2>1, <3>3 DEF WritesMarker
    <3>4. ASSUME NEW t \in Txns, ChildExits(t) PROVE SuccessInv'
      BY <2>1, <3>4 DEF ChildExits
    <3>5. ASSUME NEW t \in Txns, Survives(t) PROVE SuccessInv'
      BY <2>1, <3>5 DEF Survives
    <3>6. ASSUME NEW t \in Txns, PayloadDamaged(t) PROVE SuccessInv'
      BY <2>1, <3>6 DEF PayloadDamaged
    <3>7. ASSUME NEW t \in Txns, Crash(t) PROVE SuccessInv'
      BY <2>1, <3>7 DEF Crash
    <3>8. ASSUME NEW b \in Builds, HostExits(b) PROVE SuccessInv'
      BY <2>1, <3>8 DEF HostExits
    <3>9. CASE UserStarts
      BY <2>1, <3>9 DEF UserStarts
    <3>10. CASE PowerLoss
      BY <2>1, <3>10 DEF PowerLoss
    <3> QED
      BY <2>1, <3>1, <3>2, <3>3, <3>4, <3>5, <3>6, <3>7, <3>8, <3>9, <3>10 DEF Env, EnvOf
  <2>2. ASSUME NEW t \in Txns, NativeStep(t) PROVE SuccessInv'
    <3>1. CASE N!ReadTransaction(t)
      BY <2>2, <3>1 DEF N!ReadTransaction
    <3>2. CASE N!WaitForExit(t)
      BY <2>2, <3>2 DEF N!WaitForExit
    <3>3. CASE N!WaitGivesUp(t)
      BY <2>2, <3>3 DEF N!WaitGivesUp
    <3>4. CASE N!Stage(t)
      BY <2>2, <3>4 DEF N!Stage
    <3>5. CASE N!Copy(t)
      BY <2>2, <3>5 DEF N!Copy, N!Copied
    <3>6. CASE N!CheckTarget(t)
      BY <2>2, <3>6 DEF N!CheckTarget
    <3>7. CASE N!Backup(t)
      BY <2>2, <3>7 DEF N!Backup
    <3>8. CASE N!Place(t)
      BY <2>2, <3>8 DEF N!Place
    <3>9. CASE N!UndoBackup(t)
      BY <2>2, <3>9 DEF N!UndoBackup, N!BackToTarget
    <3>10. CASE N!Start(t)
      BY <2>2, <3>10 DEF N!Start, N!CanStart, N!Builds
    <3>11. CASE N!MarkerSeen(t)
      BY <2>2, <3>11 DEF N!MarkerSeen
    <3>12. CASE N!HealthLoopEnds(t)
      BY <2>2, <3>12 DEF N!HealthLoopEnds
    <3>13. CASE N!NotHealthy(t)
      BY <2>2, <3>13 DEF N!NotHealthy
    <3>14. CASE N!Terminate(t)
      BY <2>2, <3>14 DEF N!Terminate
    <3>15. CASE N!RemoveNew(t)
      BY <2>2, <3>15 DEF N!RemoveNew, N!CanDelete, N!InUse
    <3>16. CASE N!Restore(t)
      BY <2>2, <3>16 DEF N!Restore, N!BackToTarget
    <3>17. CASE N!Restart(t)
      BY <2>2, <3>17 DEF N!Restart, N!CanStart, N!Builds
    <3>18. CASE N!RemoveBackup(t)
      BY <2>2, <3>18 DEF N!RemoveBackup, N!CanDelete, N!InUse
    <3>19. CASE N!Cleanup(t)
      BY <2>2, <3>19 DEF N!Cleanup
    <3> QED
      BY <2>2, <3>1, <3>2, <3>3, <3>4, <3>5, <3>6, <3>7, <3>8, <3>9, <3>10, <3>11, <3>12,
         <3>13, <3>14, <3>15, <3>16, <3>17, <3>18, <3>19 DEF N!Step
  <2>3. ASSUME NEW t \in Txns, ManagedStep(t) PROVE SuccessInv'
    <3>1. CASE M!ReadTransaction(t)
      BY <2>3, <3>1 DEF M!ReadTransaction
    <3>2. CASE M!WaitForExit(t)
      BY <2>3, <3>2 DEF M!WaitForExit
    <3>3. CASE M!WaitGivesUp(t)
      BY <2>3, <3>3 DEF M!WaitGivesUp
    <3>4. CASE M!Stage(t)
      BY <2>3, <3>4 DEF M!Stage, M!Throw
    <3>5. CASE M!Copy(t)
      BY <2>3, <3>5 DEF M!Copy, M!Throw
    <3>6. CASE M!Verify(t)
      BY <2>3, <3>6 DEF M!Verify, M!Throw, M!HasExpectedSha256
    <3>7. CASE M!Backup(t)
      BY <2>3, <3>7 DEF M!Backup, M!Throw
    <3>8. CASE M!Place(t)
      BY <2>3, <3>8 DEF M!Place, M!Throw
    <3>9. CASE M!StartTarget(t)
      BY <2>3, <3>9 DEF M!StartTarget, M!Throw, M!CanStart, M!Builds
    <3>10. CASE M!MarkerSeen(t)
      BY <2>3, <3>10 DEF M!MarkerSeen
    <3>11. CASE M!MarkerNotSeen(t)
      BY <2>3, <3>11 DEF M!MarkerNotSeen
    <3>12. CASE M!HasExited(t)
      BY <2>3, <3>12 DEF M!HasExited
    <3>13. CASE M!Deadline(t)
      BY <2>3, <3>13 DEF M!Deadline
    <3>14. CASE M!NotHealthy(t)
      BY <2>3, <3>14 DEF M!NotHealthy
    <3>15. CASE M!TryTerminate(t)
      BY <2>3, <3>15 DEF M!TryTerminate
    <3>16. CASE M!Catch(t)
      BY <2>3, <3>16 DEF M!Catch
    <3>17. CASE M!RestoreDeletes(t)
      BY <2>3, <3>17 DEF M!RestoreDeletes, M!CanDelete, M!InUse
    <3>18. CASE M!RestoreMoves(t)
      BY <2>3, <3>18 DEF M!RestoreMoves
    <3>19. CASE M!TryStartRestored(t)
      BY <2>3, <3>19 DEF M!TryStartRestored, M!CanStart, M!Builds
    <3>20. CASE M!DeleteBackup(t)
      BY <2>3, <3>20 DEF M!DeleteBackup, M!CanDelete, M!InUse
    <3>21. CASE M!DeleteDirectory(t)
      BY <2>3, <3>21 DEF M!DeleteDirectory
    <3> QED
      BY <2>3, <3>1, <3>2, <3>3, <3>4, <3>5, <3>6, <3>7, <3>8, <3>9, <3>10, <3>11, <3>12,
         <3>13, <3>14, <3>15, <3>16, <3>17, <3>18, <3>19, <3>20, <3>21 DEF M!Step
  <2>4. CASE UNCHANGED <<vars, frontend>>
    BY <2>4 DEF vars
  <2> QED
    BY <2>1, <2>2, <2>3, <2>4 DEF Next
<1> QED
  BY <1>1, <1>2, TypeCorrect, SequentialInvariant, PTL DEF Spec

\* When stubs run one after another and each has ended by itself, the exit codes tell the
\* truth: unless a native stub reports 40, or a managed one 30 or 40, the target holds the
\* build last confirmed.
THEOREM CodesAreTrue == ASSUME ~Overlap PROVE Spec => []TrueCodes
<1>1. HonestInv /\ frontend = "native" => HonestCodes
  BY DEF HonestInv, HonestCodes, Quiet, Active, Ended, Trial
<1>2. SuccessInv /\ frontend # "native" => HonestSuccess
  BY DEF SuccessInv, HonestSuccess, Quiet, Active, Ended
<1>3. HonestInv /\ SuccessInv => TrueCodes
  BY <1>1, <1>2 DEF TrueCodes
<1> QED
  BY <1>3, HonestInvariant, SuccessInvariant, PTL
-----------------------------------------------------------------------------
\* What a step means at the level of HealthConfirmedInstall.
Abstract == Promise!Next \/ UNCHANGED Promise!vars

\* A step that moves a stub between two states in which it is active, and
\* confirms nothing, leaves every outcome as it is.
LEMMA StillOpen ==
  ASSUME TypeOK, NEW t \in Txns, NEW l \in Labels \ Ended,
         Active(t), Goto(t, l), UNCHANGED confirmed
  PROVE  Outcome' = Outcome
BY DEF TypeOK, Outcome, Active, Goto, Ended, Labels

\* A stub that ends without having confirmed its build closes its transaction.
LEMMA Closes ==
  ASSUME TypeOK, NEW t \in Txns, NEW l \in {"done", "crashed"},
         Active(t), Goto(t, l), UNCHANGED <<good, confirmed, target, backup>>
  PROVE  Abstract
<1>1. Copies' = Copies
  BY DEF Copies
<1>2. CASE t \in confirmed
  <2>1. Outcome' = Outcome
    BY <1>2 DEF TypeOK, Outcome, Active, Goto, Ended, Labels
  <2> QED
    BY <1>1, <2>1 DEF Abstract, Promise!vars
<1>3. CASE t \notin confirmed
  <2>1. Outcome[t] = "open"
    BY <1>3 DEF TypeOK, Outcome, Active, Ended
  <2>2. Outcome'[t] = "closed"
    BY <1>3 DEF TypeOK, Outcome, Active, Goto, Ended
  <2>3. \A u \in Txns \ {t} : Outcome'[u] = Outcome[u]
    BY <1>3 DEF TypeOK, Outcome, Active, Goto
  <2>4. Outcome' = [Outcome EXCEPT ![t] = "closed"]
    BY <2>2, <2>3 DEF Outcome
  <2>5. Promise!Close(t)
    BY <1>1, <2>1, <2>4 DEF Promise!Close
  <2> QED
    BY <2>5 DEF Abstract, Promise!Next
<1> QED
  BY <1>2, <1>3

\* Moving the content of one path to a path that did not exist changes no copy.
LEMMA MoveKeepsCopies ==
  ASSUME TypeOK, InstallAssumption, NEW t \in Txns,
         \/ /\ backup[t] = NoFile
            /\ backup' = [backup EXCEPT ![t] = target]
            /\ target' = NoFile
         \/ N!BackToTarget(t)
  PROVE  Copies' = Copies
<1> USE DEF TypeOK, InstallAssumption, Builds, Copies
<1>1. CASE N!BackToTarget(t)
  BY <1>1 DEF N!BackToTarget
<1>2. CASE ~N!BackToTarget(t)
  BY <1>2
<1> QED
  BY <1>1, <1>2

\* An open transaction that moves the staged build into the empty target places a copy;
\* content that is not a build is no copy.
LEMMA Places ==
  ASSUME InstallAssumption, TypeOK, NEW t \in Txns, Outcome[t] = "open", Outcome' = Outcome,
         target = NoFile, target' \in {t, Torn, NoFile}, UNCHANGED <<backup, good>>
  PROVE  Abstract
<1>1. CASE target' = t
  <2>1. Copies' = Copies \cup {t}
    BY <1>1 DEF Copies, Builds, InstallAssumption
  <2>2. Promise!Place(t)
    BY <2>1 DEF Promise!Place
  <2> QED
    BY <2>2 DEF Abstract, Promise!Next
<1>2. CASE target' \in {Torn, NoFile}
  <2>1. Copies' = Copies
    BY <1>2 DEF Copies, Builds, InstallAssumption
  <2> QED
    BY <2>1 DEF Abstract, Promise!vars
<1> QED
  BY <1>1, <1>2

\* Deleting the build on trial, or what is left of it, drops at most that copy.
LEMMA DropsTrial ==
  ASSUME InstallAssumption, TypeOK, NEW t \in Txns, OnTrial(t), Outcome' = Outcome,
         target' = NoFile, UNCHANGED <<backup, good>>
  PROVE  Abstract
<1>1. CASE target = t
  <2>1. t \in Copies /\ Copies' = Copies \ {t} /\ t # good
    BY <1>1 DEF OnTrial, Copies, Builds, InstallAssumption
  <2>2. Promise!Drop(t)
    BY <2>1 DEF Promise!Drop
  <2> QED
    BY <2>2 DEF Abstract, Promise!Next, Promise!Builds
<1>2. CASE target # t
  <2>1. Copies' = Copies
    BY <1>2 DEF OnTrial, Copies, Builds, InstallAssumption
  <2> QED
    BY <2>1 DEF Abstract, Promise!vars
<1> QED
  BY <1>1, <1>2

\* Deleting a backup while the confirmed build is at the target drops at most another copy.
LEMMA DropsBackup ==
  ASSUME InstallAssumption, TypeOK, NEW t \in Txns, target = good, Outcome' = Outcome,
         backup' = [backup EXCEPT ![t] = NoFile], UNCHANGED <<target, good>>
  PROVE  Abstract
<1>1. CASE Copies' = Copies
  BY <1>1 DEF Abstract, Promise!vars
<1>2. CASE Copies' # Copies
  <2>1. backup[t] \in Copies /\ Copies' = Copies \ {backup[t]} /\ backup[t] # good
    BY <1>2 DEF Copies, TypeOK, Contents, InstallAssumption, Builds
  <2>2. backup[t] \in Builds
    BY <2>1 DEF Copies
  <2>3. Promise!Drop(backup[t])
    BY <2>1 DEF Promise!Drop
  <2> QED
    BY <2>2, <2>3 DEF Abstract, Promise!Next, Promise!Builds, Builds
<1> QED
  BY <1>1, <1>2

\* A transaction confirms the build that is at the target.
LEMMA Confirms ==
  ASSUME TypeOK, NEW t \in Txns, Active(t), t \notin confirmed, target = t, good' = t,
         confirmed' = confirmed \cup {t}, Goto(t, "commit"), UNCHANGED <<target, backup>>
  PROVE  Abstract
<1>1. t \in Copies /\ Copies' = Copies
  BY DEF Copies, Builds
<1>2. Outcome[t] = "open"
  BY DEF Outcome, Active, Ended
<1>3. \A u \in Txns \ {t} : Outcome'[u] = Outcome[u]
  BY DEF Outcome, Active, Goto, TypeOK
<1>4. Outcome' = [Outcome EXCEPT ![t] = "committed"]
  BY <1>3 DEF Outcome
<1>5. Promise!Confirm(t)
  BY <1>1, <1>2, <1>4 DEF Promise!Confirm
<1> QED
  BY <1>5 DEF Abstract, Promise!Next

\* When stubs run one after another, either stub does what HealthConfirmedInstall
\* promises: a copy appears only by placing the build of an open transaction, the
\* confirmed build is never dropped, and a build is confirmed only by its own open
\* transaction while it is on disk.
THEOREM KeepsPromise == ASSUME ~Overlap PROVE Spec => Promise!Safety
<1> USE InstallAssumption
<1>1. StubsInit => Promise!Init
  BY StartsAsInit DEF Init, Promise!Init, Copies, Outcome, Builds
<1>2. TypeOK /\ VerifiedInv /\ SequentialInv /\ [Next]_<<vars, frontend>> =>
        [Promise!Next]_(Promise!vars)
  <2> SUFFICES ASSUME TypeOK, VerifiedInv, SequentialInv, [Next]_<<vars, frontend>>
               PROVE  Abstract
    BY DEF Abstract
  <2>u. ASSUME UNCHANGED <<target, backup, good>>, Outcome' = Outcome PROVE Abstract
    BY <2>u DEF Abstract, Copies, Promise!vars
  <2>m. ASSUME NEW t \in Txns, NEW l \in Labels \ Ended, Active(t), Goto(t, l),
               UNCHANGED <<target, backup, good, confirmed>>
        PROVE  Abstract
    BY <2>m, <2>u, StillOpen
  <2>1. ASSUME NEW t \in Txns, Launch(t) PROVE Abstract
    <3>1. Outcome[t] = "idle"
      BY <2>1 DEF Launch, SequentialInv, NotInstalled, Before, Outcome
    <3>2. Outcome'[t] = "open"
      BY <2>1 DEF Launch, TypeOK, SequentialInv, NotInstalled, Before, Outcome, Active,
         Ended, history
    <3>3. \A u \in Txns \ {t} : Outcome'[u] = Outcome[u]
      BY <2>1 DEF Launch, TypeOK, Outcome, Active, history
    <3>4. Outcome' = [Outcome EXCEPT ![t] = "open"]
      BY <3>2, <3>3 DEF Outcome
    <3>5. Promise!Begin(t)
      BY <2>1, <3>1, <3>4 DEF Launch, Promise!Begin, Copies, history
    <3> QED
      BY <3>5 DEF Abstract, Promise!Next
  <2>2. ASSUME NEW t \in Txns,
               ParentExits(t) \/ WritesMarker(t) \/ ChildExits(t) \/ Survives(t) \/
                       PayloadDamaged(t)
        PROVE  Abstract
    BY <2>2, <2>u DEF ParentExits, WritesMarker, ChildExits, Survives, PayloadDamaged,
       disk, stub, history, Outcome, Active
  <2>3. ASSUME NEW t \in Txns, Crash(t) PROVE Abstract
    BY <2>3, Closes DEF Crash, Goto, disk, history
  <2>4. ASSUME NEW b \in Builds, HostExits(b) PROVE Abstract
    BY <2>4, <2>u DEF HostExits, disk, stub, history, Outcome, Active
  <2>5. CASE UserStarts
    BY <2>5, <2>u DEF UserStarts, disk, stub, history, Outcome, Active
  <2>6. CASE PowerLoss
    <3>1. Outcome' = [t \in Txns |-> IF Outcome[t] = "open" THEN "closed" ELSE Outcome[t]]
      BY <2>6 DEF PowerLoss, history, TypeOK, Outcome, Active, Ended, Labels
    <3>2. Promise!CloseAll
      BY <2>6, <3>1 DEF PowerLoss, Promise!CloseAll, Copies, disk, history
    <3> QED
      BY <3>2 DEF Abstract, Promise!Next
  <2>7. ASSUME NEW t \in Txns, NativeStep(t) PROVE Abstract
    <3> USE DEF N!disk, N!history, N!Goto, N!Decide, Goto, Active, Ended, Labels
    <3>1. CASE N!ReadTransaction(t)
      <4>1. CASE Goto(t, "wait")
        BY <3>1, <4>1, <2>m DEF N!ReadTransaction
      <4>2. CASE Goto(t, "done")
        BY <3>1, <4>2, Closes DEF N!ReadTransaction
      <4> QED
        BY <3>1, <4>1, <4>2 DEF N!ReadTransaction
    <3>2. CASE \/ N!WaitForExit(t) \/ N!WaitGivesUp(t) \/ N!Stage(t) \/ N!Copy(t)
               \/ N!CheckTarget(t) \/ N!Start(t) \/ N!HealthLoopEnds(t)
               \/ N!NotHealthy(t) \/ N!Terminate(t) \/ N!Restart(t)
      <4>1. PICK l \in Labels \ Ended : Goto(t, l)
        BY <3>2 DEF N!WaitForExit, N!WaitGivesUp, N!Stage, N!Copy, N!CheckTarget,
           N!Start, N!HealthLoopEnds, N!NotHealthy, N!Terminate, N!Restart
      <4>2. Active(t) /\ UNCHANGED <<target, backup, good, confirmed>>
        BY <3>2 DEF N!WaitForExit, N!WaitGivesUp, N!Stage, N!Copy, N!CheckTarget,
           N!Start, N!HealthLoopEnds, N!NotHealthy, N!Terminate, N!Restart
      <4> QED
        BY <4>1, <4>2, <2>m
    <3>3. CASE N!Backup(t) \/ N!UndoBackup(t) \/ N!Restore(t)
      <4>1. PICK l \in Labels \ Ended : Goto(t, l)
        BY <3>3 DEF N!Backup, N!UndoBackup, N!Restore
      <4>2. Active(t) /\ UNCHANGED <<good, confirmed>>
        BY <3>3 DEF N!Backup, N!UndoBackup, N!Restore
      <4>3. Outcome' = Outcome
        BY <4>1, <4>2, StillOpen
      <4>4. CASE UNCHANGED <<target, backup>>
        BY <4>2, <4>3, <4>4, <2>u
      <4>5. CASE ~UNCHANGED <<target, backup>>
        <5>1. Copies' = Copies
          BY <3>3, <4>5, MoveKeepsCopies DEF N!Backup, N!UndoBackup, N!Restore
        <5> QED
          BY <4>2, <4>3, <5>1 DEF Abstract, Promise!vars
      <4> QED
        BY <4>4, <4>5
    <3>4. CASE N!Place(t)
      <4>1. PICK l \in Labels \ Ended : Goto(t, l)
        BY <3>4 DEF N!Place
      <4>2. Active(t) /\ UNCHANGED <<good, confirmed, backup>>
        BY <3>4 DEF N!Place
      <4>3. Outcome' = Outcome
        BY <4>1, <4>2, StillOpen
      <4>4. Outcome[t] = "open" /\ target = NoFile
        BY <3>4 DEF N!Place, SequentialInv, NotInstalled, Outcome
      <4>5. target' \in {t, Torn, NoFile}
        BY <3>4, <4>4 DEF N!Place, SequentialInv
      <4> QED
        BY <4>2, <4>3, <4>4, <4>5, Places
    <3>5. CASE N!MarkerSeen(t)
      <4>1. t \notin confirmed /\ target = t
        BY <3>5 DEF N!MarkerSeen, SequentialInv, OnTrial
      <4> QED
        BY <3>5, <4>1, Confirms DEF N!MarkerSeen
    <3>6. CASE N!RemoveNew(t)
      <4>1. PICK l \in Labels \ Ended : Goto(t, l)
        BY <3>6 DEF N!RemoveNew
      <4>2. Active(t) /\ UNCHANGED <<good, confirmed, backup>>
        BY <3>6 DEF N!RemoveNew
      <4>3. Outcome' = Outcome
        BY <4>1, <4>2, StillOpen
      <4>4. OnTrial(t)
        BY <2>7, <3>6 DEF N!RemoveNew, SequentialInv, RollsBack, NativeStep
      <4>5. target' = NoFile \/ UNCHANGED target
        BY <3>6 DEF N!RemoveNew
      <4> QED
        BY <4>2, <4>3, <4>4, <4>5, <2>u, DropsTrial
    <3>7. CASE N!RemoveBackup(t)
      <4>1. Active(t) /\ target = good /\ Goto(t, "cleanup") /\
              UNCHANGED <<good, confirmed, target>>
        BY <3>7 DEF N!RemoveBackup, SequentialInv
      <4>2. Outcome' = Outcome
        BY <4>1, StillOpen
      <4>3. backup' = [backup EXCEPT ![t] = NoFile] \/ UNCHANGED backup
        BY <3>7 DEF N!RemoveBackup
      <4> QED
        BY <4>1, <4>2, <4>3, <2>u, DropsBackup
    <3>8. CASE N!Cleanup(t)
      BY <3>8, Closes DEF N!Cleanup
    <3> QED
      BY <2>7, <3>1, <3>2, <3>3, <3>4, <3>5, <3>6, <3>7, <3>8 DEF NativeStep, N!Step
  <2>8. ASSUME NEW t \in Txns, ManagedStep(t) PROVE Abstract
    <3> USE DEF M!disk, M!history, M!Goto, M!Decide, M!Throw, Goto, Active, Ended, Labels
    <3>1. CASE M!ReadTransaction(t)
      <4>1. CASE Goto(t, "wait")
        BY <3>1, <4>1, <2>m DEF M!ReadTransaction
      <4>2. CASE Goto(t, "done")
        BY <3>1, <4>2, Closes DEF M!ReadTransaction
      <4> QED
        BY <3>1, <4>1, <4>2 DEF M!ReadTransaction
    <3>2. CASE \/ M!WaitForExit(t) \/ M!Stage(t) \/ M!Copy(t) \/ M!Verify(t)
               \/ M!StartTarget(t) \/ M!MarkerNotSeen(t) \/ M!HasExited(t)
               \/ M!Deadline(t) \/ M!NotHealthy(t) \/ M!TryTerminate(t) \/ M!Catch(t)
      <4>1. PICK l \in Labels \ Ended : Goto(t, l)
        BY <3>2 DEF M!WaitForExit, M!Stage, M!Copy, M!Verify, M!StartTarget,
           M!MarkerNotSeen, M!HasExited, M!Deadline, M!NotHealthy, M!TryTerminate, M!Catch
      <4>2. Active(t) /\ UNCHANGED <<target, backup, good, confirmed>>
        BY <3>2 DEF M!WaitForExit, M!Stage, M!Copy, M!Verify, M!StartTarget,
           M!MarkerNotSeen, M!HasExited, M!Deadline, M!NotHealthy, M!TryTerminate, M!Catch
      <4> QED
        BY <4>1, <4>2, <2>m
    <3>3. CASE M!Backup(t) \/ M!RestoreMoves(t)
      <4>1. PICK l \in Labels \ Ended : Goto(t, l)
        BY <3>3 DEF M!Backup, M!RestoreMoves
      <4>2. Active(t) /\ UNCHANGED <<good, confirmed>>
        BY <3>3 DEF M!Backup, M!RestoreMoves
      <4>3. Outcome' = Outcome
        BY <4>1, <4>2, StillOpen
      <4>4. CASE UNCHANGED <<target, backup>>
        BY <4>2, <4>3, <4>4, <2>u
      <4>5. CASE ~UNCHANGED <<target, backup>>
        <5>1. Copies' = Copies
          BY <3>3, <4>5, MoveKeepsCopies DEF M!Backup, M!RestoreMoves, N!BackToTarget
        <5> QED
          BY <4>2, <4>3, <5>1 DEF Abstract, Promise!vars
      <4> QED
        BY <4>4, <4>5
    <3>4. CASE M!Place(t)
      <4>1. PICK l \in Labels \ Ended : Goto(t, l)
        BY <3>4 DEF M!Place
      <4>2. Active(t) /\ UNCHANGED <<good, confirmed, backup>>
        BY <3>4 DEF M!Place
      <4>3. Outcome' = Outcome
        BY <4>1, <4>2, StillOpen
      <4>4. Outcome[t] = "open" /\ target = NoFile
        BY <3>4 DEF M!Place, SequentialInv, NotInstalled, Outcome
      <4>5. target' \in {t, Torn, NoFile}
        BY <3>4, <4>4 DEF M!Place, SequentialInv
      <4> QED
        BY <4>2, <4>3, <4>4, <4>5, Places
    <3>5. CASE M!MarkerSeen(t)
      <4>1. t \notin confirmed /\ target = t
        BY <3>5 DEF M!MarkerSeen, SequentialInv, OnTrial
      <4> QED
        BY <3>5, <4>1, Confirms DEF M!MarkerSeen
    <3>6. CASE M!RestoreDeletes(t)
      <4>1. PICK l \in Labels \ Ended : Goto(t, l)
        BY <3>6 DEF M!RestoreDeletes
      <4>2. Active(t) /\ UNCHANGED <<good, confirmed, backup>>
        BY <3>6 DEF M!RestoreDeletes
      <4>3. Outcome' = Outcome
        BY <4>1, <4>2, StillOpen
      <4>4. CASE UNCHANGED target
        BY <4>2, <4>3, <4>4, <2>u
      <4>5. CASE ~UNCHANGED target
        <5>1. target' = NoFile /\ OnTrial(t)
          BY <3>6, <4>5 DEF M!RestoreDeletes, SequentialInv, RollsBack
        <5> QED
          BY <4>2, <4>3, <5>1, DropsTrial
      <4> QED
        BY <4>4, <4>5
    <3>7. CASE M!DeleteBackup(t)
      <4>1. Active(t) /\ target = good /\ Goto(t, "cleanup") /\
              UNCHANGED <<good, confirmed, target>>
        BY <3>7 DEF M!DeleteBackup, SequentialInv
      <4>2. Outcome' = Outcome
        BY <4>1, StillOpen
      <4>3. backup' = [backup EXCEPT ![t] = NoFile] \/ UNCHANGED backup
        BY <3>7 DEF M!DeleteBackup
      <4> QED
        BY <4>1, <4>2, <4>3, <2>u, DropsBackup
    <3>8. CASE M!WaitGivesUp(t) \/ M!TryStartRestored(t) \/ M!DeleteDirectory(t)
      BY <3>8, Closes DEF M!WaitGivesUp, M!TryStartRestored, M!DeleteDirectory
    <3> QED
      BY <2>8, <3>1, <3>2, <3>3, <3>4, <3>5, <3>6, <3>7, <3>8 DEF ManagedStep, M!Step
  <2>9. CASE UNCHANGED <<vars, frontend>>
    BY <2>9, <2>u DEF vars, disk, stub, history, Outcome, Active
  <2> QED
    BY <2>1, <2>2, <2>3, <2>4, <2>5, <2>6, <2>7, <2>8, <2>9 DEF Next, Env, EnvOf
<1> QED
  BY <1>1, <1>2, TypeCorrect, VerifiedInvariant, SequentialInvariant, PTL DEF Spec,
     Promise!Safety
=============================================================================
