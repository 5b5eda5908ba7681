--------------------------- MODULE RenameStubsProofs ---------------------------
(***************************************************************************)
(* Theorems about the two updater stubs that rename an application, for    *)
(* every set of transactions: their type invariant, that the native stub   *)
(* keeps what had the canonical name, and, while stubs run one after       *)
(* another, that the application is never lost and that exit codes are     *)
(* true.  Managed stubs always run one after another.                      *)
(***************************************************************************)
EXTENDS RenameStubs, TLAPS

\* What a flag of each transaction may be set to.
LEMMA Flags ==
  ASSUME NEW f \in [Txns -> BOOLEAN], NEW t \in Txns, NEW b \in BOOLEAN
  PROVE  [f EXCEPT ![t] = b] \in [Txns -> BOOLEAN]
BY Zenon

\* What a flag is once it is set.
LEMMA SetFlag ==
  ASSUME NEW f \in [Txns -> BOOLEAN], NEW t \in Txns
  PROVE  [f EXCEPT ![t] = TRUE][t] /\ ~[f EXCEPT ![t] = FALSE][t]
BY Zenon

\* Every state of the stubs and of their environment is well-typed.
THEOREM TypeCorrect == Spec => []TypeOK
<1> USE RenameAssumption DEF Contents, Ended, Labels, NoCode, N!NoCode, M!NoCode
<1>1. StubsInit => TypeOK
  BY DEF StubsInit, Init, TypeOK
<1>2. TypeOK /\ [Next]_<<vars, frontend>> => TypeOK'
  <2> SUFFICES ASSUME TypeOK, [Next]_<<vars, frontend>>
               PROVE  TypeOK'
    OBVIOUS
  <2> USE DEF TypeOK, files, procs, stub, N!files, N!procs, N!stub, N!Goto, N!Decide, M!files,
             M!procs, M!stub, M!Goto, M!Decide, NativeStep, ManagedStep
  <2>1. CASE EnvStep
    <3>1. ASSUME NEW t \in Txns, Launch(t) PROVE TypeOK'
      BY <2>1, <3>1 DEF Launch, EnvStep
    <3>2. ASSUME NEW t \in Txns, ParentExits(t) PROVE TypeOK'
      BY <2>1, <3>2 DEF ParentExits, EnvStep
    <3>3. ASSUME NEW t \in Txns, WritesMarker(t) PROVE TypeOK'
      <4>1. marker' \in [Txns -> BOOLEAN]
        BY <2>1, <3>3, Flags DEF WritesMarker
      <4> QED
        BY <2>1, <3>3, <4>1 DEF WritesMarker, EnvStep
    <3>4. ASSUME NEW t \in Txns, ChildExits(t) PROVE TypeOK'
      BY <2>1, <3>4 DEF ChildExits, EnvStep
    <3>5. ASSUME NEW t \in Txns, Survives(t) PROVE TypeOK'
      BY <2>1, <3>5 DEF Survives, EnvStep
    <3>6. ASSUME NEW t \in Txns, Crash(t) PROVE TypeOK'
      BY <2>1, <3>6 DEF Crash, EnvStep
    <3>7. ASSUME NEW c \in {App, Prior}, HostExits(c) PROVE TypeOK'
      BY <2>1, <3>7 DEF HostExits, EnvStep
    <3>8. CASE UserStarts
      BY <2>1, <3>8 DEF UserStarts, EnvStep
    <3>9. CASE PowerLoss
      BY <2>1, <3>9 DEF PowerLoss, EnvStep
    <3> QED
      BY <2>1, <3>1, <3>2, <3>3, <3>4, <3>5, <3>6, <3>7, <3>8, <3>9 DEF EnvStep, Env,
         EnvOf
  <2>2. ASSUME NEW t \in Txns, NativeStep(t) PROVE TypeOK'
    <3>1. CASE N!ReadTransaction(t)
      BY <2>2, <3>1 DEF N!ReadTransaction
    <3>2. CASE N!WaitForExit(t)
      BY <2>2, <3>2 DEF N!WaitForExit
    <3>3. CASE N!WaitGivesUp(t)
      BY <2>2, <3>3 DEF N!WaitGivesUp
    <3>4. CASE N!CheckTarget(t)
      <4>1. marker' \in [Txns -> BOOLEAN] /\ present' \in [Txns -> BOOLEAN]
        BY <2>2, <3>4, Flags DEF N!CheckTarget
      <4> QED
        BY <2>2, <3>4, <4>1 DEF N!CheckTarget
    <3>5. CASE N!Backup(t)
      BY <2>2, <3>5 DEF N!Backup, N!TargetToBackup
    <3>6. CASE N!Move(t)
      BY <2>2, <3>6 DEF N!Move, N!SourceToTarget
    <3>7. CASE N!UndoBackup(t)
      BY <2>2, <3>7 DEF N!UndoBackup, N!BackupToTarget
    <3>8. CASE N!Start(t)
      <4>1. marker' \in [Txns -> BOOLEAN]
        BY <2>2, <3>8, Flags DEF N!Start
      <4> QED
        BY <2>2, <3>8, <4>1 DEF N!Start
    <3>9. CASE N!MarkerSeen(t)
      BY <2>2, <3>9 DEF N!MarkerSeen
    <3>10. CASE N!HealthLoopEnds(t)
      BY <2>2, <3>10 DEF N!HealthLoopEnds
    <3>11. CASE N!NotHealthy(t)
      BY <2>2, <3>11 DEF N!NotHealthy
    <3>12. CASE N!Terminate(t)
      BY <2>2, <3>12 DEF N!Terminate
    <3>13. CASE N!MoveBack(t)
      BY <2>2, <3>13 DEF N!MoveBack, N!TargetToSource
    <3>14. CASE N!Restore(t)
      BY <2>2, <3>14 DEF N!Restore, N!BackupToTarget
    <3>15. CASE N!Restart(t)
      BY <2>2, <3>15 DEF N!Restart
    <3>16. CASE N!RemoveBackup(t)
      BY <2>2, <3>16 DEF N!RemoveBackup
    <3>17. CASE N!Cleanup(t)
      <4>1. marker' \in [Txns -> BOOLEAN]
        <5>1. marker' = [marker EXCEPT ![t] = FALSE] \/ marker' = marker
          BY <2>2, <3>17, Zenon DEF N!Cleanup
        <5>2. marker \in [Txns -> BOOLEAN]
          BY Zenon DEF TypeOK
        <5>3. [marker EXCEPT ![t] = FALSE] \in [Txns -> BOOLEAN]
          BY <5>2, Flags, Zenon
        <5> QED
          BY <5>1, <5>2, <5>3, Zenon
      <4> QED
        BY <2>2, <3>17, <4>1 DEF N!Cleanup
    <3> QED
      BY <2>2, <3>1, <3>2, <3>3, <3>4, <3>5, <3>6, <3>7, <3>8, <3>9, <3>10, <3>11, <3>12,
         <3>13, <3>14, <3>15, <3>16, <3>17 DEF N!Step
  <2>3. ASSUME NEW t \in Txns, ManagedStep(t) PROVE TypeOK'
    <3>1. CASE M!ReadTransaction(t)
      BY <2>3, <3>1 DEF M!ReadTransaction
    <3>2. CASE M!WaitForExit(t)
      BY <2>3, <3>2 DEF M!WaitForExit
    <3>3. CASE M!WaitGivesUp(t)
      BY <2>3, <3>3 DEF M!WaitGivesUp
    <3>4. CASE M!CheckTarget(t)
      <4>1. present' \in [Txns -> BOOLEAN]
        BY <2>3, <3>4, Flags DEF M!CheckTarget
      <4> QED
        BY <2>3, <3>4, <4>1 DEF M!CheckTarget
    <3>5. CASE M!Backup(t)
      BY <2>3, <3>5 DEF M!Backup, M!TargetToBackup, M!RollBack
    <3>6. CASE M!Move(t)
      BY <2>3, <3>6 DEF M!Move, M!SourceToTarget, M!RollBack
    <3>7. CASE M!StartTarget(t)
      BY <2>3, <3>7 DEF M!StartTarget, M!RollBack
    <3>8. CASE M!MarkerSeen(t)
      BY <2>3, <3>8 DEF M!MarkerSeen
    <3>9. CASE M!MarkerNotSeen(t)
      BY <2>3, <3>9 DEF M!MarkerNotSeen
    <3>10. CASE M!HasExited(t)
      BY <2>3, <3>10 DEF M!HasExited
    <3>11. CASE M!Deadline(t)
      BY <2>3, <3>11 DEF M!Deadline
    <3>12. CASE M!NotHealthy(t)
      BY <2>3, <3>12 DEF M!NotHealthy
    <3>13. CASE M!TryTerminate(t)
      BY <2>3, <3>13 DEF M!TryTerminate, M!RollBack
    <3>14. CASE M!Look(t)
      BY <2>3, <3>14 DEF M!Look
    <3>15. CASE M!MoveBack(t)
      BY <2>3, <3>15 DEF M!MoveBack, M!TargetToSource
    <3>16. CASE M!DeleteTarget(t)
      BY <2>3, <3>16 DEF M!DeleteTarget
    <3>17. CASE M!Restore(t)
      BY <2>3, <3>17 DEF M!Restore, M!BackupToTarget
    <3>18. CASE M!TryStartOriginal(t)
      BY <2>3, <3>18 DEF M!TryStartOriginal
    <3>19. CASE M!DeleteBackup(t)
      BY <2>3, <3>19 DEF M!DeleteBackup
    <3>20. CASE M!DeleteDirectory(t)
      <4>1. marker' \in [Txns -> BOOLEAN]
        <5>1. marker[t] \in BOOLEAN
          BY Zenon DEF TypeOK
        <5>2. PICK m \in {marker[t], FALSE} : marker' = [marker EXCEPT ![t] = m]
          BY <2>3, <3>20, Zenon DEF M!DeleteDirectory
        <5>3. m \in BOOLEAN
          BY <5>1, <5>2, Zenon
        <5> QED
          BY <5>2, <5>3, Flags
      <4> QED
        BY <2>3, <3>20, <4>1 DEF M!DeleteDirectory
    <3> QED
      BY <2>3, <3>1, <3>2, <3>3, <3>4, <3>5, <3>6, <3>7, <3>8, <3>9, <3>10, <3>11, <3>12,
         <3>13, <3>14, <3>15, <3>16, <3>17, <3>18, <3>19, <3>20 DEF M!Step
  <2>4. CASE UNCHANGED <<vars, frontend>>
    BY <2>4 DEF vars
  <2> QED
    BY <2>1, <2>2, <2>3, <2>4 DEF Next
<1> QED
  BY <1>1, <1>2, PTL DEF Spec

-----------------------------------------------------------------------------
\* Stubs run one after another where nothing lets them overlap, and managed ones always.
AloneInv == frontend = "managed" \/ ~Overlap => OneAtATime

\* AloneInv is an invariant: a stub that runs was launched, and nothing else starts one.
LEMMA AloneInvariant == Spec => []AloneInv
<1> USE DEF Ended
<1>1. StubsInit => AloneInv
  BY DEF StubsInit, Init, AloneInv, OneAtATime, Active
<1>2. TypeOK /\ AloneInv /\ [Next]_<<vars, frontend>> => AloneInv'
  <2> SUFFICES ASSUME TypeOK, AloneInv, [Next]_<<vars, frontend>>
               PROVE  AloneInv'
    OBVIOUS
  <2> USE DEF AloneInv, OneAtATime, Active, Labels, Quiet, TypeOK, files, procs, stub,
             N!files, N!procs, N!stub, N!Goto, N!Decide, M!files, M!procs, M!stub, M!Goto,
             M!Decide, NativeStep, ManagedStep
  <2>1. CASE EnvStep
    <3>1. ASSUME NEW t \in Txns, Launch(t) PROVE AloneInv'
      BY <2>1, <3>1 DEF Launch, EnvStep
    <3>2. ASSUME NEW t \in Txns, ParentExits(t) PROVE AloneInv'
      BY <2>1, <3>2 DEF ParentExits, EnvStep
    <3>3. ASSUME NEW t \in Txns, WritesMarker(t) PROVE AloneInv'
      BY <2>1, <3>3 DEF WritesMarker, EnvStep
    <3>4. ASSUME NEW t \in Txns, ChildExits(t) PROVE AloneInv'
      BY <2>1, <3>4 DEF ChildExits, EnvStep
    <3>5. ASSUME NEW t \in Txns, Survives(t) PROVE AloneInv'
      BY <2>1, <3>5 DEF Survives, EnvStep
    <3>6. ASSUME NEW t \in Txns, Crash(t) PROVE AloneInv'
      BY <2>1, <3>6 DEF Crash, EnvStep
    <3>7. ASSUME NEW c \in {App, Prior}, HostExits(c) PROVE AloneInv'
      BY <2>1, <3>7 DEF HostExits, EnvStep
    <3>8. CASE UserStarts
      BY <2>1, <3>8 DEF UserStarts, EnvStep
    <3>9. CASE PowerLoss
      BY <2>1, <3>9 DEF PowerLoss, EnvStep
    <3> QED
      BY <2>1, <3>1, <3>2, <3>3, <3>4, <3>5, <3>6, <3>7, <3>8, <3>9 DEF EnvStep, Env,
         EnvOf
  <2>2. ASSUME NEW t \in Txns, NativeStep(t) PROVE AloneInv'
    <3>1. CASE N!ReadTransaction(t)
      BY <2>2, <3>1 DEF N!ReadTransaction
    <3>2. CASE N!WaitForExit(t)
      BY <2>2, <3>2 DEF N!WaitForExit
    <3>3. CASE N!WaitGivesUp(t)
      BY <2>2, <3>3 DEF N!WaitGivesUp
    <3>4. CASE N!CheckTarget(t)
      BY <2>2, <3>4 DEF N!CheckTarget
    <3>5. CASE N!Backup(t)
      BY <2>2, <3>5 DEF N!Backup, N!TargetToBackup
    <3>6. CASE N!Move(t)
      BY <2>2, <3>6 DEF N!Move, N!SourceToTarget
    <3>7. CASE N!UndoBackup(t)
      BY <2>2, <3>7 DEF N!UndoBackup, N!BackupToTarget
    <3>8. CASE N!Start(t)
      BY <2>2, <3>8 DEF N!Start
    <3>9. CASE N!MarkerSeen(t)
      BY <2>2, <3>9 DEF N!MarkerSeen
    <3>10. CASE N!HealthLoopEnds(t)
      BY <2>2, <3>10 DEF N!HealthLoopEnds
    <3>11. CASE N!NotHealthy(t)
      BY <2>2, <3>11 DEF N!NotHealthy
    <3>12. CASE N!Terminate(t)
      BY <2>2, <3>12 DEF N!Terminate
    <3>13. CASE N!MoveBack(t)
      BY <2>2, <3>13 DEF N!MoveBack, N!TargetToSource
    <3>14. CASE N!Restore(t)
      BY <2>2, <3>14 DEF N!Restore, N!BackupToTarget
    <3>15. CASE N!Restart(t)
      BY <2>2, <3>15 DEF N!Restart
    <3>16. CASE N!RemoveBackup(t)
      BY <2>2, <3>16 DEF N!RemoveBackup
    <3>17. CASE N!Cleanup(t)
      BY <2>2, <3>17 DEF N!Cleanup
    <3> QED
      BY <2>2, <3>1, <3>2, <3>3, <3>4, <3>5, <3>6, <3>7, <3>8, <3>9, <3>10, <3>11, <3>12,
         <3>13, <3>14, <3>15, <3>16, <3>17 DEF N!Step
  <2>3. ASSUME NEW t \in Txns, ManagedStep(t) PROVE AloneInv'
    <3>1. CASE M!ReadTransaction(t)
      BY <2>3, <3>1 DEF M!ReadTransaction
    <3>2. CASE M!WaitForExit(t)
      BY <2>3, <3>2 DEF M!WaitForExit
    <3>3. CASE M!WaitGivesUp(t)
      BY <2>3, <3>3 DEF M!WaitGivesUp
    <3>4. CASE M!CheckTarget(t)
      BY <2>3, <3>4 DEF M!CheckTarget
    <3>5. CASE M!Backup(t)
      BY <2>3, <3>5 DEF M!Backup, M!TargetToBackup, M!RollBack
    <3>6. CASE M!Move(t)
      BY <2>3, <3>6 DEF M!Move, M!SourceToTarget, M!RollBack
    <3>7. CASE M!StartTarget(t)
      BY <2>3, <3>7 DEF M!StartTarget, M!RollBack
    <3>8. CASE M!MarkerSeen(t)
      BY <2>3, <3>8 DEF M!MarkerSeen
    <3>9. CASE M!MarkerNotSeen(t)
      BY <2>3, <3>9 DEF M!MarkerNotSeen
    <3>10. CASE M!HasExited(t)
      BY <2>3, <3>10 DEF M!HasExited
    <3>11. CASE M!Deadline(t)
      BY <2>3, <3>11 DEF M!Deadline
    <3>12. CASE M!NotHealthy(t)
      BY <2>3, <3>12 DEF M!NotHealthy
    <3>13. CASE M!TryTerminate(t)
      BY <2>3, <3>13 DEF M!TryTerminate, M!RollBack
    <3>14. CASE M!Look(t)
      BY <2>3, <3>14 DEF M!Look
    <3>15. CASE M!MoveBack(t)
      BY <2>3, <3>15 DEF M!MoveBack, M!TargetToSource
    <3>16. CASE M!DeleteTarget(t)
      BY <2>3, <3>16 DEF M!DeleteTarget
    <3>17. CASE M!Restore(t)
      BY <2>3, <3>17 DEF M!Restore, M!BackupToTarget
    <3>18. CASE M!TryStartOriginal(t)
      BY <2>3, <3>18 DEF M!TryStartOriginal
    <3>19. CASE M!DeleteBackup(t)
      BY <2>3, <3>19 DEF M!DeleteBackup
    <3>20. CASE M!DeleteDirectory(t)
      BY <2>3, <3>20 DEF M!DeleteDirectory
    <3> QED
      BY <2>3, <3>1, <3>2, <3>3, <3>4, <3>5, <3>6, <3>7, <3>8, <3>9, <3>10, <3>11, <3>12,
         <3>13, <3>14, <3>15, <3>16, <3>17, <3>18, <3>19, <3>20 DEF M!Step
  <2>4. CASE UNCHANGED <<vars, frontend>>
    BY <2>4 DEF vars
  <2> QED
    BY <2>1, <2>2, <2>3, <2>4 DEF Next
<1> QED
  BY <1>1, <1>2, TypeCorrect, PTL DEF Spec

\* Without a second launch while a stub runs, stubs run one after another.
THEOREM OneAfterAnother == ASSUME ~Overlap PROVE Spec => []OneAtATime
<1>1. AloneInv => OneAtATime
  BY DEF AloneInv
<1> QED
  BY <1>1, AloneInvariant, PTL

\* The frontend an application was built with never changes.
LEMMA FrontendStays ==
  Spec => [](frontend = "managed") \/ [](frontend = "native")
<1>1. StubsInit => frontend = "managed" \/ frontend = "native"
  BY DEF StubsInit
<1>2. frontend = "managed" /\ [Next]_<<vars, frontend>> => (frontend = "managed")'
  BY DEF Next, EnvStep, NativeStep, ManagedStep
<1>3. frontend = "native" /\ [Next]_<<vars, frontend>> => (frontend = "native")'
  BY DEF Next, EnvStep, NativeStep, ManagedStep
<1> QED
  BY <1>1, <1>2, <1>3, PTL DEF Spec

\* Managed stubs run one after another.
LEMMA ManagedAlone == Spec => [](frontend = "managed" => OneAtATime)
<1>1. AloneInv => (frontend = "managed" => OneAtATime)
  BY DEF AloneInv
<1> QED
  BY <1>1, AloneInvariant, PTL

-----------------------------------------------------------------------------
\* The application is in one of its two places and nowhere else.
Placed ==
  \/ source = App /\ target \in {Prior, NoFile}
  \/ source = NoFile /\ target = App

\* The inductive form of AppKept: what is set aside in a backup is never the application, a
\* stub that is still to set something aside, or to delete what it finds at the target, does
\* so while the application is at the source.
PlacedInv ==
  /\ Placed
  /\ \A t \in Txns : backup[t] # App
  /\ \A t \in Txns : pc[t] \in {"read", "wait", "check", "backup", "delete"} => source = App

\* PlacedInv is an invariant of stubs that run one after another.
LEMMA PlacedInvariant == Spec /\ []OneAtATime => []PlacedInv
<1> USE RenameAssumption DEF Contents, Ended, Labels
<1>1. StubsInit => PlacedInv
  BY DEF StubsInit, Init, PlacedInv, Placed
<1>2. TypeOK /\ OneAtATime /\ OneAtATime' /\ PlacedInv /\ [Next]_<<vars, frontend>> =>
     PlacedInv'
  <2> SUFFICES ASSUME TypeOK, OneAtATime, OneAtATime', PlacedInv, [Next]_<<vars,
         frontend>>
               PROVE  PlacedInv'
    OBVIOUS
  <2> USE DEF TypeOK, OneAtATime, Active, PlacedInv, Placed, files, procs, stub, N!files,
             N!procs, N!stub, N!Goto, N!Decide, M!files, M!procs, M!stub, M!Goto,
             M!Decide, NativeStep, ManagedStep
  <2>1. CASE EnvStep
    <3>1. ASSUME NEW t \in Txns, Launch(t) PROVE PlacedInv'
      BY <2>1, <3>1 DEF Launch, EnvStep
    <3>2. ASSUME NEW t \in Txns, ParentExits(t) PROVE PlacedInv'
      BY <2>1, <3>2 DEF ParentExits, EnvStep
    <3>3. ASSUME NEW t \in Txns, WritesMarker(t) PROVE PlacedInv'
      BY <2>1, <3>3 DEF WritesMarker, EnvStep
    <3>4. ASSUME NEW t \in Txns, ChildExits(t) PROVE PlacedInv'
      BY <2>1, <3>4 DEF ChildExits, EnvStep
    <3>5. ASSUME NEW t \in Txns, Survives(t) PROVE PlacedInv'
      BY <2>1, <3>5 DEF Survives, EnvStep
    <3>6. ASSUME NEW t \in Txns, Crash(t) PROVE PlacedInv'
      BY <2>1, <3>6 DEF Crash, EnvStep
    <3>7. ASSUME NEW c \in {App, Prior}, HostExits(c) PROVE PlacedInv'
      BY <2>1, <3>7 DEF HostExits, EnvStep
    <3>8. CASE UserStarts
      BY <2>1, <3>8 DEF UserStarts, EnvStep
    <3>9. CASE PowerLoss
      BY <2>1, <3>9 DEF PowerLoss, EnvStep
    <3> QED
      BY <2>1, <3>1, <3>2, <3>3, <3>4, <3>5, <3>6, <3>7, <3>8, <3>9 DEF EnvStep, Env,
         EnvOf
  <2>2. ASSUME NEW t \in Txns, NativeStep(t) PROVE PlacedInv'
    <3>1. CASE N!ReadTransaction(t)
      BY <2>2, <3>1 DEF N!ReadTransaction
    <3>2. CASE N!WaitForExit(t)
      BY <2>2, <3>2 DEF N!WaitForExit
    <3>3. CASE N!WaitGivesUp(t)
      BY <2>2, <3>3 DEF N!WaitGivesUp
    <3>4. CASE N!CheckTarget(t)
      BY <2>2, <3>4 DEF N!CheckTarget
    <3>5. CASE N!Backup(t)
      BY <2>2, <3>5 DEF N!Backup, N!TargetToBackup
    <3>6. CASE N!Move(t)
      BY <2>2, <3>6 DEF N!Move, N!SourceToTarget
    <3>7. CASE N!UndoBackup(t)
      BY <2>2, <3>7 DEF N!UndoBackup, N!BackupToTarget
    <3>8. CASE N!Start(t)
      BY <2>2, <3>8 DEF N!Start
    <3>9. CASE N!MarkerSeen(t)
      BY <2>2, <3>9 DEF N!MarkerSeen
    <3>10. CASE N!HealthLoopEnds(t)
      BY <2>2, <3>10 DEF N!HealthLoopEnds
    <3>11. CASE N!NotHealthy(t)
      BY <2>2, <3>11 DEF N!NotHealthy
    <3>12. CASE N!Terminate(t)
      BY <2>2, <3>12 DEF N!Terminate
    <3>13. CASE N!MoveBack(t)
      BY <2>2, <3>13 DEF N!MoveBack, N!TargetToSource
    <3>14. CASE N!Restore(t)
      BY <2>2, <3>14 DEF N!Restore, N!BackupToTarget
    <3>15. CASE N!Restart(t)
      BY <2>2, <3>15 DEF N!Restart
    <3>16. CASE N!RemoveBackup(t)
      BY <2>2, <3>16 DEF N!RemoveBackup
    <3>17. CASE N!Cleanup(t)
      BY <2>2, <3>17 DEF N!Cleanup
    <3> QED
      BY <2>2, <3>1, <3>2, <3>3, <3>4, <3>5, <3>6, <3>7, <3>8, <3>9, <3>10, <3>11, <3>12,
         <3>13, <3>14, <3>15, <3>16, <3>17 DEF N!Step
  <2>3. ASSUME NEW t \in Txns, ManagedStep(t) PROVE PlacedInv'
    <3>1. CASE M!ReadTransaction(t)
      BY <2>3, <3>1 DEF M!ReadTransaction
    <3>2. CASE M!WaitForExit(t)
      BY <2>3, <3>2 DEF M!WaitForExit
    <3>3. CASE M!WaitGivesUp(t)
      BY <2>3, <3>3 DEF M!WaitGivesUp
    <3>4. CASE M!CheckTarget(t)
      BY <2>3, <3>4 DEF M!CheckTarget
    <3>5. CASE M!Backup(t)
      BY <2>3, <3>5 DEF M!Backup, M!TargetToBackup, M!RollBack
    <3>6. CASE M!Move(t)
      BY <2>3, <3>6 DEF M!Move, M!SourceToTarget, M!RollBack
    <3>7. CASE M!StartTarget(t)
      BY <2>3, <3>7 DEF M!StartTarget, M!RollBack
    <3>8. CASE M!MarkerSeen(t)
      BY <2>3, <3>8 DEF M!MarkerSeen
    <3>9. CASE M!MarkerNotSeen(t)
      BY <2>3, <3>9 DEF M!MarkerNotSeen
    <3>10. CASE M!HasExited(t)
      BY <2>3, <3>10 DEF M!HasExited
    <3>11. CASE M!Deadline(t)
      BY <2>3, <3>11 DEF M!Deadline
    <3>12. CASE M!NotHealthy(t)
      BY <2>3, <3>12 DEF M!NotHealthy
    <3>13. CASE M!TryTerminate(t)
      BY <2>3, <3>13 DEF M!TryTerminate, M!RollBack
    <3>14. CASE M!Look(t)
      BY <2>3, <3>14 DEF M!Look
    <3>15. CASE M!MoveBack(t)
      BY <2>3, <3>15 DEF M!MoveBack, M!TargetToSource
    <3>16. CASE M!DeleteTarget(t)
      BY <2>3, <3>16 DEF M!DeleteTarget
    <3>17. CASE M!Restore(t)
      BY <2>3, <3>17 DEF M!Restore, M!BackupToTarget
    <3>18. CASE M!TryStartOriginal(t)
      BY <2>3, <3>18 DEF M!TryStartOriginal
    <3>19. CASE M!DeleteBackup(t)
      BY <2>3, <3>19 DEF M!DeleteBackup
    <3>20. CASE M!DeleteDirectory(t)
      BY <2>3, <3>20 DEF M!DeleteDirectory
    <3> QED
      BY <2>3, <3>1, <3>2, <3>3, <3>4, <3>5, <3>6, <3>7, <3>8, <3>9, <3>10, <3>11, <3>12,
         <3>13, <3>14, <3>15, <3>16, <3>17, <3>18, <3>19, <3>20 DEF M!Step
  <2>4. CASE UNCHANGED <<vars, frontend>>
    BY <2>4 DEF vars
  <2> QED
    BY <2>1, <2>2, <2>3, <2>4 DEF Next
<1> QED
  BY <1>1, <1>2, TypeCorrect, PTL DEF Spec

\* While stubs run one after another the application is never lost, through every failed
\* move, crash and power loss between two of their steps.
THEOREM ApplicationKept == Spec /\ []OneAtATime => []AppKept
<1>1. PlacedInv => AppKept
  BY DEF PlacedInv, Placed, AppKept, OnDisk
<1> QED
  BY <1>1, PlacedInvariant, PTL

-----------------------------------------------------------------------------
\* The inductive form of NativePriorKept: only a stub that has seen its health marker
\* deletes a file.
PriorInv ==
  frontend = "native" =>
    /\ PriorKept
    /\ \A t \in Txns : pc[t] = "commit" => healthy # {}

\* PriorInv is an invariant, whether or not stubs overlap.
LEMMA PriorInvariant == Spec => []PriorInv
<1> USE RenameAssumption DEF Contents, Ended, Labels
<1>1. StubsInit => PriorInv
  BY DEF StubsInit, Init, PriorInv, PriorKept, OnDisk
<1>2. TypeOK /\ PriorInv /\ [Next]_<<vars, frontend>> => PriorInv'
  <2> SUFFICES ASSUME TypeOK, PriorInv, [Next]_<<vars, frontend>>
               PROVE  PriorInv'
    OBVIOUS
  <2> USE DEF TypeOK, PriorInv, PriorKept, OnDisk, files, procs, stub, N!files, N!procs,
             N!stub, N!Goto, N!Decide, M!files, M!procs, M!stub, M!Goto, M!Decide,
             NativeStep, ManagedStep
  <2>1. CASE EnvStep
    <3>1. ASSUME NEW t \in Txns, Launch(t) PROVE PriorInv'
      BY <2>1, <3>1 DEF Launch, EnvStep
    <3>2. ASSUME NEW t \in Txns, ParentExits(t) PROVE PriorInv'
      BY <2>1, <3>2 DEF ParentExits, EnvStep
    <3>3. ASSUME NEW t \in Txns, WritesMarker(t) PROVE PriorInv'
      BY <2>1, <3>3 DEF WritesMarker, EnvStep
    <3>4. ASSUME NEW t \in Txns, ChildExits(t) PROVE PriorInv'
      BY <2>1, <3>4 DEF ChildExits, EnvStep
    <3>5. ASSUME NEW t \in Txns, Survives(t) PROVE PriorInv'
      BY <2>1, <3>5 DEF Survives, EnvStep
    <3>6. ASSUME NEW t \in Txns, Crash(t) PROVE PriorInv'
      BY <2>1, <3>6 DEF Crash, EnvStep
    <3>7. ASSUME NEW c \in {App, Prior}, HostExits(c) PROVE PriorInv'
      BY <2>1, <3>7 DEF HostExits, EnvStep
    <3>8. CASE UserStarts
      BY <2>1, <3>8 DEF UserStarts, EnvStep
    <3>9. CASE PowerLoss
      BY <2>1, <3>9 DEF PowerLoss, EnvStep
    <3> QED
      BY <2>1, <3>1, <3>2, <3>3, <3>4, <3>5, <3>6, <3>7, <3>8, <3>9 DEF EnvStep, Env,
         EnvOf
  <2>2. ASSUME NEW t \in Txns, NativeStep(t) PROVE PriorInv'
    <3>1. CASE N!ReadTransaction(t)
      BY <2>2, <3>1 DEF N!ReadTransaction
    <3>2. CASE N!WaitForExit(t)
      BY <2>2, <3>2 DEF N!WaitForExit
    <3>3. CASE N!WaitGivesUp(t)
      BY <2>2, <3>3 DEF N!WaitGivesUp
    <3>4. CASE N!CheckTarget(t)
      BY <2>2, <3>4 DEF N!CheckTarget
    <3>5. CASE N!Backup(t)
      BY <2>2, <3>5 DEF N!Backup, N!TargetToBackup
    <3>6. CASE N!Move(t)
      BY <2>2, <3>6 DEF N!Move, N!SourceToTarget
    <3>7. CASE N!UndoBackup(t)
      BY <2>2, <3>7 DEF N!UndoBackup, N!BackupToTarget
    <3>8. CASE N!Start(t)
      BY <2>2, <3>8 DEF N!Start
    <3>9. CASE N!MarkerSeen(t)
      BY <2>2, <3>9 DEF N!MarkerSeen
    <3>10. CASE N!HealthLoopEnds(t)
      BY <2>2, <3>10 DEF N!HealthLoopEnds
    <3>11. CASE N!NotHealthy(t)
      BY <2>2, <3>11 DEF N!NotHealthy
    <3>12. CASE N!Terminate(t)
      BY <2>2, <3>12 DEF N!Terminate
    <3>13. CASE N!MoveBack(t)
      BY <2>2, <3>13 DEF N!MoveBack, N!TargetToSource
    <3>14. CASE N!Restore(t)
      BY <2>2, <3>14 DEF N!Restore, N!BackupToTarget
    <3>15. CASE N!Restart(t)
      BY <2>2, <3>15 DEF N!Restart
    <3>16. CASE N!RemoveBackup(t)
      BY <2>2, <3>16 DEF N!RemoveBackup
    <3>17. CASE N!Cleanup(t)
      BY <2>2, <3>17 DEF N!Cleanup
    <3> QED
      BY <2>2, <3>1, <3>2, <3>3, <3>4, <3>5, <3>6, <3>7, <3>8, <3>9, <3>10, <3>11, <3>12,
         <3>13, <3>14, <3>15, <3>16, <3>17 DEF N!Step
  <2>3. ASSUME NEW t \in Txns, ManagedStep(t) PROVE PriorInv'
    <3>1. CASE M!ReadTransaction(t)
      BY <2>3, <3>1 DEF M!ReadTransaction
    <3>2. CASE M!WaitForExit(t)
      BY <2>3, <3>2 DEF M!WaitForExit
    <3>3. CASE M!WaitGivesUp(t)
      BY <2>3, <3>3 DEF M!WaitGivesUp
    <3>4. CASE M!CheckTarget(t)
      BY <2>3, <3>4 DEF M!CheckTarget
    <3>5. CASE M!Backup(t)
      BY <2>3, <3>5 DEF M!Backup, M!TargetToBackup, M!RollBack
    <3>6. CASE M!Move(t)
      BY <2>3, <3>6 DEF M!Move, M!SourceToTarget, M!RollBack
    <3>7. CASE M!StartTarget(t)
      BY <2>3, <3>7 DEF M!StartTarget, M!RollBack
    <3>8. CASE M!MarkerSeen(t)
      BY <2>3, <3>8 DEF M!MarkerSeen
    <3>9. CASE M!MarkerNotSeen(t)
      BY <2>3, <3>9 DEF M!MarkerNotSeen
    <3>10. CASE M!HasExited(t)
      BY <2>3, <3>10 DEF M!HasExited
    <3>11. CASE M!Deadline(t)
      BY <2>3, <3>11 DEF M!Deadline
    <3>12. CASE M!NotHealthy(t)
      BY <2>3, <3>12 DEF M!NotHealthy
    <3>13. CASE M!TryTerminate(t)
      BY <2>3, <3>13 DEF M!TryTerminate, M!RollBack
    <3>14. CASE M!Look(t)
      BY <2>3, <3>14 DEF M!Look
    <3>15. CASE M!MoveBack(t)
      BY <2>3, <3>15 DEF M!MoveBack, M!TargetToSource
    <3>16. CASE M!DeleteTarget(t)
      BY <2>3, <3>16 DEF M!DeleteTarget
    <3>17. CASE M!Restore(t)
      BY <2>3, <3>17 DEF M!Restore, M!BackupToTarget
    <3>18. CASE M!TryStartOriginal(t)
      BY <2>3, <3>18 DEF M!TryStartOriginal
    <3>19. CASE M!DeleteBackup(t)
      BY <2>3, <3>19 DEF M!DeleteBackup
    <3>20. CASE M!DeleteDirectory(t)
      BY <2>3, <3>20 DEF M!DeleteDirectory
    <3> QED
      BY <2>3, <3>1, <3>2, <3>3, <3>4, <3>5, <3>6, <3>7, <3>8, <3>9, <3>10, <3>11, <3>12,
         <3>13, <3>14, <3>15, <3>16, <3>17, <3>18, <3>19, <3>20 DEF M!Step
  <2>4. CASE UNCHANGED <<vars, frontend>>
    BY <2>4 DEF vars
  <2> QED
    BY <2>1, <2>2, <2>3, <2>4 DEF Next
<1> QED
  BY <1>1, <1>2, TypeCorrect, PTL DEF Spec

\* The native stub keeps what had the canonical name until the renamed application has
\* reported that it works, whatever fails, crashes or overlaps.
THEOREM PriorIsKept == Spec => []NativePriorKept
<1>1. PriorInv => NativePriorKept
  BY DEF PriorInv, NativePriorKept
<1> QED
  BY <1>1, PriorInvariant, PTL

-----------------------------------------------------------------------------
\* Where a rename stands that nothing has gone wrong in that its exit code does not tell:
\* everything is as it was at first, or the application has its canonical name.
AsAtFirst == source = App /\ target = first
Renamed   == source = NoFile /\ target = App

\* What had the canonical name at first is in the backup of t.
SetAside(t) == IF present[t] THEN backup[t] = first ELSE first = NoFile

\* The codes that say nothing about where the files are.
Unsure == IF frontend = "native" THEN {40} ELSE {30, 40}

Trusted == \A t \in Txns : pc[t] # "crashed" /\ exitCode[t] \notin Unsure

\* Trial steps: the application runs under the canonical name and is not confirmed yet.
OnTrial(t) ==
  \/ pc[t] \in {"start", "health", "exitCheck", "lastCheck", "terminate"}
  \/ pc[t] = "unmove" /\ frontend = "native"

\* How far t has come, while every code can be trusted.
Stands(t) ==
  /\ pc[t] \in {"read", "wait", "check"} => healthy = {} /\ AsAtFirst
  /\ pc[t] = "backup" => healthy = {} /\ AsAtFirst /\ present[t]
  /\ pc[t] = "move" => healthy = {} /\ source = App /\ target = NoFile /\ SetAside(t)
  /\ OnTrial(t) => healthy = {} /\ Renamed /\ SetAside(t)
  /\ pc[t] = "commit" => healthy # {} /\ Renamed
  /\ pc[t] = "restore" =>
       healthy = {} /\ source = App /\ target = NoFile /\ backup[t] = first /\ exitCode[t] = 30
  /\ pc[t] = "restart" => healthy = {} /\ AsAtFirst /\ exitCode[t] = 30
  /\ pc[t] = "cleanup" =>
       IF exitCode[t] = 0 THEN healthy # {} /\ Renamed ELSE healthy = {} /\ AsAtFirst

Settled == IF healthy = {} THEN AsAtFirst ELSE Renamed

\* The steps before the exit code is known.
Undecided(t) ==
  \/ pc[t] \in {"idle", "read", "wait", "check", "backup", "move", "commit"}
  \/ OnTrial(t)

\* The inductive form of TrueCodes.
CodesInv ==
  /\ \A t \in Txns : Undecided(t) => exitCode[t] = NoCode
  /\ frontend = "managed" => \A t \in Txns :
       pc[t] \in {"look", "unmove", "delete", "restore", "restart"} => exitCode[t] \in {30, 40}
  /\ Trusted => (\A t \in Txns : Stands(t)) /\ (Quiet => Settled)

\* CodesInv is an invariant of stubs that run one after another.
LEMMA CodesInvariant == Spec /\ []OneAtATime => []CodesInv
<1> USE RenameAssumption DEF Contents, Ended, Labels, NoCode
<1>1. StubsInit => CodesInv
  BY DEF StubsInit, Init, CodesInv, Trusted, Stands, OnTrial, Settled, Undecided, AsAtFirst, Renamed
<1>2. TypeOK /\ frontend \in {"native", "managed"} /\ OneAtATime /\ OneAtATime' /\ CodesInv
     /\ [Next]_<<vars, frontend>> => CodesInv'
  <2> SUFFICES ASSUME TypeOK, frontend \in {"native", "managed"}, OneAtATime, OneAtATime',
         CodesInv, [Next]_<<vars, frontend>>
               PROVE  CodesInv'
    OBVIOUS
  <2> USE DEF TypeOK, OneAtATime, Active, CodesInv, Trusted, Unsure, Stands, OnTrial,
             SetAside, Settled, Undecided, AsAtFirst, Renamed, Quiet, files, procs, stub,
             N!files, N!procs, N!stub, N!Goto, N!Decide, M!files, M!procs, M!stub, M!Goto,
             M!Decide, NativeStep, ManagedStep
  <2>1. CASE EnvStep
    <3>1. ASSUME NEW t \in Txns, Launch(t) PROVE CodesInv'
      BY <2>1, <3>1 DEF Launch, EnvStep
    <3>2. ASSUME NEW t \in Txns, ParentExits(t) PROVE CodesInv'
      BY <2>1, <3>2 DEF ParentExits, EnvStep
    <3>3. ASSUME NEW t \in Txns, WritesMarker(t) PROVE CodesInv'
      BY <2>1, <3>3 DEF WritesMarker, EnvStep
    <3>4. ASSUME NEW t \in Txns, ChildExits(t) PROVE CodesInv'
      BY <2>1, <3>4 DEF ChildExits, EnvStep
    <3>5. ASSUME NEW t \in Txns, Survives(t) PROVE CodesInv'
      BY <2>1, <3>5 DEF Survives, EnvStep
    <3>6. ASSUME NEW t \in Txns, Crash(t) PROVE CodesInv'
      BY <2>1, <3>6 DEF Crash, EnvStep
    <3>7. ASSUME NEW c \in {App, Prior}, HostExits(c) PROVE CodesInv'
      BY <2>1, <3>7 DEF HostExits, EnvStep
    <3>8. CASE UserStarts
      BY <2>1, <3>8 DEF UserStarts, EnvStep
    <3>9. CASE PowerLoss
      BY <2>1, <3>9 DEF PowerLoss, EnvStep
    <3> QED
      BY <2>1, <3>1, <3>2, <3>3, <3>4, <3>5, <3>6, <3>7, <3>8, <3>9 DEF EnvStep, Env,
         EnvOf
  <2>2. ASSUME NEW t \in Txns, NativeStep(t) PROVE CodesInv'
    <3>1. CASE N!ReadTransaction(t)
      BY <2>2, <3>1 DEF N!ReadTransaction
    <3>2. CASE N!WaitForExit(t)
      BY <2>2, <3>2 DEF N!WaitForExit
    <3>3. CASE N!WaitGivesUp(t)
      BY <2>2, <3>3 DEF N!WaitGivesUp
    <3>4. CASE N!CheckTarget(t)
      <4>1. present' = [present EXCEPT ![t] = target # NoFile]
        BY <2>2, <3>4 DEF N!CheckTarget
      <4>2. /\ pc[t] = "check"
            /\ pc' = [pc EXCEPT ![t] = IF target # NoFile THEN "backup" ELSE "move"]
            /\ UNCHANGED <<source, target, backup, exitCode, first, healthy, frontend>>
        BY <2>2, <3>4 DEF N!CheckTarget
      <4>3. \A u \in Txns : u # t => pc'[u] = pc[u] /\ ~Active(u)
        BY <4>2 DEF TypeOK
      <4>4. Trusted' => Trusted
        BY <4>2
      <4>5. CASE target # NoFile
        <5>1. present' = [present EXCEPT ![t] = TRUE]
          BY <4>1, <4>5, Zenon
        <5>2. present'[t]
          BY <5>1, SetFlag
        <5> QED
          BY <4>2, <4>3, <4>4, <4>5, <5>2
      <4>6. CASE target = NoFile
        <5>1. present' = [present EXCEPT ![t] = FALSE]
          BY <4>1, <4>6, Zenon
        <5>2. ~present'[t]
          BY <5>1, SetFlag
        <5> QED
          BY <4>2, <4>3, <4>4, <4>6, <5>2
      <4> QED
        BY <4>5, <4>6
    <3>5. CASE N!Backup(t)
      BY <2>2, <3>5 DEF N!Backup, N!TargetToBackup
    <3>6. CASE N!Move(t)
      BY <2>2, <3>6 DEF N!Move, N!SourceToTarget
    <3>7. CASE N!UndoBackup(t)
      BY <2>2, <3>7 DEF N!UndoBackup, N!BackupToTarget
    <3>8. CASE N!Start(t)
      BY <2>2, <3>8 DEF N!Start
    <3>9. CASE N!MarkerSeen(t)
      BY <2>2, <3>9 DEF N!MarkerSeen
    <3>10. CASE N!HealthLoopEnds(t)
      BY <2>2, <3>10 DEF N!HealthLoopEnds
    <3>11. CASE N!NotHealthy(t)
      BY <2>2, <3>11 DEF N!NotHealthy
    <3>12. CASE N!Terminate(t)
      BY <2>2, <3>12 DEF N!Terminate
    <3>13. CASE N!MoveBack(t)
      BY <2>2, <3>13 DEF N!MoveBack, N!TargetToSource
    <3>14. CASE N!Restore(t)
      BY <2>2, <3>14 DEF N!Restore, N!BackupToTarget
    <3>15. CASE N!Restart(t)
      BY <2>2, <3>15 DEF N!Restart
    <3>16. CASE N!RemoveBackup(t)
      BY <2>2, <3>16 DEF N!RemoveBackup
    <3>17. CASE N!Cleanup(t)
      BY <2>2, <3>17 DEF N!Cleanup
    <3> QED
      BY <2>2, <3>1, <3>2, <3>3, <3>4, <3>5, <3>6, <3>7, <3>8, <3>9, <3>10, <3>11, <3>12,
         <3>13, <3>14, <3>15, <3>16, <3>17 DEF N!Step
  <2>3. ASSUME NEW t \in Txns, ManagedStep(t) PROVE CodesInv'
    <3>1. CASE M!ReadTransaction(t)
      BY <2>3, <3>1 DEF M!ReadTransaction
    <3>2. CASE M!WaitForExit(t)
      BY <2>3, <3>2 DEF M!WaitForExit
    <3>3. CASE M!WaitGivesUp(t)
      BY <2>3, <3>3 DEF M!WaitGivesUp
    <3>4. CASE M!CheckTarget(t)
      <4>1. present' = [present EXCEPT ![t] = target # NoFile]
        BY <2>3, <3>4 DEF M!CheckTarget
      <4>2. /\ pc[t] = "check"
            /\ pc' = [pc EXCEPT ![t] = IF target # NoFile THEN "backup" ELSE "move"]
            /\ UNCHANGED <<source, target, backup, exitCode, first, healthy, frontend>>
        BY <2>3, <3>4 DEF M!CheckTarget
      <4>3. \A u \in Txns : u # t => pc'[u] = pc[u] /\ ~Active(u)
        BY <4>2 DEF TypeOK
      <4>4. Trusted' => Trusted
        BY <4>2
      <4>5. CASE target # NoFile
        <5>1. present' = [present EXCEPT ![t] = TRUE]
          BY <4>1, <4>5, Zenon
        <5>2. present'[t]
          BY <5>1, SetFlag
        <5> QED
          BY <4>2, <4>3, <4>4, <4>5, <5>2
      <4>6. CASE target = NoFile
        <5>1. present' = [present EXCEPT ![t] = FALSE]
          BY <4>1, <4>6, Zenon
        <5>2. ~present'[t]
          BY <5>1, SetFlag
        <5> QED
          BY <4>2, <4>3, <4>4, <4>6, <5>2
      <4> QED
        BY <4>5, <4>6
    <3>5. CASE M!Backup(t)
      BY <2>3, <3>5 DEF M!Backup, M!TargetToBackup, M!RollBack
    <3>6. CASE M!Move(t)
      BY <2>3, <3>6 DEF M!Move, M!SourceToTarget, M!RollBack
    <3>7. CASE M!StartTarget(t)
      BY <2>3, <3>7 DEF M!StartTarget, M!RollBack
    <3>8. CASE M!MarkerSeen(t)
      BY <2>3, <3>8 DEF M!MarkerSeen
    <3>9. CASE M!MarkerNotSeen(t)
      BY <2>3, <3>9 DEF M!MarkerNotSeen
    <3>10. CASE M!HasExited(t)
      BY <2>3, <3>10 DEF M!HasExited
    <3>11. CASE M!Deadline(t)
      BY <2>3, <3>11 DEF M!Deadline
    <3>12. CASE M!NotHealthy(t)
      BY <2>3, <3>12 DEF M!NotHealthy
    <3>13. CASE M!TryTerminate(t)
      BY <2>3, <3>13 DEF M!TryTerminate, M!RollBack
    <3>14. CASE M!Look(t)
      BY <2>3, <3>14 DEF M!Look
    <3>15. CASE M!MoveBack(t)
      BY <2>3, <3>15 DEF M!MoveBack, M!TargetToSource
    <3>16. CASE M!DeleteTarget(t)
      BY <2>3, <3>16 DEF M!DeleteTarget
    <3>17. CASE M!Restore(t)
      BY <2>3, <3>17 DEF M!Restore, M!BackupToTarget
    <3>18. CASE M!TryStartOriginal(t)
      BY <2>3, <3>18 DEF M!TryStartOriginal
    <3>19. CASE M!DeleteBackup(t)
      BY <2>3, <3>19 DEF M!DeleteBackup
    <3>20. CASE M!DeleteDirectory(t)
      BY <2>3, <3>20 DEF M!DeleteDirectory
    <3> QED
      BY <2>3, <3>1, <3>2, <3>3, <3>4, <3>5, <3>6, <3>7, <3>8, <3>9, <3>10, <3>11, <3>12,
         <3>13, <3>14, <3>15, <3>16, <3>17, <3>18, <3>19, <3>20 DEF M!Step
  <2>4. CASE UNCHANGED <<vars, frontend>>
    BY <2>4 DEF vars
  <2> QED
    BY <2>1, <2>2, <2>3, <2>4 DEF Next
<1>3. frontend = "managed" \/ frontend = "native" => frontend \in {"native", "managed"}
  OBVIOUS
<1> QED
  BY <1>1, <1>2, <1>3, TypeCorrect, FrontendStays, PTL DEF Spec

\* While stubs run one after another, when each has ended by itself and none reported that
\* it does not know, an exit code tells the truth about the files.
THEOREM CodesAreTrue == Spec /\ []OneAtATime => []TrueCodes
<1>1. CodesInv => TrueCodes
  BY DEF CodesInv, TrueCodes, HonestCodes, HonestSuccess, Settled, AsAtFirst, Renamed,
     Trusted, Unsure
<1> QED
  BY <1>1, CodesInvariant, PTL

\* Managed stubs, which are launched one after the other (EnvStep), never lose the
\* application and report true codes.
THEOREM ManagedStubsAreSafe == Spec => [](frontend = "managed" => AppKept /\ TrueCodes)
<1>1. frontend = "native" => ~(frontend = "managed")
  OBVIOUS
<1> QED
  BY <1>1, ApplicationKept, CodesAreTrue, ManagedAlone, FrontendStays, PTL
=============================================================================
