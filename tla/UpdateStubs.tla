----------------------------- MODULE UpdateStubs -----------------------------
(***************************************************************************)
(* The two updater stubs side by side: an application is installed with    *)
(* one frontend, and its updates are carried out by the stub of that       *)
(* frontend, in the same directory and among the same processes.           *)
(***************************************************************************)
EXTENDS InstallDirectory

VARIABLE frontend \* the package the application was built with

N == INSTANCE NativeUpdateStub
M == INSTANCE ManagedUpdateStub

StubsInit ==
  \/ frontend = "native" /\ N!Init
  \/ frontend = "managed" /\ M!ManagedInit

NativeStep(t)  == frontend = "native" /\ N!Step(t) /\ UNCHANGED frontend
ManagedStep(t) == frontend = "managed" /\ M!Step(t) /\ UNCHANGED frontend

Next ==
  \/ Env /\ UNCHANGED frontend
  \/ \E t \in Txns : NativeStep(t)
  \/ \E t \in Txns : ManagedStep(t)

Spec == StubsInit /\ [][Next]_<<vars, frontend>>

\* A stub that is not killed keeps running.  Every wait of the native one has a
\* deadline; the health loop of the managed one, which polls again and again,
\* reaches its deadline.
FairSpec ==
  /\ Spec
  /\ \A t \in Txns :
       /\ WF_<<vars, frontend>>(NativeStep(t) \/ ManagedStep(t))
       /\ SF_<<vars, frontend>>(frontend = "managed" /\ M!Deadline(t) /\ UNCHANGED frontend)

\* The exit code of a stub that has ended is true: of the native one 0, 10, 20
\* and 30, of the managed one, which reports 30 also when its roll-back has
\* failed, 0, 10 and 20.
TrueCodes == IF frontend = "native" THEN HonestCodes ELSE HonestSuccess

\* A health marker that is there while the native stub still waits leads to a
\* commit: the update is not rolled back although it reported that it works.
MarkerLeadsToCommit ==
  \A t \in Txns :
    (frontend = "native" /\ pc[t] = "health" /\ marker[t])
      ~> (t \in confirmed \/ pc[t] = "crashed")

\* Every step of a stub and of its environment is a step that
\* HealthConfirmedInstall allows, or none: the confirmed build is replaced only
\* by a confirmation of a build that is on disk, and dropped by nothing; and
\* every transaction that is begun ends, confirmed or closed.
PromiseSpec == Promise!Spec
=============================================================================
