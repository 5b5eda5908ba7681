----------------------------- MODULE RenameStubs -----------------------------
(***************************************************************************)
(* The two updater stubs that rename an application, side by side: the     *)
(* stub is that of the frontend the application was built with.  Two       *)
(* native stubs may work at the same time.                                 *)
(***************************************************************************)
EXTENDS RenameDirectory

VARIABLE frontend \* the package the application was built with

N == INSTANCE NativeRenameStub
M == INSTANCE ManagedRenameStub

StubsInit == Init /\ frontend \in {"native", "managed"}

OneAtATime == \A t, u \in Txns : Active(t) /\ Active(u) => t = u

EnvStep == Env /\ (frontend = "managed" => OneAtATime') /\ UNCHANGED frontend

NativeStep(t)  == frontend = "native" /\ N!Step(t) /\ UNCHANGED frontend
ManagedStep(t) == frontend = "managed" /\ M!Step(t) /\ UNCHANGED frontend

Next ==
  \/ EnvStep
  \/ \E t \in Txns : NativeStep(t)
  \/ \E t \in Txns : ManagedStep(t)

Spec == StubsInit /\ [][Next]_<<vars, frontend>>

\* What had the canonical name is kept by the native stub until the renamed
\* application has reported that it works, whatever else fails.
NativePriorKept == frontend = "native" => PriorKept

\* The exit codes are true: of the native stub 0, 10, 20 and 30, of the managed
\* one, which reports 30 also when its roll-back has failed, 0, 10 and 20.
TrueCodes == IF frontend = "native" THEN HonestCodes ELSE HonestSuccess
=============================================================================
