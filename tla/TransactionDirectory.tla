-------------------------- MODULE TransactionDirectory --------------------------
(***************************************************************************)
(* The directory of a transaction from the call of the host to its         *)
(* removal: launch_update and launch_rename with launch_common             *)
(* (native/src/UpdateKit.cpp), the start and the end of the stub, and the  *)
(* copy of it that cleans up (native/updater/main.cpp).  Its name is made  *)
(* of a process id and a tick count, so that two launches may share it.    *)
(***************************************************************************)
EXTENDS Naturals, FiniteSets

CONSTANTS
  Launches,
  Directories, \* the names that may be made
  None,
  MaxFailures  \* operations that fail without a cause in this model

ASSUME DirectoryAssumption ==
  MaxFailures \in Nat /\ None \notin Directories \cup Launches

VARIABLES
  pc,       \* per launch: the step of the host, then of the stub, then of its cleaner
  dir,      \* per launch: its directory
  exists,   \* the directories that exist
  files,    \* per directory: the files in it
  text,     \* per directory: the launch whose transaction body.json or update.json holds
  body,     \* per launch: the launch whose transaction it has in memory
  alive,    \* launches whose stub is running, with its directory as current directory
  delayed,  \* directories whose stub and transaction go at the next start of the machine
  failures,
  reasons   \* history: per launch, why something of it may be left

vars == <<pc, dir, exists, files, text, body, alive, delayed, failures, reasons>>
place == <<dir, exists, files, text>>

Names == {"body", "stub", "transaction", "marker"}
Host == {"call", "write body", "read body", "remove body", "extract", "write transaction",
         "start", "discard"}
Stub == {"read", "work", "schedule"}
Cleaner == {"wait", "remove stub", "remove transaction", "remove directory"}
Failures == {"write", "read", "remove body", "extract", "start", "remove all", "unread", "marker",
             "schedule", "wait", "remove", "remove directory"}
Ended == {"refused", "failed", "thrown", "died", "unread", "delayed", "cleaned"}

Go(l, step) == pc' = [pc EXCEPT ![l] = step]
Has(l, name) == name \in files[dir[l]]
Holds(l, names) == files' = [files EXCEPT ![dir[l]] = names]
Because(l, reason) == reasons' = [reasons EXCEPT ![l] = @ \cup {reason}]
Fails(l, reason) ==
  failures < MaxFailures /\ failures' = failures + 1 /\ Because(l, reason)
InUse(l) == \E k \in alive : dir[k] = dir[l]

Init ==
  /\ pc = [l \in Launches |-> "call"]
  /\ dir = [l \in Launches |-> None]
  /\ exists = {} /\ alive = {} /\ delayed = {}
  /\ files = [d \in Directories |-> {}]
  /\ text = [d \in Directories |-> None]
  /\ body = [l \in Launches |-> None]
  /\ failures = 0
  /\ reasons = [l \in Launches |-> {}]

-----------------------------------------------------------------------------
\* A bad argument, or a program directory that cannot be written to.
Refuses(l) ==
  /\ pc[l] = "call" /\ Go(l, "refused")
  /\ UNCHANGED <<place, body, alive, delayed, failures, reasons>>

MakesName(l, d) ==
  /\ pc[l] = "call" /\ Go(l, "write body")
  /\ dir' = [dir EXCEPT ![l] = d]
  /\ UNCHANGED <<exists, files, text, body, alive, delayed, failures, reasons>>

\* write_text_atomic: a temporary file is written through and takes the name.
Writes(l, step, name, of, next) ==
  /\ pc[l] = step
  /\ exists' = exists \cup {dir[l]}
  /\ \/ /\ Go(l, next)
        /\ Holds(l, files[dir[l]] \cup {name}) /\ text' = [text EXCEPT ![dir[l]] = of]
        /\ UNCHANGED <<failures, reasons>>
     \/ Go(l, "discard") /\ Fails(l, "write") /\ UNCHANGED <<files, text>>
  /\ UNCHANGED <<dir, body, alive, delayed>>

WritesBody(l) == Writes(l, "write body", "body", l, "read body")

\* The body is read back; an exception leaves launch_update.
ReadsBody(l) ==
  /\ pc[l] = "read body"
  /\ \/ Has(l, "body") /\ Go(l, "remove body") /\ body' = [body EXCEPT ![l] = text[dir[l]]]
        /\ UNCHANGED <<failures, reasons>>
     \/ ~Has(l, "body") /\ Go(l, "thrown") /\ Because(l, "read") /\ UNCHANGED <<body, failures>>
     \/ Go(l, "thrown") /\ Fails(l, "read") /\ UNCHANGED body
  /\ UNCHANGED <<place, alive, delayed>>

RemovesBody(l) ==
  /\ pc[l] = "remove body" /\ Go(l, "extract")
  /\ \/ Holds(l, files[dir[l]] \ {"body"}) /\ UNCHANGED <<failures, reasons>>
     \/ Fails(l, "remove body") /\ UNCHANGED files
  /\ UNCHANGED <<dir, exists, text, body, alive, delayed>>

\* The stub is a valid image and can be written: no other stub runs from that file.  A
\* failure may leave a part of it.
Extracts(l) ==
  /\ pc[l] = "extract"
  /\ \/ /\ ~InUse(l) /\ Go(l, "write transaction")
        /\ exists' = exists \cup {dir[l]} /\ Holds(l, files[dir[l]] \cup {"stub"})
        /\ UNCHANGED <<failures, reasons>>
     \/ InUse(l) /\ Go(l, "discard") /\ UNCHANGED <<exists, files, failures, reasons>>
     \/ /\ Go(l, "discard") /\ Fails(l, "extract")
        /\ \/ UNCHANGED <<exists, files>>
           \/ exists' = exists \cup {dir[l]} /\ Holds(l, files[dir[l]] \cup {"stub"})
  /\ UNCHANGED <<dir, text, body, alive, delayed>>

WritesTransaction(l) == Writes(l, "write transaction", "transaction", body[l], "start")

\* Mutant: the stub is started before the transaction is there.
StartsEarly(l) ==
  /\ pc[l] \in {"write transaction", "start"}
  /\ Go(l, "read") /\ alive' = alive \cup {l}
  /\ UNCHANGED <<place, body, delayed, failures, reasons>>

Starts(l) ==
  /\ pc[l] = "start"
  /\ \/ Has(l, "stub") /\ Go(l, "read") /\ alive' = alive \cup {l} /\ UNCHANGED <<failures, reasons>>
     \/ ~Has(l, "stub") /\ Go(l, "discard") /\ UNCHANGED <<alive, failures, reasons>>
     \/ Go(l, "discard") /\ Fails(l, "start") /\ UNCHANGED alive
  /\ UNCHANGED <<place, body, delayed>>

\* remove_all stops at the first thing that cannot be removed.
Discards(l) ==
  /\ pc[l] = "discard" /\ Go(l, "failed")
  /\ \/ /\ ~InUse(l)
        /\ Holds(l, {}) /\ exists' = exists \ {dir[l]} /\ UNCHANGED <<failures, reasons>>
     \/ /\ (InUse(l) /\ UNCHANGED <<failures, reasons>>) \/ Fails(l, "remove all")
        /\ \E rest \in SUBSET files[dir[l]] :
             Holds(l, IF InUse(l) THEN rest \cup {"stub"} ELSE rest)
        /\ UNCHANGED exists
  /\ UNCHANGED <<dir, text, body, alive, delayed>>

-----------------------------------------------------------------------------
\* read_update_transaction: without a transaction the stub ends with code 10 at once.
ReadsTransaction(l) ==
  /\ pc[l] = "read"
  /\ \/ Has(l, "transaction") /\ Go(l, "work") /\ body' = [body EXCEPT ![l] = text[dir[l]]]
        /\ UNCHANGED <<alive, failures, reasons>>
     \/ ~Has(l, "transaction") /\ Go(l, "unread") /\ Because(l, "unread") /\ alive' = alive \ {l}
        /\ UNCHANGED <<body, failures>>
     \/ Go(l, "unread") /\ Fails(l, "unread") /\ alive' = alive \ {l} /\ UNCHANGED body
  /\ UNCHANGED <<place, delayed>>

\* The stub has done what the transaction says; a marker that the new build writes
\* after the stub's last look, or that cannot be removed, stays in the directory.
Works(l) ==
  /\ pc[l] = "work" /\ Go(l, "schedule")
  /\ \/ UNCHANGED <<files, failures, reasons>>
     \/ Holds(l, files[dir[l]] \cup {"marker"}) /\ Fails(l, "marker")
  /\ UNCHANGED <<dir, exists, text, body, alive, delayed>>

\* schedule_cleanup copies the stub and starts the copy, or leaves it to the next start
\* of the machine, or gives up.
Schedules(l) ==
  /\ pc[l] = "schedule"
  /\ \/ Go(l, "wait") /\ UNCHANGED <<delayed, failures, reasons>>
     \/ Go(l, "delayed") /\ Fails(l, "schedule") /\ delayed' \in {delayed, delayed \cup {dir[l]}}
  /\ UNCHANGED <<place, body, alive>>

StubExits(l) ==
  /\ l \in alive /\ pc[l] \in Cleaner \cup {"delayed", "cleaned"}
  /\ alive' = alive \ {l}
  /\ UNCHANGED <<pc, place, body, delayed, failures, reasons>>

-----------------------------------------------------------------------------
\* Mutant: the cleaner does not wait for the stub.
WaitsNot(l) ==
  /\ pc[l] = "wait" /\ Go(l, "remove stub")
  /\ UNCHANGED <<place, body, alive, delayed, failures, reasons>>

\* cleanup_after_stub waits for the stub, thirty seconds at most, and goes on.
Waits(l) ==
  /\ pc[l] = "wait" /\ Go(l, "remove stub")
  /\ \/ l \notin alive /\ UNCHANGED <<failures, reasons>>
     \/ l \in alive /\ Fails(l, "wait")
  /\ UNCHANGED <<place, body, alive, delayed>>

Removes(l, step, name, next) ==
  /\ pc[l] = step /\ Go(l, next)
  /\ \/ /\ ~(name = "stub" /\ InUse(l))
        /\ Holds(l, files[dir[l]] \ {name}) /\ UNCHANGED <<failures, reasons>>
     \/ name = "stub" /\ InUse(l) /\ UNCHANGED <<files, failures, reasons>>
     \/ Fails(l, "remove") /\ UNCHANGED files
  /\ UNCHANGED <<dir, exists, text, body, alive, delayed>>

RemovesStub(l) == Removes(l, "remove stub", "stub", "remove transaction")
RemovesTransaction(l) == Removes(l, "remove transaction", "transaction", "remove directory")

\* RemoveDirectoryW takes an empty directory that is nobody's current one.
RemovesDirectory(l) ==
  /\ pc[l] = "remove directory" /\ Go(l, "cleaned")
  /\ \/ /\ exists' = IF files[dir[l]] = {} /\ ~InUse(l) THEN exists \ {dir[l]} ELSE exists
        /\ UNCHANGED <<failures, reasons>>
     \/ Fails(l, "remove directory") /\ UNCHANGED exists
  /\ UNCHANGED <<dir, files, text, body, alive, delayed>>

-----------------------------------------------------------------------------
\* The host, the stub or the cleaner is killed.
Crash(l) ==
  /\ pc[l] \in (Host \ {"call"}) \cup Stub \cup Cleaner
  /\ Go(l, "died") /\ Because(l, "crash")
  /\ alive' = alive \ {l}
  /\ UNCHANGED <<place, body, delayed, failures>>

\* The machine starts again.
Restarts ==
  /\ delayed # {}
  /\ files' = [d \in Directories |->
                 IF d \in delayed THEN files[d] \ {"stub", "transaction"} ELSE files[d]]
  /\ delayed' = {} /\ alive' = {}
  /\ pc' = [l \in Launches |-> IF pc[l] \in Ended \cup {"call"} THEN pc[l] ELSE "died"]
  /\ reasons' = [l \in Launches |->
                   IF pc[l] \in Ended \cup {"call"} THEN reasons[l] ELSE reasons[l] \cup {"crash"}]
  /\ UNCHANGED <<dir, exists, text, body, failures>>

HostStep(l) ==
  \/ Refuses(l) \/ \E d \in Directories : MakesName(l, d)
  \/ WritesBody(l) \/ ReadsBody(l) \/ RemovesBody(l) \/ Extracts(l) \/ WritesTransaction(l)
  \/ Starts(l) \/ Discards(l)
StubStep(l) == ReadsTransaction(l) \/ Works(l) \/ Schedules(l) \/ StubExits(l)
CleanerStep(l) == Waits(l) \/ RemovesStub(l) \/ RemovesTransaction(l) \/ RemovesDirectory(l)

Next ==
  \/ \E l \in Launches : HostStep(l) \/ StubStep(l) \/ CleanerStep(l) \/ Crash(l)
  \/ Restarts

Spec == Init /\ [][Next]_vars

-----------------------------------------------------------------------------
TypeOK ==
  /\ pc \in [Launches -> Host \cup Stub \cup Cleaner \cup Ended]
  /\ dir \in [Launches -> Directories \cup {None}]
  /\ exists \subseteq Directories /\ delayed \subseteq Directories
  /\ files \in [Directories -> SUBSET Names]
  /\ text \in [Directories -> Launches \cup {None}] /\ body \in [Launches -> Launches \cup {None}]
  /\ alive \subseteq Launches
  /\ failures \in 0 .. MaxFailures
  /\ reasons \in [Launches -> SUBSET (Failures \cup {"crash"})]

\* No other launch has got the same process id and tick count.
Alone(l) == \A k \in Launches \ {l} : dir[k] # dir[l]

\* A stub that was started in a directory of its own finds the transaction of its
\* launch there, complete, whatever failed or died on the way (launch_common).
Delivered ==
  \A l \in Launches : Alone(l) =>
    /\ pc[l] = "read" => Has(l, "transaction") /\ text[dir[l]] = l
    /\ pc[l] \in {"work", "schedule"} \cup Cleaner => body[l] = l

\* A directory that only one launch has used is gone when the launch has failed, or
\* its stub has ended and was cleaned up after, unless an operation failed or somebody
\* was killed: the cleaner waits for the image and the current directory of the stub,
\* and every file of the launch has been removed by then (cleanup_after_stub).
NothingLeft ==
  \A l \in Launches :
    Alone(l) /\ pc[l] \in Ended /\ dir[l] \in exists => reasons[l] # {}

\* When launch_update returns an error, whatever failed before, its directory is gone
\* unless remove_all itself failed (lines 807-811 and 1252-1256).
FailedLeavesNothing ==
  \A l \in Launches :
    Alone(l) /\ pc[l] = "failed" /\ dir[l] \in exists => "remove all" \in reasons[l]
=============================================================================
