---------------------------- MODULE ManagedDirectory ----------------------------
(***************************************************************************)
(* The directory of a managed download from the download to its removal:   *)
(* DiscardCompleted (UpdateDownloadSession.cs), LaunchCoreAsync and        *)
(* EnsureCanonicalExecutableNameAsync (UpdateLauncher.cs), and the stub    *)
(* with the script it leaves behind (UpdaterStub/Program.cs).  A host may  *)
(* launch the same download from several threads, and again.               *)
(***************************************************************************)
EXTENDS Naturals

CONSTANTS
  Calls,       \* of LaunchAsync or EnsureCanonicalExecutableNameAsync
  Directories, \* named by a new Guid each
  None,
  MaxFailures  \* operations that fail without a cause in this model

ASSUME ManagedAssumption == MaxFailures \in Nat /\ None \notin Directories \cup Calls

VARIABLES
  pc,       \* per call: the step of the launcher, then of the stub, then of its script
  on,       \* per call: its directory
  made,     \* directories that were created at some time
  exists,   \* and are there
  files,    \* per directory
  text,     \* per directory: the call whose transaction update.json or rename.json holds
  hosts,    \* directories whose host is running
  held,     \* directories of downloads that the session of their host knows as completed
  running,  \* calls whose stub is running, in their directory
  started,  \* history: calls that have started a stub
  failures,
  reasons   \* history: per call, why something may be left

vars == <<pc, on, made, exists, files, text, hosts, held, running, started, failures, reasons>>
place == <<on, made, exists, files, text>>
host == <<hosts, held>>

Names == {"package", "stub", "transaction", "marker", "script"}
Launcher == {"extract", "write", "start"}
Stub == {"read", "wait", "work", "delete", "schedule"}
Script == {"pause", "remove"}
Reasons == {"extract", "again", "write", "start", "read", "delete", "schedule", "pause", "remove",
            "discarded", "crash"}
Ended == {"failed", "died", "unread", "timeout", "unscheduled", "cleaned"}

Go(c, step) == pc' = [pc EXCEPT ![c] = step]
Has(c, name) == name \in files[on[c]]
Holds(c, names) == files' = [files EXCEPT ![on[c]] = names]
Because(c, reason) == reasons' = [reasons EXCEPT ![c] = @ \cup {reason}]
Fails(c, reason) ==
  failures < MaxFailures /\ failures' = failures + 1 /\ Because(c, reason)
Fine == UNCHANGED <<failures, reasons>>
\* What cannot be deleted: the image of a running stub.
InUse(d) == IF \E c \in running : on[c] = d THEN {"stub"} ELSE {}

Init ==
  /\ pc = [c \in Calls |-> "idle"] /\ on = [c \in Calls |-> None]
  /\ made = {} /\ exists = {} /\ hosts = {} /\ held = {} /\ running = {} /\ started = {}
  /\ files = [d \in Directories |-> {}] /\ text = [d \in Directories |-> None]
  /\ failures = 0 /\ reasons = [c \in Calls |-> {}]

-----------------------------------------------------------------------------
Makes(d, names) ==
  /\ d \notin made
  /\ made' = made \cup {d} /\ exists' = exists \cup {d} /\ hosts' = hosts \cup {d}
  /\ files' = [files EXCEPT ![d] = names]
  /\ UNCHANGED <<text, running, started>> /\ Fine

Downloads(d) == Makes(d, {"package"}) /\ held' = held \cup {d} /\ UNCHANGED <<pc, on>>

\* EnsureCanonicalExecutableNameAsync goes on in a directory of its own.
Normalizes(c, d) ==
  /\ pc[c] = "idle" /\ Go(c, "extract") /\ on' = [on EXCEPT ![c] = d]
  /\ Makes(d, {}) /\ UNCHANGED held

Launches(c, d) ==
  /\ pc[c] = "idle" /\ d \in hosts /\ "package" \in files[d]
  /\ Go(c, "extract") /\ on' = [on EXCEPT ![c] = d]
  /\ UNCHANGED <<made, exists, files, text, host, running, started>> /\ Fine

\* Mutant: a stub that is there is written over.
ExtractsOver(c) ==
  /\ pc[c] = "extract" /\ Go(c, "write")
  /\ on[c] \in exists /\ Holds(c, files[on[c]] \cup {"stub"})
  /\ UNCHANGED <<on, made, exists, text, host, running, started>> /\ Fine

\* ExtractStubAsync creates the file or throws; a copy that fails leaves what it has written.
Extracts(c) ==
  /\ pc[c] = "extract"
  /\ \/ /\ on[c] \in exists /\ ~Has(c, "stub")
        /\ Holds(c, files[on[c]] \cup {"stub"})
        /\ (Go(c, "write") /\ Fine) \/ (Go(c, "failed") /\ Fails(c, "extract"))
     \/ /\ on[c] \notin exists \/ Has(c, "stub")
        /\ Go(c, "failed") /\ Because(c, "again") /\ UNCHANGED <<files, failures>>
     \/ Go(c, "failed") /\ Fails(c, "extract") /\ UNCHANGED files
  /\ UNCHANGED <<on, made, exists, text, host, running, started>>

WritesTransaction(c) ==
  /\ pc[c] = "write"
  /\ \/ /\ on[c] \in exists /\ Go(c, "start")
        /\ Holds(c, files[on[c]] \cup {"transaction"}) /\ text' = [text EXCEPT ![on[c]] = c] /\ Fine
     \/ on[c] \notin exists /\ Go(c, "failed") /\ UNCHANGED <<files, text>> /\ Fine
     \/ /\ Go(c, "failed") /\ Fails(c, "write") /\ UNCHANGED text
        /\ on[c] \in exists /\ files' \in {files, [files EXCEPT ![on[c]] = @ \cup {"transaction"}]}
  /\ UNCHANGED <<on, made, exists, host, running, started>>

\* Mutant: the stub is started first.
StartsEarly(c) ==
  /\ pc[c] \in {"write", "start"} /\ Has(c, "stub") /\ Go(c, "read")
  /\ running' = running \cup {c} /\ started' = started \cup {c}
  /\ UNCHANGED <<place, host>> /\ Fine

Starts(c) ==
  /\ pc[c] = "start"
  /\ \/ /\ Has(c, "stub") /\ Go(c, "read")
        /\ running' = running \cup {c} /\ started' = started \cup {c} /\ Fine
     \/ /\ (~Has(c, "stub") /\ Fine) \/ Fails(c, "start")
        /\ Go(c, "failed") /\ UNCHANGED <<running, started>>
  /\ UNCHANGED <<place, host>>

\* DiscardCompleted: the session does not know that the download was launched.
Discards(d) ==
  /\ d \in held /\ d \in hosts /\ held' = held \ {d}
  /\ \/ /\ files' = [files EXCEPT ![d] = @ \cap InUse(d)]
        /\ exists' = IF InUse(d) = {} THEN exists \ {d} ELSE exists
        /\ UNCHANGED failures
     \/ /\ failures < MaxFailures /\ failures' = failures + 1
        /\ \E rest \in SUBSET files[d] :
             files' = [files EXCEPT ![d] = (@ \cap InUse(d)) \cup rest]
        /\ UNCHANGED exists
  /\ reasons' = [c \in Calls |-> IF on[c] = d THEN reasons[c] \cup {"discarded"} ELSE reasons[c]]
  /\ UNCHANGED <<pc, on, made, text, hosts, running, started>>

\* The host exits, or is killed while it is launching.
HostExits(d) ==
  /\ d \in hosts /\ hosts' = hosts \ {d}
  /\ pc' = [c \in Calls |-> IF on[c] = d /\ pc[c] \in Launcher THEN "died" ELSE pc[c]]
  /\ UNCHANGED <<place, held, running, started>> /\ Fine

-----------------------------------------------------------------------------
ReadsTransaction(c) ==
  /\ pc[c] = "read"
  /\ \/ Go(c, IF Has(c, "transaction") THEN "wait" ELSE "unread") /\ Fine
     \/ Go(c, "unread") /\ Fails(c, "read")
  /\ UNCHANGED <<place, host, running, started>>

\* Code 20 leaves everything where it is.
WaitsForHost(c) ==
  /\ pc[c] = "wait"
  /\ Go(c, IF on[c] \in hosts THEN "timeout" ELSE "work")
  /\ UNCHANGED <<place, host, running, started>> /\ Fine

\* Whatever the stub does at the target (ManagedUpdateStub, ManagedRenameStub), code 0
\* follows a marker, and after 30 and 40 there may be one.
Works(c) ==
  /\ pc[c] = "work"
  /\ \/ Go(c, "delete") /\ Holds(c, files[on[c]] \cup {"marker"})
     \/ Go(c, "schedule") /\ files' \in {files, [files EXCEPT ![on[c]] = @ \cup {"marker"}]}
  /\ UNCHANGED <<on, made, exists, text, host, running, started>> /\ Fine

\* TryDeleteDirectory of the stub's own directory: all but its image.
DeletesDirectory(c) ==
  /\ pc[c] = "delete" /\ Go(c, "schedule")
  /\ \E rest \in SUBSET (files[on[c]] \ InUse(on[c])) :
       /\ Holds(c, (files[on[c]] \cap InUse(on[c])) \cup rest)
       /\ IF rest = {} THEN Fine ELSE Fails(c, "delete")
  /\ UNCHANGED <<on, made, exists, text, host, running, started>>

ScheduleSelfCleanup(c) ==
  /\ pc[c] = "schedule"
  /\ \/ Go(c, "pause") /\ Holds(c, files[on[c]] \cup {"script"}) /\ Fine
     \/ Go(c, "unscheduled") /\ Fails(c, "schedule")
        /\ files' \in {files, [files EXCEPT ![on[c]] = @ \cup {"script"}]}
  /\ UNCHANGED <<on, made, exists, text, host, running, started>>

StubExits(c) ==
  /\ c \in running /\ pc[c] \in Script \cup Ended
  /\ running' = running \ {c}
  /\ UNCHANGED <<pc, place, host, started>> /\ Fine

\* Mutant: the script does not wait.
PausesNot(c) ==
  /\ pc[c] = "pause" /\ Go(c, "remove")
  /\ UNCHANGED <<place, host, running, started>> /\ Fine

\* timeout /t 2, by which the stub should be gone.
Pauses(c) ==
  /\ pc[c] = "pause" /\ Go(c, "remove")
  /\ (c \notin running /\ Fine) \/ (c \in running /\ Fails(c, "pause"))
  /\ UNCHANGED <<place, host, running, started>>

\* del and rmdir /s /q: the directory itself stays, as the current one of the script.
Removes(c) ==
  /\ pc[c] = "remove" /\ Go(c, "cleaned")
  /\ \E rest \in SUBSET (files[on[c]] \ InUse(on[c])) :
       /\ Holds(c, (files[on[c]] \cap InUse(on[c])) \cup rest)
       /\ IF rest = {} THEN Fine ELSE Fails(c, "remove")
  /\ UNCHANGED <<on, made, exists, text, host, running, started>>

\* The stub or the script is killed.
Crash(c) ==
  /\ pc[c] \in Stub \cup Script /\ Go(c, "died") /\ Because(c, "crash")
  /\ running' = running \ {c}
  /\ UNCHANGED <<place, host, started, failures>>

Next ==
  \/ \E d \in Directories : Downloads(d) \/ Discards(d) \/ HostExits(d)
  \/ \E c \in Calls, d \in Directories : Launches(c, d) \/ Normalizes(c, d)
  \/ \E c \in Calls :
       \/ Extracts(c) \/ WritesTransaction(c) \/ Starts(c)
       \/ ReadsTransaction(c) \/ WaitsForHost(c) \/ Works(c) \/ DeletesDirectory(c)
       \/ ScheduleSelfCleanup(c) \/ StubExits(c) \/ Pauses(c) \/ Removes(c) \/ Crash(c)

Spec == Init /\ [][Next]_vars

-----------------------------------------------------------------------------
TypeOK ==
  /\ pc \in [Calls -> {"idle"} \cup Launcher \cup Stub \cup Script \cup Ended]
  /\ on \in [Calls -> Directories \cup {None}]
  /\ exists \subseteq made /\ made \subseteq Directories /\ hosts \subseteq made
  /\ held \subseteq made
  /\ files \in [Directories -> SUBSET Names] /\ \A d \in Directories \ exists : files[d] = {}
  /\ text \in [Directories -> Calls \cup {None}]
  /\ running \subseteq started /\ started \subseteq Calls
  /\ failures \in 0 .. MaxFailures /\ reasons \in [Calls -> SUBSET Reasons]

\* The host has discarded the download after it had launched it.
Discarded(d) == \E c \in Calls : on[c] = d /\ "discarded" \in reasons[c]

\* However often and from however many threads a download is launched, one stub at most
\* is started for it: CreateNew of ExtractStubAsync admits the first call alone.
OneStub == \A c, k \in started : on[c] = on[k] => c = k \/ Discarded(on[c])

\* A stub finds the transaction of the call that started it, however many calls there are
\* for the same download and whatever has failed.
Delivered ==
  \A c \in Calls :
    pc[c] = "read" => (Has(c, "transaction") /\ text[on[c]] = c) \/ Discarded(on[c])

\* After the script nothing is left in the directory, if nothing failed, nobody was
\* killed and the stub was gone in time: what the stub itself cannot remove, its image
\* and the script, and on a failure the package, the script does.
Emptied ==
  \A c \in Calls :
    pc[c] = "cleaned" => files[on[c]] = {} \/ reasons[c] # {} \/ Discarded(on[c])
=============================================================================
