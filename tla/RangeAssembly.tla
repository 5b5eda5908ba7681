----------------------------- MODULE RangeAssembly -----------------------------
(***************************************************************************)
(* download_parallel (native/src/UpdateKit.cpp) byte by byte: which bytes  *)
(* each connection asks for, in unsigned arithmetic that wraps around,     *)
(* which answers it takes, and what is merged.  A server may answer        *)
(* anything; it is taken to send the bytes it says it sends.               *)
(***************************************************************************)
EXTENDS Integers

CONSTANTS
  Modulus, \* of std::uint64_t
  Slack    \* by how much the numbers of an answer may be off

ASSUME RangesAssumption ==
  /\ Modulus \in Nat /\ Modulus > 1
  /\ Slack \subseteq Int

VARIABLES
  expected,    \* the size in the manifest
  connections,
  part,        \* per connection: the bytes in its part file
  exact,       \* history: every answer so far was the right one
  file         \* "none", "merged", "failed": the caller falls back to one connection

rangeVars == <<expected, connections, part, exact, file>>

Workers == 0 .. 3
Pending == [state |-> "pending", from |-> 0, sent |-> 0]
Failed == [state |-> "failed", from |-> 0, sent |-> 0]

Wrapped(n) == n % Modulus

Begin(i) == Wrapped(expected * i) \div connections
End(i) == Wrapped(Begin(i + 1) - 1)

\* Content-Range of a 206, and the number of bytes that follow.
Near(n) == {Wrapped(n + d) : d \in Slack}
AnswersRange(i) ==
  [status : {200, 206}, first : Near(Begin(i)), last : Near(End(i)),
   total : Near(expected), sent : Near(End(i) - Begin(i) + 1)]

\* parse_content_range
Parses(a) == a.status = 206 /\ a.first <= a.last /\ a.last < a.total

\* Mutant: the first byte of the answer is not compared.
AcceptsAnyFirst(i, a) ==
  Parses(a) /\ a.last = End(i) /\ a.total = expected /\ a.sent = Wrapped(End(i) - Begin(i) + 1)

\* Mutant: the last byte is compared with the number of bytes.
AcceptsLastAsLength(i, a) ==
  /\ Parses(a) /\ a.first = Begin(i) /\ a.last - a.first = End(i) /\ a.total = expected
  /\ a.sent = Wrapped(End(i) - Begin(i) + 1)

Accepts(i, a) ==
  /\ Parses(a)
  /\ a.first = Begin(i) /\ a.last = End(i) /\ a.total = expected
  /\ a.sent = Wrapped(End(i) - Begin(i) + 1)

Exact(i, a) ==
  /\ a.status = 206 /\ a.first = Begin(i) /\ a.last = End(i)
  /\ a.total = expected /\ a.sent = Wrapped(End(i) - Begin(i) + 1)

RangesInit ==
  /\ expected \in 1 .. (Modulus - 1)
  /\ connections \in 1 .. 4
  /\ part = [i \in Workers |-> Pending]
  /\ exact = TRUE
  /\ file = "none"

Receives(i, a) ==
  /\ file = "none" /\ i < connections /\ part[i] = Pending
  /\ part' = [part EXCEPT ![i] =
       IF Accepts(i, a) THEN [state |-> "done", from |-> a.first, sent |-> a.sent] ELSE Failed]
  /\ exact' = (exact /\ Exact(i, a))
  /\ UNCHANGED <<expected, connections, file>>

\* The parts are merged in the order of their numbers, if no connection failed and
\* the size is right.
MergedSize == part[0].sent + part[1].sent + part[2].sent + part[3].sent

Merges ==
  /\ file = "none"
  /\ \A i \in Workers : i < connections => part[i] # Pending
  /\ file' = IF (\A i \in Workers : part[i] # Failed) /\ MergedSize = expected
             THEN "merged" ELSE "failed"
  /\ UNCHANGED <<expected, connections, part, exact>>

RangesNext == (\E i \in Workers : \E a \in AnswersRange(i) : Receives(i, a)) \/ Merges

RangesSpec == RangesInit /\ [][RangesNext]_rangeVars

-----------------------------------------------------------------------------
RangesTypeOK ==
  /\ expected \in 1 .. (Modulus - 1) /\ connections \in 1 .. 4
  /\ part \in [Workers -> [state : {"pending", "done", "failed"}, from : Nat, sent : Nat]]
  /\ exact \in BOOLEAN
  /\ file \in {"none", "merged", "failed"}

\* The parts begin with the first byte, each goes on where the one before it
\* ended, and the last ends with the file.
Whole ==
  /\ part[0].from = 0
  /\ \A i \in Workers :
       i < connections =>
         part[i].from + part[i].sent =
           IF i + 1 < connections THEN part[i + 1].from ELSE expected

\* Whatever the size is and whatever the servers answer, wrap-around included,
\* a merged file is the file: no byte is missing, doubled or out of place
\* (download_parallel, lines 661-703).
Assembled == file = "merged" => Whole

\* Right answers are not refused: a download in ranges fails on its own account only
\* when the file has fewer bytes than there are connections or when the products wrap
\* around (lines 662-663).
RangesSuffice ==
  file = "failed" /\ exact => expected < connections \/ expected * connections >= Modulus
=============================================================================
