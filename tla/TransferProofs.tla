--------------------------- MODULE TransferProofs ----------------------------
(***************************************************************************)
(* Theorems about what the download engines stand on, for every size, width*)
(* of the arithmetic, number of requests, threads, processes and nodes: the*)
(* ranges of a file, the handles of requests, the list of nodes of a       *)
(* download and the file of the node cache.                                *)
(***************************************************************************)
EXTENDS RangeAssembly, HttpTransport, NodeCache, FiniteSetTheorems, FunctionTheorems,
        SequenceTheorems, TLAPS

(***************************************************************************)
(* The answers to range requests and their merging                         *)
(***************************************************************************)

\* Unsigned arithmetic stays in its range and leaves what is in it alone.
LEMMA WrapRange == ASSUME NEW n \in Int PROVE Wrapped(n) \in 0 .. (Modulus - 1)
BY RangesAssumption, SMT DEF Wrapped

\* A number that fits is itself,
LEMMA WrapSmall == ASSUME NEW n \in 0 .. (Modulus - 1) PROVE Wrapped(n) = n
BY RangesAssumption, SMT DEF Wrapped

\* and one below zero is the largest.
LEMMA WrapBelowZero == Wrapped(-1) = Modulus - 1
BY RangesAssumption, SMT DEF Wrapped

\* Quotients by a number of connections.
LEMMA Quotient ==
  ASSUME NEW n \in Nat, NEW c \in 1 .. 4
  PROVE  /\ n \div c \in 0 .. n
         /\ c * (n \div c) <= n /\ n < c * (n \div c) + c
<1>1. CASE c = 1 BY <1>1, SMT
<1>2. CASE c = 2 BY <1>2, SMT
<1>3. CASE c = 3 BY <1>3, SMT
<1>4. CASE c = 4 BY <1>4, SMT
<1> QED BY <1>1, <1>2, <1>3, <1>4, SMT

\* The first bytes are numbers, the first range begins with the first one.
LEMMA BeginRange ==
  ASSUME RangesTypeOK, NEW i \in 0 .. 4
  PROVE  Begin(i) \in 0 .. (Modulus - 1) /\ Begin(0) = 0
<1>1. expected * i \in Nat /\ expected * 0 = 0 BY SMT DEF RangesTypeOK
<1>2. Wrapped(expected * i) \in 0 .. (Modulus - 1) BY <1>1, WrapRange, SMT
<1>3. Wrapped(expected * i) \div connections \in 0 .. Wrapped(expected * i)
  BY <1>2, Quotient, RangesAssumption, SMT DEF RangesTypeOK
<1>4. Wrapped(0) = 0 BY WrapSmall, RangesAssumption, SMT
<1>5. 0 \div connections = 0 BY Quotient, SMT DEF RangesTypeOK
<1> QED BY <1>1, <1>2, <1>3, <1>4, <1>5, RangesAssumption, SMT DEF Begin

\* A range that is not empty, and within the file, ends before the next begins.
LEMMA EndBeforeNext ==
  ASSUME RangesTypeOK, NEW i \in Workers, Begin(i) <= End(i), End(i) < expected
  PROVE  /\ End(i) + 1 = Begin(i + 1)
         /\ Wrapped(End(i) - Begin(i) + 1) = End(i) - Begin(i) + 1
<1>1. Begin(i) \in 0 .. (Modulus - 1) /\ Begin(i + 1) \in 0 .. (Modulus - 1)
  BY BeginRange, SMT DEF Workers
<1>2. expected \in 1 .. (Modulus - 1) BY DEF RangesTypeOK
<1>3. Begin(i + 1) # 0
  BY <1>1, <1>2, WrapBelowZero, RangesAssumption, SMT DEF End
<1>4. Wrapped(Begin(i + 1) - 1) = Begin(i + 1) - 1
  BY <1>1, <1>3, WrapSmall, RangesAssumption, SMT
<1>5. End(i) - Begin(i) + 1 \in 0 .. (Modulus - 1)
  BY <1>1, <1>2, <1>4, RangesAssumption, SMT DEF End
<1> QED BY <1>1, <1>4, <1>5, WrapSmall, RangesAssumption, SMT DEF End

\* Without a wrap-around and with a byte for each connection, the ranges are
\* what their formulas say, none of them is empty, and the last ends with the file.
LEMMA Divides ==
  ASSUME RangesTypeOK, connections <= expected, expected * connections < Modulus
  PROVE  /\ Begin(connections) = expected
         /\ \A i \in Workers : i < connections =>
              Begin(i) <= End(i) /\ End(i) < expected
<1>1. \A i \in 0 .. 4 : i <= connections => Begin(i) = (expected * i) \div connections
  <2> SUFFICES ASSUME NEW i \in 0 .. 4, i <= connections
               PROVE  Begin(i) = (expected * i) \div connections
    OBVIOUS
  <2>1. expected * i \in Nat /\ expected * i <= expected * connections
    BY SMT DEF RangesTypeOK
  <2>2. expected * i \in 0 .. (Modulus - 1)
    BY <2>1, RangesAssumption, SMT DEF RangesTypeOK
  <2> QED BY <2>2, WrapSmall DEF Begin
<1>2. \A i \in Workers : i < connections =>
        /\ (expected * i) \div connections \in 0 .. expected
        /\ (expected * i) \div connections < (expected * (i + 1)) \div connections
        /\ (expected * (i + 1)) \div connections \in 0 .. expected
  <2>1. CASE connections = 1 BY <2>1, SMT DEF RangesTypeOK, Workers
  <2>2. CASE connections = 2 BY <2>2, SMT DEF RangesTypeOK, Workers
  <2>3. CASE connections = 3 BY <2>3, SMT DEF RangesTypeOK, Workers
  <2>4. CASE connections = 4 BY <2>4, SMT DEF RangesTypeOK, Workers
  <2> QED BY <2>1, <2>2, <2>3, <2>4, SMT DEF RangesTypeOK
<1>3. (expected * connections) \div connections = expected
  <2>1. CASE connections = 1 BY <2>1, SMT DEF RangesTypeOK
  <2>2. CASE connections = 2 BY <2>2, SMT DEF RangesTypeOK
  <2>3. CASE connections = 3 BY <2>3, SMT DEF RangesTypeOK
  <2>4. CASE connections = 4 BY <2>4, SMT DEF RangesTypeOK
  <2> QED BY <2>1, <2>2, <2>3, <2>4, SMT DEF RangesTypeOK
<1>4. ASSUME NEW i \in Workers, i < connections
      PROVE  Begin(i) <= End(i) /\ End(i) < expected
  <2>1. Begin(i + 1) - 1 \in 0 .. (Modulus - 1)
    BY <1>1, <1>2, <1>4, RangesAssumption, SMT DEF Workers, RangesTypeOK
  <2>2. End(i) = Begin(i + 1) - 1 BY <2>1, WrapSmall DEF End
  <2> QED BY <1>1, <1>2, <1>4, <2>2, RangesAssumption, SMT DEF Workers, RangesTypeOK
<1> QED BY <1>1, <1>3, <1>4, SMT DEF RangesTypeOK, Workers

-----------------------------------------------------------------------------
\* What the parts are when the answers have been looked at; a right answer is only
\* refused where the range that was asked for was none.
PartOf(i) ==
  /\ part[i].state = "pending" => part[i] = Pending
  /\ part[i].state = "failed" => part[i] = Failed /\ i < connections
  /\ part[i].state = "done" =>
       /\ i < connections
       /\ Begin(i) <= End(i) /\ End(i) < expected
       /\ part[i].from = Begin(i)
       /\ part[i].sent = Wrapped(End(i) - Begin(i) + 1)
  /\ exact /\ part[i].state = "failed" => ~(Begin(i) <= End(i) /\ End(i) < expected)

PartInv == \A i \in Workers : PartOf(i)

FileInv ==
  /\ file # "none" => \A i \in Workers : i < connections => part[i].state # "pending"
  /\ file = "merged" => MergedSize = expected /\ \A i \in Workers : part[i].state # "failed"
  /\ file = "failed" => MergedSize # expected \/ \E i \in Workers : part[i].state = "failed"

RangesInv == RangesTypeOK /\ PartInv /\ FileInv

\* No range has been asked for at first.
LEMMA InitRanges == RangesInit => RangesInv
BY RangesAssumption, SMT
   DEF RangesInit, RangesInv, RangesTypeOK, PartInv, PartOf, FileInv, Pending, Failed,
       Workers

\* An answer has natural numbers in it.
LEMMA AnswerTypes ==
  ASSUME RangesTypeOK, NEW i \in Workers, NEW a \in AnswersRange(i)
  PROVE  /\ a.status \in {200, 206}
         /\ a.first \in Nat /\ a.last \in Nat /\ a.total \in Nat /\ a.sent \in Nat
<1>1. Begin(i) \in Nat /\ Begin(i + 1) \in Nat BY BeginRange, RangesAssumption, SMT DEF Workers
<1>2. End(i) \in Nat BY <1>1, WrapRange, RangesAssumption, SMT DEF End
<1>3. \A n \in Int : \A x \in Near(n) : x \in Nat
  BY WrapRange, RangesAssumption, SMT DEF Near
<1> QED BY <1>1, <1>2, <1>3, SMT DEF AnswersRange, RangesTypeOK

\* Every action keeps the invariant of the ranges.
LEMMA NextRanges == RangesInv /\ [RangesNext]_rangeVars => RangesInv'
<1> SUFFICES ASSUME RangesInv, [RangesNext]_rangeVars PROVE RangesInv'
  OBVIOUS
<1> USE DEF RangesInv
<1>1. ASSUME NEW i \in Workers, NEW a \in AnswersRange(i), Receives(i, a)
      PROVE  RangesInv'
  <2>1. a.first \in Nat /\ a.last \in Nat /\ a.sent \in Nat BY AnswerTypes
  <2>2. RangesTypeOK' BY <1>1, <2>1, SMT DEF RangesTypeOK, Receives, Failed
  <2>3. \A j \in 0 .. 4 : Begin(j)' = Begin(j) BY <1>1 DEF Receives, Begin, Wrapped
  <2>4. \A j \in Workers : End(j)' = End(j) BY <2>3, SMT DEF End, Wrapped, Workers
  <2>5. ASSUME NEW j \in Workers, j # i
        PROVE  part'[j] = part[j]
    BY <1>1, <2>5 DEF Receives, RangesTypeOK
  <2> USE DEF PartInv
  <2>9. ASSUME NEW j \in Workers, j # i
        PROVE  PartOf(j)'
    <3>1. PartOf(j) OBVIOUS
    <3>2. /\ connections' = connections /\ expected' = expected /\ part'[j] = part[j]
          /\ exact' => exact
      BY <1>1, <2>5, <2>9 DEF Receives
    <3>3. Begin(j)' = Begin(j) /\ End(j)' = End(j)
          /\ Wrapped(End(j) - Begin(j) + 1)' = Wrapped(End(j) - Begin(j) + 1)
      BY <2>3, <2>4 DEF Workers, Wrapped
    <3> QED BY <3>1, <3>2, <3>3 DEF PartOf, Pending, Failed
  <2>6. CASE Accepts(i, a)
    <3>1. part'[i] = [state |-> "done", from |-> a.first, sent |-> a.sent]
      BY <1>1, <2>6 DEF Receives, RangesTypeOK
    <3>2. Begin(i) <= End(i) /\ End(i) < expected /\ a.first = Begin(i)
          /\ a.sent = Wrapped(End(i) - Begin(i) + 1)
      BY <2>6 DEF Accepts, Parses
    <3>3. PartOf(i)'
      BY <1>1, <2>3, <2>4, <3>1, <3>2 DEF PartOf, Receives, Workers, Wrapped, Failed
    <3>4. FileInv' BY <1>1 DEF FileInv, Receives
    <3> QED BY <2>2, <2>9, <3>3, <3>4
  <2>7. CASE ~Accepts(i, a)
    <3>1. part'[i] = Failed BY <1>1, <2>7 DEF Receives, RangesTypeOK
    <3>2. exact' => ~(Begin(i) <= End(i) /\ End(i) < expected)
      BY <1>1, <2>7 DEF Receives, Exact, Accepts, Parses
    <3>3. PartOf(i)'
      BY <1>1, <2>3, <2>4, <3>1, <3>2 DEF PartOf, Receives, Workers, Wrapped, Failed
    <3>4. FileInv' BY <1>1 DEF FileInv, Receives
    <3> QED BY <2>2, <2>9, <3>3, <3>4
  <2> QED BY <2>6, <2>7
<1>2. CASE Merges
  <2>1. RangesTypeOK' BY <1>2 DEF Merges, RangesTypeOK
  <2>2. PartInv' BY <1>2 DEF Merges, PartInv, PartOf, Begin, End, Wrapped
  <2>3. MergedSize' = MergedSize BY <1>2 DEF Merges, MergedSize
  <2>4. \A i \in Workers : /\ part[i] = Failed <=> part[i].state = "failed"
                           /\ part[i].state = "pending" => part[i] = Pending
    BY DEF PartInv, PartOf, Failed
  <2>5. FileInv' BY <1>2, <2>3, <2>4 DEF Merges, FileInv
  <2> QED BY <2>1, <2>2, <2>5
<1>3. CASE UNCHANGED rangeVars
  BY <1>3
     DEF rangeVars, RangesTypeOK, PartInv, PartOf, FileInv, Begin, End, Wrapped,
         MergedSize
<1> QED BY <1>1, <1>2, <1>3 DEF RangesNext

\* So it holds in every state.
LEMMA InvHolds == RangesSpec => []RangesInv
<1>1. RangesInit => RangesInv BY InitRanges
<1>2. RangesInv /\ [RangesNext]_rangeVars => RangesInv' BY NextRanges
<1> QED BY <1>1, <1>2, PTL DEF RangesSpec

-----------------------------------------------------------------------------
\* The numbers of the model stay numbers: no size, offset or count is negative,
\* although the arithmetic wraps around.
THEOREM RangeTypes == RangesSpec => []RangesTypeOK
BY InvHolds, PTL DEF RangesInv

\* The sizes of the parts of a merged file add up to where the last one ends.
LEMMA MergedIsWhole == RangesInv /\ file = "merged" => Whole
<1> SUFFICES ASSUME RangesInv, file = "merged" PROVE Whole
  OBVIOUS
<1> USE DEF RangesInv
<1>1. ASSUME NEW i \in Workers, i < connections
      PROVE  part[i].from = Begin(i) /\ part[i].sent = Begin(i + 1) - Begin(i)
  <2>1. part[i].state = "done" BY <1>1 DEF FileInv, RangesTypeOK
  <2>2. Begin(i) <= End(i) /\ End(i) < expected /\ part[i].from = Begin(i)
        /\ part[i].sent = Wrapped(End(i) - Begin(i) + 1)
    BY <2>1 DEF PartInv, PartOf
  <2>3. End(i) + 1 = Begin(i + 1) /\ part[i].sent = End(i) - Begin(i) + 1
    BY <2>2, EndBeforeNext
  <2>4. Begin(i) \in Int /\ Begin(i + 1) \in Int BY BeginRange, SMT DEF Workers
  <2>5. End(i) \in Int BY <2>4, WrapRange DEF End
  <2> QED BY <2>2, <2>3, <2>4, <2>5, SMT
<1>2. ASSUME NEW i \in Workers, ~(i < connections) PROVE part[i].sent = 0
  <2>1. part[i].state = "pending" BY <1>2 DEF FileInv, PartInv, PartOf, RangesTypeOK
  <2> QED BY <2>1 DEF PartInv, PartOf, Pending
<1>3. \A i \in 0 .. 4 : Begin(i) \in Int BY BeginRange
<1>4. Begin(connections) = expected
  <2> DEFINE S == part[0].sent + part[1].sent + part[2].sent + part[3].sent
  <2>1. S = expected BY DEF FileInv, MergedSize
  <2>2. Begin(0) = 0 BY BeginRange
  <2>3. CASE connections = 1
    <3>1. S = Begin(1) - Begin(0) BY <1>1, <1>2, <1>3, <2>3, SMT DEF Workers
    <3> QED BY <1>3, <2>1, <2>2, <2>3, <3>1
  <2>4. CASE connections = 2
    <3>1. S = Begin(2) - Begin(0) BY <1>1, <1>2, <1>3, <2>4, SMT DEF Workers
    <3> QED BY <1>3, <2>1, <2>2, <2>4, <3>1
  <2>5. CASE connections = 3
    <3>1. S = Begin(3) - Begin(0) BY <1>1, <1>2, <1>3, <2>5, SMT DEF Workers
    <3> QED BY <1>3, <2>1, <2>2, <2>5, <3>1
  <2>6. CASE connections = 4
    <3>1. S = Begin(4) - Begin(0) BY <1>1, <1>2, <1>3, <2>6, SMT DEF Workers
    <3> QED BY <1>3, <2>1, <2>2, <2>6, <3>1
  <2> QED BY <2>3, <2>4, <2>5, <2>6, SMT DEF RangesTypeOK
<1>5. part[0].from = 0 BY <1>1, BeginRange, SMT DEF Workers, RangesTypeOK
<1>6. ASSUME NEW i \in Workers, i < connections
      PROVE  part[i].from + part[i].sent =
               IF i + 1 < connections THEN part[i + 1].from ELSE expected
  <2>1. part[i].from + part[i].sent = Begin(i + 1)
    BY <1>1, <1>3, <1>6, SMT DEF Workers
  <2>2. CASE i + 1 < connections
    <3>1. i + 1 \in Workers BY <2>2, SMT DEF Workers, RangesTypeOK
    <3> QED BY <1>1, <2>1, <2>2, <3>1
  <2>3. CASE ~(i + 1 < connections)
    <3>1. i + 1 = connections BY <1>6, <2>3, SMT DEF Workers, RangesTypeOK
    <3> QED BY <1>4, <2>1, <2>3, <3>1
  <2> QED BY <2>2, <2>3
<1> QED BY <1>5, <1>6 DEF Whole

\* Whatever the size, the number of connections, the width of the arithmetic and
\* the answers, a file that download_parallel merges is the file.
THEOREM AssembledAlways == RangesSpec => []Assembled
<1>1. RangesInv => Assembled BY MergedIsWhole DEF Assembled
<1> QED BY <1>1, InvHolds, PTL

\* download_parallel fails on right answers only for a file of fewer bytes than
\* connections, or one whose size wraps around when it is multiplied.
THEOREM RangesAlwaysSuffice == RangesSpec => []RangesSuffice
<1>1. RangesInv => RangesSuffice
  <2> SUFFICES ASSUME RangesInv, file = "failed", exact,
                      ~(expected < connections), ~(expected * connections >= Modulus)
               PROVE  FALSE
    BY DEF RangesSuffice
  <2> USE DEF RangesInv
  <2>0. connections <= expected /\ expected * connections < Modulus
    BY RangesAssumption, SMT DEF RangesTypeOK
  <2>1. /\ Begin(connections) = expected
        /\ \A i \in Workers : i < connections => Begin(i) <= End(i) /\ End(i) < expected
    BY <2>0, Divides
  <2>2. \A i \in Workers : part[i].state # "failed" BY <2>1 DEF PartInv, PartOf
  <2>3. \A i \in Workers : i < connections => part[i].state = "done"
    BY <2>2 DEF FileInv, RangesTypeOK
  <2>4. MergedSize # expected BY <2>2 DEF FileInv
  <2>5. ASSUME NEW i \in Workers, i < connections
        PROVE  part[i].sent = Begin(i + 1) - Begin(i)
    <3>1. part[i].sent = Wrapped(End(i) - Begin(i) + 1)
      BY <2>3, <2>5 DEF PartInv, PartOf
    <3>2. End(i) + 1 = Begin(i + 1) /\ part[i].sent = End(i) - Begin(i) + 1
      BY <2>1, <2>5, <3>1, EndBeforeNext
    <3>3. Begin(i) \in Int /\ Begin(i + 1) \in Int BY BeginRange, SMT DEF Workers
    <3>4. End(i) \in Int BY <3>3, WrapRange DEF End
    <3> QED BY <3>2, <3>3, <3>4, SMT
  <2>6. ASSUME NEW i \in Workers, ~(i < connections) PROVE part[i].sent = 0
    <3>1. part[i].state = "pending" BY <2>2, <2>6 DEF PartInv, PartOf, RangesTypeOK
    <3> QED BY <3>1 DEF PartInv, PartOf, Pending
  <2>7. \A i \in 0 .. 4 : Begin(i) \in Int /\ Begin(0) = 0 BY BeginRange
  <2>8. CASE connections = 1
    BY <2>1, <2>4, <2>5, <2>6, <2>7, <2>8, SMT DEF Workers, MergedSize
  <2>9. CASE connections = 2
    BY <2>1, <2>4, <2>5, <2>6, <2>7, <2>9, SMT DEF Workers, MergedSize
  <2>10. CASE connections = 3
    BY <2>1, <2>4, <2>5, <2>6, <2>7, <2>10, SMT DEF Workers, MergedSize
  <2>11. CASE connections = 4
    BY <2>1, <2>4, <2>5, <2>6, <2>7, <2>11, SMT DEF Workers, MergedSize
  <2> QED BY <2>8, <2>9, <2>10, <2>11, SMT DEF RangesTypeOK
<1> QED BY <1>1, InvHolds, PTL

(***************************************************************************)
(* The handles of requests                                                 *)
(***************************************************************************)

\* Nobody is about to close the handle of r.
Untaken(r) == pc[r] # "closing" /\ \A t \in Aborters : taken[t] # r

\* At most one of the ActiveRequest, get and the aborts has the handle, and only
\* while it is open.
Exclusive ==
  /\ \A r \in held : Untaken(r) /\ closes[r] = 0
  /\ \A r \in Requests : pc[r] = "closing" => closes[r] = 0 /\ \A t \in Aborters : taken[t] # r
  /\ \A t \in Aborters : taken[t] # None =>
       closes[taken[t]] = 0 /\ \A u \in Aborters \ {t} : taken[u] # taken[t]
  /\ ClosedOnce

\* A request that is being read has its handle somewhere, or it was closed.
Accounted ==
  \A r \in Requests :
    /\ pc[r] \in {"start", "unopened"} =>
         r \notin held \cup active \cup seen /\ Untaken(r) /\ closes[r] = 0
    /\ pc[r] \notin {"start", "unopened"} => r \in held \/ closes[r] = 1 \/ ~Untaken(r)
    /\ pc[r] \in {"closing", "erasing", "done"} => r \notin held
    /\ pc[r] \in {"opened", "done"} => r \notin active

\* Aborts have before them only what was registered when they began.
Copied == \A t \in Aborters : copy[t] \subseteq seen

Inv == TypeOK /\ Exclusive /\ Accounted /\ Copied /\ AbortReaches

-----------------------------------------------------------------------------
\* The initial state satisfies the invariant.
LEMMA InitInv == Init => Inv
BY TransportAssumption
   DEF Init, Inv, TypeOK, Steps, Exclusive, Accounted, Copied, AbortReaches, ClosedOnce, Untaken

\* A step of get that only goes on to the next one disturbs nothing.
LEMMA GoesOnInv ==
  ASSUME Inv, NEW r \in Requests, OpenFails(r) \/ Answers(r) \/ Takes(r) \/ Ends(r) \/ Fails(r)
  PROVE Inv'
<1>1. /\ UNCHANGED <<held, active, closes, copy, taken, seen>>
      /\ \E step \in Steps \ {"start", "closing", "erasing", "done", "opened"} :
           /\ pc' = [pc EXCEPT ![r] = step]
           /\ pc[r] \in {"start", "sending", "reading", "sink"}
           /\ pc[r] = "start" <=> step = "unopened"
  BY DEF OpenFails, Answers, Takes, Ends, Fails, Go, aborts, Steps
<1>2. TypeOK'
  BY <1>1 DEF Inv, TypeOK, Steps
<1>3. Exclusive'
  BY <1>1 DEF Inv, Exclusive, ClosedOnce, Untaken, TypeOK
<1>4. Accounted'
  BY <1>1 DEF Inv, Accounted, Untaken, TypeOK
<1>5. Copied' /\ AbortReaches'
  BY <1>1 DEF Inv, Copied, AbortReaches
<1> QED
  BY <1>2, <1>3, <1>4, <1>5 DEF Inv

\* The handle is stored, registered, exchanged, closed and erased.
LEMMA HandleInv ==
  ASSUME Inv, NEW r \in Requests,
         Opens(r) \/ Registers(r) \/ Exchanges(r) \/ Closes(r) \/ Erases(r)
  PROVE Inv'
<1> USE DEF Go, Close, aborts
<1>1. CASE Opens(r)
  <2>1. TypeOK'
    BY <1>1 DEF Inv, TypeOK, Steps, Opens
  <2>2. Untaken(r) /\ closes[r] = 0 /\ r \notin active /\ r \notin seen
    BY <1>1 DEF Inv, Accounted, Opens
  <2>3. Exclusive'
    BY <1>1, <2>2 DEF Inv, Exclusive, ClosedOnce, Untaken, TypeOK, Opens
  <2>4. Accounted'
    BY <1>1, <2>2 DEF Inv, Accounted, Untaken, TypeOK, Opens
  <2>5. Copied' /\ AbortReaches'
    BY <1>1, <2>2 DEF Inv, Copied, AbortReaches, Opens
  <2> QED
    BY <2>1, <2>3, <2>4, <2>5 DEF Inv
<1>2. CASE Registers(r)
  <2>1. TypeOK'
    BY <1>2 DEF Inv, TypeOK, Steps, Registers
  <2>2. Exclusive'
    BY <1>2 DEF Inv, Exclusive, ClosedOnce, Untaken, TypeOK, Registers
  <2>3. Accounted'
    BY <1>2 DEF Inv, Accounted, Untaken, TypeOK, Registers
  <2>4. Copied' /\ AbortReaches'
    BY <1>2 DEF Inv, Copied, AbortReaches, Registers
  <2> QED
    BY <2>1, <2>2, <2>3, <2>4 DEF Inv
<1>3. CASE Exchanges(r)
  <2>1. TypeOK'
    BY <1>3 DEF Inv, TypeOK, Steps, Exchanges
  <2>2. Exclusive'
    BY <1>3 DEF Inv, Exclusive, ClosedOnce, Untaken, TypeOK, Exchanges
  <2>3. Accounted'
    BY <1>3 DEF Inv, Accounted, Untaken, TypeOK, Exchanges
  <2>4. Copied' /\ AbortReaches'
    BY <1>3 DEF Inv, Copied, AbortReaches, Exchanges
  <2> QED
    BY <2>1, <2>2, <2>3, <2>4 DEF Inv
<1>4. CASE Closes(r)
  <2>1. closes[r] = 0 /\ r \notin held /\ \A t \in Aborters : taken[t] # r
    BY <1>4 DEF Inv, Exclusive, Untaken, Closes
  <2>2. TypeOK'
    BY <1>4 DEF Inv, TypeOK, Steps, Closes
  <2>3. Exclusive'
    BY <1>4, <2>1 DEF Inv, Exclusive, ClosedOnce, Untaken, TypeOK, Closes
  <2>4. Accounted'
    BY <1>4, <2>1 DEF Inv, Accounted, Untaken, TypeOK, Closes
  <2>5. Copied' /\ AbortReaches'
    BY <1>4 DEF Inv, Copied, AbortReaches, Closes
  <2> QED
    BY <2>2, <2>3, <2>4, <2>5 DEF Inv
<1>5. CASE Erases(r)
  <2>1. TypeOK'
    BY <1>5 DEF Inv, TypeOK, Steps, Erases
  <2>2. Exclusive'
    BY <1>5 DEF Inv, Exclusive, ClosedOnce, Untaken, TypeOK, Erases
  <2>3. Accounted'
    BY <1>5 DEF Inv, Accounted, Untaken, TypeOK, Erases
  <2>4. Copied' /\ AbortReaches'
    BY <1>5 DEF Inv, Copied, AbortReaches, Erases
  <2> QED
    BY <2>1, <2>2, <2>3, <2>4 DEF Inv
<1> QED
  BY <1>1, <1>2, <1>3, <1>4, <1>5

\* abort_active takes its copy, exchanges a handle and closes it.
LEMMA AbortInv ==
  ASSUME Inv, NEW t \in Aborters, Copies(t) \/ Abort(t)
  PROVE Inv'
<1>1. CASE Copies(t)
  <2>1. TypeOK'
    BY <1>1 DEF Inv, TypeOK, Copies
  <2>2. Exclusive'
    BY <1>1 DEF Inv, Exclusive, ClosedOnce, Untaken, Copies
  <2>3. Accounted'
    BY <1>1 DEF Inv, Accounted, Untaken, Copies
  <2>4. Copied' /\ AbortReaches'
    BY <1>1 DEF Inv, TypeOK, Copied, AbortReaches, Copies
  <2> QED
    BY <2>1, <2>2, <2>3, <2>4 DEF Inv
<1>2. ASSUME NEW r \in Requests, AbortTakes(t, r)
      PROVE Inv'
  <2>1. r \in seen /\ pc[r] \notin {"start", "unopened"}
    BY <1>2 DEF Inv, Copied, Accounted, AbortTakes
  <2>2. TypeOK'
    BY <1>2 DEF Inv, TypeOK, AbortTakes
  <2>3. Exclusive'
    BY <1>2, TransportAssumption DEF Inv, Exclusive, ClosedOnce, Untaken, TypeOK, AbortTakes
  <2>4. Accounted'
    BY <1>2, <2>1, TransportAssumption DEF Inv, Accounted, Untaken, TypeOK, AbortTakes
  <2>5. Copied' /\ AbortReaches'
    BY <1>2 DEF Inv, TypeOK, Copied, AbortReaches, AbortTakes
  <2> QED
    BY <2>2, <2>3, <2>4, <2>5 DEF Inv
<1>3. CASE AbortCloses(t)
  <2> DEFINE r == taken[t]
  <2>1. r \in Requests /\ closes[r] = 0 /\ r \notin held /\ pc[r] # "closing"
    BY <1>3 DEF Inv, TypeOK, Exclusive, Untaken, AbortCloses
  <2>2. pc[r] \notin {"start", "unopened"} /\ closes' = [closes EXCEPT ![r] = 1]
    BY <1>3, <2>1 DEF Inv, TypeOK, Accounted, Untaken, AbortCloses, Close
  <2>3. TypeOK'
    BY <1>3, <2>1, <2>2, TransportAssumption DEF Inv, TypeOK, AbortCloses
  <2>4. Exclusive'
    BY <1>3, <2>1, <2>2, TransportAssumption
       DEF Inv, Exclusive, ClosedOnce, Untaken, TypeOK, AbortCloses
  <2>5. Accounted'
    BY <1>3, <2>1, <2>2, TransportAssumption
       DEF Inv, Accounted, Untaken, TypeOK, AbortCloses
  <2>6. Copied' /\ AbortReaches'
    BY <1>3 DEF Inv, Copied, AbortReaches, AbortCloses
  <2> QED
    BY <2>3, <2>4, <2>5, <2>6 DEF Inv
<1> QED
  BY <1>1, <1>2, <1>3 DEF Abort

\* Every step preserves the invariant.
LEMMA NextInv == Inv /\ [Next]_vars => Inv'
<1> SUFFICES ASSUME Inv, [Next]_vars PROVE Inv'
  OBVIOUS
<1>1. ASSUME NEW r \in Requests, Get(r) PROVE Inv'
  BY <1>1, GoesOnInv, HandleInv DEF Get
<1>2. ASSUME NEW t \in Aborters, Copies(t) \/ Abort(t) PROVE Inv'
  BY <1>2, AbortInv
<1>3. CASE UNCHANGED vars
  BY <1>3
     DEF vars, Inv, TypeOK, Exclusive, Accounted, Copied, AbortReaches, ClosedOnce,
         Untaken
<1> QED
  BY <1>1, <1>2, <1>3 DEF Next

\* The invariant holds in every state.
LEMMA Invariance == Spec => []Inv
<1> QED
  BY InitInv, NextInv, PTL DEF Spec

\* The transport stays within its types (WinHttpTransport).
THEOREM TransportTypes == Spec => []TypeOK
<1>1. Inv => TypeOK
  BY DEF Inv
<1> QED
  BY <1>1, Invariance, PTL

\* No handle is closed twice, whatever get and the aborts do at the same time.
THEOREM AlwaysClosedOnce == Spec => []ClosedOnce
<1>1. Inv => ClosedOnce
  BY DEF Inv, Exclusive
<1> QED
  BY <1>1, Invariance, PTL

\* get leaves no handle open and no registration behind, whichever way it ends.
THEOREM NeverLeaks == Spec => []NoLeak
<1>1. Inv => NoLeak
  BY DEF Inv, Accounted, Untaken, NoLeak
<1> QED
  BY <1>1, Invariance, PTL

\* An abort passes over no request that was registered when it began.
THEOREM AbortAlwaysReaches == Spec => []AbortReaches
<1>1. Inv => AbortReaches
  BY DEF Inv
<1> QED
  BY <1>1, Invariance, PTL

(***************************************************************************)
(* The nodes of a download                                                 *)
(***************************************************************************)

\* A set of pairs that puts the members of S one behind the other.
Ordering(R, S) ==
  /\ \A x \in S : <<x, x>> \notin R
  /\ \A x, y, z \in S : <<x, y>> \in R /\ <<y, z>> \in R => <<x, z>> \in R
  /\ \A x, y \in S : x = y \/ <<x, y>> \in R \/ <<y, x>> \in R

\* A list of all the members of S in this order.
Arranges(f, S, R) ==
  /\ f \in [1 .. Cardinality(S) -> S]
  /\ \A x \in S : \E k \in DOMAIN f : f[k] = x
  /\ \A k, l \in DOMAIN f : k < l => <<f[k], f[l]>> \in R

Preceding(S, R, x) == {y \in S : <<y, x>> \in R}
Rank(S, R, x) == Cardinality(Preceding(S, R, x))

\* Ranks are numbers below the size of the set, and they grow with the order.
LEMMA Ranks ==
  ASSUME NEW S, IsFiniteSet(S), NEW R, Ordering(R, S)
  PROVE  /\ \A x \in S : Rank(S, R, x) \in 0 .. Cardinality(S) - 1
         /\ \A x, y \in S : <<x, y>> \in R => Rank(S, R, x) < Rank(S, R, y)
<1>0. Cardinality(S) \in Nat
  BY FS_CardinalityType
<1>1. ASSUME NEW x \in S
      PROVE  /\ IsFiniteSet(Preceding(S, R, x)) /\ Rank(S, R, x) \in Nat
             /\ Rank(S, R, x) < Cardinality(S)
  <2>1. Preceding(S, R, x) \in SUBSET S /\ x \notin Preceding(S, R, x)
    BY DEF Preceding, Ordering
  <2>2. /\ IsFiniteSet(Preceding(S, R, x)) /\ Rank(S, R, x) <= Cardinality(S)
        /\ Cardinality(S) = Rank(S, R, x) => S = Preceding(S, R, x)
    BY <2>1, FS_Subset DEF Rank
  <2>3. Rank(S, R, x) \in Nat
    BY <2>2, FS_CardinalityType DEF Rank
  <2> QED
    BY <1>0, <2>1, <2>2, <2>3
<1>2. ASSUME NEW x \in S, NEW y \in S, <<x, y>> \in R
      PROVE  Rank(S, R, x) < Rank(S, R, y)
  <2>1. Preceding(S, R, x) \cup {x} \in SUBSET Preceding(S, R, y)
    BY <1>2 DEF Preceding, Ordering
  <2>2. x \notin Preceding(S, R, x)
    BY DEF Preceding, Ordering
  <2>3. Cardinality(Preceding(S, R, x) \cup {x}) = Rank(S, R, x) + 1
    BY <1>1, <2>2, FS_AddElement DEF Rank
  <2>4. Cardinality(Preceding(S, R, x) \cup {x}) <= Rank(S, R, y)
    BY <1>1, <2>1, FS_Subset DEF Rank
  <2> QED
    BY <1>1, <2>3, <2>4
<1> QED
  BY <1>0, <1>1, <1>2

\* So each of these numbers is the rank of one member, and Arranged lists all of them.
LEMMA ArrangedArranges ==
  ASSUME NEW S, IsFiniteSet(S), NEW R, Ordering(R, S)
  PROVE  Arranges(Arranged(S, R), S, R)
<1> DEFINE n == Cardinality(S)
           rank == [x \in S |-> Rank(S, R, x)]
           f == Arranged(S, R)
<1>1. n \in Nat
  BY FS_CardinalityType
<1>2. rank \in [S -> 0 .. n - 1]
  BY Ranks
<1>3. \A x, y \in S : rank[x] = rank[y] => x = y
  <2> SUFFICES ASSUME NEW x \in S, NEW y \in S, Rank(S, R, x) = Rank(S, R, y)
               PROVE  x = y
    OBVIOUS
  <2>1. Rank(S, R, x) \in Int
    BY Ranks
  <2>2. ~(<<x, y>> \in R) /\ ~(<<y, x>> \in R)
    BY <2>1, Ranks
  <2> QED
    BY <2>2 DEF Ordering
<1>4. rank \in Injection(S, 0 .. n - 1)
  BY <1>2, <1>3 DEF Injection, IsInjective
<1>5. IsFiniteSet(0 .. n - 1) /\ Cardinality(0 .. n - 1) = n
  BY <1>1, FS_Interval
<1>6. rank \in Surjection(S, 0 .. n - 1)
  BY <1>4, <1>5, FS_Injection
<1>7. \A k \in 1 .. n : \E x \in S : Rank(S, R, x) = k - 1
  <2> SUFFICES ASSUME NEW k \in 1 .. n PROVE \E x \in S : Rank(S, R, x) = k - 1
    OBVIOUS
  <2>1. k - 1 \in 0 .. n - 1
    BY <1>1
  <2>2. PICK x \in S : rank[x] = k - 1
    BY <1>6, <2>1 DEF Surjection
  <2> QED
    BY <2>2
<1>8. DOMAIN f = 1 .. n /\ \A k \in 1 .. n : f[k] \in S /\ Rank(S, R, f[k]) = k - 1
  <2>1. \A k \in 1 .. n : f[k] = CHOOSE x \in S : Rank(S, R, x) = k - 1
    BY DEF Arranged, Rank, Preceding
  <2> QED
    BY <1>7, <2>1 DEF Arranged
<1>9. f \in [1 .. n -> S]
  BY <1>8 DEF Arranged
<1>10. ASSUME NEW x \in S
       PROVE  \E k \in DOMAIN f : f[k] = x
  <2>1. Rank(S, R, x) + 1 \in 1 .. n
    BY <1>1, Ranks
  <2>2. f[Rank(S, R, x) + 1] = x
    BY <1>1, <1>3, <1>8, <2>1, Ranks
  <2> QED
    BY <1>8, <2>1, <2>2
<1>11. ASSUME NEW k \in DOMAIN f, NEW l \in DOMAIN f, k < l
       PROVE  <<f[k], f[l]>> \in R
  <2>1. Rank(S, R, f[k]) < Rank(S, R, f[l])
    BY <1>1, <1>8, <1>11
  <2>2. f[k] # f[l] /\ ~(<<f[l], f[k]>> \in R)
    BY <1>1, <1>8, <2>1, Ranks
  <2> QED
    BY <1>8, <2>2 DEF Ordering
<1> QED
  BY <1>8, <1>9, <1>10, <1>11 DEF Arranges

\* There is no other such list.
LEMMA OneArrangement ==
  ASSUME NEW S, IsFiniteSet(S), NEW R, Ordering(R, S), NEW f, NEW g,
         Arranges(f, S, R), Arranges(g, S, R)
  PROVE  f = g
<1>1. ASSUME NEW h, Arranges(h, S, R), NEW k \in DOMAIN h
      PROVE  Rank(S, R, h[k]) = k - 1
  <2>0. Cardinality(S) \in Nat /\ DOMAIN h = 1 .. Cardinality(S) /\ \A l \in DOMAIN h : h[l] \in S
    BY <1>1, FS_CardinalityType DEF Arranges
  <2> DEFINE T == 1 .. (k - 1)
             P == Preceding(S, R, h[k])
             front == [l \in T |-> h[l]]
  <2>1. \A l \in T : l \in DOMAIN h /\ l < k
    BY <2>0
  <2>2. \A l \in T : h[l] \in P
    BY <1>1, <2>0, <2>1 DEF Arranges, Preceding
  <2>3. \A x \in P : \E l \in T : h[l] = x
    <3> SUFFICES ASSUME NEW x \in P
                 PROVE  \E l \in T : h[l] = x
      OBVIOUS
    <3>1. x \in S /\ <<x, h[k]>> \in R
      BY DEF Preceding
    <3>2. PICK l \in DOMAIN h : h[l] = x
      BY <1>1, <3>1 DEF Arranges
    <3>3. l # k
      BY <2>0, <3>1, <3>2 DEF Ordering
    <3>4. ~(k < l)
      <4>1. SUFFICES ASSUME k < l PROVE FALSE
        OBVIOUS
      <4>2. <<h[k], x>> \in R
        BY <1>1, <3>2, <4>1 DEF Arranges
      <4> QED
        BY <2>0, <3>1, <4>2 DEF Ordering
    <3> QED
      BY <2>0, <3>2, <3>3, <3>4
  <2>4. \A l, m \in T : h[l] = h[m] => l = m
    <3> SUFFICES ASSUME NEW l \in T, NEW m \in T, h[l] = h[m], l # m PROVE FALSE
      OBVIOUS
    <3>1. <<h[l], h[m]>> \in R \/ <<h[m], h[l]>> \in R
      BY <1>1, <2>0, <2>1 DEF Arranges
    <3> QED
      BY <2>0, <2>1, <3>1 DEF Ordering
  <2>5. front \in Bijection(T, P)
    BY <2>2, <2>3, <2>4 DEF Bijection, Injection, Surjection, IsInjective
  <2>6. ExistsBijection(T, P)
    BY <2>5 DEF ExistsBijection
  <2>7. IsFiniteSet(T) /\ Cardinality(T) = k - 1
    <3>1. k \in Int /\ k >= 1
      BY <2>0
    <3>2. IsFiniteSet(T) /\ Cardinality(T) = IF 1 > k - 1 THEN 0 ELSE (k - 1) - 1 + 1
      BY <3>1, FS_Interval
    <3> QED
      BY <3>1, <3>2
  <2> QED
    BY <2>6, <2>7, FS_Bijection DEF Rank
<1>2. DOMAIN f = 1 .. Cardinality(S) /\ DOMAIN g = 1 .. Cardinality(S)
  BY DEF Arranges
<1>3. \A k \in 1 .. Cardinality(S) : f[k] = g[k]
  <2> SUFFICES ASSUME NEW k \in 1 .. Cardinality(S) PROVE f[k] = g[k]
    OBVIOUS
  <2>0. f[k] \in S /\ g[k] \in S
    BY <1>2 DEF Arranges
  <2>3. Rank(S, R, f[k]) = k - 1 /\ Rank(S, R, g[k]) = k - 1
    BY <1>1, <1>2
  <2>1. f[k] \in S /\ g[k] \in S /\ Rank(S, R, f[k]) = k - 1 /\ Rank(S, R, g[k]) = k - 1
    BY <2>0, <2>3
  <2>2. ~(<<f[k], g[k]>> \in R) /\ ~(<<g[k], f[k]>> \in R)
    BY <2>1, Ranks
  <2> QED
    BY <2>1, <2>2 DEF Ordering
<1>4. f = [k \in 1 .. Cardinality(S) |-> f[k]] /\ g = [k \in 1 .. Cardinality(S) |-> g[k]]
  BY DEF Arranges
<1> QED
  BY <1>3, <1>4

\* The members of a list of nodes.
LEMMA NodeTypes ==
  ASSUME NEW ns \in Seq(Nodes)
  PROVE  \A i \in DOMAIN ns : /\ i \in Int /\ ns[i] \in Nodes /\ ns[i].id \in Ids
                             /\ ns[i].priority \in Int /\ ns[i].enabled \in BOOLEAN
<1> SUFFICES ASSUME NEW i \in DOMAIN ns
             PROVE  /\ i \in Int /\ ns[i] \in Nodes /\ ns[i].id \in Ids
                    /\ ns[i].priority \in Int /\ ns[i].enabled \in BOOLEAN
  OBVIOUS
<1>1. i \in Int /\ ns[i] \in Nodes
  OBVIOUS
<1> QED
  BY <1>1 DEF Nodes

\* Some of a list of nodes, at places that differ.
LEMMA ListedNodes ==
  ASSUME NEW ns \in Seq(Nodes), NEW m \in Nat, NEW f \in [1 .. m -> DOMAIN ns]
  PROVE  /\ Listed(ns, f) \in Seq(Nodes) /\ DOMAIN Listed(ns, f) = 1 .. m
         /\ \A k \in 1 .. m : Listed(ns, f)[k] = ns[f[k]]
<1>1. Listed(ns, f) = [k \in 1 .. m |-> ns[f[k]]]
  BY DEF Listed
<1>2. \A k \in 1 .. m : ns[f[k]] \in Nodes
  OBVIOUS
<1>3. [k \in 1 .. m |-> ns[f[k]]] \in Seq(Nodes)
  BY <1>2
<1> QED
  BY <1>1, <1>3

\* The places of a list are finitely many, and both orders put any of them one behind the other.
LEMMA PlacesFinite ==
  ASSUME NEW ns \in Seq(Nodes), NEW S \in SUBSET DOMAIN ns
  PROVE  IsFiniteSet(S) /\ Cardinality(S) \in Nat
<1>1. DOMAIN ns = 1 .. Len(ns) /\ Len(ns) \in Nat
  OBVIOUS
<1>2. IsFiniteSet(DOMAIN ns)
  BY <1>1, FS_Interval
<1> QED
  BY <1>2, FS_Subset, FS_CardinalityType

LEMMA AscendingOrders ==
  ASSUME NEW S \in SUBSET Int
  PROVE  Ordering(Ascending(S), S)
BY DEF Ordering, Ascending

LEMMA BeforeOrders ==
  ASSUME NEW ns \in Seq(Nodes)
  PROVE  Ordering(Before(ns), DOMAIN ns)
<1>1. \A i \in DOMAIN ns : i \in Int /\ ns[i].priority \in Int
  BY NodeTypes
<1>2. \A i, j \in DOMAIN ns : <<i, j>> \in Before(ns) <=>
        \/ ns[i].priority < ns[j].priority
        \/ ns[i].priority = ns[j].priority /\ i < j
  BY DEF Before
<1>3. \A x \in DOMAIN ns : <<x, x>> \notin Before(ns)
  BY <1>1, <1>2
<1>4. \A x, y, z \in DOMAIN ns :
        <<x, y>> \in Before(ns) /\ <<y, z>> \in Before(ns) => <<x, z>> \in Before(ns)
  BY <1>1, <1>2
<1>5. \A x, y \in DOMAIN ns : x = y \/ <<x, y>> \in Before(ns) \/ <<y, x>> \in Before(ns)
  <2> SUFFICES ASSUME NEW x \in DOMAIN ns, NEW y \in DOMAIN ns,
                      <<x, y>> \notin Before(ns), <<y, x>> \notin Before(ns)
               PROVE  x = y
    OBVIOUS
  <2>1. /\ ~(ns[x].priority < ns[y].priority) /\ ~(ns[y].priority < ns[x].priority)
        /\ ns[x].priority = ns[y].priority => ~(x < y) /\ ~(y < x)
    BY <1>2
  <2> QED
    BY <1>1, <2>1
<1> QED
  BY <1>3, <1>4, <1>5 DEF Ordering

\* Chosen takes the nodes at some places, in their order.
LEMMA ChosenNodes ==
  ASSUME NEW ns \in Seq(Nodes), NEW S \in SUBSET DOMAIN ns
  PROVE  \E f : /\ Arranges(f, S, Ascending(S)) /\ f \in [DOMAIN f -> DOMAIN ns]
                /\ Chosen(ns, S) \in Seq(Nodes) /\ DOMAIN Chosen(ns, S) = DOMAIN f
                /\ \A k \in DOMAIN f : f[k] \in S /\ Chosen(ns, S)[k] = ns[f[k]]
                /\ \A k, l \in DOMAIN f : k < l => f[k] < f[l]
                /\ \A i \in S : \E k \in DOMAIN f : f[k] = i
<1> DEFINE f == Arranged(S, Ascending(S))
<1>0. S \in SUBSET Int
  OBVIOUS
<1>1. Arranges(f, S, Ascending(S)) /\ Cardinality(S) \in Nat
  BY <1>0, PlacesFinite, AscendingOrders, ArrangedArranges
<1>2. /\ f \in [1 .. Cardinality(S) -> S] /\ f \in [1 .. Cardinality(S) -> DOMAIN ns]
      /\ \A i \in S : \E k \in DOMAIN f : f[k] = i
  BY <1>1 DEF Arranges
<1>3. \A k, l \in DOMAIN f : k < l => f[k] < f[l]
  BY <1>1 DEF Arranges, Ascending
<1>4. /\ Chosen(ns, S) \in Seq(Nodes) /\ DOMAIN Chosen(ns, S) = DOMAIN f
      /\ \A k \in DOMAIN f : Chosen(ns, S)[k] = ns[f[k]]
  BY <1>1, <1>2, ListedNodes DEF Chosen
<1> HIDE DEF f
<1> QED
  BY <1>1, <1>2, <1>3, <1>4

\* ByPriority takes all of them, in the order of the priorities and of the places.
LEMMA SortedNodes ==
  ASSUME NEW ns \in Seq(Nodes)
  PROVE  \E f : /\ Arranges(f, DOMAIN ns, Before(ns)) /\ f \in [DOMAIN f -> DOMAIN ns]
                /\ ByPriority(ns) \in Seq(Nodes) /\ DOMAIN ByPriority(ns) = DOMAIN f
                /\ \A k \in DOMAIN f : f[k] \in DOMAIN ns /\ ByPriority(ns)[k] = ns[f[k]]
                /\ \A k, l \in DOMAIN f : k < l => <<f[k], f[l]>> \in Before(ns)
                /\ \A i \in DOMAIN ns : \E k \in DOMAIN f : f[k] = i
<1> DEFINE f == Arranged(DOMAIN ns, Before(ns))
<1>1. Arranges(f, DOMAIN ns, Before(ns)) /\ Cardinality(DOMAIN ns) \in Nat
  BY PlacesFinite, BeforeOrders, ArrangedArranges
<1>2. /\ f \in [1 .. Cardinality(DOMAIN ns) -> DOMAIN ns]
      /\ \A i \in DOMAIN ns : \E k \in DOMAIN f : f[k] = i
      /\ \A k, l \in DOMAIN f : k < l => <<f[k], f[l]>> \in Before(ns)
  BY <1>1 DEF Arranges
<1>4. /\ ByPriority(ns) \in Seq(Nodes) /\ DOMAIN ByPriority(ns) = DOMAIN f
      /\ \A k \in DOMAIN f : ByPriority(ns)[k] = ns[f[k]]
  BY <1>1, <1>2, ListedNodes DEF ByPriority
<1> HIDE DEF f
<1> QED
  BY <1>1, <1>2, <1>4

-----------------------------------------------------------------------------
\* What lists of nodes may have: no id twice, ascending priorities.
Distinct(ns) == \A i, j \in DOMAIN ns : ns[i].id = ns[j].id => i = j
Sorted(ns)   == \A i, j \in DOMAIN ns : i < j => ns[i].priority <= ns[j].priority

\* The nodes of a list that are at some places are those that Chosen keeps, and neither
\* an id is doubled nor an order broken.
LEMMA ChosenKeeps ==
  ASSUME NEW ns \in Seq(Nodes), NEW S \in SUBSET DOMAIN ns
  PROVE  /\ Chosen(ns, S) \in Seq(Nodes)
         /\ \A k \in DOMAIN Chosen(ns, S) : \E i \in S : Chosen(ns, S)[k] = ns[i]
         /\ \A i \in S : \E k \in DOMAIN Chosen(ns, S) : Chosen(ns, S)[k] = ns[i]
         /\ Distinct(ns) => Distinct(Chosen(ns, S))
         /\ Sorted(ns) => Sorted(Chosen(ns, S))
<1> DEFINE c == Chosen(ns, S)
<1>1. PICK f : /\ c \in Seq(Nodes) /\ DOMAIN c = DOMAIN f
               /\ \A k \in DOMAIN f : f[k] \in S /\ c[k] = ns[f[k]]
               /\ \A k, l \in DOMAIN f : k < l => f[k] < f[l]
               /\ \A i \in S : \E k \in DOMAIN f : f[k] = i
  BY ChosenNodes
<1> HIDE DEF c
<1>2. /\ \A k \in DOMAIN c : \E i \in S : c[k] = ns[i]
      /\ \A i \in S : \E k \in DOMAIN c : c[k] = ns[i]
  BY <1>1
<1>3. \A k \in DOMAIN c : k \in Int /\ f[k] \in DOMAIN ns /\ f[k] \in Int
  BY <1>1
<1>4. ASSUME Distinct(ns) PROVE Distinct(c)
  BY <1>1, <1>3, <1>4 DEF Distinct
<1>5. ASSUME Sorted(ns) PROVE Sorted(c)
  BY <1>1, <1>3, <1>5 DEF Sorted
<1> QED
  BY <1>1, <1>2, <1>4, <1>5 DEF c

\* Sorting keeps the nodes.
LEMMA SortKeeps ==
  ASSUME NEW ns \in Seq(Nodes)
  PROVE  /\ ByPriority(ns) \in Seq(Nodes) /\ Sorted(ByPriority(ns))
         /\ \A k \in DOMAIN ByPriority(ns) : \E i \in DOMAIN ns : ByPriority(ns)[k] = ns[i]
         /\ \A i \in DOMAIN ns : \E k \in DOMAIN ByPriority(ns) : ByPriority(ns)[k] = ns[i]
         /\ Distinct(ns) => Distinct(ByPriority(ns))
<1> DEFINE c == ByPriority(ns)
<1>1. PICK f : /\ c \in Seq(Nodes) /\ DOMAIN c = DOMAIN f
               /\ \A k \in DOMAIN f : f[k] \in DOMAIN ns /\ c[k] = ns[f[k]]
               /\ \A k, l \in DOMAIN f : k < l => <<f[k], f[l]>> \in Before(ns)
               /\ \A i \in DOMAIN ns : \E k \in DOMAIN f : f[k] = i
  BY SortedNodes
<1> HIDE DEF c
<1>2. /\ \A k \in DOMAIN c : \E i \in DOMAIN ns : c[k] = ns[i]
      /\ \A i \in DOMAIN ns : \E k \in DOMAIN c : c[k] = ns[i]
  BY <1>1
<1>3. /\ \A k \in DOMAIN c : k \in Int
      /\ \A i \in DOMAIN ns : i \in Int /\ ns[i].priority \in Int
  BY <1>1, NodeTypes
<1>4. \A k, l \in DOMAIN c : k < l => /\ ns[f[k]].priority <= ns[f[l]].priority
                                     /\ f[k] # f[l]
  <2> SUFFICES ASSUME NEW k \in DOMAIN c, NEW l \in DOMAIN c, k < l
               PROVE  ns[f[k]].priority <= ns[f[l]].priority /\ f[k] # f[l]
    OBVIOUS
  <2>1. f[k] \in DOMAIN ns /\ f[l] \in DOMAIN ns /\ <<f[k], f[l]>> \in Before(ns)
    BY <1>1
  <2>2. \/ ns[f[k]].priority < ns[f[l]].priority
        \/ ns[f[k]].priority = ns[f[l]].priority /\ f[k] < f[l]
    BY <2>1 DEF Before
  <2> QED
    BY <1>3, <2>1, <2>2
<1>5. Sorted(c)
  BY <1>1, <1>4 DEF Sorted
<1>6. ASSUME Distinct(ns) PROVE Distinct(c)
  <2> SUFFICES ASSUME NEW k \in DOMAIN c, NEW l \in DOMAIN c, c[k].id = c[l].id
               PROVE  k = l
    BY DEF Distinct
  <2>1. f[k] = f[l]
    BY <1>1, <1>6 DEF Distinct
  <2> QED
    BY <1>3, <1>4, <2>1
<1> QED
  BY <1>1, <1>2, <1>5, <1>6 DEF c

-----------------------------------------------------------------------------
\* Normalising a valid node again changes nothing, and it stays valid.
LEMMA NormalNode ==
  ASSUME NEW n \in Nodes
  PROVE  /\ Normal(n) \in Nodes /\ Normal(n).id = n.id /\ Normal(Normal(n)) = Normal(n)
         /\ \A frontend \in Clients : Valid(frontend, n) => Valid(frontend, Normal(n))
<1>1. Official \in Nodes /\ Official.id = Direct
  BY ResolutionAssumption DEF Official, Nodes
<1>2. CASE n.id = Direct
  <2>1. Normal(n) = Official /\ Normal(Official) = Official
    BY <1>1, <1>2 DEF Normal
  <2>2. \A frontend \in Clients : Valid(frontend, Official)
    BY DEF Valid, NativeValid, ManagedValid, Official
  <2> QED
    BY <1>1, <1>2, <2>1, <2>2
<1>3. CASE n.id # Direct
  <2> DEFINE p == Clamped(n.priority)
  <2>1. n.priority \in Int
    BY DEF Nodes
  <2>2. p \in Int /\ Clamped(p) = p
    BY <2>1, ResolutionAssumption DEF Clamped
  <2> HIDE DEF p
  <2>3. Normal(n) = [n EXCEPT !.priority = p]
    BY <1>3 DEF Normal, p
  <2>4. /\ Normal(n) \in Nodes /\ Normal(n).id = n.id /\ Normal(n).priority = p
        /\ Normal(n).template = n.template /\ Normal(n).enabled = n.enabled
    BY <2>2, <2>3 DEF Nodes
  <2>5. Normal(Normal(n)) = [Normal(n) EXCEPT !.priority = p]
    BY <1>3, <2>2, <2>4 DEF Normal
  <2>6. Normal(Normal(n)) = Normal(n)
    BY <2>4, <2>5 DEF Nodes
  <2> QED
    BY <1>3, <2>4, <2>6 DEF Valid, NativeValid, ManagedValid
<1> QED
  BY <1>2, <1>3

\* The official node is valid and normal.
LEMMA OfficialNode ==
  /\ Official \in Nodes /\ Official.id = Direct /\ Official.enabled /\ Normal(Official) = Official
  /\ \A frontend \in Clients : Valid(frontend, Official)
BY ResolutionAssumption
   DEF Official, Nodes, Normal, Valid, NativeValid, ManagedValid

\* A list without doubles of nodes that a client takes as they are.
Proper(frontend, ns) ==
  /\ ns \in Seq(Nodes) /\ Distinct(ns)
  /\ \A i \in DOMAIN ns : Valid(frontend, ns[i]) /\ ns[i] = Normal(ns[i])

\* Normalised lists are such, whatever is in them.
LEMMA KeptProper ==
  ASSUME NEW frontend \in Clients, NEW ns \in Seq(Nodes)
  PROVE  Proper(frontend, Kept(frontend, ns))
<1> DEFINE S == {i \in DOMAIN ns : First(frontend, ns, i)}
           c == Chosen(ns, S)
           r == Kept(frontend, ns)
<1>1. S \in SUBSET DOMAIN ns
  OBVIOUS
<1>2. PICK f : /\ c \in Seq(Nodes) /\ DOMAIN c = DOMAIN f
               /\ \A k \in DOMAIN f : f[k] \in S /\ c[k] = ns[f[k]]
               /\ \A k, l \in DOMAIN f : k < l => f[k] < f[l]
  BY <1>1, ChosenNodes
<1> HIDE DEF c
<1>3. r = [k \in DOMAIN c |-> Normal(c[k])]
  BY DEF Kept, c
<1>4. \A k \in DOMAIN c : /\ k \in Int /\ f[k] \in S /\ f[k] \in DOMAIN ns /\ f[k] \in Int
                          /\ c[k] = ns[f[k]] /\ c[k] \in Nodes /\ Valid(frontend, c[k])
                          /\ First(frontend, ns, f[k])
  BY <1>2 DEF First
<1> HIDE DEF r, S
<1>5. /\ DOMAIN r = DOMAIN c
      /\ \A k \in DOMAIN r : /\ r[k] = Normal(c[k]) /\ r[k] \in Nodes /\ r[k].id = c[k].id
                             /\ Valid(frontend, r[k]) /\ r[k] = Normal(r[k])
  BY <1>3, <1>4, NormalNode
<1>6. r \in Seq(Nodes)
  <2>1. DOMAIN c = 1 .. Len(c) /\ Len(c) \in Nat
    BY <1>2
  <2>2. r = [k \in 1 .. Len(c) |-> r[k]]
    BY <1>3, <2>1
  <2> QED
    BY <1>5, <2>1, <2>2
<1>7. Distinct(r)
  <2>1. ASSUME NEW k \in DOMAIN c, NEW l \in DOMAIN c, k < l PROVE c[k].id # c[l].id
    <3>1. f[k] < f[l] /\ f[k] \in 1 .. (f[l] - 1)
      BY <1>2, <1>4, <2>1
    <3>2. First(frontend, ns, f[l]) /\ Valid(frontend, ns[f[k]])
      BY <1>4
    <3> QED
      BY <1>4, <3>1, <3>2 DEF First
  <2>2. \A k, l \in DOMAIN c : c[k].id = c[l].id => k = l
    BY <1>4, <2>1
  <2> QED
    BY <1>5, <2>2 DEF Distinct
<1> QED
  BY <1>5, <1>6, <1>7 DEF Proper, r

\* Picking from such a list and sorting it leave it one.
LEMMA ChosenProper ==
  ASSUME NEW frontend, NEW ns, Proper(frontend, ns), NEW S \in SUBSET DOMAIN ns
  PROVE  Proper(frontend, Chosen(ns, S))
BY ChosenKeeps DEF Proper

LEMMA SortProper ==
  ASSUME NEW frontend, NEW ns, Proper(frontend, ns)
  PROVE  Proper(frontend, ByPriority(ns)) /\ Sorted(ByPriority(ns))
BY SortKeeps DEF Proper

\* The nodes but the official one, and that one behind them.
LEMMA OfficialBehind ==
  ASSUME NEW frontend \in Clients, NEW ns, Proper(frontend, ns)
  PROVE  /\ Proper(frontend, Append(Others(ns), Official))
         /\ \E i \in DOMAIN Append(Others(ns), Official) : Append(Others(ns), Official)[i] = Official
<1> DEFINE S == {i \in DOMAIN ns : ns[i].id # Direct}
           c == Others(ns)
           r == Append(c, Official)
<1>1. S \in SUBSET DOMAIN ns /\ c = Chosen(ns, S)
  BY DEF Others
<1>2. Proper(frontend, c) /\ \A k \in DOMAIN c : c[k].id # Direct
  <2>1. ns \in Seq(Nodes)
    BY DEF Proper
  <2>2. \A k \in DOMAIN Chosen(ns, S) : \E i \in S : Chosen(ns, S)[k] = ns[i]
    BY <1>1, <2>1, ChosenKeeps
  <2> QED
    BY <1>1, <2>2, ChosenProper
<1> HIDE DEF c, S
<1>3. c \in Seq(Nodes) /\ Len(c) \in Nat /\ DOMAIN c = 1 .. Len(c)
  BY <1>2 DEF Proper
<1>4. /\ r \in Seq(Nodes) /\ DOMAIN r = 1 .. Len(c) + 1
      /\ r[Len(c) + 1] = Official /\ \A k \in DOMAIN c : r[k] = c[k]
  BY <1>3, OfficialNode
<1> HIDE DEF r
<1>5. Distinct(r)
  <2>1. \A k \in DOMAIN r : k \in DOMAIN c \/ k = Len(c) + 1
    BY <1>3, <1>4
  <2>2. ASSUME NEW k \in DOMAIN r, NEW l \in DOMAIN r, r[k].id = r[l].id
        PROVE  k = l
    <3>1. CASE k \in DOMAIN c /\ l \in DOMAIN c
      BY <1>2, <1>4, <2>2, <3>1 DEF Proper, Distinct
    <3>2. CASE ~(k \in DOMAIN c /\ l \in DOMAIN c)
      BY <1>2, <1>4, <2>1, <2>2, <3>2, OfficialNode
    <3> QED
      BY <3>1, <3>2
  <2> QED
    BY <2>2 DEF Distinct
<1>6. \A k \in DOMAIN r : Valid(frontend, r[k]) /\ r[k] = Normal(r[k])
  <2>1. \A k \in DOMAIN r : k \in DOMAIN c \/ k = Len(c) + 1
    BY <1>3, <1>4
  <2> QED
    BY <1>2, <1>4, <2>1, OfficialNode DEF Proper
<1>7. Len(c) + 1 \in DOMAIN r
  BY <1>3, <1>4
<1>8. /\ Proper(frontend, r)
      /\ \E i \in DOMAIN r : r[i] = Official
  BY <1>4, <1>5, <1>6, <1>7 DEF Proper
<1> QED
  BY <1>8 DEF r, c

-----------------------------------------------------------------------------
\* The list of a download before the node verified last comes to the front.
Sound(frontend, ns) ==
  /\ Proper(frontend, ns) /\ Sorted(ns)
  /\ \A i \in DOMAIN ns : ns[i].enabled
  /\ \E i \in DOMAIN ns : ns[i] = Official

\* Disabled nodes are left out, the official one never.
LEMMA EnabledKeeps ==
  ASSUME NEW frontend, NEW ns, Proper(frontend, ns)
  PROVE  /\ Proper(frontend, Enabled(ns))
         /\ Sorted(ns) => Sorted(Enabled(ns))
         /\ \A i \in DOMAIN Enabled(ns) : Enabled(ns)[i].enabled
         /\ (\E i \in DOMAIN ns : ns[i] = Official) =>
              \E i \in DOMAIN Enabled(ns) : Enabled(ns)[i] = Official
<1> DEFINE S == {i \in DOMAIN ns : ns[i].enabled}
<1>1. S \in SUBSET DOMAIN ns /\ Enabled(ns) = Chosen(ns, S) /\ ns \in Seq(Nodes)
  BY DEF Enabled, Proper
<1>2. \A i \in S : ns[i].enabled
  OBVIOUS
<1>3. \A i \in DOMAIN ns : ns[i] = Official => i \in S
  BY OfficialNode
<1> HIDE DEF S
<1>4. /\ Sorted(ns) => Sorted(Chosen(ns, S))
      /\ \A k \in DOMAIN Chosen(ns, S) : \E i \in S : Chosen(ns, S)[k] = ns[i]
      /\ \A i \in S : \E k \in DOMAIN Chosen(ns, S) : Chosen(ns, S)[k] = ns[i]
  BY <1>1, ChosenKeeps
<1>5. (\E i \in DOMAIN ns : ns[i] = Official) =>
        \E i \in DOMAIN Enabled(ns) : Enabled(ns)[i] = Official
  BY <1>1, <1>3, <1>4
<1> QED
  BY <1>1, <1>2, <1>4, <1>5, ChosenProper

\* The same for sorting.
LEMMA SortedKeeps ==
  ASSUME NEW frontend, NEW ns, Proper(frontend, ns)
  PROVE  /\ Proper(frontend, ByPriority(ns)) /\ Sorted(ByPriority(ns))
         /\ (\A i \in DOMAIN ns : ns[i].enabled) =>
              \A i \in DOMAIN ByPriority(ns) : ByPriority(ns)[i].enabled
         /\ (\E i \in DOMAIN ns : ns[i] = Official) =>
              \E i \in DOMAIN ByPriority(ns) : ByPriority(ns)[i] = Official
<1>1. ns \in Seq(Nodes)
  BY DEF Proper
<1>2. /\ \A k \in DOMAIN ByPriority(ns) : \E i \in DOMAIN ns : ByPriority(ns)[k] = ns[i]
      /\ \A i \in DOMAIN ns : \E k \in DOMAIN ByPriority(ns) : ByPriority(ns)[k] = ns[i]
  BY <1>1, SortKeeps
<1> QED
  BY <1>2, SortProper

\* Both frontends make such a list, whatever the Release and the cache hold.
LEMMA NativeSound ==
  ASSUME NEW release \in Seq(Nodes), NEW cached \in Seq(Nodes)
  PROVE  Sound("native", NativeNodes(release, cached))
<1> DEFINE configured == Kept("native", IF release = <<>> THEN cached ELSE release)
           all == Append(Others(configured), Official)
<1>1. Proper("native", configured)
  BY KeptProper DEF Clients
<1> HIDE DEF configured
<1>2. Proper("native", all) /\ \E i \in DOMAIN all : all[i] = Official
  BY <1>1, OfficialBehind DEF Clients
<1> HIDE DEF all
<1>3. /\ Proper("native", ByPriority(all)) /\ Sorted(ByPriority(all))
      /\ \E i \in DOMAIN ByPriority(all) : ByPriority(all)[i] = Official
  BY <1>2, SortedKeeps
<1>4. Sound("native", Enabled(ByPriority(all)))
  BY <1>3, EnabledKeeps DEF Sound
<1> QED
  BY <1>4 DEF NativeNodes, configured, all

LEMMA ManagedSound ==
  ASSUME NEW release \in Seq(Nodes), NEW cached \in Seq(Nodes)
  PROVE  Sound("managed", ManagedNodes(release, cached))
<1> DEFINE configured == IF Kept("managed", release) # <<>> THEN Kept("managed", release)
                         ELSE IF Kept("managed", cached) # <<>> THEN Kept("managed", cached)
                         ELSE Kept("managed", BuiltIns)
           all == Append(Others(configured), Official)
<1>1. Proper("managed", configured)
  BY KeptProper, ResolutionAssumption DEF Clients
<1> HIDE DEF configured
<1>2. Proper("managed", all) /\ \E i \in DOMAIN all : all[i] = Official
  BY <1>1, OfficialBehind DEF Clients
<1> HIDE DEF all
<1>3. /\ Proper("managed", Enabled(all)) /\ \A i \in DOMAIN Enabled(all) : Enabled(all)[i].enabled
      /\ \E i \in DOMAIN Enabled(all) : Enabled(all)[i] = Official
  BY <1>2, EnabledKeeps
<1>4. Sound("managed", ByPriority(Enabled(all)))
  BY <1>3, SortedKeeps DEF Sound
<1> QED
  BY <1>4 DEF ManagedNodes, configured, all

\* One node comes to the front, all others stay as they are.
LEMMA LastLeads ==
  ASSUME NEW frontend, NEW ns, Sound(frontend, ns), NEW last
  PROVE  LET r == LastFirst(ns, last)
         IN /\ Proper(frontend, r)
            /\ \A i \in DOMAIN r : r[i].enabled
            /\ Range(r) = Range(ns)
            /\ (\E n \in Range(ns) : n.id = last) => r[1].id = last
            /\ \A i, j \in DOMAIN r :
                 (IF r[1].id = last THEN 2 ELSE 1) <= i /\ i < j => r[i].priority <= r[j].priority
<1>0. ns \in Seq(Nodes) /\ Proper(frontend, ns) /\ Distinct(ns) /\ Sorted(ns)
  BY DEF Sound, Proper
<1>n. \A i \in DOMAIN ns : i \in Int /\ ns[i].priority \in Int
  BY <1>0, NodeTypes
<1>1. CASE ~\E n \in Range(ns) : n.id = last
  <2>1. LastFirst(ns, last) = ns
    BY <1>1 DEF LastFirst
  <2>2. \A i, j \in DOMAIN ns :
          (IF ns[1].id = last THEN 2 ELSE 1) <= i /\ i < j => ns[i].priority <= ns[j].priority
    BY <1>0 DEF Sorted
  <2> QED
    BY <1>0, <1>1, <2>1, <2>2 DEF Sound
<1>2. CASE \E n \in Range(ns) : n.id = last
  <2> DEFINE S == {i \in DOMAIN ns : ns[i].id = last}
             T == {i \in DOMAIN ns : ns[i].id # last}
             a == Chosen(ns, S)
             b == Chosen(ns, T)
             r == LastFirst(ns, last)
  <2>1. r = a \o b
    BY <1>2 DEF LastFirst
  <2>2. S \in SUBSET DOMAIN ns /\ T \in SUBSET DOMAIN ns
    OBVIOUS
  <2>3. PICK one \in S : TRUE
    BY <1>2 DEF Range
  <2>4. \A i \in S : i = one
    BY <1>0 DEF Distinct
  <2>5. \A i \in DOMAIN ns : (i \in S <=> ns[i].id = last) /\ (i \in T <=> ns[i].id # last)
    OBVIOUS
  <2>6. /\ a \in Seq(Nodes) /\ Distinct(a) /\ Proper(frontend, a)
        /\ \A k \in DOMAIN a : \E i \in S : a[k] = ns[i]
        /\ \A i \in S : \E k \in DOMAIN a : a[k] = ns[i]
    BY <1>0, <2>2, ChosenKeeps, ChosenProper
  <2>7. /\ b \in Seq(Nodes) /\ Distinct(b) /\ Sorted(b) /\ Proper(frontend, b)
        /\ \A k \in DOMAIN b : \E i \in T : b[k] = ns[i]
        /\ \A i \in T : \E k \in DOMAIN b : b[k] = ns[i]
    BY <1>0, <2>2, ChosenKeeps, ChosenProper
  <2> HIDE DEF S, T, a, b, r
  <2>8. /\ Len(a) \in Nat /\ DOMAIN a = 1 .. Len(a) /\ Len(b) \in Nat /\ DOMAIN b = 1 .. Len(b)
    BY <2>6, <2>7
  <2>9. Len(a) = 1 /\ a[1] = ns[one]
    <3>1. \A k \in DOMAIN a : a[k] = ns[one]
      BY <2>4, <2>6
    <3>2. \E k \in DOMAIN a : a[k] = ns[one]
      BY <2>3, <2>6
    <3>3. \A k, l \in DOMAIN a : k = l
      BY <2>6, <3>1 DEF Distinct
    <3>4. 1 \in DOMAIN a
      BY <2>8, <3>2
    <3>5. ~(2 <= Len(a))
      BY <2>8, <3>3, <3>4
    <3> QED
      BY <2>8, <3>1, <3>4, <3>5
  <2>10. /\ r \in Seq(Nodes) /\ DOMAIN r = 1 .. Len(b) + 1 /\ r[1] = ns[one]
         /\ \A k \in DOMAIN b : r[k + 1] = b[k]
    <3>1. /\ r \in Seq(Nodes) /\ Len(r) = Len(a) + Len(b)
          /\ \A k \in 1 .. Len(a) + Len(b) :
               r[k] = IF k <= Len(a) THEN a[k] ELSE b[k - Len(a)]
      BY <2>1, <2>6, <2>7, ConcatProperties
    <3>2. r[1] = a[1] /\ \A k \in DOMAIN b : r[Len(a) + k] = b[k]
      <4>1. \A k \in DOMAIN b : /\ Len(a) + k \in 1 .. Len(a) + Len(b) /\ ~(Len(a) + k <= Len(a))
                               /\ (Len(a) + k) - Len(a) = k
        BY <2>8, <2>9
      <4>2. 1 \in 1 .. Len(a) + Len(b) /\ 1 <= Len(a)
        BY <2>8, <2>9
      <4> QED
        BY <3>1, <4>1, <4>2
    <3>3. DOMAIN r = 1 .. Len(b) + 1
      BY <2>8, <2>9, <3>1
    <3>4. \A k \in DOMAIN b : Len(a) + k = k + 1
      BY <2>8, <2>9
    <3> QED
      BY <2>9, <3>1, <3>2, <3>3, <3>4
  <2>11. \A k \in DOMAIN r : k \in Int /\ (k = 1 \/ (k - 1 \in DOMAIN b /\ r[k] = b[k - 1]))
    <3> SUFFICES ASSUME NEW k \in DOMAIN r, k # 1
                 PROVE  k - 1 \in DOMAIN b /\ r[k] = b[k - 1]
      BY <2>8, <2>10
    <3>1. k - 1 \in DOMAIN b /\ (k - 1) + 1 = k
      BY <2>8, <2>10
    <3> QED
      BY <2>10, <3>1
  <2>12. 1 \in DOMAIN r
    BY <2>8, <2>10
  <2>13. ns[one].id = last /\ one \in DOMAIN ns
    BY <2>2, <2>3, <2>5
  <2>14. \A k \in DOMAIN b : b[k].id # last
    BY <2>2, <2>5, <2>7
  <2>15. Distinct(r)
    <3> SUFFICES ASSUME NEW k \in DOMAIN r, NEW l \in DOMAIN r, r[k].id = r[l].id
                 PROVE  k = l
      BY DEF Distinct
    <3>1. CASE k = 1 \/ l = 1
      BY <2>10, <2>11, <2>13, <2>14, <3>1
    <3>2. CASE k # 1 /\ l # 1
      <4>1. k - 1 \in DOMAIN b /\ l - 1 \in DOMAIN b /\ b[k - 1].id = b[l - 1].id
        BY <2>11, <3>2
      <4>2. k - 1 = l - 1
        BY <2>7, <4>1 DEF Distinct
      <4> QED
        BY <2>11, <4>2
    <3> QED
      BY <3>1, <3>2
  <2>16. \A k \in DOMAIN r : \E i \in DOMAIN ns : r[k] = ns[i]
    BY <2>2, <2>7, <2>10, <2>11, <2>13
  <2>17. \A i \in DOMAIN ns : \E k \in DOMAIN r : r[k] = ns[i]
    <3> SUFFICES ASSUME NEW i \in DOMAIN ns PROVE \E k \in DOMAIN r : r[k] = ns[i]
      OBVIOUS
    <3>1. CASE i \in S
      BY <2>4, <2>10, <2>12, <3>1
    <3>2. CASE i \in T
      <4>1. PICK k \in DOMAIN b : b[k] = ns[i]
        BY <2>7, <3>2
      <4>2. k + 1 \in DOMAIN r
        BY <2>8, <2>10
      <4> QED
        BY <2>10, <4>1, <4>2
    <3> QED
      BY <2>5, <3>1, <3>2
  <2>18. Range(r) = Range(ns)
    BY <2>16, <2>17 DEF Range
  <2>19. Proper(frontend, r) /\ \A k \in DOMAIN r : r[k].enabled
    BY <2>10, <2>15, <2>16 DEF Proper, Sound
  <2>20. \A i, j \in DOMAIN r : 2 <= i /\ i < j => r[i].priority <= r[j].priority
    <3> SUFFICES ASSUME NEW i \in DOMAIN r, NEW j \in DOMAIN r, 2 <= i, i < j
                 PROVE  r[i].priority <= r[j].priority
      OBVIOUS
    <3>1. /\ i - 1 \in DOMAIN b /\ j - 1 \in DOMAIN b /\ i - 1 < j - 1
          /\ r[i] = b[i - 1] /\ r[j] = b[j - 1]
      BY <2>11
    <3> QED
      BY <2>7, <3>1 DEF Sorted
  <2>21. r[1].id = last
    BY <2>10, <2>13
  <2> QED
    BY <2>18, <2>19, <2>20, <2>21 DEF r
<1> QED
  BY <1>1, <1>2

-----------------------------------------------------------------------------
\* A list that has every member of S and keeps to the order is the one of that order.
LEMMA Enumerates ==
  ASSUME NEW S, NEW R, Ordering(R, S), NEW n \in Nat, NEW h \in [1 .. n -> S],
         \A x \in S : \E k \in 1 .. n : h[k] = x,
         \A k, l \in 1 .. n : k < l => <<h[k], h[l]>> \in R
  PROVE  Arranges(h, S, R)
<1>1. \A k, l \in 1 .. n : h[k] = h[l] => k = l
  <2> SUFFICES ASSUME NEW k \in 1 .. n, NEW l \in 1 .. n, h[k] = h[l], k # l PROVE FALSE
    OBVIOUS
  <2>1. h[k] \in S /\ (<<h[k], h[l]>> \in R \/ <<h[l], h[k]>> \in R)
    OBVIOUS
  <2> QED
    BY <2>1 DEF Ordering
<1>2. h \in Bijection(1 .. n, S)
  BY <1>1 DEF Bijection, Injection, Surjection, IsInjective
<1>3. ExistsBijection(1 .. n, S)
  BY <1>2 DEF ExistsBijection
<1>4. IsFiniteSet(1 .. n) /\ Cardinality(1 .. n) = n
  BY FS_Interval
<1>5. Cardinality(S) = n
  BY <1>3, <1>4, FS_Bijection
<1> QED
  BY <1>5 DEF Arranges

\* Part of an ordered set is ordered.
LEMMA PartOrdered ==
  ASSUME NEW S, NEW T \in SUBSET S, NEW R, Ordering(R, S)
  PROVE  Ordering(R, T)
BY DEF Ordering

\* std::stable_sort before the disabled nodes are left out, OrderBy behind that: the same.
LEMMA SortingCommutes ==
  ASSUME NEW ns \in Seq(Nodes)
  PROVE  Enabled(ByPriority(ns)) = ByPriority(Enabled(ns))
<1> DEFINE J == {i \in DOMAIN ns : ns[i].enabled}
           s == ByPriority(ns)
           S == {k \in DOMAIN s : s[k].enabled}
           e == Chosen(ns, J)
           x == Chosen(s, S)
           y == ByPriority(e)
<1>1. J \in SUBSET DOMAIN ns /\ e = Enabled(ns) /\ \A i \in DOMAIN ns : i \in J <=> ns[i].enabled
  BY DEF Enabled
<1>2. S \in SUBSET DOMAIN s /\ x = Enabled(s) /\ \A k \in DOMAIN s : k \in S <=> s[k].enabled
  BY DEF Enabled
<1> HIDE DEF J, S
<1>0. s \in Seq(Nodes)
  BY SortKeeps
<1>s. S \in SUBSET DOMAIN s
  BY <1>2
<1>3. PICK f : /\ Arranges(f, DOMAIN ns, Before(ns)) /\ f \in [DOMAIN f -> DOMAIN ns]
               /\ s \in Seq(Nodes) /\ DOMAIN s = DOMAIN f
               /\ \A k \in DOMAIN f : f[k] \in DOMAIN ns /\ s[k] = ns[f[k]]
               /\ \A k, l \in DOMAIN f : k < l => <<f[k], f[l]>> \in Before(ns)
               /\ \A i \in DOMAIN ns : \E k \in DOMAIN f : f[k] = i
  BY SortedNodes
<1> HIDE DEF s
<1>4. PICK g : /\ Arranges(g, S, Ascending(S)) /\ g \in [DOMAIN g -> DOMAIN s]
               /\ x \in Seq(Nodes) /\ DOMAIN x = DOMAIN g
               /\ \A k \in DOMAIN g : g[k] \in S /\ x[k] = s[g[k]]
               /\ \A k, l \in DOMAIN g : k < l => g[k] < g[l]
               /\ \A i \in S : \E k \in DOMAIN g : g[k] = i
  BY <1>0, <1>s, ChosenNodes
<1>5. PICK u : /\ Arranges(u, J, Ascending(J)) /\ u \in [DOMAIN u -> DOMAIN ns]
               /\ e \in Seq(Nodes) /\ DOMAIN e = DOMAIN u
               /\ \A k \in DOMAIN u : u[k] \in J /\ e[k] = ns[u[k]]
               /\ \A k, l \in DOMAIN u : k < l => u[k] < u[l]
               /\ \A i \in J : \E k \in DOMAIN u : u[k] = i
  BY <1>1, ChosenNodes
<1> HIDE DEF e
<1>6. PICK v : /\ Arranges(v, DOMAIN e, Before(e)) /\ v \in [DOMAIN v -> DOMAIN e]
               /\ y \in Seq(Nodes) /\ DOMAIN y = DOMAIN v
               /\ \A k \in DOMAIN v : v[k] \in DOMAIN e /\ y[k] = e[v[k]]
               /\ \A k, l \in DOMAIN v : k < l => <<v[k], v[l]>> \in Before(e)
               /\ \A i \in DOMAIN e : \E k \in DOMAIN v : v[k] = i
  <2>1. e \in Seq(Nodes)
    BY <1>5
  <2> QED
    BY <2>1, SortedNodes
<1> HIDE DEF x, y
<1>7. Ordering(Before(ns), J)
  BY <1>1, BeforeOrders, PartOrdered
<1> DEFINE p == [k \in 1 .. Len(x) |-> f[g[k]]]
           q == [k \in 1 .. Len(y) |-> u[v[k]]]
<1>8. /\ Len(x) \in Nat /\ DOMAIN g = 1 .. Len(x)
      /\ Len(y) \in Nat /\ DOMAIN v = 1 .. Len(y)
  BY <1>4, <1>6
<1>9. /\ \A k \in 1 .. Len(x) : f[g[k]] \in J /\ x[k] = ns[f[g[k]]] /\ g[k] \in DOMAIN f
      /\ \A k \in 1 .. Len(y) : u[v[k]] \in J /\ y[k] = ns[u[v[k]]] /\ v[k] \in DOMAIN u
  <2>1. ASSUME NEW k \in 1 .. Len(x)
        PROVE  f[g[k]] \in J /\ x[k] = ns[f[g[k]]] /\ g[k] \in DOMAIN f
    <3>1. g[k] \in S /\ g[k] \in DOMAIN s /\ x[k] = s[g[k]]
      BY <1>2, <1>4, <1>8
    <3> QED
      BY <1>1, <1>2, <1>3, <3>1
  <2>2. ASSUME NEW k \in 1 .. Len(y)
        PROVE  u[v[k]] \in J /\ y[k] = ns[u[v[k]]] /\ v[k] \in DOMAIN u
    BY <1>5, <1>6, <1>8
  <2> QED
    BY <2>1, <2>2
<1>10. Arranges(p, J, Before(ns))
  <2>1. p \in [1 .. Len(x) -> J]
    BY <1>9
  <2>2. \A i \in J : \E k \in 1 .. Len(x) : p[k] = i
    <3> SUFFICES ASSUME NEW i \in J PROVE \E k \in 1 .. Len(x) : f[g[k]] = i
      OBVIOUS
    <3>1. PICK m \in DOMAIN f : f[m] = i
      BY <1>1, <1>3
    <3>2. m \in S
      BY <1>1, <1>2, <1>3, <3>1
    <3> QED
      BY <1>4, <1>8, <3>1, <3>2
  <2>3. \A k, l \in 1 .. Len(x) : k < l => <<p[k], p[l]>> \in Before(ns)
    BY <1>3, <1>4, <1>8, <1>9
  <2> HIDE DEF p
  <2> QED
    BY <1>7, <1>8, <2>1, <2>2, <2>3, Enumerates
<1>11. Arranges(q, J, Before(ns))
  <2>1. q \in [1 .. Len(y) -> J]
    BY <1>9
  <2>2. \A i \in J : \E k \in 1 .. Len(y) : q[k] = i
    BY <1>5, <1>6, <1>8
  <2>3. \A k, l \in 1 .. Len(y) : k < l => <<u[v[k]], u[v[l]]>> \in Before(ns)
    <3> SUFFICES ASSUME NEW k \in 1 .. Len(y), NEW l \in 1 .. Len(y), k < l
                 PROVE  <<u[v[k]], u[v[l]]>> \in Before(ns)
      OBVIOUS
    <3>1. /\ v[k] \in DOMAIN e /\ v[l] \in DOMAIN e
          /\ \/ e[v[k]].priority < e[v[l]].priority
             \/ e[v[k]].priority = e[v[l]].priority /\ v[k] < v[l]
      BY <1>6, <1>8 DEF Before
    <3>2. /\ e[v[k]] = ns[u[v[k]]] /\ e[v[l]] = ns[u[v[l]]]
          /\ u[v[k]] \in DOMAIN ns /\ u[v[l]] \in DOMAIN ns
          /\ v[k] < v[l] => u[v[k]] < u[v[l]]
      BY <1>1, <1>5, <3>1
    <3> QED
      BY <3>1, <3>2 DEF Before
  <2>4. \A k, l \in 1 .. Len(y) : k < l => <<q[k], q[l]>> \in Before(ns)
    BY <2>3
  <2> HIDE DEF q
  <2> QED
    BY <1>7, <1>8, <2>1, <2>2, <2>4, Enumerates
<1>12. p = q
  BY <1>1, <1>7, <1>10, <1>11, PlacesFinite, OneArrangement
<1>13. 1 .. Len(x) = 1 .. Len(y)
  <2>1. DOMAIN p = 1 .. Len(x) /\ DOMAIN q = 1 .. Len(y)
    OBVIOUS
  <2> QED
    BY <1>12, <2>1
<1>14. Len(x) = Len(y)
  BY <1>8, <1>13
<1>15. \A k \in 1 .. Len(x) : x[k] = y[k]
  <2> SUFFICES ASSUME NEW k \in 1 .. Len(x) PROVE x[k] = y[k]
    OBVIOUS
  <2>1. f[g[k]] = p[k] /\ u[v[k]] = q[k]
    BY <1>14
  <2> QED
    BY <1>9, <1>12, <1>14, <2>1
<1>16. x = y
  BY <1>4, <1>6, <1>14, <1>15, SeqEqual
<1> QED
  BY <1>1, <1>2, <1>16 DEF y, s

\* Of a list that has nothing to leave out, everything is kept.
LEMMA AllFirst ==
  ASSUME NEW frontend \in Clients, NEW ns \in Seq(Nodes), Distinct(ns),
         \A i \in DOMAIN ns : Valid(frontend, ns[i])
  PROVE  \A i \in DOMAIN ns : First(frontend, ns, i)
<1> SUFFICES ASSUME NEW i \in DOMAIN ns, NEW j \in 1 .. (i - 1), ns[j].id = ns[i].id
             PROVE  FALSE
  BY DEF First
<1>1. i \in Int /\ i <= Len(ns) /\ Len(ns) \in Nat /\ DOMAIN ns = 1 .. Len(ns)
  OBVIOUS
<1>2. j \in DOMAIN ns /\ j # i
  BY <1>1
<1> QED
  BY <1>2 DEF Distinct

\* So both frontends keep the same of what both take.
LEMMA SameKept ==
  ASSUME NEW ns \in Seq(Nodes), Distinct(ns),
         \A frontend \in Clients : \A i \in DOMAIN ns : Valid(frontend, ns[i])
  PROVE  /\ Kept("native", ns) = Kept("managed", ns)
         /\ ns # <<>> => Kept("native", ns) # <<>>
<1>1. \A frontend \in Clients : \A i \in DOMAIN ns : First(frontend, ns, i)
  BY AllFirst
<1>2. \A frontend \in Clients : {i \in DOMAIN ns : First(frontend, ns, i)} = DOMAIN ns
  BY <1>1
<1>3. \A frontend \in Clients :
        Kept(frontend, ns) = [k \in DOMAIN Chosen(ns, DOMAIN ns) |-> Normal(Chosen(ns, DOMAIN ns)[k])]
  BY <1>2 DEF Kept
<1>4. ASSUME ns # <<>> PROVE Kept("native", ns) # <<>>
  <2>1. 1 \in DOMAIN ns
    BY <1>4
  <2>2. DOMAIN Chosen(ns, DOMAIN ns) # {}
    BY <2>1, ChosenKeeps
  <2>3. DOMAIN Kept("native", ns) # {}
    BY <1>3, <2>2 DEF Clients
  <2> QED
    BY <2>3
<1> QED
  BY <1>3, <1>4 DEF Clients

\* Both frontends read the same nodes from a manifest that both accept.
LEMMA SameParsed ==
  ASSUME NEW m \in Seq(Nodes), AcceptsNodes("native", m), AcceptsNodes("managed", m)
  PROVE  /\ Parsed("native", m) = Parsed("managed", m)
         /\ Parsed("native", m) # <<>>
         /\ Proper("native", Parsed("native", m)) /\ Proper("managed", Parsed("native", m))
<1>1. Distinct(m) /\ \A frontend \in Clients : \A i \in DOMAIN m : Valid(frontend, m[i])
  BY DEF AcceptsNodes, Distinct, Clients
<1>2. Kept("native", m) = Kept("managed", m) /\ Kept("native", m) # <<>>
  BY <1>1, SameKept DEF AcceptsNodes
<1>3. Proper("native", Kept("native", m)) /\ Proper("managed", Kept("managed", m))
  BY KeptProper DEF Clients
<1>4. Parsed("native", m) # <<>>
  <2> DEFINE k == Kept("native", m)
  <2>1. k \in Seq(Nodes) /\ k # <<>>
    BY <1>2, <1>3 DEF Proper
  <2> HIDE DEF k
  <2>2. 1 \in DOMAIN k
    BY <2>1
  <2>3. DOMAIN ByPriority(k) # {}
    BY <2>1, <2>2, SortKeeps
  <2> QED
    BY <2>3 DEF Parsed, k
<1> QED
  BY <1>2, <1>3, <1>4, SortProper DEF Parsed

\* And they resolve them alike.
LEMMA SameResolved ==
  ASSUME NEW m \in Seq(Nodes), AcceptsNodes("native", m), AcceptsNodes("managed", m), NEW cache
  PROVE  Resolved("native", Parsed("native", m), cache)
           = Resolved("managed", Parsed("managed", m), cache)
<1> DEFINE r == Parsed("native", m)
           k == Kept("native", r)
           all == Append(Others(k), Official)
<1>1. /\ Parsed("managed", m) = r /\ r # <<>>
      /\ Proper("native", r) /\ Proper("managed", r)
  BY SameParsed
<1> HIDE DEF r
<1>2. Kept("managed", r) = k /\ k # <<>>
  BY <1>1, SameKept DEF Proper, Clients
<1>3. NativeNodes(r, cache.nodes) = Enabled(ByPriority(all))
  BY <1>1 DEF NativeNodes
<1>4. ManagedNodes(r, cache.nodes) = ByPriority(Enabled(all))
  BY <1>2 DEF ManagedNodes
<1>5. all \in Seq(Nodes)
  BY <1>1, KeptProper, OfficialBehind DEF Proper, Clients
<1>6. NativeNodes(r, cache.nodes) = ManagedNodes(r, cache.nodes)
  BY <1>3, <1>4, <1>5, SortingCommutes
<1> QED
  BY <1>1, <1>6 DEF Resolved, r

-----------------------------------------------------------------------------
\* What a manifest leaves is a list of nodes.
LEMMA ParsedNodes ==
  ASSUME NEW frontend \in Clients, NEW m \in Seq(Nodes)
  PROVE  Parsed(frontend, m) \in Seq(Nodes)
BY KeptProper, SortProper DEF Parsed, Proper

\* Every download gets such a list, and the node verified last in front if it is offered.
LEMMA ResolvedOrdered ==
  ASSUME NEW frontend \in Clients, NEW release \in Seq(Nodes), NEW cache, cache.nodes \in Seq(Nodes)
  PROVE  LET r == Resolved(frontend, release, cache)
         IN /\ Ordered(frontend, r, cache)
            /\ (\E n \in Range(r) : n.id = cache.last) => r[1].id = cache.last
<1> DEFINE ns == IF frontend = "native" THEN NativeNodes(release, cache.nodes)
                 ELSE ManagedNodes(release, cache.nodes)
           r == LastFirst(ns, cache.last)
<1>1. Sound(frontend, ns)
  BY NativeSound, ManagedSound DEF Clients
<1>2. Official \in Range(ns)
  BY <1>1 DEF Sound, Range
<1> HIDE DEF ns
<1>3. /\ Proper(frontend, r)
      /\ \A i \in DOMAIN r : r[i].enabled
      /\ Range(r) = Range(ns)
      /\ (\E n \in Range(ns) : n.id = cache.last) => r[1].id = cache.last
      /\ \A i, j \in DOMAIN r :
           (IF r[1].id = cache.last THEN 2 ELSE 1) <= i /\ i < j => r[i].priority <= r[j].priority
  BY <1>1, LastLeads
<1>4. Resolved(frontend, release, cache) = r
  BY DEF Resolved, ns
<1> HIDE DEF r
<1>5. \A n \in Range(r) : n.enabled /\ Valid(frontend, n) /\ n = Normal(n)
  BY <1>3 DEF Range, Proper
<1>6. Ordered(frontend, r, cache)
  BY <1>2, <1>3, <1>5 DEF Ordered, Proper, Distinct
<1> QED
  BY <1>3, <1>4, <1>6

(***************************************************************************)
(* The node cache file                                                     *)
(***************************************************************************)

\* Caches as they are in files and in processes, and the steps of a process.
Caches == [nodes : Releases \cup {<<>>}, last : Ids \cup {NoSuccess}]
Files  == Caches \cup {Absent, Empty, Torn}
PlacesAt == {"idle", "open", "write", "move", "remove", "check", "download", "resolve",
             "read check", "read download", "read resolve"}

\* The steps of CacheTypeOK are these.
LEMMA StepNames ==
  /\ DOMAIN ReadStep = {"check", "download", "resolve"}
  /\ ReadStep["check"] = "read check"
  /\ ReadStep["download"] = "read download"
  /\ ReadStep["resolve"] = "read resolve"
  /\ {"idle", "open", "write", "move", "remove"} \cup DOMAIN ReadStep
       \cup {ReadStep[job] : job \in DOMAIN ReadStep} = PlacesAt
<1>1. DOMAIN ReadStep = {"check", "download", "resolve"}
  BY DEF ReadStep
<1>2. /\ ReadStep["check"] = "read check"
      /\ ReadStep["download"] = "read download"
      /\ ReadStep["resolve"] = "read resolve"
  BY DEF ReadStep
<1>3. {ReadStep[job] : job \in DOMAIN ReadStep} = {"read check", "read download", "read resolve"}
  BY <1>1, <1>2
<1> QED
  BY <1>1, <1>2, <1>3 DEF PlacesAt

\* What CacheTypeOK says of the files and of the processes.
Types ==
  /\ client \in Clients
  /\ path \in Files /\ tmp \in Files
  /\ at \in [Processes -> PlacesAt]
  /\ mine \in [Processes -> Caches]
  /\ left \in 0 .. MaxOperations
  /\ latest \in Ids \cup {NoSuccess} /\ solo \in Processes \cup {NoSuccess}

\* CacheTypeOK, with its sets named.
LEMMA TypesAre == CacheTypeOK <=> Types /\ overlapped \in BOOLEAN /\ crashed \in BOOLEAN
BY StepNames, Zenon DEF CacheTypeOK, Types, Caches, Files

\* Releases and the nodes of caches are lists of nodes.
LEMMA ReleasesAreLists ==
  ASSUME client \in Clients
  PROVE  Releases \cup {<<>>} \subseteq Seq(Nodes)
<1>1. Releases \subseteq Seq(Nodes)
  BY ParsedNodes, CacheAssumption DEF Releases
<1> QED
  BY <1>1, EmptySeq

\* A cache is none of the files that hold none.
LEMMA CacheIsNoMark ==
  ASSUME client \in Clients, NEW c \in Caches
  PROVE  c \notin {Absent, Empty, Torn}
<1>1. c \in [nodes : Seq(Nodes), last : Ids \cup {NoSuccess}]
  BY ReleasesAreLists DEF Caches
<1> QED
  BY <1>1, CacheAssumption, Zenon

\* The cache of a process that has read none is a cache.
LEMMA NoCacheIsOne == NoCache \in Caches
BY DEF NoCache, Caches

\* As long as nothing overlaps, the temporary file is what the one process at work has
\* made of it; in the managed client, as long as nothing was killed, a file of no length
\* is one that somebody is writing.
Calm ==
  ~overlapped =>
    /\ \A p, q \in Processes : at[p] # "idle" /\ at[q] # "idle" => p = q
    /\ \A p \in Processes :
         (at[p] = "write" => tmp = Empty) /\ (at[p] = "move" => tmp = mine[p])
    /\ path \notin {Empty, Torn}

Shared ==
  client = "managed" /\ ~crashed =>
    /\ \A p, q \in Processes : at[p] = "write" /\ at[q] = "write" => p = q
    /\ tmp = Empty <=> \E p \in Processes : at[p] = "write"
    /\ tmp # Torn
    /\ path \notin {Empty, Torn}

\* What the process of the last save, if nothing got in its way, has done so far.
Alone ==
  solo # NoSuccess =>
    /\ \A q \in Processes \ {solo} : at[q] = "idle"
    /\ at[solo] \notin {"resolve", "read resolve", "remove"}
    /\ at[solo] = "write" => tmp = Empty
    /\ at[solo] = "move" => tmp = mine[solo]
    /\ at[solo] = "idle" => path = mine[solo]

CacheInv == Types /\ Calm /\ Shared /\ Alone

-----------------------------------------------------------------------------
\* A cache file is absent and nobody is at work at first.
LEMMA InitCache == CacheInit => CacheInv
<1> SUFFICES ASSUME CacheInit PROVE CacheInv
  OBVIOUS
<1>1. Types
  BY NoCacheIsOne, CacheAssumption DEF CacheInit, Types, Files, PlacesAt
<1> QED
  BY <1>1, CacheAssumption DEF CacheInit, CacheInv, Calm, Shared, Alone

\* The sets of caches are the same as long as the client is.
LEMMA SameCaches == ASSUME UNCHANGED client PROVE Caches' = Caches /\ Files' = Files
BY DEF Caches, Files, Releases

\* An operation begins.
LEMMA BeginsInv ==
  ASSUME CacheInv, NEW p \in Processes, NEW c \in Caches,
         NEW step \in {"open", "check", "download", "resolve"}, Begins(p, c, step),
         latest' \in Ids \cup {NoSuccess}
  PROVE  CacheInv'
<1> USE DEF CacheInv, Types
<1>1. /\ at[p] = "idle" /\ at' = [at EXCEPT ![p] = step]
      /\ mine' = [mine EXCEPT ![p] = c]
      /\ left' = left - 1 /\ left > 0
      /\ solo' = IF Idle /\ step # "resolve" THEN p ELSE NoSuccess
      /\ UNCHANGED <<client, path, tmp, crashed>>
  BY DEF Begins, Proceeds
<1>2. ~overlapped' => Idle /\ ~overlapped
  <2>1. overlapped' = (overlapped \/ ~Idle)
    BY DEF Begins
  <2> QED
    BY <2>1, Zenon
<1>3. Types'
  <2>1. at' \in [Processes -> PlacesAt] /\ mine' \in [Processes -> Caches]
    BY <1>1 DEF PlacesAt
  <2>2. left' \in 0 .. MaxOperations
    BY <1>1, CacheAssumption
  <2>3. solo' \in Processes \cup {NoSuccess}
    BY <1>1
  <2> QED
    BY <1>1, <2>1, <2>2, <2>3, SameCaches
<1>4. Calm'
  BY <1>1, <1>2 DEF Calm, Idle
<1>5. Shared'
  BY <1>1 DEF Shared
<1>6. Alone'
  BY <1>1, CacheAssumption DEF Alone, Idle
<1> QED
  BY <1>3, <1>4, <1>5, <1>6

\* Checks keeps CacheInv.
LEMMA ChecksInv ==
  ASSUME CacheInv, NEW p \in Processes, NEW m \in Manifests, Checks(p, m)
  PROVE  CacheInv'
<1>1. AcceptsNodes(client, m)
  BY DEF Checks
<1>2. Parsed(client, m) \in Releases
  BY <1>1 DEF Releases
<1>3. [nodes |-> Parsed(client, m), last |-> NoSuccess] \in Caches
  BY <1>2 DEF Caches
<1>4. latest' \in Ids \cup {NoSuccess}
  BY DEF Checks, CacheInv, Types
<1> QED
  BY <1>3, <1>4, BeginsInv DEF Checks

\* Downloads keeps CacheInv.
LEMMA DownloadsInv ==
  ASSUME CacheInv, NEW p \in Processes, NEW release \in Releases, NEW id \in Ids,
         Downloads(p, release, id)
  PROVE  CacheInv'
<1>1. [nodes |-> release, last |-> id] \in Caches
  BY DEF Caches
<1>2. latest' \in Ids \cup {NoSuccess}
  BY DEF Downloads
<1> QED
  BY <1>1, <1>2, BeginsInv DEF Downloads

\* Resolves keeps CacheInv.
LEMMA ResolvesInv == ASSUME CacheInv, NEW p \in Processes, Resolves(p) PROVE CacheInv'
<1>1. latest' \in Ids \cup {NoSuccess}
  BY DEF Resolves, CacheInv, Types
<1> QED
  BY <1>1, NoCacheIsOne, BeginsInv DEF Resolves

\* A process goes on to a step before the one that writes, with another cache in mind.
LEMMA Prepares ==
  ASSUME CacheInv, NEW p \in Processes, NEW c \in Caches, NEW step \in PlacesAt,
         at[p] \notin {"idle", "write", "move", "remove"},
         step \notin {"resolve", "write", "move", "remove"},
         step \in {"idle", "read resolve"} => at[p] \in {"resolve", "read resolve"},
         at' = [at EXCEPT ![p] = step], mine' = [mine EXCEPT ![p] = c],
         UNCHANGED <<client, path, tmp, left>>, UNCHANGED History
  PROVE  CacheInv'
<1> USE DEF CacheInv, Types, History
<1>1. Types'
  BY SameCaches
<1>2. Calm'
  BY DEF Calm
<1>3. Shared'
  BY DEF Shared
<1>4. Alone'
  BY CacheAssumption DEF Alone
<1> QED
  BY <1>1, <1>2, <1>3, <1>4

\* Loads keeps CacheInv.
LEMMA LoadsInv == ASSUME CacheInv, NEW p \in Processes, Loads(p) PROVE CacheInv'
<1> USE DEF CacheInv, Types
<1>1. at[p] \in {"check", "download", "resolve"}
  BY StepNames DEF Loads
<1>2. UNCHANGED <<client, path, tmp, left>> /\ UNCHANGED History
  BY DEF Loads
<1>3. CASE path = Absent
  <2> DEFINE c == [mine[p] EXCEPT !.nodes = IF at[p] = "download" THEN <<>> ELSE @]
  <2>1. mine' = [mine EXCEPT ![p] = c]
    BY <1>3 DEF Loads
  <2>2. c \in Caches
    BY DEF Caches
  <2>3. at' = [at EXCEPT ![p] = IF at[p] = "resolve" THEN "idle" ELSE "open"]
    BY <1>3 DEF Loads, Proceeds
  <2> HIDE DEF c
  <2> QED
    BY <1>1, <1>2, <2>1, <2>2, <2>3, Prepares DEF PlacesAt
<1>4. CASE path # Absent
  <2>1. mine' = [mine EXCEPT ![p] = mine[p]] /\ mine[p] \in Caches
    BY <1>4 DEF Loads
  <2>2. at' = [at EXCEPT ![p] = ReadStep[at[p]]]
    BY <1>4 DEF Loads, Proceeds
  <2>3. ReadStep[at[p]] \in {"read check", "read download", "read resolve"} /\
          (ReadStep[at[p]] = "read resolve" => at[p] = "resolve")
    BY <1>1, StepNames
  <2> QED
    BY <1>1, <1>2, <2>1, <2>2, <2>3, Prepares DEF PlacesAt
<1> QED
  BY <1>3, <1>4

\* Reads keeps CacheInv.
LEMMA ReadsInv == ASSUME CacheInv, NEW p \in Processes, Reads(p) PROVE CacheInv'
<1> USE DEF CacheInv, Types
<1>1. at[p] \in {"read check", "read download", "read resolve"}
  BY StepNames DEF Reads, Reading
<1>2. UNCHANGED <<client, path, tmp, left>> /\ UNCHANGED History
  BY DEF Reads
<1> DEFINE cache == IF IsCache(path) THEN path ELSE NoCache
           c == IF at[p] = "read check" THEN [mine[p] EXCEPT !.last = cache.last]
                ELSE [mine[p] EXCEPT !.nodes = cache.nodes]
<1>3. cache \in Caches
  BY NoCacheIsOne DEF IsCache, Files
<1>4. mine' = [mine EXCEPT ![p] = c]
  BY DEF Reads
<1>5. c \in Caches
  <2> HIDE DEF cache
  <2> QED
    BY <1>3 DEF Caches
<1>6. at' = [at EXCEPT ![p] = IF at[p] = "read resolve" THEN "idle" ELSE "open"]
  BY DEF Reads, Proceeds
<1> HIDE DEF c
<1> QED
  BY <1>1, <1>2, <1>4, <1>5, <1>6, Prepares DEF PlacesAt

\* Truncates keeps CacheInv.
LEMMA TruncatesInv == ASSUME CacheInv, NEW p \in Processes, Truncates(p) PROVE CacheInv'
<1> USE CacheAssumption DEF CacheInv, Types, Truncates, Proceeds, History, Rivals, Writing
<1>1. Types'
  BY SameCaches DEF PlacesAt, Files
<1>2. Calm'
  BY DEF Calm
<1>3. Shared'
  BY DEF Shared
<1>4. Alone'
  BY DEF Alone
<1> QED
  BY <1>1, <1>2, <1>3, <1>4

\* Writes keeps CacheInv.
LEMMA WritesInv == ASSUME CacheInv, NEW p \in Processes, Writes(p) PROVE CacheInv'
<1> USE CacheAssumption DEF CacheInv, Types, Writes, Proceeds, History, Writing
<1>1. mine[p] \in Caches /\ mine[p] \notin {Absent, Empty, Torn}
  BY CacheIsNoMark
<1>2. Types'
  BY <1>1, SameCaches DEF PlacesAt, Files
<1>3. tmp = Empty => tmp' = mine[p]
  OBVIOUS
<1>4. Calm'
  BY <1>3 DEF Calm
<1>5. Shared'
  BY <1>1, <1>3 DEF Shared
<1>6. Alone'
  BY <1>3 DEF Alone
<1> QED
  BY <1>2, <1>4, <1>5, <1>6

\* Moves keeps CacheInv.
LEMMA MovesInv == ASSUME CacheInv, NEW p \in Processes, Moves(p) PROVE CacheInv'
<1> USE CacheAssumption DEF CacheInv, Types, Moves, CanMove, Proceeds, History, Rivals,
                            Writing, Reading
<1>1. mine[p] \in Caches /\ mine[p] \notin {Absent, Empty, Torn}
  BY CacheIsNoMark
<1>2. Types'
  BY SameCaches DEF PlacesAt, Files
<1>3. Calm'
  BY <1>1 DEF Calm
<1>4. Shared'
  BY DEF Shared
<1>5. Alone'
  <2>1. ASSUME solo = p PROVE CanMove(p)
    <3>1. \A q \in Processes \ {p} : at[q] = "idle"
      BY <2>1 DEF Alone
    <3>2. tmp = mine[p]
      BY <2>1 DEF Alone
    <3> QED
      BY <1>1, <3>1, <3>2, StepNames
  <2>2. solo # NoSuccess => solo = p
    BY DEF Alone
  <2> QED
    BY <2>1, <2>2 DEF Alone
<1> QED
  BY <1>2, <1>3, <1>4, <1>5

\* Removes keeps CacheInv.
LEMMA RemovesInv == ASSUME CacheInv, NEW p \in Processes, Removes(p) PROVE CacheInv'
<1> USE CacheAssumption DEF CacheInv, Types, Removes, Proceeds, History, Rivals, Writing
<1>1. Types'
  BY SameCaches DEF PlacesAt, Files
<1>2. Calm'
  BY DEF Calm
<1>3. Shared'
  BY DEF Shared
<1>4. Alone'
  BY DEF Alone
<1> QED
  BY <1>1, <1>2, <1>3, <1>4

\* Expires keeps CacheInv.
LEMMA ExpiresInv == ASSUME CacheInv, Expires PROVE CacheInv'
<1> USE CacheAssumption DEF CacheInv, Types, Expires
<1>1. path \in Caches /\ path' \in Caches
  BY DEF IsCache, Files, Caches
<1>2. path' \notin {Absent, Empty, Torn}
  BY <1>1, CacheIsNoMark
<1>3. Types'
  BY <1>1, SameCaches DEF Files
<1>4. Calm' /\ Shared' /\ Alone'
  BY <1>2 DEF Calm, Shared, Alone
<1> QED
  BY <1>3, <1>4

\* Crash keeps CacheInv.
LEMMA CrashInv == ASSUME CacheInv, NEW p \in Processes, Crash(p) PROVE CacheInv'
<1> USE CacheAssumption DEF CacheInv, Types, Crash, Proceeds
<1>1. Types'
  BY SameCaches DEF PlacesAt, Files
<1>2. Calm'
  BY DEF Calm
<1>3. Shared' /\ Alone'
  BY DEF Shared, Alone
<1> QED
  BY <1>1, <1>2, <1>3

\* Every action keeps the invariant of the cache.
LEMMA NextCache == CacheInv /\ [CacheNext]_cacheVars => CacheInv'
<1> SUFFICES ASSUME CacheInv, [CacheNext]_cacheVars PROVE CacheInv'
  OBVIOUS
<1>1. CASE CacheNext
  BY <1>1, ExpiresInv, ChecksInv, DownloadsInv, ResolvesInv, LoadsInv, ReadsInv,
     TruncatesInv,
     WritesInv, MovesInv, RemovesInv, CrashInv DEF CacheNext
<1>2. CASE UNCHANGED cacheVars
  BY <1>2, SameCaches DEF cacheVars, CacheInv, Types, Calm, Shared, Alone
<1> QED
  BY <1>1, <1>2

\* CacheInv holds in every state.
LEMMA AlwaysCache == CacheSpec => []CacheInv
BY InitCache, NextCache, PTL DEF CacheSpec

\* Every state is well-typed.
THEOREM CacheTypes == CacheSpec => []CacheTypeOK
<1> DEFINE Flags == overlapped \in BOOLEAN /\ crashed \in BOOLEAN
<1>1. CacheInit => Flags
  BY Zenon DEF CacheInit
<1>2. Flags /\ [CacheNext]_cacheVars => Flags'
  <2> SUFFICES ASSUME Flags, [CacheNext]_cacheVars PROVE Flags'
    OBVIOUS
  <2>1. overlapped' = overlapped \/ overlapped' = (overlapped \/ ~Idle)
    BY Zenon
       DEF CacheNext, Begins, Checks, Downloads, Resolves, Loads, Reads, Truncates,
           Writes,
       Moves, Removes, Expires, Crash, History, cacheVars
  <2>2. crashed' = crashed \/ crashed' = TRUE
    BY Zenon
       DEF CacheNext, Begins, Checks, Downloads, Resolves, Loads, Reads, Truncates,
           Writes,
       Moves, Removes, Expires, Crash, History, cacheVars
  <2> QED
    BY <2>1, <2>2, Zenon
<1>3. CacheInv /\ Flags => CacheTypeOK
  BY TypesAre DEF CacheInv
<1> HIDE DEF Flags
<1> QED
  BY <1>1, <1>2, <1>3, AlwaysCache, PTL DEF CacheSpec

\* No operation killed while nothing overlaps, and no overlapping of operations in the
\* managed client while nothing is killed, leaves a cache that cannot be read.
THEOREM CacheIsReadable == CacheSpec => []Readable
<1>1. CacheInv => Readable
  BY DEF CacheInv, Types, Clients, Calm, Shared, Readable
<1> QED
  BY <1>1, AlwaysCache, PTL

\* A save that nothing overlaps replaces the cache by what it meant to write, whatever
\* was left of earlier ones.
THEOREM SaveIsPublished == CacheSpec => []Published
<1>1. CacheInv => Published
  BY DEF CacheInv, Types, Alone, Published, Idle
<1> QED
  BY <1>1, AlwaysCache, PTL

-----------------------------------------------------------------------------
\* As long as operations neither overlap nor are killed, whoever is to write carries the
\* node verified last, and in the file it is whenever it may be read.
Carries(p) ==
  /\ at[p] \in {"open", "write", "move", "download", "read download"} => mine[p].last = latest
  /\ at[p] \in {"check", "read check", "resolve", "read resolve"} =>
       IsCache(path) /\ path.last = latest
  /\ at[p] # "remove"

Leading ==
  ~overlapped /\ ~crashed /\ latest # NoSuccess =>
    /\ \A p \in Processes : Carries(p)
    /\ Idle => IsCache(path) /\ path.last = latest

\* When nothing overlaps, nobody but the process of a step is at work.
LEMMA OnlyOne ==
  ASSUME CacheInv, ~overlapped, NEW p \in Processes, at[p] # "idle", NEW q \in Processes, q # p
  PROVE  at[q] = "idle"
BY DEF CacheInv, Calm

\* So a step that neither begins an operation nor changes the last success of the file
\* has only its own process to carry it on.
LEMMA OwnStep ==
  ASSUME CacheInv, Leading, NEW p \in Processes, at[p] # "idle", NEW step, step # "remove",
         at' = [at EXCEPT ![p] = step], \A q \in Processes \ {p} : mine'[q] = mine[q],
         UNCHANGED <<latest, overlapped, crashed>>,
         ~overlapped /\ ~crashed /\ latest # NoSuccess /\ Carries(p) =>
           /\ step \in {"open", "write", "move", "download", "read download"} =>
                mine'[p].last = latest
           /\ step \in {"idle", "check", "read check", "resolve", "read resolve"} =>
                IsCache(path)' /\ path'.last = latest
  PROVE  Leading'
<1> SUFFICES ASSUME ~overlapped, ~crashed, latest # NoSuccess
             PROVE  /\ \A q \in Processes : Carries(q)'
                    /\ Idle' => IsCache(path)' /\ path'.last = latest
  BY DEF Leading
<1>1. at \in [Processes -> PlacesAt]
  BY DEF CacheInv, Types
<1>2. Carries(p)
  BY DEF Leading
<1>3. at'[p] = step /\ \A q \in Processes \ {p} : at'[q] = "idle"
  BY <1>1, OnlyOne
<1>4. Carries(p)'
  BY <1>2, <1>3 DEF Carries
<1>5. ASSUME NEW q \in Processes \ {p} PROVE Carries(q)'
  BY <1>3 DEF Carries
<1>6. Idle' => step = "idle"
  BY <1>3 DEF Idle
<1> QED
  BY <1>2, <1>4, <1>5, <1>6

\* An operation begins: of the node verified last by now, or with the file that has it.
LEMMA BeginsLeading ==
  ASSUME CacheInv, Leading, NEW p \in Processes, NEW c \in Caches,
         NEW step \in {"open", "check", "download", "resolve"}, Begins(p, c, step),
         \/ step \in {"check", "resolve"} /\ latest' = latest
         \/ step \in {"open", "download"} /\ c.last = latest'
  PROVE  Leading'
<1> SUFFICES ASSUME ~overlapped', ~crashed', latest' # NoSuccess
             PROVE  /\ \A q \in Processes : Carries(q)'
                    /\ Idle' => IsCache(path)' /\ path'.last = latest'
  BY DEF Leading
<1>1. ~overlapped /\ Idle
  <2>1. overlapped' = (overlapped \/ ~Idle)
    BY DEF Begins
  <2> QED
    BY <2>1, Zenon
<1>2. ~crashed /\ path' = path
  BY DEF Begins
<1>3. /\ at' = [at EXCEPT ![p] = step] /\ mine' = [mine EXCEPT ![p] = c]
      /\ at \in [Processes -> PlacesAt] /\ mine \in [Processes -> Caches]
  BY DEF Begins, Proceeds, CacheInv, Types
<1>4. at'[p] = step /\ mine'[p] = c /\ \A q \in Processes \ {p} : at'[q] = "idle"
  BY <1>1, <1>3 DEF Idle
<1>5. latest' = latest => IsCache(path)' /\ path'.last = latest'
  BY <1>1, <1>2 DEF Leading, IsCache
<1>6. Carries(p)'
  BY <1>4, <1>5 DEF Carries
<1>7. \A q \in Processes \ {p} : Carries(q)'
  BY <1>4 DEF Carries
<1>8. ~Idle'
  BY <1>4 DEF Idle
<1> QED
  BY <1>6, <1>7, <1>8

\* Every action keeps it.
LEMMA NextLeading == CacheInv /\ Leading /\ [CacheNext]_cacheVars => Leading'
<1> SUFFICES ASSUME CacheInv, Leading, [CacheNext]_cacheVars PROVE Leading'
  OBVIOUS
<1> USE DEF History
<1>0. /\ mine \in [Processes -> Caches] /\ path \in Files
      /\ latest \in Ids \cup {NoSuccess} /\ client \in Clients
  BY DEF CacheInv, Types
<1>1. ASSUME NEW p \in Processes, NEW m \in Manifests, Checks(p, m) PROVE Leading'
  <2> DEFINE c == [nodes |-> Parsed(client, m), last |-> NoSuccess]
  <2>1. c \in Caches
    BY <1>1 DEF Checks, Releases, Caches
  <2>2. Begins(p, c, "check") /\ latest' = latest
    BY <1>1 DEF Checks
  <2> HIDE DEF c
  <2> QED
    BY <2>1, <2>2, BeginsLeading
<1>2. ASSUME NEW p \in Processes, NEW release \in Releases, NEW id \in Ids, Downloads(p, release, id)
      PROVE  Leading'
  <2> DEFINE c == [nodes |-> release, last |-> id]
             step == IF client = "native" THEN "open" ELSE "download"
  <2>1. c \in Caches /\ c.last = id
    BY DEF Caches
  <2>2. Begins(p, c, step) /\ latest' = id
    BY <1>2 DEF Downloads
  <2>3. step \in {"open", "download"}
    OBVIOUS
  <2> HIDE DEF c, step
  <2> QED
    BY <2>1, <2>2, <2>3, BeginsLeading
<1>3. ASSUME NEW p \in Processes, Resolves(p) PROVE Leading'
  <2>1. Begins(p, NoCache, "resolve") /\ latest' = latest
    BY <1>3 DEF Resolves
  <2> QED
    BY <2>1, NoCacheIsOne, BeginsLeading
<1>4. ASSUME NEW p \in Processes, Loads(p) PROVE Leading'
  <2>1. at[p] \in {"check", "download", "resolve"}
    BY <1>4, StepNames DEF Loads
  <2>2. UNCHANGED <<path, latest, overlapped, crashed>>
    BY <1>4 DEF Loads
  <2>3. CASE path = Absent
    <3> DEFINE step == IF at[p] = "resolve" THEN "idle" ELSE "open"
               c == [mine[p] EXCEPT !.nodes = IF at[p] = "download" THEN <<>> ELSE @]
    <3>1. at' = [at EXCEPT ![p] = step] /\ mine' = [mine EXCEPT ![p] = c]
      BY <1>4, <2>3 DEF Loads, Proceeds
    <3>2. c.last = mine[p].last
      BY <1>0 DEF Caches
    <3>3. mine'[p].last = mine[p].last /\ \A q \in Processes \ {p} : mine'[q] = mine[q]
      BY <1>0, <3>1, <3>2
    <3>4. ~IsCache(path)
      BY <2>3 DEF IsCache
    <3>5. step \in {"idle", "open"}
      OBVIOUS
    <3> HIDE DEF step, c
    <3>6. Carries(p) => at[p] = "download" /\ mine[p].last = latest
      BY <2>1, <3>4 DEF Carries
    <3>7. at[p] = "download" => step = "open"
      BY DEF step
    <3> QED
      BY <2>1, <2>2, <3>1, <3>3, <3>5, <3>6, <3>7, OwnStep
  <2>4. CASE path # Absent
    <3> DEFINE step == ReadStep[at[p]]
    <3>1. at' = [at EXCEPT ![p] = step] /\ mine' = mine
      BY <1>4, <2>4 DEF Loads, Proceeds
    <3>2. \/ at[p] = "download" /\ step = "read download"
          \/ at[p] = "check" /\ step = "read check"
          \/ at[p] = "resolve" /\ step = "read resolve"
      BY <2>1, StepNames
    <3> HIDE DEF step
    <3>3. IsCache(path)' = IsCache(path)
      BY <2>2 DEF IsCache
    <3> QED
      BY <2>2, <3>1, <3>2, <3>3, OwnStep DEF Carries
  <2> QED
    BY <2>3, <2>4
<1>5. ASSUME NEW p \in Processes, Reads(p) PROVE Leading'
  <2>1. at[p] \in {"read check", "read download", "read resolve"}
    BY <1>5, StepNames DEF Reads, Reading
  <2>2. UNCHANGED <<path, latest, overlapped, crashed>>
    BY <1>5 DEF Reads
  <2> DEFINE cache == IF IsCache(path) THEN path ELSE NoCache
             c == IF at[p] = "read check" THEN [mine[p] EXCEPT !.last = cache.last]
                  ELSE [mine[p] EXCEPT !.nodes = cache.nodes]
             step == IF at[p] = "read resolve" THEN "idle" ELSE "open"
  <2>3. at' = [at EXCEPT ![p] = step] /\ mine' = [mine EXCEPT ![p] = c]
    BY <1>5 DEF Reads, Proceeds
  <2>4. c.last = IF at[p] = "read check" THEN cache.last ELSE mine[p].last
    <3> HIDE DEF cache
    <3>1. mine[p] \in Caches
      BY <1>0
    <3> QED
      BY <3>1 DEF Caches
  <2>5. mine'[p] = c /\ \A q \in Processes \ {p} : mine'[q] = mine[q]
    BY <1>0, <2>3
  <2>6. IsCache(path) => cache = path
    OBVIOUS
  <2>7. step \in {"idle", "open"} /\ (step = "idle" <=> at[p] = "read resolve")
    OBVIOUS
  <2> HIDE DEF cache, c, step
  <2>8. IsCache(path)' = IsCache(path)
    BY <2>2 DEF IsCache
  <2> QED
    BY <2>1, <2>2, <2>3, <2>4, <2>5, <2>6, <2>7, <2>8, OwnStep DEF Carries
<1>6. ASSUME NEW p \in Processes, Truncates(p) PROVE Leading'
  <2>1. ASSUME ~overlapped PROVE \A q \in Rivals(p) : ~Writing(q)
    BY <1>6, <2>1, OnlyOne DEF Truncates, Rivals, Writing
  <2>2. at[p] = "open" /\ UNCHANGED <<path, mine, latest, overlapped, crashed>>
    BY <1>6 DEF Truncates
  <2>3. PICK step \in {"idle", "write"} :
          at' = [at EXCEPT ![p] = step] /\ (step = "idle" => \E q \in Rivals(p) : Writing(q))
    BY <1>6 DEF Truncates, Proceeds
  <2>4. ~overlapped => step = "write"
    BY <2>1, <2>3
  <2> QED
    BY <2>2, <2>3, <2>4, OwnStep DEF Carries
<1>7. ASSUME NEW p \in Processes, Writes(p) PROVE Leading'
  <2>1. /\ at[p] = "write" /\ at' = [at EXCEPT ![p] = "move"]
        /\ UNCHANGED <<path, mine, latest, overlapped, crashed>>
    BY <1>7 DEF Writes, Writing, Proceeds
  <2> QED
    BY <2>1, OwnStep DEF Carries
<1>8. ASSUME NEW p \in Processes, Moves(p) PROVE Leading'
  <2>1. at[p] = "move" /\ UNCHANGED <<mine, latest, overlapped, crashed>>
    BY <1>8 DEF Moves
  <2>2. IsCache(mine[p])
    BY <1>0, CacheIsNoMark DEF IsCache
  <2>3. ASSUME ~overlapped PROVE CanMove(p) /\ tmp = mine[p]
    <3>1. tmp = mine[p]
      BY <2>1, <2>3 DEF CacheInv, Calm
    <3>2. \A q \in Rivals(p) : at[q] = "idle"
      BY <2>1, <2>3, OnlyOne DEF Rivals
    <3> QED
      BY <2>2, <3>1, <3>2, StepNames DEF CanMove, IsCache, Writing, Reading
  <2>4. CASE CanMove(p)
    <3>1. path' = tmp /\ at' = [at EXCEPT ![p] = "idle"]
      BY <1>8, <2>4 DEF Moves, Proceeds
    <3>2. ~overlapped => IsCache(path)' /\ path' = mine[p]
      BY <2>2, <2>3, <3>1 DEF IsCache
    <3> QED
      BY <2>1, <3>1, <3>2, OwnStep DEF Carries
  <2>5. CASE ~CanMove(p)
    BY <2>1, <2>3, <2>5, Zenon DEF Leading
  <2> QED
    BY <2>4, <2>5
<1>9. ASSUME NEW p \in Processes, Removes(p) PROVE Leading'
  <2>1. at[p] = "remove" /\ UNCHANGED <<latest, overlapped, crashed>>
    BY <1>9 DEF Removes
  <2> QED
    BY <2>1, Zenon DEF Leading, Carries
<1>10. ASSUME Expires PROVE Leading'
  <2>1. IsCache(path) /\ path \in Caches /\ UNCHANGED <<client, at, mine, latest, overlapped, crashed>>
    BY <1>0, <1>10 DEF Expires, IsCache, Files
  <2>2. path' \in Caches /\ path'.last = path.last
    BY <1>10, <2>1 DEF Expires, Caches
  <2>3. IsCache(path)'
    BY <1>0, <2>2, CacheIsNoMark DEF IsCache
  <2> QED
    BY <2>1, <2>2, <2>3 DEF Leading, Carries, Idle
<1>11. ASSUME NEW p \in Processes, Crash(p) PROVE Leading'
  <2>1. crashed' = TRUE
    BY <1>11 DEF Crash
  <2> QED
    BY <2>1, Zenon DEF Leading
<1>12. CASE UNCHANGED cacheVars
  BY <1>12 DEF cacheVars, Leading, Carries, Idle, IsCache
<1>13. CASE CacheNext
  BY <1>13, <1>1, <1>2, <1>3, <1>4, <1>5, <1>6, <1>7, <1>8, <1>9, <1>10, <1>11 DEF CacheNext
<1> QED
  BY <1>12, <1>13

\* Leading holds in every state.
LEMMA AlwaysLeading == CacheSpec => []Leading
<1>1. CacheInit => Leading
  BY DEF CacheInit, Leading
<1> QED
  BY <1>1, NextLeading, AlwaysCache, PTL DEF CacheSpec

\* So is what is found in the file.
LEMMA FoundNodes ==
  ASSUME CacheInv
  PROVE  /\ client \in Clients /\ Found \in Caches /\ Found.nodes \in Seq(Nodes)
<1>1. client \in Clients /\ path \in Files
  BY DEF CacheInv, Types
<1>2. Found \in Caches
  BY <1>1, NoCacheIsOne DEF Found, IsCache, Files
<1>3. Found.nodes \in Releases \cup {<<>>}
  BY <1>2 DEF Caches
<1>4. Found.nodes \in Seq(Nodes)
  BY <1>1, <1>3, ReleasesAreLists
<1> QED
  BY <1>1, <1>2, <1>4

\* Whatever the Release and the cache hold, a download gets an ordered list without
\* doubles and with the official node, and both frontends make the same list of a
\* manifest that both accept.
THEOREM NodesAreOrdered == CacheSpec => []OrderedNodes
<1>1. CacheInv => OrderedNodes
  <2> SUFFICES ASSUME CacheInv PROVE OrderedNodes
    OBVIOUS
  <2>1. \A ns \in Releases : Ordered(client, Resolved(client, ns, Found), Found)
    <3> SUFFICES ASSUME NEW ns \in Releases
                 PROVE  Ordered(client, Resolved(client, ns, Found), Found)
      OBVIOUS
    <3>1. ns \in Seq(Nodes) /\ client \in Clients /\ Found.nodes \in Seq(Nodes)
      BY FoundNodes, ReleasesAreLists
    <3> QED
      BY <3>1, ResolvedOrdered
  <2>2. \A m \in Manifests :
          AcceptsNodes("native", m) /\ AcceptsNodes("managed", m) =>
            Resolved("native", Parsed("native", m), Found)
              = Resolved("managed", Parsed("managed", m), Found)
    BY SameResolved, CacheAssumption
  <2> QED
    BY <2>1, <2>2 DEF OrderedNodes
<1> QED
  BY <1>1, AlwaysCache, PTL

\* As long as operations neither overlap nor are killed, the next download begins with
\* the node verified last wherever that is offered.
THEOREM SuccessAlwaysLeads == CacheSpec => []SuccessLeads
<1>1. CacheInv /\ Leading => SuccessLeads
  <2> SUFFICES ASSUME CacheInv, Leading, Resolving, ~overlapped, ~crashed, latest # NoSuccess,
                      NEW ns \in Releases,
                      \E n \in Range(Resolved(client, ns, Found)) : n.id = latest
               PROVE  Resolved(client, ns, Found)[1].id = latest
    BY DEF SuccessLeads
  <2>1. IsCache(path) /\ path.last = latest
    BY DEF Resolving, Leading, Carries
  <2>2. Found.last = latest
    BY <2>1 DEF Found
  <2>3. ns \in Seq(Nodes) /\ client \in Clients /\ Found.nodes \in Seq(Nodes)
    BY FoundNodes, ReleasesAreLists
  <2> QED
    BY <2>2, <2>3, ResolvedOrdered
<1> QED
  BY <1>1, AlwaysCache, AlwaysLeading, PTL
==============================================================================
