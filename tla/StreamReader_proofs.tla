------------------------ MODULE StreamReader_proofs ------------------------
(***************************************************************************)
(* A stream with at most twenty events a millisecond is read exactly, for   *)
(* every page size, stream limit and duration.                              *)
(***************************************************************************)
EXTENDS StreamReader, EventStream_proofs

\* An id a busy millisecond has not pushed past what increment_id handles.
QuietIds == {id \in Ids : id[1] > 0 /\ id[2] < 20}
QuietEntries == [id : QuietIds]

\* Inductive: every stored id is a quiet one, and so is what the client holds.
Quiet ==
    /\ ms \in Nat \ {0}
    /\ stream \in Seq(QuietEntries)
    /\ lastAdded \in Ids
    /\ lastId \in QuietIds \cup {Origin}

LEMMA FreshIsQuiet ==
    ASSUME PerMs <= 20, NEW id \in Ids, NEW t \in Nat \ {0},
           FreshId(id, t)[2] < PerMs
    PROVE  FreshId(id, t) \in QuietIds
<1>1. PICK m \in Nat, n \in Nat : id = <<m, n>>
  BY DEF Ids
<1>2. FreshId(id, t) = IF t > m THEN <<t, 0>> ELSE <<m, n + 1>>
  BY <1>1 DEF FreshId
<1>3. PerMs \in Nat
  BY ReaderAssumption
<1>4. CASE t > m
  BY <1>2, <1>4 DEF QuietIds, Ids
<1>5. CASE ~(t > m)
  BY <1>1, <1>2, <1>3, <1>5 DEF QuietIds, Ids
<1>6. QED
  BY <1>4, <1>5

LEMMA QuietStep == PerMs <= 20 /\ Quiet /\ [Next]_vars => Quiet'
<1> SUFFICES ASSUME PerMs <= 20, Quiet, [Next]_vars PROVE Quiet'
  OBVIOUS
<1>1. CASE Add
  <2> DEFINE id == FreshId(lastAdded, ms)
             long == Append(stream, [id |-> id])
  <2>1. id \in QuietIds
    BY <1>1, FreshIsQuiet DEF Add, Quiet
  <2>2. [id |-> id] \in QuietEntries
    BY <2>1 DEF QuietEntries
  <2> HIDE DEF id
  <2>3. long \in Seq(QuietEntries)
    BY <2>2 DEF Quiet
  <2>4. lastAdded' = id
    BY <1>1 DEF Add, id
  <2>5. PICK cut \in Nat : cut <= Len(long) /\ stream' = SubSeq(long, cut + 1, Len(long))
    <3>1. PICK k \in 0 .. (IF Len(long) > StreamLimit THEN Len(long) - StreamLimit ELSE 0) :
              stream' = SubSeq(long, k + 1, Len(long))
      BY <1>1 DEF Add, id
    <3>2. Len(long) \in Nat
      BY <2>3
    <3> HIDE DEF long
    <3>3. k \in Nat /\ k <= Len(long)
      BY <3>1, <3>2, ReaderAssumption
    <3>4. QED
      BY <3>1, <3>3
  <2> HIDE DEF long
  <2>6. stream' \in Seq(QuietEntries)
    <3>1. /\ cut + 1 \in 1 .. Len(long) + 1
          /\ Len(long) \in Nat
      BY <2>3, <2>5
    <3>2. SubSeq(long, cut + 1, Len(long)) \in Seq(QuietEntries)
      BY <2>3, <3>1
    <3>3. QED
      BY <2>5, <3>2
  <2>7. id \in Ids
    BY <2>1 DEF QuietIds
  <2>8. QED
    BY <1>1, <2>4, <2>6, <2>7 DEF Add, Quiet
<1>2. CASE Read
  <2>1. PICK i \in DOMAIN stream : lastId' = stream[LastOfPage(i)].id
    BY <1>2 DEF Read
  <2>2. LastOfPage(i) \in DOMAIN stream
    BY ReaderAssumption DEF LastOfPage, Quiet
  <2>3. stream[LastOfPage(i)] \in QuietEntries
    BY <2>2 DEF Quiet
  <2>4. lastId' \in QuietIds
    BY <2>1, <2>3 DEF QuietEntries
  <2>5. QED
    BY <1>2, <2>4 DEF Read, Quiet
<1>3. CASE NextMs
  BY <1>3 DEF NextMs, Quiet
<1>4. CASE UNCHANGED vars
  BY <1>4 DEF vars, Quiet
<1>5. QED
  BY <1>1, <1>2, <1>3, <1>4 DEF Next

LEMMA QuietResumes == Quiet => ResumesExactly
<1> SUFFICES ASSUME Quiet, NEW i \in DOMAIN stream
             PROVE  AtMost(Start, stream[i].id) <=> Precedes(lastId, stream[i].id)
  BY DEF ResumesExactly
<1>1. /\ stream[i].id \in Ids
      /\ stream[i].id[1] > 0
      /\ stream[i].id[2] < 20
  <2>1. stream[i] \in QuietEntries
    BY DEF Quiet
  <2>2. stream[i].id \in QuietIds
    BY <2>1 DEF QuietEntries
  <2>3. QED
    BY <2>2 DEF QuietIds
<1>2. CASE lastId = Origin
  <2>1. PICK p \in Nat, q \in Nat : stream[i].id = <<p, q>>
    BY <1>1 DEF Ids
  <2>2. QED
    BY <1>1, <1>2, <2>1 DEF Start, Origin, AtMost, Precedes
<1>3. CASE lastId # Origin
  <2>1. lastId \in Ids /\ lastId[2] < 20
    BY <1>3 DEF Quiet, QuietIds
  <2>2. QED
    BY <1>1, <1>3, <2>1, PyResumesAfterWhenQuiet DEF Start
<1>4. QED
  BY <1>2, <1>3

\* ResumesExactly (read_events misses and repeats nothing) whenever no
\* millisecond holds more than twenty events of the channel.
THEOREM ReaderResumesExactly ==
    ASSUME PerMs <= 20 PROVE Spec => []ResumesExactly
<1>1. Init => Quiet
  BY DEF Init, Quiet, Ids, Origin
<1>2. Quiet /\ [Next]_vars => Quiet'
  BY QuietStep
<1>3. QED
  BY <1>1, <1>2, QuietResumes, PTL DEF Spec
=============================================================================
