------------------------- MODULE EventStream_proofs -------------------------
(***************************************************************************)
(* The order of ids, and what the two "next id" functions compute, for every id. *)
(***************************************************************************)
EXTENDS EventStream, TLAPS

\* An id is a pair.
LEMMA IdPair ==
    ASSUME NEW id \in Ids
    PROVE  id[1] \in Nat /\ id[2] \in Nat /\ id = <<id[1], id[2]>>
  BY DEF Ids

\* Ids are in a strict total order.
LEMMA IdOrder ==
    ASSUME NEW a \in Ids, NEW b \in Ids, NEW c \in Ids
    PROVE  /\ ~Precedes(a, a)
           /\ Precedes(a, b) => ~AtMost(b, a)
           /\ AtMost(a, b) /\ Precedes(b, c) => Precedes(a, c)
  <1>1. /\ a[1] \in Nat /\ a[2] \in Nat /\ a = <<a[1], a[2]>>
        /\ b[1] \in Nat /\ b[2] \in Nat /\ b = <<b[1], b[2]>>
        /\ c[1] \in Nat /\ c[2] \in Nat /\ c = <<c[1], c[2]>>
    BY IdPair
  <1> QED BY <1>1 DEF Precedes, AtMost

\* incrementId gives the immediate successor: a range that starts there holds
\* exactly the entries after id.
THEOREM TsResumesAfter ==
    ASSUME NEW id \in Ids, NEW other \in Ids
    PROVE  AtMost(TsIncrement(id), other) <=> Precedes(id, other)
<1>1. PICK m \in Nat, n \in Nat : id = <<m, n>>
  BY DEF Ids
<1>2. PICK p \in Nat, q \in Nat : other = <<p, q>>
  BY DEF Ids
<1>3. QED
  BY <1>1, <1>2 DEF AtMost, Precedes, TsIncrement

\* increment_id does too as long as no millisecond holds more than twenty events
\* of the stream (sequence numbers 0 to 19).
THEOREM PyResumesAfterWhenQuiet ==
    ASSUME NEW id \in Ids, NEW other \in Ids, id[2] < 20, other[2] < 20
    PROVE  AtMost(PyIncrement(id), other) <=> Precedes(id, other)
<1>1. PICK m \in Nat, n \in Nat : id = <<m, n>>
  BY DEF Ids
<1>2. PICK p \in Nat, q \in Nat : other = <<p, q>>
  BY DEF Ids
<1>3. n \in 0 .. 19 /\ q \in 0 .. 19
  BY <1>1, <1>2
<1>4. PyIncrement(id) = <<m, IF n % 10 < 9 THEN n + 1 ELSE (n \div 10) * 100 + 10>>
  BY <1>1 DEF PyIncrement
<1>5. CASE n < 9
  <2>1. n % 10 = n
    BY <1>3, <1>5
  <2>2. QED
    BY <1>1, <1>2, <1>4, <1>5, <2>1 DEF AtMost, Precedes
<1>6. CASE n = 9
  <2>1. n % 10 = 9 /\ n \div 10 = 0
    BY <1>6
  <2>2. QED
    BY <1>1, <1>2, <1>4, <1>6, <2>1 DEF AtMost, Precedes
<1>7. CASE n > 9 /\ n < 19
  <2>1. n % 10 = n - 10
    BY <1>3, <1>7
  <2>2. QED
    BY <1>1, <1>2, <1>4, <1>7, <2>1 DEF AtMost, Precedes
<1>8. CASE n = 19
  <2>1. n % 10 = 9 /\ n \div 10 = 1
    BY <1>8
  <2>2. QED
    BY <1>1, <1>2, <1>3, <1>4, <1>8, <2>1 DEF AtMost, Precedes
<1>9. QED
  BY <1>3, <1>5, <1>6, <1>7, <1>8

\* Beyond that it overshoots: from m-19 the range starts at m-110, and the
\* entries m-20 to m-109 are never read.
THEOREM PyOvershoots ==
    ASSUME NEW m \in Nat, NEW q \in 20 .. 109
    PROVE  Precedes(<<m, 19>>, <<m, q>>) /\ ~AtMost(PyIncrement(<<m, 19>>), <<m, q>>)
<1>1. 19 % 10 = 9 /\ 19 \div 10 = 1
  OBVIOUS
<1>2. PyIncrement(<<m, 19>>) = <<m, 110>>
  BY <1>1 DEF PyIncrement
<1>3. QED
  BY <1>2 DEF AtMost, Precedes
=============================================================================
