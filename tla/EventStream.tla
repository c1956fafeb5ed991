---------------------------- MODULE EventStream ----------------------------
(***************************************************************************)
(* Redis stream ids as both sides of the async event flow use them: an id   *)
(* is <<milliseconds, sequence>>, ordered lexicographically.  XADD with "*" *)
(* and XRANGE are the stream's own (Redis is external); the two functions   *)
(* that compute "the id after the last one I saw" are the program's.        *)
(***************************************************************************)
EXTENDS Integers, Sequences, FiniteSets

Ids == Nat \X Nat

Precedes(a, b) == a[1] < b[1] \/ (a[1] = b[1] /\ a[2] < b[2])
AtMost(a, b) == a = b \/ Precedes(a, b)

Origin == <<0, 0>>                       \* the range start "-"
NewestId(stream) == IF stream = <<>> THEN Origin ELSE stream[Len(stream)].id

\* The id XADD "*" gives an entry at time ms, after the ids already in use.
FreshId(lastId, ms) ==
    IF ms > lastId[1] THEN <<ms, 0>> ELSE <<lastId[1], lastId[2] + 1>>

\* How many entries of a stream come before an id, and up to it.
CountBefore(stream, id) == Cardinality({i \in DOMAIN stream : Precedes(stream[i].id, id)})
CountUpTo(stream, id) == Cardinality({i \in DOMAIN stream : AtMost(stream[i].id, id)})

\* A stream is everything ever added to it, of which the oldest `cut' are trimmed.
\* XADD with an approximate MAXLEN trims any number of entries as long as `limit' stay.
Trimmed(cut, stream, limit) ==
    {cut} \cup {n \in cut .. Len(stream) : Len(stream) - n >= limit}

\* The entries before a position, and those trimmed.
Before(cut, position) == IF position < cut THEN cut ELSE position

\* XRANGE stream start end.
XRange(stream, cut, start, end) ==
    SubSeq(stream, Before(cut, CountBefore(stream, start)) + 1, CountUpTo(stream, end))

\* XRANGE stream start + COUNT n.
RangeFrom(stream, cut, start, n) ==
    LET before == Before(cut, CountBefore(stream, start))
    IN  SubSeq(stream, before + 1, IF before + n < Len(stream) THEN before + n ELSE Len(stream))

\* incrementId of the websocket server: the sequence part is read as a number.
TsIncrement(id) == <<id[1], id[2] + 1>>

\* increment_id of the web application: only the last character is incremented
\* and its decimal value appended, so ...9 becomes ...10 with a digit more.
PyIncrement(id) ==
    <<id[1], IF id[2] % 10 < 9 THEN id[2] + 1 ELSE (id[2] \div 10) * 100 + 10>>
=============================================================================
