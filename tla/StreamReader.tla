---------------------------- MODULE StreamReader ----------------------------
(***************************************************************************)
(* A client that pages through its channel's stream: it sends the id of the *)
(* last event it received and the web application answers with the events   *)
(* from increment_id(last_id) on, MAX_EVENT_COUNT at a time                  *)
(* (AsyncQueryManager.read_events), while update_job appends and trims.      *)
(***************************************************************************)
EXTENDS EventStream

CONSTANTS
    MaxEventCount,   \* AsyncQueryManager.MAX_EVENT_COUNT
    StreamLimit,     \* GLOBAL_ASYNC_QUERIES_REDIS_STREAM_LIMIT
    PerMs,           \* bound: events appended in one millisecond
    MaxMs            \* bound: milliseconds

ASSUME ReaderAssumption ==
    /\ MaxEventCount \in Nat \ {0} /\ StreamLimit \in Nat \ {0}
    /\ PerMs \in Nat /\ MaxMs \in Nat

VARIABLES
    ms,        \* the clock of Redis
    stream,    \* the entries still stored, oldest first
    lastAdded, \* id of the newest entry ever appended
    lastId     \* the client's last_id; Origin before its first event

vars == <<ms, stream, lastAdded, lastId>>

Init == ms = 1 /\ stream = <<>> /\ lastAdded = Origin /\ lastId = Origin

\* XADD with an approximate MAXLEN: append, then drop old entries, though never
\* so many that fewer than StreamLimit remain.
Add ==
    LET id     == FreshId(lastAdded, ms)
        long   == Append(stream, [id |-> id])
        excess == IF Len(long) > StreamLimit THEN Len(long) - StreamLimit ELSE 0
    IN  /\ id[2] < PerMs
        /\ \E cut \in 0 .. excess : stream' = SubSeq(long, cut + 1, Len(long))
        /\ lastAdded' = id
        /\ UNCHANGED <<ms, lastId>>

\* Mutant: the page starts at the last id itself.
StartMutant == lastId

\* read_events: where the next page starts.
Start == IF lastId = Origin THEN Origin ELSE PyIncrement(lastId)

\* The page read_events returns is the stretch of at most MaxEventCount entries
\* that begins with the first one at or after Start.
FirstOfPage(i) ==
    /\ AtMost(Start, stream[i].id)
    /\ i > 1 => ~AtMost(Start, stream[i - 1].id)

LastOfPage(i) ==
    IF i + MaxEventCount - 1 < Len(stream) THEN i + MaxEventCount - 1 ELSE Len(stream)

\* One poll that finds something: the client keeps the page's newest id.
Read ==
    /\ \E i \in DOMAIN stream :
          FirstOfPage(i) /\ lastId' = stream[LastOfPage(i)].id
    /\ UNCHANGED <<ms, stream, lastAdded>>

NextMs == ms < MaxMs /\ ms' = ms + 1 /\ UNCHANGED <<stream, lastAdded, lastId>>

Next == Add \/ Read \/ NextMs

Spec == Init /\ [][Next]_vars
-----------------------------------------------------------------------------
\* Resuming is exact: the entries the next page may hold are those appended after
\* the last event received, none before it and none missed, whatever was appended
\* or trimmed between two polls.
ResumesExactly ==
    \A i \in DOMAIN stream :
        AtMost(Start, stream[i].id) <=> Precedes(lastId, stream[i].id)
=============================================================================
