----------------------------- MODULE AsyncClient -----------------------------
(***************************************************************************)
(* The page's half of global async queries, whatever the transport          *)
(* (superset-frontend/src/middleware/asyncEvent.ts): a listener per awaited  *)
(* job, a retry timer for an event whose listener is not there yet, and the   *)
(* id of the last event received.  The state is a record; each operator gives *)
(* the record after a callback has run.                                       *)
(***************************************************************************)
EXTENDS EventStream, Bags

CONSTANT MaxRetries    \* MAX_RETRIES

ASSUME ClientAssumption == MaxRetries \in Nat

\* A page that has just called init(), with the id localStorage holds; jobs are
\* those it may come to await.
NewClient(jobs, id) ==
    [listening |-> {},                            \* listenersByJobId
     promise   |-> [j \in jobs |-> "none"],        \* of waitForAsyncData
     retries   |-> [j \in jobs |-> 0],             \* retriesByJobId, 0 when absent
     timers    |-> EmptyBag,                      \* events a setTimeout holds
     fetching  |-> [j \in jobs |-> 0],             \* fetchCachedData calls under way
     lastId    |-> id]                            \* lastReceivedEventId

Settle(c, j, to) ==
    [c EXCEPT !.promise[j] = IF @ = "waiting" THEN to ELSE @]

StopListening(c, j) == [c EXCEPT !.listening = @ \ {j}]

\* waitForAsyncData: the promise is made and its listener added.
Listen(c, j) ==
    [c EXCEPT !.promise[j] = "waiting", !.listening = @ \cup {j}]

\* Mutant: the listener survives an error.
HeardMutant(c, e) ==
    IF e.status = "error" THEN Settle(c, e.job, "rejected")
    ELSE [c EXCEPT !.fetching[e.job] = @ + 1]

\* The listener of waitForAsyncData: an error rejects at once; for a success the
\* data is fetched first, and the listener stays until the answer is there.
Heard(c, e) ==
    IF e.status = "error"
    THEN StopListening(Settle(c, e.job, "rejected"), e.job)
    ELSE [c EXCEPT !.fetching[e.job] = @ + 1]

\* fetchCachedData answers, and the promise is resolved with the data or rejected:
\* "unfetched" stands for rejected because the request for the data failed.
Fetched(c, j, to) == StopListening(Settle([c EXCEPT !.fetching[j] = @ - 1], j, to), j)

\* Mutant: an event without a listener is dropped instead of retried.
UnheardMutant(c, e) == c

\* Mutant: the retry count is compared before it is incremented.
UnheardLateMutant(c, e) ==
    IF c.retries[e.job] <= MaxRetries
    THEN [c EXCEPT !.retries[e.job] = @ + 1, !.timers = @ (+) SetToBag({e})]
    ELSE [c EXCEPT !.retries[e.job] = 0]

\* Mutant: the retries are not counted.
UnheardForeverMutant(c, e) == [c EXCEPT !.timers = @ (+) SetToBag({e})]

\* No listener yet: try again later, MAX_RETRIES times.
Unheard(c, e) ==
    IF c.retries[e.job] < MaxRetries
    THEN [c EXCEPT !.retries[e.job] = @ + 1, !.timers = @ (+) SetToBag({e})]
    ELSE [c EXCEPT !.retries[e.job] = 0]

\* One turn of the loop of processEvents, setLastId included.
ProcessEvent(c, e) ==
    LET handled == IF e.job \in c.listening
                   THEN [Heard(c, e) EXCEPT !.retries[e.job] = 0]
                   ELSE Unheard(c, e)
    IN  [handled EXCEPT !.lastId = e.id]

\* The whole loop.
ProcessEvents(c, events) ==
    LET after[n \in 0 .. Len(events)] ==
            IF n = 0 THEN c ELSE ProcessEvent(after[n-1], events[n])
    IN  after[Len(events)]

\* A retry timer fires.
Retry(c, e) == ProcessEvent([c EXCEPT !.timers = @ (-) SetToBag({e})], e)
=============================================================================
