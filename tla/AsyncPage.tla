------------------------------ MODULE AsyncPage ------------------------------
(***************************************************************************)
(* A page that awaits jobs, whatever the transport: it requests charts, gets *)
(* the 202 answers, runs its retry timers and fetches data.  The transports    *)
(* (AsyncPolling, AsyncWebSocket) add how events reach it.                      *)
(***************************************************************************)
EXTENDS AsyncJobs, AsyncClient

CONSTANTS
    MaxEventCount,   \* AsyncQueryManager.MAX_EVENT_COUNT
    MaxCopies,       \* bound: events in retry timers, and fetches of one job
    PromptReply      \* the 202 answer with the job id beats the last retry

ASSUME PageAssumption ==
    /\ MaxEventCount \in Nat \ {0} /\ MaxCopies \in Nat \ {0}
    /\ PromptReply \in BOOLEAN

VARIABLES
    client,   \* the state of asyncEvent.ts
    reply     \* the 202 answer to each job's request

pageVars == <<client, reply>>

PageTypeOK ==
    /\ client.listening \subseteq Job
    /\ client.promise \in [Job -> {"none", "waiting", "resolved", "rejected", "unfetched", "left"}]
    /\ client.retries \in [Job -> 0 .. MaxRetries]
    /\ client.lastId \in Ids
    /\ BagToSet(client.timers) \subseteq Event
    /\ client.fetching \in [Job -> 0 .. MaxCopies]
    /\ reply \in [Job -> {"none", "coming", "here", "lost"}]

PageInit ==
    /\ client = NewClient(Job, Origin)
    /\ reply = [j \in Job |-> "none"]
-----------------------------------------------------------------------------
\* Events read again pile up in timers and fetches; a callback that would exceed
\* the bound waits until one of them is through.
Fits(c) ==
    /\ BagCardinality(c.timers) <= MaxCopies
    /\ \A j \in Job : c.fetching[j] <= MaxCopies

Pending == BagToSet(client.timers)

\* The page requests a chart; the application queues the job and answers 202.
Submit(j) ==
    /\ reply[j] = "none"
    /\ Enqueue(j)
    /\ reply' = [reply EXCEPT ![j] = "coming"]
    /\ UNCHANGED client

\* The answer arrives: waitForAsyncData adds the listener.
Register(j) ==
    /\ reply[j] = "coming"
    /\ reply' = [reply EXCEPT ![j] = "here"]
    /\ client' = Listen(client, j)
    /\ UNCHANGED jobVars

\* The answer never arrives: the chart fails, nobody awaits the job.
ReplyLost(j) ==
    /\ reply[j] = "coming"
    /\ reply' = [reply EXCEPT ![j] = "lost"]
    /\ UNCHANGED <<jobVars, client>>

\* A retry timer fires.  With PromptReply, the last one fires after the answer.
RetryFires(e) ==
    /\ PromptReply /\ reply[e.job] = "coming" => client.retries[e.job] < MaxRetries
    /\ client' = Retry(client, e)
    /\ Fits(client')
    /\ UNCHANGED <<jobVars, reply>>

\* fetchCachedData is answered from the cache, which may have lost the data, or its
\* request fails.
DataArrives(j) ==
    /\ client.fetching[j] > 0
    /\ \E to \in {IF j \in cached THEN "resolved" ELSE "rejected", "unfetched"} :
          client' = Fetched(client, j, to)
    /\ UNCHANGED <<jobVars, reply>>

\* The page is reloaded: listeners, timers and requests are gone, the last id
\* comes back from localStorage, where another tab may have put a later one.
ReloadWith(id) ==
    /\ \E j \in Job : reply[j] = "coming" \/ client.promise[j] = "waiting"
    /\ client' = [NewClient(Job, id) EXCEPT !.promise =
                     [j \in Job |-> IF client.promise[j] = "waiting" THEN "left"
                                    ELSE client.promise[j]]]
    /\ reply' = [j \in Job |-> IF reply[j] = "coming" THEN "lost" ELSE reply[j]]
    /\ UNCHANGED jobVars

\* AsyncEventsRestApi.events: what the channel's stream holds after an id.
ReadEvents(lastId) ==
    RangeFrom(scoped, scopedCut, IF lastId = Origin THEN Origin ELSE PyIncrement(lastId), MaxEventCount)

StoredIds(stream) == {client.lastId} \cup {stream[i].id : i \in DOMAIN stream}

PageStep(j) == Submit(j) \/ Register(j) \/ ReplyLost(j) \/ DataArrives(j)

PageNext ==
    \/ JobsNext /\ UNCHANGED pageVars
    \/ \E j \in Job : PageStep(j)
    \/ \E e \in Pending : RetryFires(e)
-----------------------------------------------------------------------------
Awaited(j) == reply[j] = "coming" \/ client.promise[j] = "waiting"

\* Listeners and waiting promises go together: no promise waits unheard, and no listener
\* outlives its promise, so a page that awaits nothing stops asking for events.
NoListenerLeak == client.listening = {j \in Job : client.promise[j] = "waiting"}

\* Jobs an event of which is trimmed from the channel's stream or from the stream of all
\* channels.
Missed == {j \in Job : CutFrom(scoped, scopedCut, j) \/ CutFrom(full, fullCut, j)}

\* The abstract promise: an outcome is announced once it is on the channel's
\* stream; data is lost when it was computed and the cache no longer has it.
Result == INSTANCE AsyncResult WITH
    outcome <- [j \in Job |-> {s \in {"done", "error"} : Announced(scoped, j, s)}],
    lost    <- IF "evict" \in Faults
               THEN {j \in Job : worker[j] \notin {"none", "queued"} /\ j \notin cached}
               ELSE {},
    missed  <- Missed,
    promise <- client.promise

\* Every promise settles at most once: resolved only after a success was announced, and
\* rejected only for an announced error, or after an announced success whose data the
\* cache has lost (a worker's data is there before its announcement is) or the request
\* for which failed.
SettlesOnce == Result!Spec

\* Moreover an outcome that is announced, and not trimmed, reaches the promise that waits
\* for it.
KeepsPromise == Result!FairSpec
=============================================================================
