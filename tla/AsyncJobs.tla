------------------------------ MODULE AsyncJobs ------------------------------
(***************************************************************************)
(* The producing half of global async queries: the web application queues a *)
(* chart request as a Celery task, a worker computes and caches its data    *)
(* (superset/tasks/async_queries.py) and announces the outcome with          *)
(* update_job (superset/utils/async_query_manager.py): one entry on the       *)
(* channel's own Redis stream, then one on the stream of all channels, each    *)
(* with an id of its own and each stream trimmed on the way.  One channel is     *)
(* modelled.                                                                      *)
(***************************************************************************)
EXTENDS EventStream, FiniteSets

CONSTANTS
    Job,      \* jobs submitted by the channel
    StreamLimit, FirehoseLimit,   \* the MAXLEN of the two streams
    MaxMs,    \* bound: the clock of Redis
    Faults    \* which of the faults below may happen

ASSUME JobsAssumption ==
    /\ MaxMs \in Nat \ {0} /\ StreamLimit \in Nat /\ FirehoseLimit \in Nat
    /\ Faults \subseteq {"timeout", "crash", "redis", "evict"}

VARIABLES
    ms,       \* the clock of Redis
    scoped,   \* the channel's stream, all that was ever added to it,
    scopedCut,\* and how many of its oldest entries are trimmed
    full,     \* the stream of all channels
    fullCut,
    worker,   \* how far each job's task has got
    cached    \* jobs whose data is in the cache

streams == <<scoped, scopedCut, full, fullCut>>

jobVars == <<ms, streams, worker, cached>>

Event == [id : Ids, job : Job, status : {"done", "error"}]

WorkerStates ==
    {"none", "queued", "done_scoped", "done_full", "error_scoped", "error_full", "ended"}

JobsTypeOK ==
    /\ ms \in 1 .. MaxMs
    /\ scoped \in Seq(Event) /\ full \in Seq(Event)
    /\ scopedCut \in 0 .. Len(scoped) /\ fullCut \in 0 .. Len(full)
    /\ worker \in [Job -> WorkerStates]
    /\ cached \subseteq Job

JobsInit ==
    /\ ms = 1
    /\ scoped = <<>> /\ full = <<>> /\ scopedCut = 0 /\ fullCut = 0
    /\ worker = [j \in Job |-> "none"]
    /\ cached = {}
-----------------------------------------------------------------------------
Added(stream, job, status) ==
    Append(stream, [id     |-> FreshId(NewestId(stream), ms),
                    job    |-> job,
                    status |-> status])

Moves(j, from, to) == worker[j] \in from /\ worker' = [worker EXCEPT ![j] = to]

\* A job is created and its task queued (the web application).
Enqueue(j) ==
    /\ Moves(j, {"none"}, "queued")
    /\ UNCHANGED <<ms, streams, cached>>

\* Mutant: the outcome is announced first and the data cached afterwards.
ComputeMutant(j) ==
    \/ /\ Moves(j, {"queued"}, "done_scoped")
       /\ UNCHANGED <<ms, streams, cached>>
    \/ /\ worker[j] = "ended"
       /\ cached' = cached \cup {j}
       /\ UNCHANGED <<ms, streams, worker>>

\* The command ran: its data is in the cache before anything is announced.
Compute(j) ==
    /\ Moves(j, {"queued"}, "done_scoped")
    /\ cached' = cached \cup {j}
    /\ UNCHANGED <<ms, streams>>

\* The command raised: the generic handler announces an error.
Fail(j) ==
    /\ Moves(j, {"queued"}, "error_scoped")
    /\ UNCHANGED <<ms, streams, cached>>

\* update_job, first XADD: the channel's stream.
AddScoped(j) ==
    /\ \/ Moves(j, {"done_scoped"}, "done_full") /\ scoped' = Added(scoped, j, "done")
       \/ Moves(j, {"error_scoped"}, "error_full") /\ scoped' = Added(scoped, j, "error")
    /\ scopedCut' \in Trimmed(scopedCut, scoped', StreamLimit)
    /\ UNCHANGED <<ms, full, fullCut, cached>>

\* update_job, second XADD: the stream of all channels.
AddFull(j) ==
    /\ \/ Moves(j, {"done_full"}, "ended") /\ full' = Added(full, j, "done")
       \/ Moves(j, {"error_full"}, "ended") /\ full' = Added(full, j, "error")
    /\ fullCut' \in Trimmed(fullCut, full', FirehoseLimit)
    /\ UNCHANGED <<ms, scoped, scopedCut, cached>>
-----------------------------------------------------------------------------
Running == WorkerStates \ {"none", "queued", "ended"}

\* SoftTimeLimitExceeded is raised again without an event, wherever it strikes.
SoftTimeout(j) ==
    /\ "timeout" \in Faults
    /\ Moves(j, {"queued"} \cup Running, "ended")
    /\ UNCHANGED <<ms, streams, cached>>

\* The worker dies; the task was acknowledged when it started (task_acks_late
\* is off), so nobody runs it again.
Crash(j) ==
    /\ "crash" \in Faults
    /\ Moves(j, {"queued"} \cup Running, "ended")
    /\ UNCHANGED <<ms, streams, cached>>

\* An XADD raises.  While announcing success this lands in the generic handler,
\* which announces an error, although the success may be on one stream already;
\* in that handler it propagates.
RedisError(j) ==
    /\ "redis" \in Faults
    /\ \/ Moves(j, {"done_scoped", "done_full"}, "error_scoped")
       \/ Moves(j, {"error_scoped", "error_full"}, "ended")
    /\ UNCHANGED <<ms, streams, cached>>

\* The cache drops an entry: timeout or memory pressure.
Evict(j) ==
    /\ "evict" \in Faults /\ j \in cached
    /\ cached' = cached \ {j}
    /\ UNCHANGED <<ms, streams, worker>>

NextMs == ms < MaxMs /\ ms' = ms + 1 /\ UNCHANGED <<streams, worker, cached>>

JobStep(j) == Compute(j) \/ Fail(j) \/ AddScoped(j) \/ AddFull(j)

JobFault(j) == SoftTimeout(j) \/ Crash(j) \/ RedisError(j) \/ Evict(j)

JobsNext == NextMs \/ \E j \in Job : JobStep(j) \/ JobFault(j)

\* A worker picks a queued task up and runs it to the end, unless a fault ends it.
JobsFairness == \A j \in Job : WF_jobVars(JobStep(j))
-----------------------------------------------------------------------------
EventsOf(stream, j) == {i \in DOMAIN stream : stream[i].job = j}

\* Those that are not trimmed.
Held(stream, cut, j) == {i \in EventsOf(stream, j) : i > cut}

\* An event of the job is trimmed.
CutFrom(stream, cut, j) == Held(stream, cut, j) # EventsOf(stream, j)

Announced(stream, j, status) == \E i \in EventsOf(stream, j) : stream[i].status = status
=============================================================================
