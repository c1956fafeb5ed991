---------------------------- MODULE AsyncPolling ----------------------------
(***************************************************************************)
(* Global async queries over the polling transport: the page asks            *)
(* /api/v1/async_event/ for the events after the last one it received, one     *)
(* request at a time, as long as it awaits a job.                               *)
(***************************************************************************)
EXTENDS AsyncPage

VARIABLE poll   \* the polling loop: what it is doing and with what

vars == <<jobVars, pageVars, poll>>

Idle == [pc |-> "idle", from |-> Origin, events |-> <<>>]

PollStates ==
    [pc : {"idle", "sent", "answered"}, from : Ids, events : Seq(Event)]

TypeOK == JobsTypeOK /\ PageTypeOK /\ poll \in PollStates

Init == JobsInit /\ PageInit /\ poll = Idle
-----------------------------------------------------------------------------
\* loadEventsFromApi: ask only while some listener waits.
PollSent ==
    /\ poll.pc = "idle" /\ client.listening # {}
    /\ poll' = [Idle EXCEPT !.pc = "sent", !.from = client.lastId]
    /\ UNCHANGED <<jobVars, pageVars>>

\* AsyncEventsRestApi.events: read_events of the page's channel.
PollAnswered ==
    /\ poll.pc = "sent"
    /\ poll' = [poll EXCEPT !.pc = "answered", !.events = ReadEvents(poll.from)]
    /\ UNCHANGED <<jobVars, pageVars>>

\* The request fails: a warning, and the next poll starts from the same id.
PollFails ==
    /\ poll.pc \in {"sent", "answered"}
    /\ poll' = Idle
    /\ UNCHANGED <<jobVars, pageVars>>

\* Mutant: only the first event of a page is processed, lastId is the page's last.
PollReceivedMutant ==
    /\ poll.pc = "answered"
    /\ client' = IF poll.events = <<>> THEN client
                 ELSE [ProcessEvent(client, Head(poll.events))
                          EXCEPT !.lastId = NewestId(poll.events)]
    /\ Fits(client')
    /\ poll' = Idle
    /\ UNCHANGED <<jobVars, reply>>

\* The page processes the events and arms the polling timer again.
PollReceived ==
    /\ poll.pc = "answered"
    /\ client' = ProcessEvents(client, poll.events)
    /\ Fits(client')
    /\ poll' = Idle
    /\ UNCHANGED <<jobVars, reply>>

Reload == poll' = Idle /\ \E id \in StoredIds(scoped) : ReloadWith(id)
-----------------------------------------------------------------------------
Next ==
    \/ PageNext /\ UNCHANGED poll
    \/ PollSent \/ PollAnswered \/ PollReceived \/ PollFails
    \/ Reload

Spec == Init /\ [][Next]_vars

\* Workers run their tasks, timers fire and requests are answered or lost; a poll
\* may fail, but not every one from some point on.
Fairness ==
    /\ \A j \in Job :
          /\ WF_vars(JobStep(j) /\ UNCHANGED <<pageVars, poll>>)
          /\ WF_vars((Register(j) \/ ReplyLost(j)) /\ UNCHANGED poll)
          /\ WF_vars(DataArrives(j) /\ UNCHANGED poll)
    /\ WF_vars((\E e \in Pending : RetryFires(e)) /\ UNCHANGED poll)
    /\ WF_vars(PollSent) /\ SF_vars(PollAnswered) /\ SF_vars(PollReceived)

FairSpec == Spec /\ Fairness
-----------------------------------------------------------------------------
\* Where an event the page still needs can be: after the last id, in a poll's
\* answer, in a retry timer, or at the listener that is fetching its data.
Underway(e) ==
    \/ Precedes(client.lastId, e.id)
    \/ \E i \in DOMAIN poll.events : poll.events[i] = e
    \/ e \in Pending
    \/ client.fetching[e.job] > 0

\* An awaited job whose outcome is announced has an event still on its way to the
\* listener, although retries move the last id back, pages are short, requests
\* fail and listeners come late: unless all its events have been trimmed.  (Of two events
\* of one job, one may be dropped: they share a retry count.)
NothingLost ==
    \A j \in Job : Awaited(j) /\ Held(scoped, scopedCut, j) # {} =>
        \E i \in EventsOf(scoped, j) : Underway(scoped[i])

\* Retry timers, which move the last id back and make the next poll read events
\* again, die out.
RetriesEnd == <>[](client.timers = EmptyBag)
=============================================================================
