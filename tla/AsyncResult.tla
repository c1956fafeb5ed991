----------------------------- MODULE AsyncResult -----------------------------
(***************************************************************************)
(* What global async queries promise a page: whoever waits for a job's data *)
(* gets it, once, or learns that it failed.  No streams, transports,          *)
(* listeners or retries here.                                                  *)
(***************************************************************************)
CONSTANTS Job

VARIABLES
    outcome,   \* what the worker announced of each job: part of {"done", "error"}
    lost,      \* jobs whose data was dropped after it was computed
    missed,    \* jobs an announcement of which was dropped, read or not
    promise    \* state of the promise the page waits on

vars == <<outcome, lost, missed, promise>>

Init ==
    /\ outcome = [j \in Job |-> {}]
    /\ lost = {} /\ missed = {}
    /\ promise = [j \in Job |-> "none"]

Ask(j) ==
    /\ promise[j] = "none"
    /\ promise' = [promise EXCEPT ![j] = "waiting"]
    /\ UNCHANGED <<outcome, lost, missed>>

Miss == \E jobs \in SUBSET Job : missed' = missed \cup jobs

\* What is announced may drop older announcements.
Announce(j, status) ==
    /\ outcome' = [outcome EXCEPT ![j] = @ \cup {status}]
    /\ Miss
    /\ UNCHANGED <<lost, promise>>

Lose(j) == lost' = lost \cup {j} /\ UNCHANGED <<outcome, missed, promise>>

\* A promise may become resolved for an announced success, and rejected for an
\* announced error or a success whose data is gone or could not be fetched.
MaySettle(j, to) ==
    /\ promise[j] = "waiting"
    /\ to \in {"resolved", "unfetched"} => "done" \in outcome[j]
    /\ to = "rejected" => "error" \in outcome[j] \/ ("done" \in outcome[j] /\ j \in lost)

\* One callback may bring the outcomes of several jobs.
SettleAll(jobs) ==
    /\ \E to \in [jobs -> {"resolved", "rejected", "unfetched"}] :
          /\ \A j \in jobs : MaySettle(j, to[j])
          /\ promise' = [j \in Job |-> IF j \in jobs THEN to[j] ELSE promise[j]]
    /\ UNCHANGED <<outcome, lost, missed>>

\* The page is reloaded: nobody waits for its jobs any more.
LeavePage ==
    /\ promise' = [j \in Job |-> IF promise[j] = "waiting" THEN "left" ELSE promise[j]]
    /\ UNCHANGED <<outcome, lost, missed>>

Settle(j) == \E jobs \in SUBSET Job : j \in jobs /\ SettleAll(jobs)

Next ==
    \/ LeavePage
    \/ Miss /\ UNCHANGED <<outcome, lost, promise>>
    \/ \E j \in Job : Ask(j) \/ Settle(j) \/ Lose(j)
                      \/ \E status \in {"done", "error"} : Announce(j, status)

\* An announced outcome that is not missed reaches a page that keeps waiting for it.
Fairness == \A j \in Job : WF_vars(j \notin missed /\ Settle(j))

Spec == Init /\ [][Next]_vars

FairSpec == Spec /\ Fairness
=============================================================================
