------------------------------- MODULE SqlLab -------------------------------
(***************************************************************************)
(* A SQL Lab page that runs one query and may stop it (SqlLab/actions/       *)
(* sqlLab.js, reducers/sqlLab.js, QueryAutoRefresh, ResultSet), composed with  *)
(* the server.  The page learns of the query from the answer to its request,    *)
(* from polls for the user's queries changed lately, from results it fetches     *)
(* and from the answer to its stop request.  Other queries of the user only       *)
(* move the time that polls ask from.                                              *)
(***************************************************************************)
EXTENDS SqlLabServer, FiniteSets

CONSTANTS
    Buffer,   \* QUERY_UPDATE_BUFFER_MS
    Ahead     \* the browser's clock is at most this far ahead when the page is loaded

ASSUME PageAssumption == Buffer \in Nat /\ Ahead \in Nat /\ Ahead + MaxLag <= Buffer

VARIABLES
    page,        \* the query in the store: state, resultsKey, results
    post,        \* the answer to sql_json that the page awaits
    lastUpdate,  \* queriesLastUpdate
    polls,       \* answers to polls under way
    fetches,     \* requests for results under way, each with what the query said then
    unsynced     \* history: saving the tab's latest query failed

pageVars == <<page, post, lastUpdate, polls, fetches, unsynced>>

vars == <<serverVars, pageVars>>

Concluded == {"success", "failed", "stopped"}
InProgress == {"pending", "running", "fetching"}

\* The answer that the page awaits: to its request, or to the request sent again, which
\* found the query there ("already"); or none, "bare" as history if what was found there
\* was taken for a success.
Posts == {"no", "first", "already", "bare"}

\* The row as a poll shows it, and a poll that does not show it.
Seen == [status |-> row.status, key |-> row.key]

Unseen == [status |-> "none", key |-> FALSE]

TypeOK ==
    /\ ServerTypeOK
    /\ page \in [state : {"none"} \cup InProgress \cup Concluded, key : BOOLEAN, data : BOOLEAN]
    /\ post \in Posts /\ unsynced \in BOOLEAN
    /\ lastUpdate \in 0 .. MaxTime + Ahead
    /\ polls \subseteq [seen : [status : Statuses, key : BOOLEAN], latest : 0 .. MaxTime + Ahead]
    /\ fetches \subseteq {"pending", "running", "stopped", "success", "failed", "fetching"}

Init ==
    /\ ServerInit
    /\ page = [state |-> "none", key |-> FALSE, data |-> FALSE]
    /\ post = "no" /\ unsynced = FALSE
    /\ lastUpdate \in 0 .. Ahead
    /\ polls = {} /\ fetches = {}
-----------------------------------------------------------------------------
\* runQuery: START_QUERY, and the request is sent.
Run ==
    /\ page.state = "none" /\ web = "none"
    /\ web' = "posted" /\ post' = "first"
    /\ page' = [page EXCEPT !.state = IF how.async THEN "pending" ELSE "running"]
    /\ UNCHANGED <<now, how, row, task, stopping, results, stopLeft,
                   lastUpdate, polls, fetches, unsynced>>

\* The query after a change of the store, and the fetch that ResultSet starts when it
\* sees a key it did not have.
Shows(p) ==
    \/ /\ p.key /\ ~page.key
       /\ page' = [p EXCEPT !.state = "fetching"] /\ fetches' = fetches \cup {p.state}
    \/ (p.key => page.key) /\ page' = p /\ UNCHANGED fetches

\* querySuccess: QUERY_SUCCESS, once the tab's latest query is saved if tabs are
\* persisted; if that fails there is no QUERY_SUCCESS.
Succeeds(p) ==
    \/ Shows(p) /\ UNCHANGED unsynced
    \/ how.persist /\ unsynced' = TRUE /\ UNCHANGED <<page, fetches>>

\* The answer to sql_json, if the query is async or failed.
AnswerReceived ==
    /\ post = "first" /\ post' = "no"
    /\ \/ web = "ok" /\ how.async /\ UNCHANGED page
       \/ web = "error" /\ page' = [page EXCEPT !.state = "failed"]
    /\ web' = "done"
    /\ UNCHANGED <<now, how, row, task, stopping, results, stopLeft,
                   lastUpdate, polls, fetches, unsynced>>

\* Sync: the answer brings the results.  The query runQuery closed over still says
\* running, so QUERY_SUCCESS does not see that it was stopped.
ResultsReceived ==
    /\ post = "first" /\ post' = "no"
    /\ ~how.async /\ web = "ok" /\ web' = "done"
    /\ Succeeds([page EXCEPT !.state = "success", !.data = TRUE, !.key = @ \/ Stores])
    /\ UNCHANGED <<now, how, row, task, stopping, results, stopLeft, lastUpdate, polls>>

\* Sync, stopped: the payload has a status and nothing else, which is a success like
\* any other, unless saving the tab needs the query in it.
StoppedReceived ==
    /\ post = "first" /\ post' = "no"
    /\ web = "stopped" /\ web' = "done"
    /\ page' = [page EXCEPT !.state = IF how.persist THEN "failed" ELSE "success",
                            !.data = FALSE]
    /\ UNCHANGED <<now, how, row, task, stopping, results, stopLeft,
                   lastUpdate, polls, fetches, unsynced>>

\* The connection breaks, or a proxy answers 503: the request is sent again, with the
\* same client id, and finds the query in progress.
SentAgain ==
    /\ post = "first" /\ post' = "already"
    /\ row.status \in {"pending", "running"}
    /\ UNCHANGED <<serverVars, page, lastUpdate, polls, fetches, unsynced>>

\* The answer to it is the query, without data: a success like any other to a page that
\* waits for results.
RepeatReceived ==
    /\ post = "already"
    /\ \/ how.async /\ post' = "no" /\ UNCHANGED <<page, fetches, unsynced>>
       \/ ~how.async /\ post' = "bare"
          /\ Succeeds([page EXCEPT !.state = "success", !.data = FALSE])
    /\ UNCHANGED <<serverVars, lastUpdate, polls>>

\* The answer is lost, times out in a proxy, or its process was killed; or the request
\* was sent again when the query was not in progress, or not found yet, and a second one
\* with its client id could not be saved.
AnswerLost ==
    /\ post \in {"first", "already"} /\ post' = "no"
    /\ page' = [page EXCEPT !.state = "failed"]
    /\ UNCHANGED <<serverVars, lastUpdate, polls, fetches, unsynced>>
-----------------------------------------------------------------------------
Later(t, u) == IF t < u THEN u ELSE t

\* A poll from a time, served by queries_exec: the user's queries changed since, and the
\* latest change among them.
PollsFrom(from) ==
    /\ page.state # "none"
    /\ \E other \in {lastUpdate, now} :
          \/ /\ row.status # "none" /\ row.changed >= from
             /\ polls' = polls \cup {[seen |-> Seen, latest |-> Later(other, row.changed)]}
          \/ /\ row.status = "none" \/ row.changed < from
             /\ polls' = polls \cup {[seen |-> Unseen, latest |-> other]}
    /\ UNCHANGED <<serverVars, page, post, lastUpdate, fetches, unsynced>>

\* Mutant: a poll is sent although one is pending.
PollServedMutant == Cardinality(polls) < 2 /\ PollsFrom(lastUpdate - Buffer)

\* Mutant: polls ask from the last change seen, without the buffer.
PollServedLateMutant == polls = {} /\ PollsFrom(lastUpdate)

\* checkForRefresh: one request at a time, while this query or another one runs.
PollServed == polls = {} /\ PollsFrom(lastUpdate - Buffer)

\* Mutant: what the row says counts, whatever the page has.
RefreshedMutant(seen) == [page EXCEPT !.state = seen.status, !.key = seen.key]

\* What REFRESH_QUERIES makes of the query: one whose results are being fetched, or are
\* shown, does not become a success again.
Refreshed(seen) ==
    [page EXCEPT !.state = IF seen.status = "success" /\ @ \in {"fetching", "success"}
                           THEN @ ELSE seen.status,
                 !.key = seen.key]

\* A query that is stopped or failed here stays so, and its change is not counted.
PollReceived ==
    \E p \in polls :
        /\ polls' = polls \ {p}
        /\ \/ /\ p.seen # Unseen /\ page.state \notin {"stopped", "failed"}
              /\ lastUpdate' = Later(lastUpdate, p.latest)
              /\ Shows(Refreshed(p.seen))
           \/ /\ p.seen = Unseen \/ page.state \in {"stopped", "failed"}
              /\ lastUpdate' \in {lastUpdate, Later(lastUpdate, p.latest)}
              /\ UNCHANGED <<page, fetches>>
        /\ UNCHANGED <<serverVars, post, unsynced>>

\* The request fails or times out.
PollFails ==
    /\ \E p \in polls : polls' = polls \ {p}
    /\ UNCHANGED <<serverVars, page, post, lastUpdate, fetches, unsynced>>
-----------------------------------------------------------------------------
\* fetchQueryResults, served by results_exec, which has the results if a row has the
\* key: QUERY_SUCCESS heeds only what the query said when the fetch began.
FetchReceived ==
    /\ \E said \in fetches :
        /\ fetches' = fetches \ {said}
        /\ row.key /\ results
        /\ \/ said # "stopped" /\ page' = [state |-> "success", key |-> TRUE, data |-> TRUE]
              /\ UNCHANGED unsynced
           \/ said = "stopped" /\ UNCHANGED <<page, unsynced>>
           \/ how.persist /\ unsynced' = TRUE /\ UNCHANGED page
    /\ UNCHANGED <<serverVars, post, lastUpdate, polls>>

\* The results have expired, or the request fails: QUERY_FAILED.
FetchFails ==
    /\ \E said \in fetches :
        /\ fetches' = fetches \ {said}
        /\ page' = IF said = "stopped" THEN page ELSE [page EXCEPT !.state = "failed"]
    /\ UNCHANGED <<serverVars, post, lastUpdate, polls, unsynced>>
-----------------------------------------------------------------------------
\* postStopQuery, by a button that is there while the query is pending or running.
ClickStop ==
    /\ page.state \in {"pending", "running"} /\ stopping = "none"
    /\ stopping' = "asked"
    /\ UNCHANGED <<now, how, row, task, web, results, stopLeft, pageVars>>

\* STOP_QUERY, whatever the page shows by now.
StopReceived ==
    /\ stopping = "ok" /\ stopping' = "none"
    /\ page' = [page EXCEPT !.state = "stopped", !.data = FALSE]
    /\ UNCHANGED <<now, how, row, task, web, results, stopLeft,
                   post, lastUpdate, polls, fetches, unsynced>>

\* It was refused, or the answer is lost: a toast.
StopFailed ==
    /\ stopping \in {"ok", "refused"} /\ stopping' = "none"
    /\ UNCHANGED <<now, how, row, task, web, results, stopLeft, pageVars>>

Next ==
    \/ Run \/ AnswerReceived \/ ResultsReceived \/ StoppedReceived \/ AnswerLost
    \/ SentAgain \/ RepeatReceived
    \/ PollServed \/ PollReceived \/ PollFails \/ FetchReceived \/ FetchFails
    \/ ClickStop \/ StopReceived \/ StopFailed
    \/ ServerNext /\ UNCHANGED pageVars

Spec == Init /\ [][Next]_vars

\* Requests are served, tasks run and answers arrive; a poll may fail, but not every
\* one from some point on.
Fairness ==
    /\ WF_vars(WebStep /\ UNCHANGED pageVars) /\ WF_vars(TaskStep /\ UNCHANGED pageVars)
    /\ WF_vars(AnswerReceived) /\ WF_vars(ResultsReceived) /\ WF_vars(StoppedReceived)
    /\ WF_vars(RepeatReceived)
    /\ WF_vars(PollServed) /\ SF_vars(PollReceived)
    /\ WF_vars(FetchReceived)

FairSpec == Spec /\ Fairness
-----------------------------------------------------------------------------
\* A success with stored results is shown only with its data, whichever of the answer,
\* a poll and a fetch brings the news, and however they overtake each other.  Of a
\* synchronous query there are two exceptions: that it was stopped (StoppedReceived), and
\* that the answer to a request sent again was taken for its results (RepeatReceived).
SuccessHasData ==
    page.state = "success" /\ Stores /\ task.pc # "stopped" /\ post # "bare" => page.data

\* A conclusion that the page shows of an asynchronous query does not turn into
\* progress again: one poll at a time keeps older news from overtaking newer.
ConclusionKept ==
    [][how.async /\ page.state \in Concluded => page'.state \in Concluded]_vars

\* While the page shows the query as pending or running, every poll sees the row once it has
\* concluded: the time polls ask from never passes a conclusion that the page has not
\* seen, although commits show late, clocks differ and other queries move that time.
\* Once the page fetches results, it knows of a conclusion, and may miss a later one.
NoPollMisses ==
    [][\A p \in polls' \ polls :
        page.state \in {"pending", "running"} /\ row.status \in {"success", "failed", "stopped"}
            => p.seen = Seen]_vars

\* A page that has run a query comes to show how it ended: no change of the row
\* escapes the polls, although other queries move the time they ask from, commits
\* show late and clocks differ.  Unless the task was killed, the page could not save
\* which query the tab shows, or a stop was recorded of a query whose results were there:
\* the page fetches them, does not take them for a query that it knows as stopped, and
\* its polls may have passed the row by then.
PageSettles ==
    page.state # "none" ~> \/ page.state \in Concluded \/ task.pc = "killed" \/ unsynced
                           \/ row.status = "stopped" /\ row.key
=============================================================================
