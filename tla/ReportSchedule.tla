--------------------------- MODULE ReportSchedule ---------------------------
(***************************************************************************)
(* One alert or report of Superset and the executions of it                 *)
(* (superset/reports/commands/execute.py).  The scheduler queues executions;   *)
(* each loads the schedule's row, chooses a handler by last_state and runs it,    *)
(* changing the row and adding execution logs in separate transactions.  Rows are  *)
(* not locked.  Of the logs only what the code asks for is kept: how old the         *)
(* newest log of each sort is.                                                        *)
(***************************************************************************)
EXTENDS Integers

CONSTANTS
    Worker,      \* Celery workers that may execute this schedule
    Grace,       \* grace_period, in ticks
    Timeout,     \* working_timeout, in ticks
    Retention,   \* log_retention, in ticks; Never for none
    MaxAge,      \* bound: ages from here on are not told apart
    MaxQueued    \* bound: executions in the Celery queue

Ages == 0 .. MaxAge
Never == MaxAge + 1      \* there is no such log

ASSUME ScheduleAssumption ==
    /\ MaxAge \in Nat /\ Grace \in Ages /\ Timeout \in Nat /\ Timeout < MaxAge
    /\ Retention \in Ages \cup {Never} /\ Retention >= Grace
    /\ MaxQueued \in Nat \ {0}

VARIABLES
    kind,     \* type: "alert" or "report"
    active,   \* active
    state,    \* last_state
    logs,     \* age of the newest log of each sort
    queued,   \* executions in the Celery queue
    run,      \* the execution each worker is at
    frees,    \* an edit under way has found the row WORKING and will free it
    nag,      \* ticks since recipients were last notified; Never at first
    mishaps   \* history: what has gone wrong so far, by what may come of it

vars == <<kind, active, state, logs, queued, run, frees, nag, mishaps>>

States == {"NOOP", "WORKING", "SUCCESS", "GRACE", "ERROR"}
Places == {"idle", "busy", "grace", "commit", "log", "query", "send", "errgrace", "senderr"}
Messages == {"none", "mark", "other"}

Mishaps ==
    {"nag",    \* recipients notified again too early: executions overlapped, a worker was
               \* killed, only some recipients were notified, or an edit that had found
               \* the row WORKING freed it when it was SUCCESS or GRACE
     "lock"}   \* the row left WORKING: executions overlapped, a worker was killed, or
               \* owners could not be told of an error

Executions ==
    [pc      : Places,
     handler : {"first", "working", "success"},   \* which BaseReportState
     loaded  : States,      \* last_state as the session last read it
     to      : States,      \* update_report_schedule_and_log: state and
     msg     : Messages,    \*   error_message, "mark" for the error notification
     next    : Places]      \*   marker, and where the handler goes on

LogAges ==
    [success  : Ages \cup {Never},   \* state SUCCESS
     entered  : Ages \cup {Never},   \* state WORKING, no error message
     email    : Ages \cup {Never},   \* marked: an error notification was sent
     ok       : Ages \cup {Never},   \* state neither ERROR nor WORKING
     okBefore : Ages \cup {Never}]   \* the like, newest before the newest marked

TypeOK ==
    /\ kind \in {"alert", "report"} /\ active \in BOOLEAN /\ state \in States
    /\ logs \in LogAges /\ queued \in 0 .. MaxQueued
    /\ run \in [Worker -> Executions] /\ frees \in BOOLEAN
    /\ nag \in Ages \cup {Never}
    /\ mishaps \subseteq Mishaps

Idle == [pc |-> "idle", handler |-> "first", loaded |-> "NOOP", to |-> "NOOP",
         msg |-> "none", next |-> "idle"]

Init ==
    /\ kind \in {"alert", "report"}
    /\ active = TRUE /\ state = "NOOP"
    /\ logs = [success |-> Never, entered |-> Never, email |-> Never, ok |-> Never,
               okBefore |-> Never]
    /\ queued = 0 /\ run = [w \in Worker |-> Idle] /\ frees = FALSE /\ nag = Never
    /\ mishaps = {}
-----------------------------------------------------------------------------
Goes(w, place) == run' = [run EXCEPT ![w] = [@ EXCEPT !.pc = place]]

Ends(w) == run' = [run EXCEPT ![w] = Idle]

\* update_report_schedule_and_log(s, m), after which the handler goes on at place.
Writes(w, s, m, place) ==
    run' = [run EXCEPT ![w] =
               [@ EXCEPT !.pc = "commit", !.to = s, !.msg = m, !.next = place]]

\* scheduler: queue an execution of an active schedule.
Schedule ==
    /\ active /\ queued < MaxQueued
    /\ queued' = queued + 1
    /\ UNCHANGED <<kind, active, state, logs, run, frees, nag, mishaps>>

HandlerOf(s) == CASE s \in {"NOOP", "ERROR"}    -> "first"
                  [] s = "WORKING"              -> "working"
                  [] s \in {"SUCCESS", "GRACE"} -> "success"

\* How the handler of a row in state s begins: ReportNotTriggeredErrorState enters
\* WORKING at once, a report in SUCCESS is sent without entering it.
Begun(s) ==
    [Idle EXCEPT !.handler = HandlerOf(s), !.loaded = s,
                 !.pc = CASE HandlerOf(s) = "first"   -> "commit"
                          [] HandlerOf(s) = "working" -> "busy"
                          [] OTHER -> IF kind = "alert" THEN "grace" ELSE "send",
                 !.to = "WORKING",
                 !.next = IF kind = "alert" THEN "query" ELSE "send"]

\* Mutant: an execution that is run again although the queue gave it out already.
StartMutant(w) ==
    /\ run[w].pc = "idle"
    /\ queued' = queued - 1
    /\ run' = [run EXCEPT ![w] = Begun(state)]
    /\ mishaps' = IF \A v \in Worker : run[v].pc = "idle" THEN mishaps
                                                         ELSE mishaps \cup {"nag", "lock"}
    /\ UNCHANGED <<kind, active, state, logs, frees, nag>>

\* A worker takes an execution, loads the row and begins its handler.
Start(w) ==
    /\ run[w].pc = "idle" /\ queued > 0
    /\ queued' = queued - 1
    /\ run' = [run EXCEPT ![w] = Begun(state)]
    /\ mishaps' = IF \A v \in Worker : run[v].pc = "idle" THEN mishaps
                                                         ELSE mishaps \cup {"nag", "lock"}
    /\ UNCHANGED <<kind, active, state, logs, frees, nag>>

\* update_report_schedule commits: the column is written if the session knows
\* another value of it.
CommitState(w) ==
    /\ run[w].pc = "commit"
    /\ state' = IF run[w].to = run[w].loaded THEN state ELSE run[w].to
    /\ Goes(w, "log")
    /\ UNCHANGED <<kind, active, logs, queued, frees, nag, mishaps>>

\* Mutant: every WORKING log counts as entering that state.
LoggedMutant(s, m) ==
    [success  |-> IF s = "SUCCESS" THEN 0 ELSE logs.success,
     entered  |-> IF s = "WORKING" THEN 0 ELSE logs.entered,
     email    |-> IF m = "mark" THEN 0 ELSE logs.email,
     ok       |-> IF s \notin {"ERROR", "WORKING"} THEN 0 ELSE logs.ok,
     okBefore |-> IF m = "mark" THEN logs.ok ELSE logs.okBefore]

\* The age of each sort's newest log once one of state s and message m is added.
Logged(s, m) ==
    [success  |-> IF s = "SUCCESS" THEN 0 ELSE logs.success,
     entered  |-> IF s = "WORKING" /\ m = "none" THEN 0 ELSE logs.entered,
     email    |-> IF m = "mark" THEN 0 ELSE logs.email,
     ok       |-> IF s \notin {"ERROR", "WORKING"} THEN 0 ELSE logs.ok,
     okBefore |-> IF m = "mark" THEN logs.ok ELSE logs.okBefore]

\* create_log commits: the commit before expired the row, so the log gets the
\* last_state the row has now.
CommitLog(w) ==
    /\ run[w].pc = "log"
    /\ logs' = Logged(state, run[w].msg)
    /\ IF run[w].next = "idle"
       THEN Ends(w)
       ELSE run' = [run EXCEPT ![w] = [@ EXCEPT !.pc = run[w].next, !.loaded = state]]
    /\ UNCHANGED <<kind, active, state, queued, frees, nag, mishaps>>
-----------------------------------------------------------------------------
OnWorkingTimeout == logs.entered # Never /\ logs.entered > Timeout

\* ReportWorkingState: give up on the previous execution, or refuse this one.
Busy(w) ==
    /\ run[w].pc = "busy"
    /\ Writes(w, IF OnWorkingTimeout THEN "ERROR" ELSE "WORKING", "other", "idle")
    /\ UNCHANGED <<kind, active, state, logs, queued, frees, nag, mishaps>>

\* Mutant: only an alert in SUCCESS is checked, one in GRACE no more.
GraceCheckMutant(w) ==
    /\ run[w].pc = "grace"
    /\ IF logs.success < Grace /\ state # "GRACE" THEN Writes(w, "GRACE", "other", "idle")
                                                  ELSE Writes(w, "WORKING", "none", "query")
    /\ UNCHANGED <<kind, active, state, logs, queued, frees, nag, mishaps>>

\* ReportSuccessState, alert: still in its grace period, or a new evaluation.
GraceCheck(w) ==
    /\ run[w].pc = "grace"
    /\ IF logs.success < Grace THEN Writes(w, "GRACE", "other", "idle")
                               ELSE Writes(w, "WORKING", "none", "query")
    /\ UNCHANGED <<kind, active, state, logs, queued, frees, nag, mishaps>>

\* What a handler does about a failing query or notification.
Failed(w) ==
    IF run[w].handler = "first" THEN Writes(w, "ERROR", "other", "errgrace")
    ELSE IF run[w].pc = "query" THEN Goes(w, "senderr")
    ELSE Writes(w, "ERROR", "other", "idle")

\* Mutant: an alert that is not triggered returns without leaving WORKING.
QueryMutant(w) ==
    /\ run[w].pc = "query"
    /\ Goes(w, "send") \/ Ends(w) \/ Failed(w)
    /\ UNCHANGED <<kind, active, state, logs, queued, frees, nag, mishaps>>

\* AlertCommand: triggered, not triggered, or an error (soft time limits included).
Query(w) ==
    /\ run[w].pc = "query"
    /\ Goes(w, "send") \/ Writes(w, "NOOP", "none", "idle") \/ Failed(w)
    /\ UNCHANGED <<kind, active, state, logs, queued, frees, nag, mishaps>>

\* send: everybody is notified, or it fails before the first recipient.
Send(w) ==
    /\ run[w].pc = "send"
    /\ \/ Writes(w, "SUCCESS", "none", "idle") /\ nag' = 0
       \/ Failed(w) /\ UNCHANGED nag
    /\ UNCHANGED <<kind, active, state, logs, queued, frees, mishaps>>

\* Fault: some recipients are notified, others are not; _send raises.
SendInPart(w) ==
    /\ run[w].pc = "send"
    /\ Failed(w) /\ nag' = 0 /\ mishaps' = mishaps \cup {"nag"}
    /\ UNCHANGED <<kind, active, state, logs, queued, frees>>

\* is_in_error_grace_period, as find_last_error_notification answers it.
InErrorGrace == logs.email < Grace /\ logs.okBefore = Never

ErrorGraceCheck(w) ==
    /\ run[w].pc = "errgrace"
    /\ IF InErrorGrace THEN Ends(w) ELSE Goes(w, "senderr")
    /\ UNCHANGED <<kind, active, state, logs, queued, frees, nag, mishaps>>

\* send_error: the owners learn of the error.
SendError(w) ==
    /\ run[w].pc = "senderr"
    /\ Writes(w, "ERROR", "mark", "idle")
    /\ UNCHANGED <<kind, active, state, logs, queued, frees, nag, mishaps>>

\* Fault: they cannot be notified.  ReportSuccessState does not catch that.
SendErrorFails(w) ==
    /\ run[w].pc = "senderr"
    /\ IF run[w].handler = "first" THEN Writes(w, "ERROR", "other", "idle") ELSE Ends(w)
    /\ mishaps' = mishaps \cup {"lock"}
    /\ UNCHANGED <<kind, active, state, logs, queued, frees, nag>>

\* Fault: the worker is killed, or an exception that is no CommandException (a
\* soft time limit outside the guarded calls, the database) ends the execution.
Crash(w) ==
    /\ run[w].pc # "idle"
    /\ Ends(w)
    /\ mishaps' = mishaps \cup {"nag", "lock"}
    /\ UNCHANGED <<kind, active, state, logs, queued, frees, nag>>
-----------------------------------------------------------------------------
\* UpdateReportScheduleCommand with active = False, of a row that it did not find
\* WORKING: all it writes is that.
Deactivate ==
    /\ active /\ active' = FALSE
    /\ UNCHANGED <<kind, state, logs, queued, run, frees, nag, mishaps>>

\* Of a row that it does find WORKING: it decides to free it ...
DeactivateReads ==
    /\ state = "WORKING" /\ ~frees /\ frees' = TRUE
    /\ UNCHANGED <<kind, active, state, logs, queued, run, nag, mishaps>>

\* ... and commits that, whatever the row says by now.  A row it knew as not active
\* anyway may have been activated in between.
DeactivateCommits ==
    /\ frees /\ frees' = FALSE
    /\ state' = "NOOP" /\ active' \in {FALSE, active}
    /\ mishaps' = IF state \in {"SUCCESS", "GRACE"} THEN mishaps \cup {"nag"} ELSE mishaps
    /\ UNCHANGED <<kind, logs, queued, run, nag>>

\* With active = True.
Activate ==
    /\ ~active /\ active' = TRUE
    /\ UNCHANGED <<kind, state, logs, queued, run, frees, nag, mishaps>>

Pruned(age) == IF age > Retention THEN Never ELSE age

\* prune_log deletes logs older than log_retention.
PruneLog ==
    /\ logs' = [success |-> Pruned(logs.success), entered |-> Pruned(logs.entered),
                email |-> Pruned(logs.email), ok |-> Pruned(logs.ok),
                okBefore |-> Pruned(logs.okBefore)]
    /\ UNCHANGED <<kind, active, state, queued, run, frees, nag, mishaps>>

Older(age) == IF age < MaxAge THEN age + 1 ELSE age

Tick ==
    /\ logs' = [success |-> Older(logs.success), entered |-> Older(logs.entered),
                email |-> Older(logs.email), ok |-> Older(logs.ok),
                okBefore |-> Older(logs.okBefore)]
    /\ nag' = Older(nag)
    /\ UNCHANGED <<kind, active, state, queued, run, frees, mishaps>>

Step(w) ==
    \/ CommitState(w) \/ CommitLog(w) \/ Busy(w) \/ GraceCheck(w) \/ Query(w)
    \/ Send(w) \/ ErrorGraceCheck(w) \/ SendError(w)

Fault(w) == SendInPart(w) \/ SendErrorFails(w) \/ Crash(w)

Next ==
    \/ Schedule \/ Deactivate \/ DeactivateReads \/ DeactivateCommits \/ Activate
    \/ PruneLog \/ Tick
    \/ \E w \in Worker : Start(w) \/ Step(w) \/ Fault(w)

Spec == Init /\ [][Next]_vars

\* The scheduler keeps queueing and workers keep executing; time passes.  A worker
\* may be killed, but not each time just before the same step.
Fairness ==
    /\ WF_vars(Schedule) /\ WF_vars(Tick)
    /\ WF_vars(\E w \in Worker : Start(w))
    /\ \A w \in Worker : SF_vars(CommitState(w)) /\ SF_vars(CommitLog(w)) /\ SF_vars(Busy(w))
                         /\ WF_vars(Step(w))

FairSpec == Spec /\ Fairness
-----------------------------------------------------------------------------
\* An alert that is about to notify has left its recipients alone for the whole
\* grace period, whatever the states, errors, timeouts, edits and prunings in
\* between, unless executions overlapped, were killed or notified in part, or an edit
\* wiped out that it had notified.
NagsSpaced ==
    "nag" \notin mishaps =>
        \A w \in Worker : kind = "alert" /\ run[w].pc = "send" => nag >= Grace

\* The row says WORKING only while an execution is under way: none ends leaving the
\* schedule locked, unless executions overlapped, were killed or could not mail.
WorkingMeansRunning ==
    "lock" \notin mishaps =>
        (state = "WORKING" => \E w \in Worker : run[w].pc # "idle")

\* An active schedule does not stay WORKING for ever, whatever happened to its
\* executions: working_timeout unlocks a stalled one, even if the worker that locked
\* it is gone, as long as there is a log of entering WORKING to compute it from
\* (none was ever written if the worker died between its two commits; pruning
\* deletes it if no execution comes before log_retention).
StallUnlocked == []<>(state # "WORKING" \/ ~active \/ logs.entered = Never)

\* "Checks that only errors have occurred since the last email": an error is
\* announced again within the grace period only if something else than errors
\* was logged since the last announcement.
MailJustified ==
    mishaps = {} =>
        \A w \in Worker : run[w].pc = "senderr" /\ run[w].handler = "first"
            => logs.email >= Grace \/ logs.ok <= logs.email
=============================================================================
