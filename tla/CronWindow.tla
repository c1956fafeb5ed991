----------------------------- MODULE CronWindow -----------------------------
(***************************************************************************)
(* How alerts and reports get queued: Celery beat releases a scheduler task *)
(* every minute, a worker runs it, perhaps with some delay, and the task       *)
(* queues an execution for each time the crontab matches within a window       *)
(* around that moment (superset/tasks/scheduler.py, cron_util.py).              *)
(***************************************************************************)
EXTENDS Integers

CONSTANTS
    Second,       \* ticks of the clock in a second
    Period,       \* the beat's period, one minute
    WindowSize,   \* ALERT_REPORTS_CRON_WINDOW_SIZE
    MaxDelay,     \* how late a worker runs a scheduler task at most
    MaxMinute,    \* bound: the last minute
    Cron          \* the minutes the crontab matches

Minutes == 0 .. MaxMinute

\* config.py: the window "should be synced with the celery beat config minus 1 second".
ASSUME WindowAssumption ==
    /\ Second \in Nat \ {0} /\ Period \in Nat /\ Period > Second
    /\ WindowSize = Period - Second
    /\ MaxDelay \in Nat /\ MaxMinute \in Nat /\ Cron \subseteq Minutes

VARIABLES
    now,     \* the clock
    ran,     \* scheduler tasks that ran, each named by the minute that released it
    queued   \* executions queued for each minute

vars == <<now, ran, queued>>

TypeOK == now \in Nat /\ ran \subseteq Minutes /\ queued \in [Cron -> Nat]

Init == now = 0 /\ ran = {} /\ queued = [m \in Cron |-> 0]
-----------------------------------------------------------------------------
Start(m) == m * Period

\* Mutant: the window starts at the current time.
InWindowMutant(m) ==
    now < Start(m) /\ Start(m) < now + WindowSize

\* cron_schedule_window: matches after one second ago and before the window's end.
InWindow(m) ==
    now - Second < Start(m) /\ Start(m) < now + WindowSize

\* scheduler: an execution for each match.
RunScheduler(k) ==
    /\ Start(k) <= now /\ k \notin ran
    /\ ran' = ran \cup {k}
    /\ queued' = [m \in Cron |-> IF InWindow(m) THEN queued[m] + 1 ELSE queued[m]]
    /\ UNCHANGED now

\* The clock goes on; no scheduler task waits longer than MaxDelay.
Tick ==
    /\ now < Start(MaxMinute) + Period
    /\ \A k \in Minutes : k \notin ran => now < Start(k) + MaxDelay
    /\ now' = now + 1
    /\ UNCHANGED <<ran, queued>>

Next == Tick \/ \E k \in Minutes : RunScheduler(k)

Spec == Init /\ [][Next]_vars
-----------------------------------------------------------------------------
\* Every minute the crontab matches gets one execution, never two, and has it at
\* the latest when the scheduler task of that minute had to have run.
QueuedOnce ==
    \A m \in Cron :
        /\ queued[m] <= 1
        /\ now > Start(m) + MaxDelay => queued[m] = 1
=============================================================================
