---------------------------- MODULE SqlLabServer ----------------------------
(***************************************************************************)
(* One SQL Lab query on the server: the request that creates its row and     *)
(* launches it (superset/sqllab/command.py, sql_json_executer.py), the task   *)
(* that executes its statements (superset/sql_lab.py), in a worker or within   *)
(* the request, and the request that stops it (stop_query in views/core.py).    *)
(* All three commit to the row without locking it: the last status written       *)
(* stays.  A query that creates a table, and stores no results, is left out.      *)
(***************************************************************************)
EXTENDS Integers

CONSTANTS
    Statements,  \* statements of the query
    MaxTime,     \* bound: the clock
    MaxLag       \* changed_on may be this much older than the commit that shows it

ASSUME ServerAssumption ==
    Statements \in Nat \ {0} /\ MaxTime \in Nat /\ MaxLag \in Nat

VARIABLES
    now,       \* the clock
    how,       \* what is fixed about the query
    row,       \* its row in the metadata database
    task,      \* get_sql_results
    web,       \* the sql_json request
    stopping,  \* the stop_query request
    results,   \* its data is in the results backend
    stopLeft   \* history: statements left when STOPPED was first written to a
               \* query that had begun; -1 if it was not, or if the request has
               \* overwritten it

serverVars == <<now, how, row, task, web, stopping, results, stopLeft>>

Hows == [async   : BOOLEAN,   \* runAsync
         persist : BOOLEAN]   \* SQLLAB_BACKEND_PERSISTENCE

Statuses == {"none", "pending", "running", "success", "failed", "stopped"}

Rows == [status : Statuses, key : BOOLEAN, changed : -MaxLag .. MaxTime]

Over == {"success", "failed", "stopped", "killed"}   \* the task has ended

ServerTypeOK ==
    /\ now \in 0 .. MaxTime /\ how \in Hows /\ row \in Rows
    /\ task \in [pc : {"none", "queued", "check", "statement", "store", "finish"} \cup Over,
                 left : 0 .. Statements]
    /\ web \in {"none", "posted", "launched", "ok", "stopped", "error", "done"}
    /\ stopping \in {"none", "asked", "cancelled", "ok", "refused"}
    /\ results \in BOOLEAN /\ stopLeft \in -1 .. Statements

ServerInit ==
    /\ now = 0 /\ how \in Hows
    /\ row = [status |-> "none", key |-> FALSE, changed |-> 0]
    /\ task = [pc |-> "none", left |-> Statements]
    /\ web = "none" /\ stopping = "none" /\ results = FALSE /\ stopLeft = -1

\* store_results, with a results backend at hand.
Stores == how.async \/ how.persist
-----------------------------------------------------------------------------
\* A commit of the row: onupdate stamps it when it is flushed, by the clock of the
\* host that flushes it.  Commits of the limit, the progress, a cancel id or extra_json
\* are left out: their later stamps only show the row to more polls.
Commits(r) == \E lag \in 0 .. MaxLag : row' = [r EXCEPT !.changed = now - lag]

CommitsStatus(s) == Commits([row EXCEPT !.status = s])

\* _run_sql_json_exec_from_scratch: the row is saved, access is checked, the limit
\* saved, and the task queued or called ...
Launch ==
    /\ web = "posted" /\ web' = "launched"
    /\ task' = [task EXCEPT !.pc = "queued"]
    /\ CommitsStatus("pending")
    /\ UNCHANGED <<now, how, stopping, results, stopLeft>>

\* ... or something raises before that, perhaps before the row is saved.
LaunchFails ==
    /\ web = "posted" /\ web' = "error"
    /\ CommitsStatus("failed") \/ UNCHANGED row
    /\ UNCHANGED <<now, how, task, stopping, results, stopLeft>>

\* Async: something raises although the task is queued (task.forget, the saved query's
\* record): FAILED, whatever the task or a stop has made of the row meanwhile.
LaunchFailsLate ==
    /\ how.async /\ web = "launched" /\ web' = "error"
    /\ CommitsStatus("failed") /\ stopLeft' = -1
    /\ UNCHANGED <<now, how, task, stopping, results>>

\* Async: the answer does not wait for the task.  It is an error if the columns cannot
\* be saved, or the answer not written.
AnswerAsync ==
    /\ how.async /\ web = "launched" /\ web' \in {"ok", "error"}
    /\ UNCHANGED <<now, how, row, task, stopping, results, stopLeft>>

\* Sync: the answer is what the task returned, unless what follows it raises; for a
\* failure of the task, or of the saved query's record, the row is FAILED once more.
AnswerSync ==
    /\ ~how.async /\ web = "launched"
    /\ \/ task.pc = "success" /\ web' = "ok" /\ UNCHANGED row
       \/ task.pc = "stopped" /\ web' = "stopped" /\ UNCHANGED row
       \/ task.pc \in {"success", "stopped"} /\ web' = "error" /\ UNCHANGED row
       \/ task.pc \in {"success", "stopped", "failed"} /\ web' = "error"
          /\ CommitsStatus("failed")
    /\ UNCHANGED <<now, how, task, stopping, results, stopLeft>>
-----------------------------------------------------------------------------
TaskGoes(from, to) == task.pc = from /\ task' = [task EXCEPT !.pc = to]

\* execute_sql_statements begins: RUNNING, whatever the row says by now.
Begin ==
    /\ TaskGoes("queued", "check")
    /\ CommitsStatus("running")
    /\ UNCHANGED <<now, how, web, stopping, results, stopLeft>>

\* Mutant: the row is refreshed before the first statement only.
CheckStoppedMutant ==
    /\ \/ row.status = "stopped" /\ task.left = Statements /\ TaskGoes("check", "stopped")
       \/ (row.status # "stopped" \/ task.left # Statements) /\ TaskGoes("check", "statement")
    /\ UNCHANGED <<now, how, row, web, stopping, results, stopLeft>>

\* Before each statement: refresh, and give up if STOPPED.
CheckStopped ==
    /\ \/ row.status = "stopped" /\ TaskGoes("check", "stopped")
       \/ row.status # "stopped" /\ TaskGoes("check", "statement")
    /\ UNCHANGED <<now, how, row, web, stopping, results, stopLeft>>

\* Mutant: the last statement is recognised one too late.
StatementDoneMutant ==
    /\ task.pc = "statement"
    /\ task' = [pc |-> IF task.left = 0 THEN "store" ELSE "check", left |-> task.left - 1]
    /\ UNCHANGED <<now, how, row, web, stopping, results, stopLeft>>

\* Its rows are fetched; execute_sql_statements goes on to the next, if any.
StatementDone ==
    /\ task.pc = "statement"
    /\ task' = [pc |-> IF task.left = 1 THEN "store" ELSE "check", left |-> task.left - 1]
    /\ UNCHANGED <<now, how, row, web, stopping, results, stopLeft>>

\* The engine raises, perhaps because it was told to cancel: refresh, and give up
\* silently if STOPPED.
StatementStopped ==
    /\ row.status = "stopped" /\ TaskGoes("statement", "stopped")
    /\ UNCHANGED <<now, how, row, web, stopping, results, stopLeft>>

\* handle_query_error: any other exception (a time limit, the metadata database, the
\* results backend), or the engine's once it was found not STOPPED; FAILED, whatever
\* the row says by now.
TaskFails ==
    /\ task.pc \in {"queued", "check", "statement", "store", "finish"}
    /\ TaskGoes(task.pc, "failed")
    /\ CommitsStatus("failed")
    /\ UNCHANGED <<now, how, web, stopping, results, stopLeft>>

\* The results go to the results backend, under a fresh key ...
Store ==
    /\ TaskGoes("store", "finish")
    /\ results' = Stores
    /\ UNCHANGED <<now, how, row, web, stopping, stopLeft>>

\* Mutant: the key is committed although nothing was stored.
FinishMutant ==
    /\ TaskGoes("finish", "success")
    /\ Commits([row EXCEPT !.status = "success", !.key = TRUE])
    /\ UNCHANGED <<now, how, web, stopping, results, stopLeft>>

\* ... then SUCCESS and the key are committed, whatever the row says by now.
Finish ==
    /\ TaskGoes("finish", "success")
    /\ Commits([row EXCEPT !.status = "success", !.key = Stores])
    /\ UNCHANGED <<now, how, web, stopping, results, stopLeft>>

\* The worker, or the web process of a synchronous query, is killed: its hard time
\* limit, memory, a restart.  The row stays as it is.
Killed ==
    /\ task.pc \notin Over \cup {"none"}
    /\ task' = [task EXCEPT !.pc = "killed"]
    /\ UNCHANGED <<now, how, row, web, stopping, results, stopLeft>>
-----------------------------------------------------------------------------
\* stop_query reads the row: nothing to do if it is complete; else cancel_query.
StopReads ==
    /\ stopping = "asked"
    /\ \/ row.status \in {"failed", "success"} /\ stopping' = "ok"
       \/ row.status \in {"pending", "running", "stopped"} /\ stopping' = "cancelled"
    /\ UNCHANGED <<now, how, row, task, web, results, stopLeft>>

\* The engine has no way to cancel it (yet), or refuses, or the row is not there yet,
\* five times in five seconds.
StopGivesUp ==
    /\ stopping = "asked" /\ row.status \notin {"failed", "success"}
    /\ stopping' = "refused"
    /\ UNCHANGED <<now, how, row, task, web, results, stopLeft>>

\* ... and the row is STOPPED, whatever it says by now.
StopWrites ==
    /\ stopping = "cancelled" /\ stopping' = "ok"
    /\ CommitsStatus("stopped")
    /\ stopLeft' = IF stopLeft = -1 /\ task.pc \in {"check", "statement"}
                   THEN task.left ELSE stopLeft
    /\ UNCHANGED <<now, how, task, web, results>>

Tick ==
    /\ now < MaxTime /\ now' = now + 1
    /\ UNCHANGED <<how, row, task, web, stopping, results, stopLeft>>

WebStep == Launch \/ LaunchFails \/ LaunchFailsLate \/ AnswerAsync \/ AnswerSync

TaskStep ==
    \/ Begin \/ CheckStopped \/ StatementDone \/ StatementStopped \/ TaskFails
    \/ Store \/ Finish

StopStep == StopReads \/ StopGivesUp \/ StopWrites

ServerNext == WebStep \/ TaskStep \/ Killed \/ StopStep \/ Tick
-----------------------------------------------------------------------------
\* A query stopped after it began finishes at most the statement it is at: none is
\* begun after it, whatever else is committed to the row in between, but for the FAILED
\* of a request that fails after it has queued the task (LaunchFailsLate).
StopEndsWork == stopLeft # -1 => task.left >= stopLeft - 1

\* A key in the row leads to results that were stored before it was committed.
KeyHasResults == row.key => results
=============================================================================
