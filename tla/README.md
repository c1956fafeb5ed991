# Formal models of the ODISSEI stack

TLA+ specifications of the concurrent core of this repository, their TLC runs and
their TLAPS proofs. Paths below are relative to the repository; `superset/`,
`superset-frontend/` and `superset-websocket/` stand for the directories of that name
under `distros/Superset/`.

## 1. The repository

The repository bundles a Dataverse installation (compose files, shell bootstrap,
database triggers) with a complete copy of Apache Superset 2.x. Dataverse, Solr,
MinIO and Skosmos are images from elsewhere; the code that decides anything is

* the stack's own triggers and listener (about 130 lines), and
* Superset: a web application (Python), Celery workers (Python), a websocket server
  (TypeScript) and the pages (TypeScript).

### 1.1 Inventory

Components with behaviour of their own, the state they keep, and what is hard in them.

| component | state | operations | interacts with | hard behaviour | what makes it correct |
|---|---|---|---|---|---|
| **Websocket server: registries** (`superset-websocket/src/index.ts`) | `sockets`, `channels`, `pongTs` of each socket | upgrade, connection, broadcast, pong, `checkSockets`, `gc` | browsers; the read loop below | closures, timeouts and clean-ups interleave; registries disagree for a while | open connections are served, channels stay separate, live peers are kept, dead ones are forgotten |
| **Event streams** (Redis, `superset/utils/async_query_manager.py`) | a stream per channel and one of all channels, trimmed | `update_job` (two XADDs), `read_events`, two increment functions | workers, API, websocket server | ids are not numbers; two streams give one event two ids | resuming after an id repeats and misses nothing |
| **Async jobs** (`superset/tasks/async_queries.py`, `charts/data/commands/create_async_job_command.py`) | task, result cache | create, run, announce success or error | cache, streams | soft limits, killed workers, a Redis failure between two XADDs, eviction | a result is cached before it is announced |
| **Page: async events** (`superset-frontend/src/middleware/asyncEvent.ts`, `superset/async_events/api.py`) | listeners, retry counts and timers, last event id (localStorage), poll or connection | `waitForAsyncData`, polls, messages, retries, reconnects, reload | API, websocket server, cache | events before the 202 answer, duplicates, lost connections, other tabs | a waiting promise settles, once, with what was announced |
| **Websocket server: read loop** (`index.ts`) | `lastFirehoseId`, queued commands on one Redis connection | blocking XREAD, XRANGE on reconnection | Redis, registries | a range queues behind a blocked read; `$`; restarts | a connection gets every event read while it lasts |
| **Alert/report scheduler** (`superset/tasks/scheduler.py`, `cron_util.py`) | Celery queue | beat, scheduler task, window | executions | late and early tasks around an open window | each match is queued exactly once |
| **Alert/report execution** (`superset/reports/commands/execute.py`, `reports/dao.py`, `update.py`, `alert.py`, `log_prune.py`) | `last_state`, `active`, execution logs | the three state handlers, grace and working-timeout questions, pruning, (de)activation | scheduler, mail/Slack, metadata database | two transactions per state change, unlocked rows, killed workers, failing mails | grace periods are kept, no schedule stays locked, errors are announced as documented |
| **SQL Lab: query life cycle** (`superset/sql_lab.py`, `sqllab/`, `views/core.py`) | a query's row (status, results key, `changed_on`), its task, the results backend | run, statement loop, stop, failure handling | workers, page | three processes commit to an unlocked row; hard limits | a stop begins no further statement, a key leads to stored results |
| **SQL Lab: page** (`superset-frontend/src/SqlLab`) | the query in the store, `queriesLastUpdate`, requests under way | run, polls, answers, fetches of results, stop | query row | answers out of order, clocks that differ | the page comes to show how the query ended, a success with its data |
| **Dashboard editor** (`superset-frontend/src/dashboard`: `reducers/dashboardLayout.js`, `actions/dashboardLayout.js`, `actions/dashboardState.js`, `util/`) | the layout with its undo history, flags, the request to save | drop, move, delete, tabs, undo, redo, save | REST resource of dashboards | reducers that trust their caller, a history with a limit, saves overtaken by edits | the layout stays a tree, no chart is lost, unsaved changes are shown as such |
| **Publication webhook** (`triggers/`) | PostgreSQL channel, listener | trigger, NOTIFY, fetch of the export, file | Dataverse | lost notifications, listener dies on an exception | every publication is exported |
| **Key-value store, temporary cache** (`superset/key_value`, `superset/temporary_cache`) | rows with expiry; cache entries per tab | create, upsert, get, delete | pages | upserts race, expiry | a key answers with what was stored last |

Everything else (security rules, connectors, SQL dialects, visualisations, the filters and
refreshes of the dashboard page, the explore page, import/export, migrations, translations,
bootstrap scripts, deployment files, vendored test data) is listed with its reason in
`PROJECT.json`. Most of it is a pure function, a single transaction, or a sequential script
over outside services.

### 1.2 How the modelled parts interact

    page ── POST chart data ──▶ web app ── task ──▶ Celery worker ──▶ cache
      │                            │                    │ XADD ×2
      │  poll: GET async_event ◀───┤ XRANGE ◀── channel's stream
      │                                                 │
      └─ websocket ◀── registries ◀── read loop ◀── stream of all channels
             (SocketRegistry)        (AsyncWebSocket)

    Celery beat ──▶ scheduler ──▶ queue ──▶ execution ──▶ row, logs, recipients
            (CronWindow)                    (ReportSchedule)

    SQL Lab page ── sql_json, stop_query ──▶ web app ── task ──▶ Celery worker
      │                                        │ row             │ row, results backend
      └── queries?last_update, results ◀───────┴─────────────────┘
           (SqlLab)                              (SqlLabServer)

    dashboard page: drops ──▶ reducer ──▶ layout, history ── PUT dashboard ──▶ server
           (DashboardEditor)  (DashboardLayout)

## 2. Modules

| module | models | proofs |
|---|---|---|
| `SocketRegistry` | the websocket server's registries; every callback runs to completion on the event loop, so each is one action, but for a broadcast, whose loop is modelled socket by socket | `SocketRegistry_proofs` |
| `EventStream` | Redis ids, XRANGE, `incrementId` (TS) and `increment_id` (Python) as arithmetic on `<<ms, seq>>` | `EventStream_proofs` |
| `StreamReader` | a client that pages through a stream that grows and is trimmed | `StreamReader_proofs` |
| `AsyncResult` | *abstract*: what async queries promise a page | |
| `AsyncJobs` | jobs, workers, the two streams, the cache | |
| `AsyncClient` | the state of `asyncEvent.ts` as a record, one operator per callback | |
| `AsyncPage` | jobs + page, whatever the transport; the refinement mapping to `AsyncResult` | |
| `AsyncPolling` | `AsyncPage` + polling loop and API | `Async_proofs` |
| `AsyncWebSocket`, `MCAsyncWebSocket` | `AsyncPolling` (its one request is the fallback) + read loop, ranges, connection, restart, reconnection | `Async_proofs` |
| `CronWindow` | beat, scheduler task, window | `CronWindow_proofs` |
| `ReportSchedule` | one schedule: row, logs, executions, faults, edits, pruning | `ReportSchedule_proofs` |
| `SqlLabServer` | one query on the server: request, task, stop request, results | |
| `SqlLab` | `SqlLabServer` + the page | `SqlLab_proofs` |
| `DashboardLayout` | what the layout reducer does to a layout, as operators | `DashboardEditor_proofs` |
| `DashboardEditor`, `MCDashboardEditor` | `DashboardLayout` + drops, undo history, flags, saving | `DashboardEditor_proofs` |

### 2.1 State and actions

**SocketRegistry.** `sockets` and `channels` are the two objects of `index.ts`; `ready` is a
connection's `readyState`, `pongAge` the distance of `pongTs` from now. `Connect` is
`wsConnection` with `trackClient`. `sendToChannel` is `Broadcast`, a `Send` for each socket
of the list it started with, in any order and with the `cleanChannel` calls it makes while
iterating, and `Sent`: nothing else runs in between (`Idle`), but the channel changes, or
goes, under the loop. `CheckSockets` and `Gc` the two timers. `PeerCloses`, `PeerVanishes`,
`Collected` and `Tick` are the environment: in particular no handler of the server runs when
a connection closes.

**EventStream, StreamReader.** `increment_id` increments the last *character* and
appends its decimal value, so `…-19` becomes `…-110`; in numbers, `PyIncrement`.
XADD's approximate `MAXLEN` may leave any number of entries from the limit on. In the
asynchronous modules a stream is all that was ever added to it (`scoped`, `full`) and how
many of its oldest entries are trimmed (`scopedCut`, `fullCut`), which every read passes
over; `StreamReader` keeps what is left only.

**AsyncJobs, AsyncClient, AsyncPage, AsyncPolling, AsyncWebSocket.** One channel (one
user session). A worker goes `queued → done_scoped → done_full → ended` (or the
`error_` states): the places between the two XADDs of `update_job` are states, so
that readers interleave with them. The page's `client` record holds listeners, the
bag of events in retry timers, fetches under way and the last id. A fetch brings the
data, or finds that the cache lost it ("rejected"), or its request fails whatever the cache
holds ("unfetched"): `fetchCachedData` catches any failure and the promise is rejected.
Over polling,
`poll` is the one request under way. Over the websocket, `reading` is the blocked
XREAD, `ranges` the XRANGEs behind it on the same Redis connection, `wire` what is
sent and not yet received, `conn`/`attempts` the page's reconnect loop; the single
request after the last attempt is `poll` again. `ProcessEvents` is the loop of
`processEvents`, whose single turns `ProcessEvent` also serves messages and timers.

**CronWindow.** Times are ticks. `InWindow` is the open interval from one second
before the task runs to `WindowSize` after it, as `croniter.all_next` gives it.

**ReportSchedule.** `state` is `last_state`; `run[w].pc` is where a worker's execution
stands. `update_report_schedule_and_log` is two steps, `CommitState` and `CommitLog`, since
it commits twice; the log takes the row's state of the second moment, and the column is only
written if the session believes it changes (`loaded`). Of the log table only the questions
of `reports/dao.py` are kept: ages of the newest SUCCESS log, of the newest log of entering
WORKING, of the newest error notification, of the newest log that is neither ERROR nor
WORKING, and of the newest such log before the newest notification (`okBefore`). An edit
that deactivates a schedule reads the row and commits later: `DeactivateReads` and
`DeactivateCommits`, with `frees` between them, if it finds it WORKING (it then writes NOOP
over whatever the row says by then), else `Deactivate`, which leaves `last_state` alone and
needs no second step. `mishaps` says of what can no longer be claimed: "nag" of the grace
period (executions overlapped, one was killed, some recipients were missed, NOOP went over
SUCCESS or GRACE), "lock" of the lock (overlap, a killed execution, owners not told).
Content, recipients, the observed values of alerts, create and delete are left out.

**SqlLabServer, SqlLab.** `row` is the query's row as the last commit left it: the web
request (`web`), the task (`task.pc`, `task.left` statements to go) and the stop request
(`stopping`) each commit without a lock, `CommitsStatus` keeps the key and stamps
`changed_on` by the clock of its host. The request may fail before it queues the task
(`LaunchFails`) or after it (`LaunchFailsLate`: FAILED over anything, while the task
runs), and its answer may be an error although the task succeeded. `post` is the answer
the page awaits: after a broken connection or a 503 the browser sends the request again
(`SentAgain`), which finds the query there and is answered without data
(`RepeatReceived`). `task` may fail (`TaskFails`, any exception) or be
`Killed` at every place. On the page, `page` is the query in the store; `Shows` adds the
fetch that `ResultSet` starts when it first sees a key; `fetches` remember what the query
said when they began, since `QUERY_SUCCESS` looks only at that. `polls` hold what the
server answered, which may be old when it arrives. Limits, progress, templating, CTAS
and the SQL itself are left out.

**DashboardLayout, DashboardEditor.** A layout is a function from ids to a type and a list
of children. `CreateComponent`, `MoveComponent`, `DeleteComponent`, `CreateTopLevelTabs`,
`MakeTopLevel` and `DeleteTopLevelTabs` are the reducer's handlers; `isValidChild` is the
drop rule with its depth table. `layout` is redux-undo's state with `Recorded` its limit;
a drop that empties its row or tabs dispatches a second action (`Emptied`). `flags` are
`hasUnsavedChanges`, `maxUndoHistoryExceeded`, `updatedColorScheme` and `editMode`. `put`
is the request to save with the layout of when it was sent. Widths (so more drops are
allowed than by the code), texts, resizing, `parents` lists and discarding by a reload are
left out. `layout.latest` says whether redux-undo has the present layout to record: after
a save (`clearHistory`, with `ignoreInitialState`) it has not, and the next edit is not in
the history. `Open` is HYDRATE_DASHBOARD, another dashboard opened in the same page,
which is recorded like an edit.

## 3. Runs

### 3.1 Runs that pass

| run | shows |
|---|---|
| `socket_registry` | `OpenIsServed`, `ChannelsSeparate`, `LivePeerKept`, `BroadcastReachesAll`, `GoneIsForgotten` |
| `stream_reader` | `ResumesExactly` up to 20 events a millisecond |
| `async_polling` | `NothingLost`, `NoListenerLeak`, refinement of `AsyncResult` (`SettlesOnce`, with fairness `KeepsPromise`), `RetriesEnd`: polls and requests for data fail, workers die, the cache forgets, the channel's stream is trimmed |
| `async_websocket` | `NoGapWhileConnected`, `SettlesOnce` with lost connections, restarts, failing XADDs and a trimmed stream of all channels |
| `async_websocket_live` | `KeepsPromise` over a connection that lasts |
| `cron_window` | `QueuedOnce` with scheduler tasks less than a second late |
| `report_schedule` | `NagsSpaced`, `WorkingMeansRunning`, `StallUnlocked`, with killed workers, failing mails, pruning and edits that commit late |
| `sql_lab` | `StopEndsWork`, `KeyHasResults`, `SuccessHasData`, `ConclusionKept`, `NoPollMisses`, `PageSettles`: failing and killed tasks, requests that fail late or are sent again, lost answers, polls and fetches that overtake each other |
| `dashboard_editor` | `LayoutIsTree`, `ChartsKept`, `UnsavedShown` over drops, deletions, undos, redos, saves and the opening of another dashboard |

`stream_reader`, `cron_window` and `async_websocket_live` aside, these runs also check the
type invariant of their module.

### 3.2 Runs that end in a counterexample

Each contradicts a sentence of the repository.

* `stream_reader_busy` (`ResumesExactly`): a 21st event in a millisecond. After the
  event `…-19` the API is asked for events from `…-110`, so events 20 to 109 of that
  millisecond are never returned (`async_query_manager.py:60`). `PyOvershoots`
  proves the arithmetic for every millisecond.
* `async_reconnect` (`ReconnectCatchesUp`): an event has one id on its channel's
  stream and another, later or earlier, on the stream of all channels. The page
  remembers the latter and reconnects with it; the server looks it up in the former.
  With two jobs announced in opposite orders on the two streams an event falls
  between, against `superset-websocket/README.md:48`.
* `report_error_grace` (`MailJustified`): `find_last_error_notification` looks for
  logs other than ERROR and WORKING *before* the last mail instead of after it
  (`dao.py:298`). A schedule that ever succeeded before its last error mail sends
  one for every further error.

Reachable in the models and not claimed otherwise, without a run of their own:

* Two executions that load the row before either commits WORKING both evaluate and
  send; a report in SUCCESS does not enter WORKING at all (both mishaps, with more
  than one worker).
* When `ReportSuccessState` cannot mail its error, the exception leaves the row
  WORKING until the timeout (mishap "lock", after which `WorkingMeansRunning` claims
  nothing).
* When one of several recipients fails, the run is an ERROR and the next one
  notifies all of them again, whatever the grace period (mishap "nag", after which
  `NagsSpaced` claims nothing); likewise when a worker dies after sending.
* An edit that deactivates a schedule found WORKING writes NOOP when it commits, also over
  a SUCCESS of the meantime: once activated again, the alert notifies without a look at
  its grace period (mishap "nag").
* A worker that dies between the commit of WORKING and the log of it, the first time
  the schedule runs, leaves a row that no timeout unlocks: `is_on_working_timeout` finds
  no log and answers no for ever. The same holds of a WORKING row whose log is pruned
  (`log_retention` shorter than the outage). `StallUnlocked` claims nothing of them.
* SQL Lab: a query stopped before its task begins is RUNNING again when it does, and runs
  to its end. A stop that arrives while the last statement runs may be overwritten by
  SUCCESS. A synchronous query that was stopped is answered like a success without data
  (`SuccessHasData` excepts it), and its page shows a success although it said stopped.
  A killed task leaves its row RUNNING, and its page polling, for ever.
* SQL Lab: a request that fails after it has queued the task (a record of the saved query,
  `task.forget`) commits FAILED, over STOPPED too, and the task goes on
  (`StopEndsWork` excepts it). A request sent again by the browser is answered with the
  running query, which a synchronous page takes for a success without data (`post =
  "bare"`, excepted by `SuccessHasData`). A stop that overwrites a SUCCESS whose key is
  there leaves a page that fetches, drops the results since the query "was stopped",
  and, its stop answer lost, polls from after the row's last change (excepted by
  `PageSettles`).
* Dashboard: a component can be dropped inside itself when the hovered target is a
  descendant, which takes both out of what is shown (mishap "inside", after which
  `LayoutIsTree` claims nothing; `ChartsKept` excepts the drop itself only); tabs dragged
  from inside a row or a tab to the root are made top-level and also stay where they were
  (mishap "elsewhere"); an edit made while a save is under way counts as saved (mishap
  "overtaken"); css changed and then an undo to the start shows nothing to save (mishap
  "css"). The first edit after a save is not recorded (`ignoreInitialState`), so an undo
  leaves it in place and yet clears `hasUnsavedChanges`: the edit is shown as saved
  (mishap "undone"; "adrift" says that the history no longer starts with what is saved).
* Events trimmed before the page read them are gone: a job all of whose events were
  trimmed waits for ever (`NothingLost` speaks of jobs with an event left, `KeepsPromise`
  of jobs with none trimmed).
* A success is rejected when the request for its data fails, whatever the cache holds
  ("unfetched"): nothing asks again.
* After its last reconnection attempt the page asks the API once and never again:
  it logs that it falls back to polling, while the timer is only armed when
  `transport` is `polling`. This is why `KeepsPromise` is claimed of connections
  that last.
* Until the websocket server has read a first event every XREAD starts at `$`
  again; an event added between two of them is never sent (`Warm = FALSE`).
* A job whose worker dies, or hits its soft limit, announces nothing: its promise
  stays pending.
* A 202 answer slower than all retries of its event leaves its promise pending
  (`PromptReply = FALSE`).
* A success whose second XADD fails is announced and followed by an error of the
  same job. The two events share a retry count, so one may be dropped.

### 3.3 Bounds, and why they are enough

* `socket_registry`: two sockets, two channels. Sockets interact only through a
  channel's list and its removal, which two suffice for; the theorems hold for any
  number. The clock is in ticks with `PingInterval + Lateness + PongDelay + 1 =
  ResponseTimeout`, the tightest timing `TimingAssumption` allows.
* `stream_reader`: 20 (21) events a millisecond reach the boundary of `increment_id`;
  two milliseconds give ids of two of them; pages of 3 over a stream of 4 are both
  full and partial, and trimming drops entries that were not read.
* `async_polling`: two jobs (events of one and of both share a page), pages of two, a
  channel's stream that may be trimmed to its last event (`StreamLimit = 1`),
  two retries, one millisecond; ids are told apart by their sequence numbers.
  `MaxCopies = 2` bounds the events in timers and fetches of one job: a callback
  beyond it waits. Failing XADDs are left to `async_websocket`, since after one a
  job has two events that share a retry count and `KeepsPromise` is not claimed.
* `async_websocket`: two losses and one retry, so that the page reconnects, gives up
  and falls back; `Warm = FALSE` starts at `$`; reads of one entry at a time separate
  the batches. The stream of all channels, which this transport reads, may be trimmed
  to its last event; the channel's own never is (four events are all there can be). Jobs
  are interchangeable: symmetry, no liveness.
* `async_websocket_live`: a connection that lasts (`MaxDrops = 0`), one that opens
  before the first request (`OpensFirst`) and a server that is already reading
  (`Warm`), streams that are never trimmed (trimming is `async_polling`'s and
  `async_websocket`'s); reloads resume from the page's id or any other tab's.
* `cron_window`: six ticks to the second, four seconds to the minute, minutes 0 to 5
  with neighbours and a gap. Only the order of window ends and starts matters.
* `report_*`: ages up to `MaxAge` (2 ticks) are told apart, `Never` is apart; the grace
  period, timeout and retention of a tick lie below it. One execution in the queue. One
  worker: two are beyond the search, so overlapping executions are covered by
  `ScheduleTypeOK` and the exemptions of the other theorems only.
* `sql_lab`: two statements separate "between statements" from "after the last". A commit
  may show one tick late and `Buffer` of one just covers that (`PageAssumption`: with a
  smaller buffer a change can escape the polls, as the mutant of `NoPollMisses` shows). One
  tick of the clock then lets a poll ask from a time after the stamp of a commit that the
  page knows of, which is when a later poll misses the row. A browser's clock that is
  ahead only adds to `MaxLag` here (`Ahead = 0`); the theorems have both.
* `dashboard_editor`: two opened dashboards (a column with a chart in a row beside tabs;
  top-level tabs with nested ones), every drop of an old component and of new charts and
  tabs (`NewTypes`; rows, columns and headers are in the opened dashboards or made on the
  way), two edits, opening another dashboard among them, and
  `UNDO_LIMIT = 1`, so that a second one fills the history. Ten ids are never used up.
  `CHART` stands for markdown components too, `HEADER` for dividers.
  Undos, redos and saves are not bounded. One save at a time: the button is disabled
  while one is under way.

`CHECK_DEADLOCK FALSE` stands where a bounded system may come to rest: all jobs
settled, the last minute over, the query shown, nothing left to edit.
`socket_registry` checks deadlock. In the `report_*` configurations time never stops, so
the check would say nothing.

### 3.4 Fairness

* `SocketRegistry!Fairness`: a broadcast's loop ends, and however many events there are,
  the event loop comes back between them to time (the check timer and the pongs of live
  peers, without which time stands still) and to `gc`: strong fairness, since a broadcast
  disables them while it runs. Nothing obliges a peer to connect, close or vanish.
* `AsyncPolling!Fairness`: a worker that runs goes on (weak: a crash disables it), a
  202 answer arrives or is lost, fetches are answered or fail, timers fire. A poll may
  fail, but not every one for ever: strong fairness of its answer and reception.
* `AsyncWebSocket!Fairness`: the same, and the read loop runs, what is sent arrives
  while the connection lasts, the page's timers reconnect. A blocking read times out
  again and again while the stream is empty, hence strong fairness of `ReadReturns`.
* `ReportSchedule!Fairness`: the beat releases tasks while the schedule is active,
  workers take and continue executions, time passes. Workers may be killed again and
  again, but not each time just before the same transaction (strong fairness of the
  two commits and of the timeout's handler).
* `SqlLab!Fairness`: requests are served, tasks run (unless killed), answers, also those to
  a request sent again, and fetches arrive. A poll may fail again and again, but not every
  one: strong fairness of `PollReceived`. Nothing obliges a user to stop a query, or the
  clock to tick.
* `DashboardEditor` has none: nothing obliges a user to edit or to save.
* `AsyncResult!Fairness`: an announced outcome, of a job no event of which was trimmed,
  reaches a page that keeps waiting. It
  is what the detailed specifications are shown to give.

## 4. Proofs

Checked by `tlapm`; each holds for every value of the constants that meets the named
assumptions of its module.

| theorem | says | assuming |
|---|---|---|
| `RegistryTypeOK`, `RegistryServesOpen`, `RegistrySeparates` | the registries' invariants | `RegistryAssumption` |
| `RegistryKeepsLivePeers` | no live peer is timed out | and `TimingAssumption` |
| `RegistryBroadcasts` | a finished broadcast has reached the channel's open connections, whatever it cleaned on the way | `RegistryAssumption` |
| `TsResumesAfter` | `incrementId` is the successor | |
| `PyResumesAfterWhenQuiet`, `PyOvershoots` | `increment_id` is, below sequence number 20; after 19 it skips 20 to 109 | |
| `ReaderResumesExactly` | `ResumesExactly` of the whole specification | `PerMs <= 20` |
| `CronQueuedOnce` | `QueuedOnce` for every crontab, period and horizon | `MaxDelay < Second` |
| `ScheduleTypeOK` | type invariant, overlapping executions and all faults included | `ScheduleAssumption` |
| `ScheduleNagsSpaced` | `NagsSpaced`, for any number of workers, until a mishap "nag" | `ScheduleAssumption` |
| `ScheduleSettles` | `WorkingMeansRunning`, for any number of workers, until a mishap "lock" | `ScheduleAssumption` |
| `PollingTypeOK`, `PollingNoListenerLeak` | type invariant; listeners go with waiting promises | the assumptions of `AsyncJobs`, `AsyncClient`, `AsyncPage` |
| `PollingNothingLost` | `NothingLost`, for any trimming, while no millisecond holds more than 20 of the channel's events | and `PromptReply`, `MaxRetries > 0` |
| `PollingSettlesOnce` | the polling transport implements `AsyncResult` (`SettlesOnce`), failing requests for data and trimming included | as for `PollingTypeOK` |
| `WebSocketTypeOK`, `WebSocketNoGap` | type invariant; `NoGapWhileConnected` | and `WebSocketAssumption` |
| `WebSocketSettlesOnce` | the websocket transport implements `AsyncResult` | the same |
| `SqlLabTypeOK`, `SqlLabStopEndsWork`, `SqlLabKeyHasResults`, `SqlLabSuccessHasData`, `SqlLabConclusionKept`, `SqlLabNoPollMisses` | the safety properties of `sql_lab` with their exceptions, for any number of statements and any clocks that the buffer covers | `ServerAssumption`, `PageAssumption` |
| `DashboardUnsavedShown` | `UnsavedShown`, for any layouts, any edits and any `UNDO_LIMIT` | `EditorAssumption` |
| `DashboardTypeOK`, `DashboardLayoutIsTree`, `DashboardChartsKept` | `TypeOK`, `LayoutIsTree`, `ChartsKept`, for any ids, any dashboards to open, any number of edits and any `UNDO_LIMIT` | and `IdsAssumption`, `BeginAssumption` |

**Registry.** `IInv == TypeOK /\ OpenIsServed /\ ChannelsSeparate /\ PongRecent /\
PassCovers` is inductive. `PassCovers` says that every open connection of the channel being
sent to is reached already or still in the pass: true at the start by `OpenIsServed`, and
kept whatever the pass does to the channel. `LivePeerKept` alone is not: that a peer
answered recently follows from how old its last pong was when the pending ping was sent,
which is what `PongRecent` bounds, by the check period and the age of the ping.
`CleanedKeepsActive` and `TrackedAdds` say what `cleanChannel` and `trackClient` do to a
channel.

**Streams.** `Quiet` says that every stored id, and the client's last one, has a
sequence number below 20; `PyResumesAfterWhenQuiet` then gives `ResumesExactly`. A
page is stated through its first and last position instead of a recursion over the
stream, so that the provers can follow it.

**Cron.** `WindowInv` ties the count of a minute to whether its own scheduler task
ran; `WindowIsItsMinute` shows that within a delay below a second a window contains
exactly the start of its own minute.

**Reports.** For `ScheduleNagsSpaced`, `NagsInv` says for each place of the handlers what
the row's state and the ages of logs reveal about the last notification: a row that is not
in SUCCESS or GRACE was last notified a grace period ago, and otherwise the SUCCESS log is
as young as the notification or the period is over. Two moments break this for a while,
after sending and before the commits (`Notified`), and the invariant exempts them. An edit's
NOOP only ever replaces states other than SUCCESS and GRACE (else it is a mishap), so it
reveals no less of the last notification. That retention is not shorter than the grace
period is needed: pruning must not delete the log the question is about. For
`ScheduleSettles`, `SettlesInv` tracks whether the session knows that the row says WORKING
(`KnowsWorking`): only then is its next state written. Both were checked by TLC as
invariants before they were proved.

**Async queries.** `ProcessEvents` is a recursive function: `LoopExists` and `LoopIs` show
that it is what its equation says, and what holds of each turn (`Turn`, `TurnKeeps`,
`TurnCovers`) is carried along the loop by induction over a set of numbers (`UpTo`), which
needs no theorem with an operator parameter. `Kept` is the inductive invariant of
`PollingNothingLost`: an awaited job has work under way (a timer, or data to come), or every
event of it that is not trimmed is `Ahead`: after the last id, after what a poll under way
brings or asks from, and after the events in timers, which move the last id back when they
fire. A retry count of a job whose answer is still to come is backed by an event in a timer
(`Backed`). For `WebSocketNoGap`, `EndsAt` ties the blocked read to the server's position.
For the two refinements `Truthful` says that whatever is on its way to a promise was
announced, in timers, polls, fetches and on the wire, and that a success was cached before
it was; each step then is one of `AsyncResult` or a stutter (`WorkersTold`, `DataTold`,
`RetryTold`, `PollTells`, `ReceiveTold`).

**SQL Lab.** Of the server, `StopHeeded`: once a stop was written to a query that has begun,
the row says STOPPED wherever the task stands before a statement or in one, since only the
task writes anything else from then on (but for a request that fails late, which ends what
is claimed: `stopLeft` is -1 again); and `KeyStored`: a key is in the row only after
the task has stored its results and ended. Of the page, `PageSound`: what a poll has seen
is one the row can have had, and one poll is under way at a time. `Kept` adds that what
it has seen is no older than what the page concluded.

`NoPollMisses` is what `PageSettles` needs of safety, whether or not the polls keep
coming. Its invariant `InTime` says that until the news of the row is told (`Told`: the
page knows of its conclusion, and every poll under way saw the row as it is or not at
all), `lastUpdate` and the times that polls bring are at most `Buffer` ahead of the
row's stamp. A commit makes this true again, whatever the times were: they are no later
than `Ahead` or the clock, and the new stamp is no older than the clock less `MaxLag`
(`ServerStamps`). Only the answer to a poll moves them, and one that comes from after
the commit brings the row with it (`PollSees`, `PollHeeded`).

**Dashboard.** For `DashboardUnsavedShown` the layouts are opaque: its `Inv` says that, as
long as the history was not exceeded and started with what the server has ("adrift" is a
mishap otherwise: since a save, or in another dashboard), the oldest recorded layout is the
server's, so an undo to the start may clear the flag; where it is not, an undo that clears
it wrongly is the mishap "undone"; and `PutSound` that the server
has what a stored request carries.

The other three rest on `TreeInv`: every layout shown, recorded or undone is a `Forest`
(lists of children name nothing twice, nothing has two parents, everybody's parent may have
it, and the root has the grid or tabs over an unused grid), and `Connected` (no set that
holds the root and is closed under children leaves a component out) unless something was
dropped inside itself. `Reaches` relates a layout to what a handler makes of it: what was
shown and is still there is still shown (`ShownLeast`: what is shown is the least set that
holds the root and is closed). `LayoutIsTree` says this through `Under`, which iterates over
the layout as often as it has components. `UnderClosed` shows by counting that as many
rounds are enough, so that `Under` is the least closed set; from then on no proof recurses.
That nothing shown is under itself (`Acyclic`) needs no order on components: if c were, what
is not under c would hold the root and be closed, and c would not be shown. Each of the
reducer's handlers has a lemma with what it does to the children of every component and
hence to a forest (`ComponentCreated`, `Moved`, `ComponentDeleted`, `TopLevelTabsCreated`,
`TopLevelFromGrid`, `TopLevelTabsDeleted`); for the two mishaps: a component dropped inside
itself leaves a forest that is not connected, and tabs taken from inside a row or tab then
are under themselves (`TopLevelFromElsewhere`), so that the page no longer renders and its
layout no longer changes. Charts are kept because every handler but the deletion keeps
components and types and what they reach (`ChartsStay`): this needs no connected layout, so
it holds of every step before and after a component was dropped inside itself but for that
drop, for which nothing is claimed. `BeginAssumption` asks that an opened dashboard is
finite and a tree, as this editor would have saved it.

Only model-checked: liveness (`GoneIsForgotten`, `KeepsPromise`, `RetriesEnd`,
`StallUnlocked`, `PageSettles`; fairness is out of the proof system's reach here). Every
invariant and every action property of the passing runs is a theorem.

## 5. Hazards

`PROJECT.json` lists what is hard to test in the modelled code, at its line, and the
property that would catch it. Those without a property say why: mostly the code
makes no promise there (section 3.2).

## 6. Plan

Done: registries; streams; async queries over both transports with their abstract
specification, its refinement proved; cron window; report executions; SQL Lab from page to
worker; the dashboard editor.

1. `PublicationWebhook`: trigger, NOTIFY, listener, export file; a listener that is
   down or dies.
2. `KeyValueStore`: permalinks (deterministic keys), upserts by two requests, expiry,
   and the contextual keys of the temporary cache.
3. `Switchboard` of the embedded SDK: requests and answers over a message port.
4. The dashboard page's filters and refreshes, composed with async queries.
5. `ReportSchedule`: observed values of alerts in the logs, create and delete; a
   composition with `CronWindow` that derives when executions may overlap.

## 7. Not modelled

`PROJECT.json` gives each part's reason. In short: outside images and shell scripts over
them; visualisations, connectors, dialects, translations and migrations, which are pure
functions or single transactions; forms and resources whose state is one row; and, of the
modelled parts, what section 2.1 leaves out.
