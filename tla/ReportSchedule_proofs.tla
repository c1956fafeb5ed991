----------------------- MODULE ReportSchedule_proofs -----------------------
(***************************************************************************)
(* Proofs about ReportSchedule, for every grace period, working timeout,    *)
(* retention and number of workers.                                          *)
(***************************************************************************)
EXTENDS ReportSchedule, TLAPS

\* A record of log ages is well formed when each of them is.
LEMMA LogAgesType ==
    ASSUME NEW a \in Ages \cup {Never}, NEW b \in Ages \cup {Never},
           NEW c \in Ages \cup {Never}, NEW d \in Ages \cup {Never},
           NEW e \in Ages \cup {Never}
    PROVE  [success |-> a, entered |-> b, email |-> c, ok |-> d, okBefore |-> e] \in LogAges
BY DEF LogAges

\* Changing where an execution is keeps it well formed.
LEMMA ExecutionType ==
    ASSUME NEW e \in Executions, NEW p \in Places, NEW s \in States
    PROVE  /\ [e EXCEPT !.pc = p] \in Executions
           /\ [e EXCEPT !.pc = p, !.loaded = s] \in Executions
BY DEF Executions

\* What a handler decides to write keeps it well formed.
LEMMA WritingType ==
    ASSUME NEW e \in Executions, NEW t \in States, NEW m \in Messages, NEW n \in Places
    PROVE  [e EXCEPT !.pc = "commit", !.to = t, !.msg = m, !.next = n] \in Executions
BY DEF Executions, Places

\* Idle and freshly begun executions are well formed.
LEMMA BegunType ==
    ASSUME NEW s \in States
    PROVE  Idle \in Executions /\ Begun(s) \in Executions
BY DEF Idle, Begun, HandlerOf, Executions, Places, States, Messages

\* Ages stay ages when time passes or logs are pruned.
LEMMA AgeType ==
    ASSUME NEW a \in Ages \cup {Never}
    PROVE  Older(a) \in Ages \cup {Never} /\ Pruned(a) \in Ages \cup {Never}
BY ScheduleAssumption DEF Older, Pruned, Ages, Never

\* The initial row, logs and executions are well formed ...
LEMMA ScheduleTypeInit ==
    ASSUME Init
    PROVE  TypeOK
<1>2. Never \in Ages \cup {Never}
  OBVIOUS
<1>3. logs \in LogAges
  BY <1>2, LogAgesType DEF Init
<1>4. run \in [Worker -> Executions]
  BY BegunType DEF Init, States
<1>5. frees \in BOOLEAN
  BY DEF Init
<1> QED
  BY <1>2, <1>3, <1>4, <1>5, ScheduleAssumption DEF Init, TypeOK, States

\* ... and every step keeps them so.
LEMMA ScheduleTypeStep ==
    ASSUME TypeOK, [Next]_vars
    PROVE  TypeOK'
<1> USE DEF TypeOK, Mishaps
<1>1. 0 \in Ages \cup {Never}
  BY ScheduleAssumption DEF Ages, Never
<1>2. logs.success \in Ages \cup {Never} /\ logs.entered \in Ages \cup {Never}
      /\ logs.email \in Ages \cup {Never} /\ logs.ok \in Ages \cup {Never}
      /\ logs.okBefore \in Ages \cup {Never}
  BY DEF LogAges
<1>3. CASE Schedule
  BY <1>3, ScheduleAssumption DEF Schedule
<1>4. CASE Deactivate \/ DeactivateReads \/ DeactivateCommits
  BY <1>4 DEF Deactivate, DeactivateReads, DeactivateCommits, States
<1>5. CASE Activate
  BY <1>5 DEF Activate
<1>6. CASE PruneLog
  <2>1. logs' \in LogAges
    BY <1>2, <1>6, AgeType, LogAgesType DEF PruneLog
  <2> QED
    BY <1>6, <2>1 DEF PruneLog
<1>7. CASE Tick
  <2>1. logs' \in LogAges
    BY <1>2, <1>7, AgeType, LogAgesType DEF Tick
  <2>2. nag' \in Ages \cup {Never}
    BY <1>7, AgeType DEF Tick
  <2> QED
    BY <1>7, <2>1, <2>2 DEF Tick
<1>8. ASSUME NEW w \in Worker, Start(w) \/ Step(w) \/ Fault(w) PROVE TypeOK'
  <2> DEFINE e == run[w]
  <2>1. e \in Executions /\ Idle \in Executions
    BY BegunType DEF States
  <2>2. e.to \in States /\ e.msg \in Messages /\ e.next \in Places /\ e.loaded \in States
    BY <2>1 DEF Executions
  <2>3. CASE Start(w)
    <3>1. Begun(state) \in Executions
      BY BegunType
    <3>2. queued' \in 0 .. MaxQueued
      BY <2>3, ScheduleAssumption DEF Start
    <3> QED
      BY <2>3, <3>1, <3>2 DEF Start
  <2>4. CASE CommitState(w)
    <3>1. [run[w] EXCEPT !.pc = "log"] \in Executions
      BY <2>1, <2>2, ExecutionType DEF Places
    <3>2. run' \in [Worker -> Executions]
      BY <2>4, <3>1 DEF CommitState, Goes
    <3> QED
      BY <2>2, <2>4, <3>2 DEF CommitState
  <2>5. CASE CommitLog(w)
    <3>1. logs' \in LogAges
      <4> DEFINE a == IF state = "SUCCESS" THEN 0 ELSE logs.success
                 b == IF state = "WORKING" /\ run[w].msg = "none" THEN 0 ELSE logs.entered
                 c == IF run[w].msg = "mark" THEN 0 ELSE logs.email
                 d == IF state \notin {"ERROR", "WORKING"} THEN 0 ELSE logs.ok
                 f == IF run[w].msg = "mark" THEN logs.ok ELSE logs.okBefore
      <4>1. logs' = [success |-> a, entered |-> b, email |-> c, ok |-> d, okBefore |-> f]
        BY <2>5 DEF CommitLog, Logged
      <4>2. /\ a \in Ages \cup {Never} /\ b \in Ages \cup {Never}
            /\ c \in Ages \cup {Never} /\ d \in Ages \cup {Never}
            /\ f \in Ages \cup {Never}
        BY <1>1, <1>2
      <4> HIDE DEF a, b, c, d, f
      <4> QED
        BY <4>1, <4>2, LogAgesType
    <3>2. run' \in [Worker -> Executions]
      <4>1. [run[w] EXCEPT !.pc = run[w].next, !.loaded = state] \in Executions
        BY <2>1, <2>2, ExecutionType
      <4> QED
        BY <2>1, <2>5, <4>1 DEF CommitLog, Ends
    <3> QED
      BY <2>5, <3>1, <3>2 DEF CommitLog
  <2>6. \A s \in States, m \in Messages, n \in Places :
           Writes(w, s, m, n) => run' \in [Worker -> Executions]
    <3> TAKE s \in States, m \in Messages, n \in Places
    <3>1. [run[w] EXCEPT !.pc = "commit", !.to = s, !.msg = m, !.next = n] \in Executions
      BY <2>1, WritingType
    <3> QED
      BY <3>1 DEF Writes
  <2>7. \A p \in Places : Goes(w, p) => run' \in [Worker -> Executions]
    <3> TAKE p \in Places
    <3>1. [run[w] EXCEPT !.pc = p] \in Executions
      BY <2>1, <2>2, ExecutionType
    <3> QED
      BY <3>1 DEF Goes
  <2>8. Ends(w) => run' \in [Worker -> Executions]
    BY <2>1 DEF Ends
  <2>9. Failed(w) => run' \in [Worker -> Executions]
    BY <2>6, <2>7 DEF Failed, States, Messages, Places
  <2>10. CASE Busy(w)
    BY <2>6, <2>10 DEF Busy, States, Messages, Places
  <2>11. CASE GraceCheck(w)
    BY <2>6, <2>11 DEF GraceCheck, States, Messages, Places
  <2>12. CASE Query(w)
    BY <2>6, <2>7, <2>9, <2>12 DEF Query, States, Messages, Places
  <2>13. CASE Send(w) \/ SendInPart(w)
    BY <1>1, <2>6, <2>9, <2>13 DEF Send, SendInPart, States, Messages, Places
  <2>14. CASE ErrorGraceCheck(w)
    BY <2>7, <2>8, <2>14 DEF ErrorGraceCheck, Places
  <2>15. CASE SendError(w) \/ SendErrorFails(w)
    BY <2>6, <2>8, <2>15 DEF SendError, SendErrorFails, States, Messages, Places
  <2>16. CASE Crash(w)
    BY <2>8, <2>16 DEF Crash
  <2> QED
    BY <1>8, <2>3, <2>4, <2>5, <2>10, <2>11, <2>12, <2>13, <2>14, <2>15, <2>16
    DEF Step, Fault
<1>9. CASE UNCHANGED vars
  BY <1>9 DEF vars
<1> QED
  BY <1>3, <1>4, <1>5, <1>6, <1>7, <1>8, <1>9 DEF Next

\* The row, the logs and the executions are well formed in every reachable state.
THEOREM ScheduleTypeOK == Spec => []TypeOK
<1>1. Init => TypeOK
  BY ScheduleTypeInit
<1>2. TypeOK /\ [Next]_vars => TypeOK'
  BY ScheduleTypeStep
<1> QED
  BY <1>1, <1>2, PTL DEF Spec
-----------------------------------------------------------------------------
\* The fields of an execution after its handler has decided what to write ...
LEMMA WritesFields ==
    ASSUME TypeOK, NEW w \in Worker, NEW s, NEW m, NEW n, Writes(w, s, m, n)
    PROVE  /\ run'[w].pc = "commit" /\ run'[w].to = s /\ run'[w].next = n
           /\ run'[w].loaded = run[w].loaded
           /\ \A v \in Worker \ {w} : run'[v] = run[v]
<1>1. run[w] \in Executions
  BY DEF TypeOK
<1>2. run'[w] = [run[w] EXCEPT !.pc = "commit", !.to = s, !.msg = m, !.next = n]
  BY DEF Writes, TypeOK
<1> QED
  BY <1>1, <1>2 DEF Writes, TypeOK, Executions

\* ... has moved on ...
LEMMA GoesFields ==
    ASSUME TypeOK, NEW w \in Worker, NEW p, Goes(w, p)
    PROVE  /\ run'[w].pc = p /\ run'[w].to = run[w].to /\ run'[w].next = run[w].next
           /\ run'[w].loaded = run[w].loaded
           /\ \A v \in Worker \ {w} : run'[v] = run[v]
<1>1. run[w] \in Executions
  BY DEF TypeOK
<1>2. run'[w] = [run[w] EXCEPT !.pc = p]
  BY DEF Goes, TypeOK
<1> QED
  BY <1>1, <1>2 DEF Goes, TypeOK, Executions

\* ... or has ended.
LEMMA EndsFields ==
    ASSUME TypeOK, NEW w \in Worker, Ends(w)
    PROVE  run'[w].pc = "idle" /\ \A v \in Worker \ {w} : run'[v] = run[v]
BY DEF Ends, TypeOK, Idle

\* What a failing query or notification comes to.
LEMMA FailedFields ==
    ASSUME TypeOK, NEW w \in Worker, Failed(w)
    PROVE  /\ run'[w].loaded = run[w].loaded
           /\ \/ run'[w].pc = "commit" /\ run'[w].to = "ERROR"
                 /\ run'[w].next \in {"errgrace", "idle"}
              \/ run'[w].pc = "senderr" /\ run[w].pc = "query"
           /\ \A v \in Worker \ {w} : run'[v] = run[v]
BY WritesFields, GoesFields DEF Failed

-----------------------------------------------------------------------------
\* At most one execution is under way.
Alone == \A v, w \in Worker : run[v].pc # "idle" /\ run[w].pc # "idle" => v = w

Writing(w) == run[w].pc \in {"commit", "log"}

Unrested == {"SUCCESS", "GRACE"}

\* Of an alert's execution: past the grace check the recipients have rested; until
\* a success is logged the session and the row know of none.
AlertExecution(w) ==
    /\ run[w].pc \in {"query", "send", "errgrace", "senderr"} =>
          nag >= Grace /\ run[w].loaded \notin Unrested /\ state \notin Unrested
    /\ Writing(w) /\ run[w].to \in {"WORKING", "NOOP", "ERROR"} => nag >= Grace
    /\ Writing(w) /\ run[w].next # "idle" =>
          \/ run[w].to = "ERROR" /\ run[w].next = "errgrace" /\ state \notin Unrested
          \/ /\ run[w].to = "WORKING" /\ run[w].next = "query"
             /\ run[w].pc = "commit" => run[w].loaded # "WORKING"
             /\ run[w].pc = "log" => state \notin Unrested
    /\ Writing(w) /\ run[w].to = "SUCCESS" =>
          IF run[w].pc = "commit" THEN run[w].loaded # "SUCCESS" ELSE state = "SUCCESS"
    /\ run[w].pc = "busy" => nag >= Grace
    /\ run[w].pc = "grace" => run[w].to = "WORKING" /\ run[w].loaded \in Unrested

\* An execution has notified and has not logged so yet.
Notified(w) == Writing(w) /\ run[w].to = "SUCCESS"

\* Otherwise the recipients have rested, or the newest success log, which is at
\* least as recent as the notification, is still there to tell.
AlertRow ==
    (\A w \in Worker : ~Notified(w)) =>
        /\ state \notin Unrested => nag >= Grace
        /\ logs.success <= nag \/ nag >= Grace

AlertInv == kind = "alert" => AlertRow /\ \A w \in Worker : AlertExecution(w)

NagsInv ==
    TypeOK /\ ("nag" \notin mishaps => Alone /\ AlertInv)

-----------------------------------------------------------------------------
\* A step of one execution finds the others idle and leaves them so.
LEMMA OthersIdle ==
    ASSUME TypeOK, Alone, "nag" \notin mishaps' \/ "lock" \notin mishaps',
           NEW w \in Worker, Start(w) \/ Step(w) \/ Fault(w)
    PROVE  \A v \in Worker \ {w} : run[v].pc = "idle" /\ run'[v] = run[v]
<1>1. CASE Start(w)
  BY <1>1 DEF Start, TypeOK
<1>2. CASE Step(w) \/ Fault(w)
  <2>1. run[w].pc # "idle"
    BY <1>2 DEF Step, Fault, CommitState, CommitLog, Busy, GraceCheck, Query, Send,
                ErrorGraceCheck, SendError, SendInPart, SendErrorFails, Crash
  <2>2. \A v \in Worker \ {w} : run'[v] = run[v]
    <3>1. CASE CommitLog(w)
      BY <3>1 DEF CommitLog, Ends, TypeOK
    <3>2. CASE CommitState(w) \/ Busy(w) \/ GraceCheck(w) \/ Query(w) \/ Send(w)
               \/ ErrorGraceCheck(w) \/ SendError(w) \/ Fault(w)
      BY <3>2, WritesFields, GoesFields, EndsFields, FailedFields
      DEF CommitState, Busy, GraceCheck, Query, Send, ErrorGraceCheck, SendError, Fault,
          SendInPart, SendErrorFails, Crash
    <3> QED
      BY <1>2, <3>1, <3>2 DEF Step
  <2> QED
    BY <2>1, <2>2 DEF Alone
<1> QED
  BY <1>1, <1>2

\* Executions that must not overlap do not.
LEMMA AloneStep ==
    ASSUME TypeOK, Alone, "nag" \notin mishaps' \/ "lock" \notin mishaps', [Next]_vars
    PROVE  Alone'
<1>1. ASSUME NEW w \in Worker, Start(w) \/ Step(w) \/ Fault(w) PROVE Alone'
  <2>1. \A v \in Worker \ {w} : run'[v].pc = "idle"
    BY <1>1, OthersIdle
  <2> QED
    BY <2>1 DEF Alone
<1>2. CASE UNCHANGED run
  BY <1>2 DEF Alone
<1> QED
  BY <1>1, <1>2 DEF Next, vars, Schedule, Deactivate, DeactivateReads, DeactivateCommits, Activate, PruneLog, Tick

\* What an idle execution satisfies, and a row none of whose executions has
\* notified without logging so.
LEMMA IdleExecution ==
    ASSUME NEW w \in Worker, run'[w].pc = "idle"
    PROVE  AlertExecution(w)' /\ ~Notified(w)'
BY DEF AlertExecution, Writing, Notified

\* Time does not shorten ages, and pruning removes only those past the retention.
LEMMA AgesGrow ==
    ASSUME NEW a \in Ages \cup {Never}, NEW b \in Ages \cup {Never},
           a <= b \/ b >= Grace
    PROVE  /\ b >= Grace => Older(b) >= Grace
           /\ Older(a) <= Older(b) \/ Older(b) >= Grace
           /\ Pruned(a) <= b \/ b >= Grace
BY ScheduleAssumption DEF Older, Pruned, Ages, Never

\* The row's part and the executions' part of the invariant survive whatever
\* happens outside of executions.
LEMMA AlertOutside ==
    ASSUME TypeOK, AlertInv, kind = "alert", "nag" \notin mishaps',
           Schedule \/ Deactivate \/ DeactivateReads \/ DeactivateCommits \/ Activate \/ PruneLog \/ Tick \/ UNCHANGED vars
    PROVE  AlertInv'
<1> USE DEF TypeOK, LogAges
<1>1. AlertRow /\ \A w \in Worker : AlertExecution(w)
  BY DEF AlertInv
<1>2. CASE Schedule \/ Activate \/ UNCHANGED vars
  BY <1>1, <1>2 DEF Schedule, Activate, vars, AlertInv, AlertRow, AlertExecution, Notified,
                    Writing
<1>3. CASE Deactivate \/ DeactivateReads \/ DeactivateCommits
  <2>1. UNCHANGED <<logs, run, nag>> /\ (state' = state \/ (state' = "NOOP" /\ state \notin Unrested))
    BY <1>3 DEF Deactivate, DeactivateReads, DeactivateCommits, Unrested
  <2>2. state' \in Unrested <=> state \in Unrested
    BY <2>1 DEF Unrested
  <2>3. state = "SUCCESS" => state' = "SUCCESS"
    BY <2>1 DEF Unrested
  <2>4. AlertRow'
    BY <1>1, <2>1, <2>2 DEF AlertRow, Notified, Writing
  <2>5. \A w \in Worker : AlertExecution(w)'
    BY <1>1, <2>1, <2>2, <2>3 DEF AlertExecution, Writing
  <2> QED
    BY <2>4, <2>5 DEF AlertInv
<1>4. CASE PruneLog
  <2>1. UNCHANGED <<state, run, nag>> /\ logs'.success = Pruned(logs.success)
    BY <1>4 DEF PruneLog
  <2>2. AlertRow'
    BY <1>1, <2>1, AgesGrow DEF AlertRow, Notified, Writing
  <2>3. \A w \in Worker : AlertExecution(w)'
    BY <1>1, <2>1 DEF AlertExecution, Writing
  <2> QED
    BY <2>2, <2>3 DEF AlertInv
<1>5. CASE Tick
  <2>1. UNCHANGED <<state, run>> /\ logs'.success = Older(logs.success) /\ nag' = Older(nag)
    BY <1>5 DEF Tick
  <2>2. nag >= Grace => nag' >= Grace
    BY <2>1, ScheduleAssumption DEF Older, Ages, Never
  <2>3. AlertRow'
    BY <1>1, <2>1, <2>2, AgesGrow DEF AlertRow, Notified, Writing
  <2>4. \A w \in Worker : AlertExecution(w)'
    BY <1>1, <2>1, <2>2 DEF AlertExecution, Writing
  <2> QED
    BY <2>3, <2>4 DEF AlertInv
<1> QED
  BY <1>2, <1>3, <1>4, <1>5

\* An execution of an alert takes its steps only after the grace period; one that
\* notifies leaves a success log behind before it ends.
LEMMA AlertStep ==
    ASSUME TypeOK, Alone, AlertInv, kind = "alert",
           "nag" \notin mishaps',
           NEW w \in Worker, Start(w) \/ Step(w) \/ Fault(w)
    PROVE  AlertRow' /\ AlertExecution(w)'
<1> USE DEF TypeOK
<1>1. AlertRow /\ AlertExecution(w)
  BY DEF AlertInv
<1>2. \A v \in Worker \ {w} : ~Notified(v) /\ ~Notified(v)'
  BY OthersIdle DEF Notified, Writing
<1>3. run[w] \in Executions /\ nag \in Int /\ logs.success \in Int /\ Grace \in Int
      /\ nag >= 0
  BY ScheduleAssumption DEF Ages, Never, LogAges
<1>4. ~Notified(w) => /\ state \notin Unrested => nag >= Grace
                      /\ logs.success <= nag \/ nag >= Grace
  BY <1>1, <1>2 DEF AlertRow
<1>5. CASE Start(w)
  <2>1. run'[w] = Begun(state) /\ run[w].pc = "idle" /\ UNCHANGED <<kind, state, logs, nag>>
    BY <1>5 DEF Start
  <2>2. ~Notified(w)
    BY <2>1 DEF Notified, Writing
  <2>3. run'[w].loaded = state /\ run'[w].to = "WORKING" /\ run'[w].next = "query"
        /\ run'[w].pc = CASE HandlerOf(state) = "first" -> "commit"
                           [] HandlerOf(state) = "working" -> "busy"
                           [] OTHER -> "grace"
    BY <2>1 DEF Begun, Idle
  <2>4. HandlerOf(state) = IF state \in {"NOOP", "ERROR"} THEN "first"
                           ELSE IF state = "WORKING" THEN "working" ELSE "success"
    BY DEF HandlerOf, States
  <2>5. AlertExecution(w)'
    BY <1>4, <2>1, <2>2, <2>3, <2>4 DEF AlertExecution, Writing, Unrested, States
  <2> QED
    BY <1>4, <2>1, <2>2, <2>5 DEF AlertRow
<1>6. CASE CommitState(w)
  <2>1. /\ run[w].pc = "commit" /\ run'[w].pc = "log" /\ UNCHANGED <<logs, nag>>
        /\ run'[w].to = run[w].to /\ run'[w].next = run[w].next
        /\ state' = IF run[w].to = run[w].loaded THEN state ELSE run[w].to
    BY <1>6, GoesFields DEF CommitState
  <2>2. AlertExecution(w)'
    BY <1>1, <2>1 DEF AlertExecution, Writing, Unrested
  <2>3. ~Notified(w) => (state' \notin Unrested => nag >= Grace)
    BY <1>1, <1>3, <1>4, <2>1 DEF AlertExecution, Writing, Notified, Unrested, Executions,
                                  States
  <2> QED
    BY <1>4, <2>1, <2>2, <2>3 DEF AlertRow, Notified, Writing
<1>7. CASE CommitLog(w)
  <2>1. /\ run[w].pc = "log" /\ UNCHANGED <<state, nag>>
        /\ logs'.success = IF state = "SUCCESS" THEN 0 ELSE logs.success
    BY <1>7 DEF CommitLog, Logged
  <2>2. CASE run[w].next = "idle"
    <3>1. run'[w].pc = "idle"
      BY <1>7, <2>2, EndsFields DEF CommitLog
    <3>2. AlertRow'
      BY <1>1, <1>3, <1>4, <2>1 DEF AlertRow, AlertExecution, Notified, Writing, Unrested
    <3> QED
      BY <3>1, <3>2, IdleExecution
  <2>3. CASE run[w].next # "idle"
    <3>1. run'[w].pc = run[w].next /\ run'[w].loaded = state /\ run'[w].to = run[w].to
      BY <1>3, <1>7, <2>3 DEF CommitLog, Executions
    <3>2. nag >= Grace /\ state \notin Unrested /\ run[w].next \in {"query", "errgrace"}
      BY <1>1, <2>1, <2>3 DEF AlertExecution, Writing
    <3>3. AlertExecution(w)'
      BY <2>1, <3>1, <3>2 DEF AlertExecution, Writing
    <3> QED
      BY <2>1, <3>2, <3>3 DEF AlertRow
  <2> QED
    BY <2>2, <2>3
<1>8. CASE Busy(w)
  <2>1. UNCHANGED <<state, logs, nag>> /\ run[w].pc = "busy" /\ run'[w].pc = "commit"
        /\ run'[w].to \in {"ERROR", "WORKING"} /\ run'[w].next = "idle"
    BY <1>8, WritesFields DEF Busy
  <2> QED
    BY <1>1, <1>4, <2>1 DEF AlertRow, AlertExecution, Writing, Notified
<1>9. CASE GraceCheck(w)
  <2>1. UNCHANGED <<state, logs, nag>> /\ run[w].pc = "grace" /\ run'[w].pc = "commit"
        /\ run'[w].loaded = run[w].loaded
        /\ \/ run'[w].to = "GRACE" /\ run'[w].next = "idle"
           \/ run'[w].to = "WORKING" /\ run'[w].next = "query" /\ ~(logs.success < Grace)
    BY <1>9, WritesFields DEF GraceCheck
  <2> QED
    BY <1>1, <1>3, <1>4, <2>1 DEF AlertRow, AlertExecution, Writing, Notified, Unrested
<1>10. CASE Query(w)
  <2>1. UNCHANGED <<state, logs, nag>> /\ run[w].pc = "query"
        /\ run'[w].loaded = run[w].loaded
        /\ \/ run'[w].pc \in {"send", "senderr"}
           \/ run'[w].pc = "commit" /\ run'[w].to = "NOOP" /\ run'[w].next = "idle"
           \/ run'[w].pc = "commit" /\ run'[w].to = "ERROR"
              /\ run'[w].next \in {"errgrace", "idle"}
    BY <1>10, GoesFields, WritesFields, FailedFields DEF Query
  <2> QED
    BY <1>1, <1>4, <2>1 DEF AlertRow, AlertExecution, Writing, Notified
<1>11. CASE Send(w)
  <2>1. UNCHANGED <<state, logs>> /\ run[w].pc = "send"
        /\ run'[w].loaded = run[w].loaded /\ run'[w].pc = "commit"
        /\ \/ run'[w].to = "SUCCESS" /\ run'[w].next = "idle"
           \/ /\ run'[w].to = "ERROR" /\ run'[w].next \in {"errgrace", "idle"}
              /\ nag' = nag
    BY <1>11, WritesFields, FailedFields DEF Send
  <2> QED
    BY <1>1, <1>4, <2>1 DEF AlertRow, AlertExecution, Writing, Notified, Unrested
<1>12. CASE ErrorGraceCheck(w)
  <2>1. UNCHANGED <<state, logs, nag>> /\ run[w].pc = "errgrace"
        /\ \/ run'[w].pc = "idle"
           \/ run'[w].pc = "senderr" /\ run'[w].loaded = run[w].loaded
    BY <1>12, GoesFields, EndsFields DEF ErrorGraceCheck
  <2> QED
    BY <1>1, <1>4, <2>1 DEF AlertRow, AlertExecution, Writing, Notified
<1>13. CASE SendError(w) \/ SendErrorFails(w)
  <2>1. UNCHANGED <<state, logs, nag>> /\ run[w].pc = "senderr"
        /\ \/ run'[w].pc = "idle"
           \/ run'[w].pc = "commit" /\ run'[w].to = "ERROR" /\ run'[w].next = "idle"
    BY <1>13, WritesFields, EndsFields DEF SendError, SendErrorFails
  <2> QED
    BY <1>1, <1>4, <2>1 DEF AlertRow, AlertExecution, Writing, Notified
<1> QED
  BY <1>5, <1>6, <1>7, <1>8, <1>9, <1>10, <1>11, <1>12, <1>13
  DEF Step, Fault, SendInPart, Crash

\* What has gone wrong is not forgotten.
LEMMA MishapsStay ==
    ASSUME [Next]_vars
    PROVE  mishaps \subseteq mishaps'
BY DEF Next, vars, Schedule, Deactivate, DeactivateReads, DeactivateCommits, Activate, PruneLog, Tick, Start, Step, Fault,
       CommitState, CommitLog, Busy, GraceCheck, Query, Send, ErrorGraceCheck, SendError,
       SendInPart, SendErrorFails, Crash

\* Until executions overlap, one is killed, a notification reaches only some of its
\* recipients or an edit frees a row that says SUCCESS or GRACE by then, an alert nags again only after its grace period.
THEOREM ScheduleNagsSpaced == Spec => []NagsSpaced
<1>1. Init => NagsInv
  <2> SUFFICES ASSUME Init PROVE NagsInv
    OBVIOUS
  <2>1. TypeOK
    BY ScheduleTypeInit
  <2>2. Alone
    BY DEF Init, Alone, Idle
  <2>3. AlertInv
    BY ScheduleAssumption DEF Init, Idle, AlertInv, AlertRow, AlertExecution, Writing, Notified,
                              Unrested, Ages, Never
  <2> QED
    BY <2>1, <2>2, <2>3 DEF NagsInv
<1>2. NagsInv /\ [Next]_vars => NagsInv'
  <2> SUFFICES ASSUME NagsInv, [Next]_vars, "nag" \notin mishaps'
               PROVE  Alone' /\ AlertInv'
    BY ScheduleTypeStep DEF NagsInv
  <2>1. TypeOK /\ Alone /\ AlertInv
    BY MishapsStay DEF NagsInv
  <2>3. Alone'
    BY <2>1, AloneStep
  <2>4. kind' = kind
    BY DEF Next, vars, Schedule, Deactivate, DeactivateReads, DeactivateCommits, Activate, PruneLog, Tick, Start, Step, Fault,
           CommitState, CommitLog, Busy, GraceCheck, Query, Send, ErrorGraceCheck, SendError,
           SendInPart, SendErrorFails, Crash
  <2>5. ASSUME kind = "alert", NEW w \in Worker, Start(w) \/ Step(w) \/ Fault(w)
        PROVE  AlertInv'
    <3>1. AlertRow' /\ AlertExecution(w)'
      BY <2>1, <2>5, AlertStep
    <3>2. \A v \in Worker \ {w} : AlertExecution(v)'
      BY <2>1, <2>5, OthersIdle, IdleExecution
    <3> QED
      BY <3>1, <3>2 DEF AlertInv
  <2>6. AlertInv'
    BY <2>1, <2>4, <2>5, AlertOutside DEF Next, AlertInv
  <2> QED
    BY <2>3, <2>6
<1>3. NagsInv => NagsSpaced
  BY DEF NagsInv, AlertInv, AlertExecution, NagsSpaced
<1> QED
  BY <1>1, <1>2, <1>3, PTL DEF Spec
-----------------------------------------------------------------------------
\* The session does not take a WORKING row for another one.
KnowsWorking(w) == run[w].loaded # "WORKING" => state # "WORKING"

\* What an execution writes last is not WORKING, and the row has it by the time the
\* log is added; the error handling of the first handler begins after that.
SettlingExecution(w) ==
    /\ run[w].pc # "busy"
    /\ run[w].pc \in {"grace", "query", "send", "errgrace", "senderr"} => KnowsWorking(w)
    /\ run[w].pc = "errgrace" => state # "WORKING"
    /\ Writing(w) =>
          /\ run[w].next \in {"idle", "query", "send", "errgrace"}
          /\ run[w].next \in {"idle", "errgrace"} =>
                /\ run[w].to # "WORKING"
                /\ IF run[w].pc = "commit" THEN KnowsWorking(w) ELSE state # "WORKING"

RowSettles ==
    /\ state = "WORKING" => \E w \in Worker : run[w].pc # "idle"
    /\ \A w \in Worker : SettlingExecution(w)

SettlesInv ==
    TypeOK /\ ("lock" \notin mishaps => Alone /\ RowSettles)

\* A step of an execution keeps its part, and ends it only when the row is settled.
LEMMA SettlingStep ==
    ASSUME TypeOK, Alone, RowSettles,
           "lock" \notin mishaps',
           NEW w \in Worker, Start(w) \/ Step(w) \/ Fault(w)
    PROVE  /\ SettlingExecution(w)'
           /\ run'[w].pc = "idle" => state' # "WORKING"
<1> USE DEF TypeOK
<1>1. TypeOK /\ Alone /\ SettlingExecution(w) /\ run[w] \in Executions
  BY DEF RowSettles
<1>2. CASE Start(w)
  <2>1. state # "WORKING"
    BY <1>2 DEF Start, RowSettles
  <2>2. run'[w] = Begun(state) /\ state' = state
    BY <1>1, <1>2 DEF Start
  <2>3. run'[w].loaded = state /\ run'[w].next \in {"query", "send"}
        /\ run'[w].pc \in {"commit", "grace", "send"}
    BY <1>1, <2>1, <2>2 DEF Begun, Idle, HandlerOf, States
  <2> QED
    BY <2>2, <2>3 DEF SettlingExecution, Writing, KnowsWorking
<1>3. CASE CommitState(w)
  <2>1. /\ run[w].pc = "commit" /\ run'[w].pc = "log"
        /\ run'[w].to = run[w].to /\ run'[w].next = run[w].next
        /\ state' = IF run[w].to = run[w].loaded THEN state ELSE run[w].to
    BY <1>1, <1>3, GoesFields DEF CommitState
  <2> QED
    BY <1>1, <2>1 DEF SettlingExecution, Writing, KnowsWorking
<1>4. CASE CommitLog(w)
  <2>1. run[w].pc = "log" /\ state' = state
    BY <1>4 DEF CommitLog
  <2>2. CASE run[w].next = "idle"
    <3>1. run'[w].pc = "idle"
      BY <1>1, <1>4, <2>2, EndsFields DEF CommitLog
    <3> QED
      BY <1>1, <2>1, <2>2, <3>1 DEF SettlingExecution, Writing
  <2>3. CASE run[w].next # "idle"
    <3>1. run'[w].pc = run[w].next /\ run'[w].loaded = state
      BY <1>1, <1>4, <2>3 DEF CommitLog, Executions
    <3> QED
      BY <1>1, <2>1, <2>3, <3>1 DEF SettlingExecution, Writing, KnowsWorking
  <2> QED
    BY <2>2, <2>3
<1>5. CASE Busy(w)
  BY <1>1, <1>5 DEF Busy, SettlingExecution
<1>6. CASE GraceCheck(w)
  <2>1. state' = state /\ run[w].pc = "grace" /\ run'[w].pc = "commit"
        /\ run'[w].loaded = run[w].loaded
        /\ \/ run'[w].to = "GRACE" /\ run'[w].next = "idle"
           \/ run'[w].next = "query"
    BY <1>1, <1>6, WritesFields DEF GraceCheck
  <2> QED
    BY <1>1, <2>1 DEF SettlingExecution, Writing, KnowsWorking
<1>7. CASE Query(w)
  <2>1. state' = state /\ run[w].pc = "query" /\ run'[w].loaded = run[w].loaded
        /\ \/ run'[w].pc \in {"send", "senderr"}
           \/ run'[w].pc = "commit" /\ run'[w].to = "NOOP" /\ run'[w].next = "idle"
           \/ run'[w].pc = "commit" /\ run'[w].to = "ERROR"
              /\ run'[w].next \in {"errgrace", "idle"}
    BY <1>1, <1>7, GoesFields, WritesFields, FailedFields DEF Query
  <2> QED
    BY <1>1, <2>1 DEF SettlingExecution, Writing, KnowsWorking
<1>8. CASE Send(w) \/ SendInPart(w)
  <2>1. state' = state /\ run[w].pc = "send" /\ run'[w].loaded = run[w].loaded
        /\ run'[w].pc = "commit" /\ run'[w].to \in {"SUCCESS", "ERROR"}
        /\ run'[w].next \in {"errgrace", "idle"}
    BY <1>1, <1>8, WritesFields, FailedFields DEF Send, SendInPart
  <2> QED
    BY <1>1, <2>1 DEF SettlingExecution, Writing, KnowsWorking
<1>9. CASE ErrorGraceCheck(w)
  <2>1. state' = state /\ run[w].pc = "errgrace"
        /\ \/ run'[w].pc = "idle"
           \/ run'[w].pc = "senderr" /\ run'[w].loaded = run[w].loaded
    BY <1>1, <1>9, GoesFields, EndsFields DEF ErrorGraceCheck
  <2> QED
    BY <1>1, <2>1 DEF SettlingExecution, Writing, KnowsWorking
<1>10. CASE SendError(w)
  <2>1. state' = state /\ run[w].pc = "senderr" /\ run'[w].loaded = run[w].loaded
        /\ run'[w].pc = "commit" /\ run'[w].to = "ERROR" /\ run'[w].next = "idle"
    BY <1>1, <1>10, WritesFields DEF SendError
  <2> QED
    BY <1>1, <2>1 DEF SettlingExecution, Writing, KnowsWorking
<1> QED
  BY <1>2, <1>3, <1>4, <1>5, <1>6, <1>7, <1>8, <1>9, <1>10
  DEF Step, Fault, SendErrorFails, Crash

\* Until executions overlap, one is killed or owners cannot be told of an error, the
\* row says WORKING only as long as an execution is under way.
THEOREM ScheduleSettles == Spec => []WorkingMeansRunning
<1>1. Init => SettlesInv
  <2> SUFFICES ASSUME Init PROVE SettlesInv
    OBVIOUS
  <2>1. TypeOK
    BY ScheduleTypeInit
  <2> QED
    BY <2>1 DEF Init, Idle, Alone, SettlesInv, RowSettles, SettlingExecution, Writing
<1>2. SettlesInv /\ [Next]_vars => SettlesInv'
  <2> SUFFICES ASSUME SettlesInv, [Next]_vars, "lock" \notin mishaps'
               PROVE  Alone' /\ RowSettles'
    BY ScheduleTypeStep DEF SettlesInv
  <2>1. TypeOK /\ Alone /\ RowSettles
    BY MishapsStay DEF SettlesInv
  <2>3. Alone'
    BY <2>1, AloneStep
  <2>4. ASSUME NEW w \in Worker, Start(w) \/ Step(w) \/ Fault(w)
        PROVE  RowSettles'
    <3>1. \A v \in Worker \ {w} : run'[v].pc = "idle"
      BY <2>1, <2>4, OthersIdle
    <3>2. SettlingExecution(w)' /\ (run'[w].pc = "idle" => state' # "WORKING")
      BY <2>1, <2>4, SettlingStep
    <3> QED
      BY <3>1, <3>2 DEF RowSettles, SettlingExecution, Writing
  <2>5. ASSUME UNCHANGED run, state' \in {state, "NOOP"}
        PROVE  RowSettles'
    BY <2>1, <2>5 DEF RowSettles, SettlingExecution, Writing, KnowsWorking
  <2>6. RowSettles'
    BY <2>4, <2>5 DEF Next, vars, Schedule, Deactivate, DeactivateReads, DeactivateCommits, Activate, PruneLog, Tick
  <2> QED
    BY <2>3, <2>6
<1>3. SettlesInv => WorkingMeansRunning
  BY DEF SettlesInv, RowSettles, WorkingMeansRunning
<1> QED
  BY <1>1, <1>2, <1>3, PTL DEF Spec
=============================================================================
