---------------------------- MODULE SqlLab_proofs ----------------------------
(***************************************************************************)
(* Proofs about SQL Lab: types, then what the server's row promises by         *)
(* itself (StopEndsWork, KeyHasResults), then what the page makes of it           *)
(* (SuccessHasData, ConclusionKept), then what the polls see of it (NoPollMisses).    *)
(***************************************************************************)
EXTENDS SqlLab, TLAPS

\* A commit changes the row's stamp and what it is meant to change.
LEMMA CommitsType ==
    ASSUME ServerAssumption, now \in 0 .. MaxTime, NEW r \in Rows, Commits(r)
    PROVE  /\ row' \in Rows
           /\ row'.status = r.status /\ row'.key = r.key
  <1>1. PICK lag \in 0 .. MaxLag : row' = [r EXCEPT !.changed = now - lag]
    BY DEF Commits
  <1>2. now - lag \in -MaxLag .. MaxTime
    BY DEF ServerAssumption
  <1> QED BY <1>1, <1>2 DEF Rows

LEMMA CommitsStatusType ==
    ASSUME ServerAssumption, ServerTypeOK, NEW s \in Statuses, CommitsStatus(s)
    PROVE  row' \in Rows /\ row'.status = s /\ row'.key = row.key
  <1>1. [row EXCEPT !.status = s] \in Rows /\ [row EXCEPT !.status = s].status = s
        /\ [row EXCEPT !.status = s].key = row.key
    BY DEF ServerTypeOK, Rows
  <1> QED BY <1>1, CommitsType DEF CommitsStatus, ServerTypeOK

Tasks == [pc : {"none", "queued", "check", "statement", "store", "finish"} \cup Over,
          left : 0 .. Statements]

LEMMA TaskGoesType ==
    ASSUME task \in Tasks, NEW from,
           NEW to \in {"queued", "check", "statement", "store", "finish"} \cup Over,
           TaskGoes(from, to)
    PROVE  task' \in Tasks /\ task.pc = from /\ task'.pc = to /\ task'.left = task.left
  BY DEF TaskGoes, Tasks

-----------------------------------------------------------------------------
\* A task that is to check or to run a statement has one left.
HasWork == task.pc \in {"none", "queued", "check", "statement"} => task.left # 0

\* There is no task before the request has launched it.
NotLaunched == web \in {"none", "posted"} => task.pc = "none"

LEMMA ServerTypeStep ==
    ASSUME ServerAssumption, ServerTypeOK, HasWork, NotLaunched, ServerNext
    PROVE  ServerTypeOK' /\ HasWork' /\ NotLaunched'
  <1> USE DEF ServerTypeOK, HasWork, NotLaunched
  <1>0. task \in Tasks /\ row \in Rows BY DEF Tasks
  <1>s. \A s \in Statuses : CommitsStatus(s) => row' \in Rows
    BY CommitsStatusType
  <1>g. ASSUME NEW from, NEW to \in {"queued", "check", "statement", "store", "finish"} \cup Over,
               TaskGoes(from, to)
        PROVE  task' \in Tasks /\ task.pc = from /\ task'.pc = to /\ task'.left = task.left
    BY <1>0, <1>g, TaskGoesType
  <1>1. CASE Launch
    <2>1. task' \in Tasks /\ HasWork' /\ NotLaunched' BY <1>0, <1>1 DEF Launch, Tasks
    <2>2. row' \in Rows BY <1>1, <1>s DEF Launch, Statuses
    <2> QED BY <1>1, <2>1, <2>2 DEF Launch, Tasks
  <1>2. CASE LaunchFails
    <2>2. row' \in Rows BY <1>0, <1>2, <1>s DEF LaunchFails, Statuses
    <2> QED BY <1>2, <2>2 DEF LaunchFails
  <1>17. CASE LaunchFailsLate
    <2>2. row' \in Rows BY <1>17, <1>s DEF LaunchFailsLate, Statuses
    <2> QED BY <1>17, <2>2 DEF LaunchFailsLate, ServerAssumption
  <1>3. CASE AnswerAsync BY <1>3 DEF AnswerAsync
  <1>4. CASE AnswerSync
    <2>2. row' \in Rows BY <1>0, <1>4, <1>s DEF AnswerSync, Statuses
    <2> QED BY <1>4, <2>2 DEF AnswerSync
  <1>5. CASE Begin
    <2>1. task' \in Tasks /\ HasWork' /\ NotLaunched' BY <1>5, <1>g DEF Begin
    <2>2. row' \in Rows BY <1>5, <1>s DEF Begin, Statuses
    <2> QED BY <1>5, <2>1, <2>2 DEF Begin, Tasks
  <1>6. CASE CheckStopped
    <2>1. task' \in Tasks /\ HasWork' /\ NotLaunched' BY <1>6, <1>g DEF CheckStopped, Over
    <2> QED BY <1>6, <2>1 DEF CheckStopped, Tasks
  <1>7. CASE StatementDone
    <2>1. task' \in Tasks /\ HasWork' /\ NotLaunched'
      BY <1>0, <1>7 DEF StatementDone, Tasks, ServerAssumption
    <2> QED BY <1>7, <2>1 DEF StatementDone, Tasks
  <1>8. CASE StatementStopped
    <2>1. task' \in Tasks /\ HasWork' /\ NotLaunched' BY <1>8, <1>g DEF StatementStopped, Over
    <2> QED BY <1>8, <2>1 DEF StatementStopped, Tasks
  <1>9. CASE TaskFails
    <2>1. task' \in Tasks /\ HasWork' /\ NotLaunched' BY <1>9, <1>g DEF TaskFails, Over
    <2>2. row' \in Rows BY <1>9, <1>s DEF TaskFails, Statuses
    <2> QED BY <1>9, <2>1, <2>2 DEF TaskFails, Tasks
  <1>10. CASE Store
    <2>1. task' \in Tasks /\ HasWork' /\ NotLaunched' BY <1>10, <1>g DEF Store
    <2> QED BY <1>10, <2>1 DEF Store, Tasks, Stores, Hows
  <1>11. CASE Finish
    <2>1. task' \in Tasks /\ HasWork' /\ NotLaunched' BY <1>11, <1>g DEF Finish, Over
    <2>3. [row EXCEPT !.status = "success", !.key = Stores] \in Rows
      BY <1>0 DEF Rows, Statuses, Stores, Hows
    <2>2. row' \in Rows BY <1>11, <2>3, CommitsType DEF Finish
    <2> QED BY <1>11, <2>1, <2>2 DEF Finish, Tasks
  <1>12. CASE Killed
    <2>1. task' \in Tasks /\ HasWork' /\ NotLaunched' BY <1>0, <1>12 DEF Killed, Tasks, Over
    <2> QED BY <1>12, <2>1 DEF Killed, Tasks
  <1>13. CASE StopReads BY <1>13 DEF StopReads
  <1>14. CASE StopGivesUp BY <1>14 DEF StopGivesUp
  <1>15. CASE StopWrites
    <2>2. row' \in Rows BY <1>15, <1>s DEF StopWrites, Statuses
    <2>3. stopLeft' \in -1 .. Statements
      BY <1>0, <1>15 DEF StopWrites, Tasks, ServerAssumption
    <2> QED BY <1>15, <2>2, <2>3 DEF StopWrites
  <1>16. CASE Tick BY <1>16 DEF Tick, ServerAssumption
  <1> QED
    BY <1>1, <1>2, <1>3, <1>4, <1>5, <1>6, <1>7, <1>8, <1>9, <1>10, <1>11, <1>12, <1>13, <1>14,
       <1>15, <1>16, <1>17 DEF ServerNext, WebStep, TaskStep, StopStep

-----------------------------------------------------------------------------
\* A stop is written once to a task between its first and its last statement, and stays
\* in the row while there may be a statement to begin.
StopHeeded ==
    stopLeft # -1 =>
        /\ task.pc \notin {"none", "queued"}
        /\ task.pc = "statement" => row.status = "stopped" /\ task.left = stopLeft
        /\ task.pc = "check" => row.status = "stopped"
        /\ task.left >= stopLeft - 1

\* What the key and the status of a row, or of what a poll has seen of it, say.
Sound(r) ==
    /\ r.status = "success" => r.key = Stores
    /\ r.status \in {"none", "pending", "running"} => ~r.key

KeyStored ==
    /\ row.key => task.pc = "success" /\ results
    /\ task.pc = "finish" => results = Stores
    /\ Sound(row)

ServerInv == ServerTypeOK /\ HasWork /\ NotLaunched /\ StopHeeded /\ KeyStored

LEMMA StopHeededStep ==
    ASSUME ServerAssumption, ServerInv, ServerNext
    PROVE  StopHeeded'
  <1> USE DEF ServerInv, ServerTypeOK, NotLaunched, StopHeeded
  <1>0. task \in Tasks /\ row \in Rows /\ stopLeft \in -1 .. Statements BY DEF Tasks
  <1>s. \A s \in Statuses : CommitsStatus(s) => row'.status = s
    BY CommitsStatusType
  <1>1. CASE Launch BY <1>0, <1>1 DEF Launch, Tasks
  <1>2. CASE LaunchFails BY <1>0, <1>2 DEF LaunchFails
  <1>17. CASE LaunchFailsLate BY <1>17 DEF LaunchFailsLate
  <1>3. CASE AnswerAsync BY <1>3 DEF AnswerAsync
  <1>4. CASE AnswerSync BY <1>0, <1>4, <1>s DEF AnswerSync, Statuses
  <1>5. CASE Begin BY <1>0, <1>5 DEF Begin, TaskGoes
  <1>6. CASE CheckStopped BY <1>0, <1>6 DEF CheckStopped, TaskGoes, Tasks
  <1>7. CASE StatementDone BY <1>0, <1>7 DEF StatementDone, Tasks
  <1>8. CASE StatementStopped BY <1>0, <1>8 DEF StatementStopped, TaskGoes, Tasks
  <1>9. CASE TaskFails BY <1>0, <1>9 DEF TaskFails, TaskGoes, Tasks
  <1>10. CASE Store BY <1>0, <1>10 DEF Store, TaskGoes, Tasks
  <1>11. CASE Finish BY <1>0, <1>11 DEF Finish, TaskGoes, Tasks
  <1>12. CASE Killed BY <1>0, <1>12 DEF Killed, TaskGoes, Tasks
  <1>13. CASE StopReads BY <1>13 DEF StopReads
  <1>14. CASE StopGivesUp BY <1>14 DEF StopGivesUp
  <1>15. CASE StopWrites
    <2>1. row'.status = "stopped" BY <1>15, <1>s DEF StopWrites, Statuses
    <2>2. task.left \in 0 .. Statements BY <1>0 DEF Tasks
    <2> QED BY <1>0, <1>15, <2>1, <2>2 DEF StopWrites
  <1>16. CASE Tick BY <1>16 DEF Tick
  <1> QED
    BY <1>1, <1>2, <1>3, <1>4, <1>5, <1>6, <1>7, <1>8, <1>9, <1>10, <1>11, <1>12, <1>13, <1>14,
       <1>15, <1>16, <1>17 DEF ServerNext, WebStep, TaskStep, StopStep

LEMMA KeyStoredStep ==
    ASSUME ServerAssumption, ServerInv, ServerNext
    PROVE  KeyStored' /\ (row.key => row'.key)
  <1> USE DEF ServerInv, ServerTypeOK, NotLaunched, KeyStored, Sound, Stores
  <1>0. task \in Tasks /\ row \in Rows BY DEF Tasks
  <1>s. \A s \in Statuses : CommitsStatus(s) => row'.status = s /\ row'.key = row.key
    BY CommitsStatusType
  <1>1. CASE Launch BY <1>0, <1>1, <1>s DEF Launch, Tasks, Statuses
  <1>2. CASE LaunchFails BY <1>0, <1>2, <1>s DEF LaunchFails, Statuses
  <1>17. CASE LaunchFailsLate BY <1>0, <1>17, <1>s DEF LaunchFailsLate, Statuses
  <1>3. CASE AnswerAsync BY <1>3 DEF AnswerAsync
  <1>4. CASE AnswerSync BY <1>0, <1>4, <1>s DEF AnswerSync, Statuses
  <1>5. CASE Begin BY <1>0, <1>5, <1>s DEF Begin, TaskGoes, Tasks, Statuses
  <1>6. CASE CheckStopped BY <1>0, <1>6 DEF CheckStopped, TaskGoes, Tasks
  <1>7. CASE StatementDone BY <1>0, <1>7 DEF StatementDone, Tasks
  <1>8. CASE StatementStopped BY <1>0, <1>8 DEF StatementStopped, TaskGoes, Tasks
  <1>9. CASE TaskFails BY <1>0, <1>9, <1>s DEF TaskFails, TaskGoes, Tasks, Statuses
  <1>10. CASE Store BY <1>0, <1>10 DEF Store, TaskGoes, Tasks
  <1>11. CASE Finish
    <2>1. [row EXCEPT !.status = "success", !.key = Stores] \in Rows
          /\ [row EXCEPT !.status = "success", !.key = Stores].status = "success"
          /\ [row EXCEPT !.status = "success", !.key = Stores].key = Stores
      BY <1>0 DEF Rows, Statuses, Hows
    <2>2. row'.status = "success" /\ row'.key = Stores
      BY <1>11, <2>1, CommitsType DEF Finish
    <2>3. task.pc = "finish" /\ task'.pc = "success" /\ UNCHANGED <<results, how>>
      BY <1>0, <1>11 DEF Finish, TaskGoes, Tasks
    <2> QED BY <2>2, <2>3
  <1>12. CASE Killed BY <1>0, <1>12 DEF Killed, TaskGoes, Tasks, Over
  <1>13. CASE StopReads BY <1>13 DEF StopReads
  <1>14. CASE StopGivesUp BY <1>14 DEF StopGivesUp
  <1>15. CASE StopWrites BY <1>0, <1>15, <1>s DEF StopWrites, Statuses
  <1>16. CASE Tick BY <1>16 DEF Tick
  <1> QED
    BY <1>1, <1>2, <1>3, <1>4, <1>5, <1>6, <1>7, <1>8, <1>9, <1>10, <1>11, <1>12, <1>13, <1>14,
       <1>15, <1>16, <1>17 DEF ServerNext, WebStep, TaskStep, StopStep

-----------------------------------------------------------------------------
\* The page.  An action of the page leaves the server alone, but for the requests it
\* sends and takes the answers of.
Pages == [state : {"none"} \cup InProgress \cup Concluded, key : BOOLEAN, data : BOOLEAN]

PageActs ==
    \/ Run \/ AnswerReceived \/ ResultsReceived \/ StoppedReceived \/ AnswerLost
    \/ SentAgain \/ RepeatReceived
    \/ PollServed \/ PollReceived \/ PollFails \/ FetchReceived \/ FetchFails
    \/ ClickStop \/ StopReceived \/ StopFailed

LEMMA PageActsOnServer ==
    ASSUME ServerInv, PageActs
    PROVE  ServerInv' /\ UNCHANGED <<row, how, task, results, now>>
  <1>1. /\ UNCHANGED <<now, how, row, task, results, stopLeft>>
        /\ web' \in {"posted", "done", web}
        /\ web' = "posted" => web \in {"none", "posted"}
        /\ stopping' \in {"none", "asked", stopping}
    BY DEF PageActs, Run, AnswerReceived, ResultsReceived, StoppedReceived, AnswerLost,
           SentAgain, RepeatReceived,
           PollServed, PollsFrom, PollReceived, PollFails, FetchReceived, FetchFails,
           ClickStop, StopReceived, StopFailed, serverVars, pageVars
  <1> QED
    BY <1>1 DEF ServerInv, ServerTypeOK, HasWork, NotLaunched, StopHeeded, KeyStored, Sound, Stores

LEMMA ShowsType ==
    ASSUME NEW p \in Pages, Shows(p),
           fetches \subseteq {"pending", "running", "stopped", "success", "failed", "fetching"},
           p.state # "none", page \in Pages
    PROVE  /\ page' \in Pages /\ page'.key = p.key /\ page'.data = p.data
           /\ fetches' \subseteq {"pending", "running", "stopped", "success", "failed", "fetching"}
           /\ \/ p.key /\ ~page.key /\ page'.state = "fetching"
              \/ (p.key => page.key) /\ page' = p /\ fetches' = fetches
  BY DEF Shows, Pages, InProgress, Concluded

Sights == [status : Statuses, key : BOOLEAN]

PollAnswers == [seen : Sights, latest : 0 .. MaxTime + Ahead]

PageTypeOK ==
    /\ page \in Pages
    /\ post \in Posts /\ unsynced \in BOOLEAN
    /\ lastUpdate \in 0 .. MaxTime + Ahead
    /\ polls \subseteq PollAnswers
    /\ fetches \subseteq {"pending", "running", "stopped", "success", "failed", "fetching"}

LEMMA SightsType == Unseen \in Sights /\ (row \in Rows => Seen \in Sights)
  BY DEF Unseen, Seen, Sights, Rows, Statuses

LEMMA PollsFromType ==
    ASSUME ServerAssumption, PageAssumption, ServerTypeOK, PageTypeOK, NEW from \in Int, PollsFrom(from)
    PROVE  PageTypeOK'
  <1>1. PICK other \in {lastUpdate, now} :
          \/ polls' = polls \cup {[seen |-> Seen, latest |-> Later(other, row.changed)]}
          \/ polls' = polls \cup {[seen |-> Unseen, latest |-> other]}
    BY DEF PollsFrom
  <1>2. other \in 0 .. MaxTime + Ahead /\ Later(other, row.changed) \in 0 .. MaxTime + Ahead
    BY DEF ServerAssumption, PageAssumption, ServerTypeOK, PageTypeOK, Rows, Later
  <1>3. Seen \in Sights /\ Unseen \in Sights BY SightsType DEF ServerTypeOK
  <1> QED BY <1>1, <1>2, <1>3 DEF PageTypeOK, PollAnswers, PollsFrom

LEMMA RefreshedType ==
    ASSUME page \in Pages, NEW seen \in Sights, seen.status # "none"
    PROVE  /\ Refreshed(seen) \in Pages /\ Refreshed(seen).key = seen.key
           /\ Refreshed(seen).data = page.data
           /\ Refreshed(seen).state = IF seen.status = "success"
                                         /\ page.state \in {"fetching", "success"}
                                     THEN page.state ELSE seen.status
           /\ Refreshed(seen).state # "none"
  BY DEF Refreshed, Pages, Sights, Statuses, InProgress, Concluded

-----------------------------------------------------------------------------
\* What the page has of the query is no newer than the row, and what a poll has seen is
\* no older than what the page fetches or shows the results of.
Kept ==
    /\ fetches # {} \/ page.state \in {"success", "fetching"} =>
          row.key /\ \A p \in polls : p.seen = Unseen \/ p.seen.key
    /\ page.state \in {"success", "fetching"} => page.key

PageSound ==
    /\ web = "none" => post = "no"
    /\ web = "stopped" => task.pc = "stopped" /\ ~how.async
    /\ page.state \in {"none", "pending", "running"} => ~page.key
    /\ \A p, q \in polls : p = q
    /\ \A p \in polls : p.seen = Unseen
                         \/ (p.seen.status # "none" /\ Sound(p.seen) /\ (p.seen.key => row.key))

PageInv == PageTypeOK /\ PageSound /\ SuccessHasData /\ (how.async => Kept)

LEMMA ServerStepOnPage ==
    ASSUME ServerTypeOK, NotLaunched, ServerNext
    PROVE  /\ how' = how
           /\ task.pc = "stopped" => task'.pc = "stopped"
           /\ web' = "stopped" => web = "stopped" \/ (task.pc = "stopped" /\ ~how.async)
           /\ web' = "none" => web = "none"
  <1>0. task \in Tasks BY DEF ServerTypeOK, Tasks
  <1>1. CASE WebStep
    BY <1>0, <1>1 DEF Tasks, WebStep, Launch, LaunchFails, LaunchFailsLate, AnswerAsync,
                      AnswerSync, NotLaunched
  <1>2. CASE TaskStep
    BY <1>0, <1>2 DEF Tasks, TaskStep, Begin, CheckStopped, StatementDone, StatementStopped,
                      TaskFails, Store, Finish, TaskGoes
  <1>3. CASE Killed BY <1>0, <1>3 DEF Tasks, Killed, Over
  <1>4. CASE StopStep \/ Tick
    BY <1>4 DEF StopStep, StopReads, StopGivesUp, StopWrites, Tick
  <1> QED BY <1>1, <1>2, <1>3, <1>4 DEF ServerNext

LEMMA PageInvServerStep ==
    ASSUME ServerAssumption, ServerInv, PageInv, ServerNext, UNCHANGED pageVars
    PROVE  PageInv'
  <1>1. ServerTypeOK' /\ (row.key => row'.key)
    BY ServerTypeStep, KeyStoredStep DEF ServerInv
  <1>2. /\ how' = how
        /\ task.pc = "stopped" => task'.pc = "stopped"
        /\ web' = "stopped" => web = "stopped" \/ (task.pc = "stopped" /\ ~how.async)
        /\ web' = "none" => web = "none"
    BY ServerStepOnPage DEF ServerInv
  <1>3. PageTypeOK' BY DEF PageInv, PageTypeOK, pageVars
  <1>4. PageSound' BY <1>1, <1>2 DEF PageInv, PageSound, pageVars, Sound, Stores
  <1>5. SuccessHasData' BY <1>2 DEF PageInv, SuccessHasData, pageVars, Stores
  <1>6. (how.async => Kept)' BY <1>1, <1>2 DEF PageInv, Kept, pageVars
  <1> QED BY <1>3, <1>4, <1>5, <1>6 DEF PageInv

\* A request sent again that finds the query there touches its state and data only.
LEMMA RepeatReceivedStep ==
    ASSUME PageTypeOK, RepeatReceived
    PROVE  /\ post' \in Posts /\ unsynced' \in BOOLEAN /\ UNCHANGED <<fetches, lastUpdate, polls>>
           /\ \/ page' = page
              \/ ~how.async /\ page' = [page EXCEPT !.state = "success", !.data = FALSE]
           /\ ~how.async => post' = "bare"
  <1>1. CASE how.async BY <1>1 DEF RepeatReceived, PageTypeOK, Posts
  <1>2. CASE ~how.async
    <2> DEFINE p == [page EXCEPT !.state = "success", !.data = FALSE]
    <2>1. p.key = page.key BY DEF PageTypeOK, Pages
    <2>2. Succeeds(p) /\ post' = "bare" /\ UNCHANGED <<lastUpdate, polls>>
      BY <1>2 DEF RepeatReceived
    <2> HIDE DEF p
    <2>3. CASE Shows(p) /\ UNCHANGED unsynced
      <3>1. page' = p /\ UNCHANGED fetches BY <2>1, <2>3 DEF Shows
      <3> QED BY <1>2, <2>2, <2>3, <3>1 DEF p, PageTypeOK, Posts
    <2>4. CASE unsynced' = TRUE /\ UNCHANGED <<page, fetches>> BY <1>2, <2>2, <2>4 DEF Posts
    <2> QED BY <2>2, <2>3, <2>4 DEF Succeeds
  <1> QED BY <1>1, <1>2

LEMMA BareStays == PageSound /\ post = "bare" /\ PageActs => post' = "bare"
  <1> SUFFICES ASSUME PageSound, post = "bare", PageActs PROVE post' = "bare" OBVIOUS
  <1>1. ~Run BY DEF Run, PageSound
  <1>2. ~(AnswerReceived \/ ResultsReceived \/ StoppedReceived)
    BY DEF AnswerReceived, ResultsReceived, StoppedReceived
  <1>3. ~(AnswerLost \/ SentAgain \/ RepeatReceived)
    BY DEF AnswerLost, SentAgain, RepeatReceived
  <1>4. CASE PollServed \/ PollReceived \/ PollFails \/ FetchReceived \/ FetchFails
    BY <1>4 DEF PollServed, PollsFrom, PollReceived, PollFails, FetchReceived, FetchFails
  <1>5. CASE ClickStop \/ StopReceived \/ StopFailed
    BY <1>5 DEF ClickStop, StopReceived, StopFailed, pageVars
  <1> QED BY <1>1, <1>2, <1>3, <1>4, <1>5 DEF PageActs

\* What an action of the page has to establish: the server's part of PageInv is as before.
LEMMA PageTypeStep ==
    ASSUME ServerAssumption, PageAssumption, ServerInv, PageInv, PageActs
    PROVE  PageTypeOK'
  <1> USE DEF PageInv, PageTypeOK, Posts
  <1>14. CASE SentAgain BY <1>14 DEF SentAgain
  <1>15. CASE RepeatReceived
    <2>1. page' \in Pages BY <1>15, RepeatReceivedStep DEF Pages, Concluded
    <2> QED BY <1>15, <2>1, RepeatReceivedStep
  <1>1. CASE Run BY <1>1 DEF Run, Pages, InProgress
  <1>2. CASE AnswerReceived BY <1>2 DEF AnswerReceived, Pages, Concluded
  <1>3. CASE ResultsReceived
    <2> DEFINE p == [page EXCEPT !.state = "success", !.data = TRUE, !.key = @ \/ Stores]
    <2>1. p \in Pages /\ p.state # "none"
      BY DEF Pages, Concluded, Stores, ServerInv, ServerTypeOK, Hows
    <2>2. /\ Succeeds(p) /\ UNCHANGED <<lastUpdate, polls>> /\ post' = "no"
      BY <1>3 DEF ResultsReceived
    <2>3. CASE Shows(p) /\ UNCHANGED unsynced BY <2>1, <2>2, <2>3, ShowsType
    <2>4. CASE unsynced' = TRUE /\ UNCHANGED <<page, fetches>> BY <2>2, <2>4
    <2> QED BY <2>2, <2>3, <2>4 DEF Succeeds
  <1>4. CASE StoppedReceived BY <1>4 DEF StoppedReceived, Pages, Concluded
  <1>5. CASE AnswerLost BY <1>5 DEF AnswerLost, Pages, Concluded
  <1>6. CASE PollServed
    <2>1. lastUpdate - Buffer \in Int BY DEF ServerAssumption, PageAssumption
    <2> QED BY <1>6, <2>1, PollsFromType DEF PollServed, ServerInv
  <1>7. CASE PollReceived
    <2>1. PICK p \in polls :
            /\ polls' = polls \ {p}
            /\ \/ /\ p.seen # Unseen /\ page.state \notin {"stopped", "failed"}
                  /\ lastUpdate' = Later(lastUpdate, p.latest)
                  /\ Shows(Refreshed(p.seen))
               \/ /\ lastUpdate' \in {lastUpdate, Later(lastUpdate, p.latest)}
                  /\ UNCHANGED <<page, fetches>>
            /\ UNCHANGED <<serverVars, post, unsynced>>
      BY <1>7 DEF PollReceived
    <2>2. p.seen \in Sights /\ p.latest \in 0 .. MaxTime + Ahead
      BY <2>1 DEF PollAnswers
    <2>3. lastUpdate' \in 0 .. MaxTime + Ahead
      BY <2>1, <2>2 DEF Later, ServerAssumption, PageAssumption
    <2>4. CASE p.seen # Unseen /\ Shows(Refreshed(p.seen))
      <3>1. p.seen.status # "none" BY <2>1, <2>4 DEF PageSound
      <3>2. Refreshed(p.seen) \in Pages /\ Refreshed(p.seen).state # "none"
        BY <2>2, <3>1, RefreshedType
      <3> QED BY <2>1, <2>3, <2>4, <3>2, ShowsType
    <2>5. CASE UNCHANGED <<page, fetches>> BY <2>1, <2>3, <2>5
    <2> QED BY <2>1, <2>4, <2>5
  <1>8. CASE PollFails BY <1>8 DEF PollFails
  <1>9. CASE FetchReceived
    <2>1. [state |-> "success", key |-> TRUE, data |-> TRUE] \in Pages BY DEF Pages, Concluded
    <2>2. page' \in Pages BY <1>9, <2>1 DEF FetchReceived
    <2>3. unsynced' \in BOOLEAN /\ fetches' \subseteq fetches /\ UNCHANGED <<post, lastUpdate, polls>>
      BY <1>9 DEF FetchReceived
    <2> QED BY <2>2, <2>3
  <1>10. CASE FetchFails BY <1>10 DEF FetchFails, Pages, Concluded
  <1>11. CASE ClickStop BY <1>11 DEF ClickStop, pageVars
  <1>12. CASE StopReceived BY <1>12 DEF StopReceived, Pages, Concluded
  <1>13. CASE StopFailed BY <1>13 DEF StopFailed, pageVars
  <1> QED
    BY <1>1, <1>2, <1>3, <1>4, <1>5, <1>6, <1>7, <1>8, <1>9, <1>10, <1>11, <1>12, <1>13,
       <1>14, <1>15 DEF PageActs

\* The three ways a set of polls may change.
LEMMA PollsStep ==
    ASSUME ServerInv, PageInv, PageActs
    PROVE  /\ \A p, q \in polls' : p = q
           /\ \/ polls' \subseteq polls
              \/ /\ PollServed /\ polls = {}
                 /\ \A p \in polls' : p.seen = Unseen \/ (p.seen = Seen /\ row.status # "none")
  <1>1. CASE PollServed
    <2>1. polls = {} /\ PollsFrom(lastUpdate - Buffer) BY <1>1 DEF PollServed
    <2>2. PICK other \in {lastUpdate, now} :
            \/ row.status # "none" /\ polls' = {[seen |-> Seen, latest |-> Later(other, row.changed)]}
            \/ polls' = {[seen |-> Unseen, latest |-> other]}
      BY <2>1 DEF PollsFrom
    <2> QED BY <1>1, <2>1, <2>2
  <1>2. CASE ~PollServed
    <2>1. polls' \subseteq polls
      BY <1>2 DEF PageActs, Run, AnswerReceived, ResultsReceived, StoppedReceived, AnswerLost,
           SentAgain, RepeatReceived,
             PollReceived, PollFails, FetchReceived, FetchFails,
             ClickStop, StopReceived, StopFailed, pageVars
    <2> QED BY <2>1 DEF PageInv, PageSound
  <1> QED BY <1>1, <1>2

\* What becomes of the page when a poll is received.
LEMMA PollReceivedStep ==
    ASSUME ServerAssumption, ServerInv, PageInv, PollReceived
    PROVE  \E p \in polls :
             /\ polls' = polls \ {p}
             /\ \/ UNCHANGED <<page, fetches>>
                \/ /\ p.seen # Unseen /\ page.state \notin {"stopped", "failed"}
                   /\ p.seen \in Sights /\ p.seen.status # "none" /\ Sound(p.seen)
                   /\ p.seen.key => row.key
                   /\ page'.key = p.seen.key /\ page'.data = page.data
                   /\ \/ p.seen.key /\ ~page.key /\ page'.state = "fetching"
                      \/ /\ p.seen.key => page.key
                         /\ page'.state = IF p.seen.status = "success"
                                             /\ page.state \in {"fetching", "success"}
                                         THEN page.state ELSE p.seen.status
                         /\ fetches' = fetches
  <1>1. PICK p \in polls :
          /\ polls' = polls \ {p}
          /\ \/ /\ p.seen # Unseen /\ page.state \notin {"stopped", "failed"}
                /\ Shows(Refreshed(p.seen))
             \/ UNCHANGED <<page, fetches>>
    BY DEF PollReceived
  <1>2. CASE p.seen # Unseen /\ page.state \notin {"stopped", "failed"}
             /\ Shows(Refreshed(p.seen))
    <2>1. p.seen \in Sights /\ p.seen.status # "none" /\ Sound(p.seen) /\ (p.seen.key => row.key)
      BY <1>1, <1>2 DEF PageInv, PageSound, PageTypeOK, PollAnswers
    <2>2. page \in Pages BY DEF PageInv, PageTypeOK
    <2> HIDE DEF Refreshed
    <2> DEFINE r == Refreshed(p.seen)
    <2>3. /\ r \in Pages /\ r.key = p.seen.key /\ r.data = page.data /\ r.state # "none"
          /\ r.state = IF p.seen.status = "success" /\ page.state \in {"fetching", "success"}
                       THEN page.state ELSE p.seen.status
      BY <2>1, <2>2, RefreshedType
    <2>4. /\ page'.key = r.key /\ page'.data = r.data
          /\ \/ r.key /\ ~page.key /\ page'.state = "fetching"
             \/ (r.key => page.key) /\ page' = r /\ fetches' = fetches
      BY <1>2, <2>2, <2>3, ShowsType DEF PageInv, PageTypeOK
    <2>5. \/ p.seen.key /\ ~page.key /\ page'.state = "fetching"
          \/ /\ p.seen.key => page.key
             /\ page'.state = IF p.seen.status = "success"
                                 /\ page.state \in {"fetching", "success"}
                             THEN page.state ELSE p.seen.status
             /\ fetches' = fetches
      BY <2>3, <2>4
    <2> QED BY <1>1, <1>2, <2>1, <2>3, <2>4, <2>5
  <1> QED BY <1>1, <1>2

LEMMA ResultsReceivedStep ==
    ASSUME ServerInv, PageInv, ResultsReceived
    PROVE  \/ UNCHANGED page
           \/ page'.data /\ (page'.key = (page.key \/ Stores)) /\ page'.state \in {"success", "fetching"}
  <1> DEFINE p == [page EXCEPT !.state = "success", !.data = TRUE, !.key = @ \/ Stores]
  <1>1. p \in Pages /\ p.state = "success" /\ p.data /\ p.key = (page.key \/ Stores)
    BY DEF PageInv, PageTypeOK, Pages, Concluded, Stores, ServerInv, ServerTypeOK, Hows
  <1>2. Succeeds(p) BY DEF ResultsReceived
  <1>3. CASE Shows(p) BY <1>1, <1>3, ShowsType DEF PageInv, PageTypeOK
  <1> QED BY <1>2, <1>3 DEF Succeeds

LEMMA PageSoundStep ==
    ASSUME ServerAssumption, ServerInv, PageInv, PageActs
    PROVE  PageSound'
  <1> USE DEF PageInv, PageSound
  <1>0. UNCHANGED <<row, how, task>> /\ (web' = "stopped" => web = "stopped")
    BY PageActsOnServer
       DEF PageActs, Run, AnswerReceived, ResultsReceived, StoppedReceived, AnswerLost,
           SentAgain, RepeatReceived,
           PollServed, PollsFrom, PollReceived, PollFails, FetchReceived, FetchFails,
           ClickStop, StopReceived, StopFailed, serverVars, pageVars
  <1>1. (web = "stopped" => task.pc = "stopped" /\ ~how.async)' BY <1>0
  <1>5. (web = "none" => post = "no")'
    BY DEF PageActs, Run, AnswerReceived, ResultsReceived, StoppedReceived, AnswerLost,
           SentAgain, RepeatReceived, PollServed, PollsFrom, PollReceived, PollFails,
           FetchReceived, FetchFails, ClickStop, StopReceived, StopFailed, serverVars, pageVars
  <1>2. (\A p, q \in polls : p = q)' BY PollsStep
  <1>3. (\A p \in polls : p.seen = Unseen
                          \/ (p.seen.status # "none" /\ Sound(p.seen) /\ (p.seen.key => row.key)))'
    BY <1>0, PollsStep DEF Sound, Stores, ServerInv, KeyStored, Unseen, Seen
  <1>4. (page.state \in {"none", "pending", "running"} => ~page.key)'
    <2>0. page \in Pages BY DEF PageTypeOK
    <2>11. CASE SentAgain BY <2>11 DEF SentAgain
    <2>12. CASE RepeatReceived BY <2>0, <2>12, RepeatReceivedStep DEF Pages
    <2>1. CASE Run BY <2>0, <2>1 DEF Run, Pages
    <2>2. CASE AnswerReceived BY <2>0, <2>2 DEF AnswerReceived, Pages
    <2>3. CASE ResultsReceived BY <2>3, ResultsReceivedStep
    <2>4. CASE StoppedReceived BY <2>0, <2>4 DEF StoppedReceived, Pages
    <2>5. CASE AnswerLost BY <2>0, <2>5 DEF AnswerLost, Pages
    <2>6. CASE PollReceived
      <3>1. UNCHANGED page \/ \E seen \in Sights :
                /\ Sound(seen) /\ page'.key = seen.key
                /\ \/ seen.key /\ page'.state = "fetching"
                   \/ page'.state = IF seen.status = "success"
                                       /\ page.state \in {"fetching", "success"}
                                    THEN page.state ELSE seen.status
        BY <2>6, PollReceivedStep
      <3> QED BY <3>1 DEF Sound
    <2>7. CASE FetchReceived BY <2>7 DEF FetchReceived
    <2>8. CASE FetchFails BY <2>0, <2>8 DEF FetchFails, Pages
    <2>9. CASE StopReceived BY <2>0, <2>9 DEF StopReceived, Pages
    <2>10. CASE PollServed \/ PollFails \/ ClickStop \/ StopFailed
      BY <2>10 DEF PollServed, PollsFrom, PollFails, ClickStop, StopFailed, pageVars
    <2> QED
      BY <2>1, <2>2, <2>3, <2>4, <2>5, <2>6, <2>7, <2>8, <2>9, <2>10, <2>11, <2>12 DEF PageActs
  <1> QED BY <1>1, <1>2, <1>3, <1>4, <1>5

LEMMA SuccessHasDataStep ==
    ASSUME ServerAssumption, ServerInv, PageInv, PageActs
    PROVE  SuccessHasData'
  <1> USE DEF PageInv, SuccessHasData
  <1>0. UNCHANGED <<row, how, task>> /\ (Stores' <=> Stores) /\ (post = "bare" => post' = "bare")
    BY PageActsOnServer, BareStays DEF Stores
  <1>11. CASE SentAgain BY <1>0, <1>11 DEF SentAgain
  <1>12. CASE RepeatReceived BY <1>0, <1>12, RepeatReceivedStep
  <1>p. page \in Pages BY DEF PageTypeOK
  <1>1. CASE Run BY <1>p, <1>1 DEF Run, Pages
  <1>2. CASE AnswerReceived BY <1>0, <1>p, <1>2 DEF AnswerReceived, Pages
  <1>3. CASE ResultsReceived BY <1>0, <1>3, ResultsReceivedStep
  <1>4. CASE StoppedReceived BY <1>0, <1>4 DEF StoppedReceived, PageSound
  <1>5. CASE AnswerLost BY <1>p, <1>5 DEF AnswerLost, Pages
  <1>6. CASE PollReceived
    <2>1. UNCHANGED page \/ \E seen \in Sights :
              /\ page.state \notin {"stopped", "failed"}
              /\ Sound(seen) /\ page'.key = seen.key /\ page'.data = page.data
              /\ \/ seen.key /\ page'.state = "fetching"
                 \/ /\ seen.key => page.key
                    /\ page'.state = IF seen.status = "success"
                                        /\ page.state \in {"fetching", "success"}
                                    THEN page.state ELSE seen.status
      BY <1>6, PollReceivedStep
    <2>2. page.key => page.state \in {"fetching", "success", "stopped", "failed"}
      BY <1>p DEF PageSound, Pages, InProgress, Concluded
    <2> QED BY <1>0, <2>1, <2>2 DEF Sound
  <1>7. CASE FetchReceived BY <1>0, <1>7 DEF FetchReceived
  <1>8. CASE FetchFails BY <1>0, <1>p, <1>8 DEF FetchFails, Pages
  <1>9. CASE StopReceived BY <1>p, <1>9 DEF StopReceived, Pages
  <1>10. CASE PollServed \/ PollFails \/ ClickStop \/ StopFailed
    BY <1>0, <1>10 DEF PollServed, PollsFrom, PollFails, ClickStop, StopFailed, pageVars
  <1> QED
    BY <1>1, <1>2, <1>3, <1>4, <1>5, <1>6, <1>7, <1>8, <1>9, <1>10, <1>11, <1>12 DEF PageActs

LEMMA KeptStep ==
    ASSUME ServerAssumption, ServerInv, PageInv, PageActs, how.async
    PROVE  Kept' /\ (page.state \in Concluded => page'.state \in Concluded)
  <1> USE DEF PageInv, Kept, Concluded
  <1>0. UNCHANGED <<row, how, task>> /\ Stores = TRUE
    BY PageActsOnServer DEF Stores, ServerInv, ServerTypeOK, Hows
  <1>p. page \in Pages BY DEF PageTypeOK
  <1>q. ASSUME fetches' # {} \/ page'.state \in {"success", "fetching"} =>
                  fetches # {} \/ page.state \in {"success", "fetching"},
               page'.state \in {"success", "fetching"} => page'.key
        PROVE  Kept'
    BY <1>0, <1>q, PollsStep DEF Unseen, Seen
  <1>13. CASE SentAgain BY <1>q, <1>13 DEF SentAgain
  <1>14. CASE RepeatReceived
    <2>1. UNCHANGED <<page, fetches>> BY <1>14, RepeatReceivedStep
    <2> QED BY <1>q, <2>1
  <1>1. CASE Run BY <1>q, <1>p, <1>1 DEF Run, Pages
  <1>2. CASE AnswerReceived BY <1>q, <1>p, <1>2 DEF AnswerReceived, Pages
  <1>3. CASE ResultsReceived BY <1>3 DEF ResultsReceived
  <1>4. CASE StoppedReceived BY <1>4 DEF StoppedReceived, PageSound
  <1>5. CASE AnswerLost BY <1>q, <1>p, <1>5 DEF AnswerLost, Pages
  <1>6. CASE PollReceived
    <2>1. PICK p \in polls :
             /\ polls' = polls \ {p}
             /\ \/ UNCHANGED <<page, fetches>>
                \/ /\ p.seen # Unseen /\ page.state \notin {"stopped", "failed"}
                   /\ p.seen \in Sights /\ p.seen.status # "none" /\ Sound(p.seen)
                   /\ p.seen.key => row.key
                   /\ page'.key = p.seen.key /\ page'.data = page.data
                   /\ \/ p.seen.key /\ ~page.key /\ page'.state = "fetching"
                      \/ /\ p.seen.key => page.key
                         /\ page'.state = IF p.seen.status = "success"
                                             /\ page.state \in {"fetching", "success"}
                                         THEN page.state ELSE p.seen.status
                         /\ fetches' = fetches
      BY <1>6, PollReceivedStep
    <2>2. polls' = {} BY <2>1 DEF PageSound
    <2>3. CASE UNCHANGED <<page, fetches>> BY <1>0, <2>2, <2>3
    <2>4. CASE p.seen # Unseen /\ p.seen.key /\ ~page.key /\ page'.state = "fetching"
               /\ page'.key = p.seen.key /\ (p.seen.key => row.key)
               /\ page.state \notin {"stopped", "failed"}
      BY <1>0, <2>2, <2>4
    <2>5. CASE /\ p.seen # Unseen /\ p.seen \in Sights /\ p.seen.status # "none"
               /\ Sound(p.seen) /\ (p.seen.key => page.key) /\ (p.seen.key => row.key)
               /\ page.state \notin {"stopped", "failed"} /\ page'.key = p.seen.key
               /\ page'.state = IF p.seen.status = "success"
                                   /\ page.state \in {"fetching", "success"}
                               THEN page.state ELSE p.seen.status
               /\ fetches' = fetches
      <3>1. p.seen.status \in {"pending", "running", "success", "failed", "stopped"}
        BY <2>5 DEF Sights, Statuses
      <3>2. CASE p.seen.key
        <4>1. p.seen.status \in {"success", "failed", "stopped"} BY <2>5, <3>1, <3>2 DEF Sound
        <4> QED BY <1>0, <2>2, <2>5, <3>2, <4>1
      <3>3. CASE ~p.seen.key
        <4>1. p.seen.status # "success" BY <1>0, <2>5, <3>3 DEF Sound
        <4>2. page.state \notin {"success", "fetching"} /\ fetches = {}
          BY <2>1, <2>5, <3>3 DEF PageSound
        <4> QED BY <1>0, <2>2, <2>5, <3>1, <4>1, <4>2
      <3> QED BY <3>2, <3>3
    <2> QED BY <2>1, <2>3, <2>4, <2>5
  <1>7. CASE FetchReceived
    <2>1. fetches # {} /\ fetches' \subseteq fetches BY <1>7 DEF FetchReceived
    <2>2. UNCHANGED page \/ page' = [state |-> "success", key |-> TRUE, data |-> TRUE]
      BY <1>7 DEF FetchReceived
    <2> QED BY <1>q, <2>1, <2>2
  <1>8. CASE FetchFails
    <2>1. fetches # {} /\ fetches' \subseteq fetches BY <1>8 DEF FetchFails
    <2>2. UNCHANGED page \/ page' = [page EXCEPT !.state = "failed"]
      BY <1>8 DEF FetchFails
    <2> QED BY <1>p, <1>q, <2>1, <2>2 DEF Pages
  <1>9. CASE StopReceived BY <1>p, <1>q, <1>9 DEF StopReceived, Pages
  <1>10. CASE PollServed
    <2>1. UNCHANGED <<page, fetches, row>> BY <1>10, <1>0 DEF PollServed, PollsFrom
    <2> QED BY <1>10, <2>1, PollsStep DEF PollServed, Seen
  <1>11. CASE PollFails \/ ClickStop \/ StopFailed
    BY <1>q, <1>11 DEF PollFails, ClickStop, StopFailed, pageVars
  <1> QED
    BY <1>1, <1>2, <1>3, <1>4, <1>5, <1>6, <1>7, <1>8, <1>9, <1>10, <1>11,
       <1>13, <1>14 DEF PageActs

-----------------------------------------------------------------------------
Inv == ServerInv /\ PageInv

LEMMA InvInit == Init => Inv
  <1> SUFFICES ASSUME Init PROVE Inv OBVIOUS
  <1> USE ServerAssumption, PageAssumption DEF Init, ServerInit
  <1>a. 0 \in -MaxLag .. MaxTime /\ Statements \in 0 .. Statements /\ Statements # 0
        /\ -1 \in -1 .. Statements /\ 0 \in 0 .. MaxTime
    BY DEF ServerAssumption
  <1>b. row \in Rows BY <1>a DEF Rows, Statuses
  <1>c. task \in Tasks BY <1>a DEF Tasks
  <1>1. ServerTypeOK /\ HasWork
    BY <1>a, <1>b, <1>c DEF ServerTypeOK, HasWork, Tasks
  <1>2. NotLaunched /\ StopHeeded /\ KeyStored
    BY DEF NotLaunched, StopHeeded, KeyStored, Sound
  <1>d. lastUpdate \in 0 .. MaxTime + Ahead BY DEF PageAssumption, ServerAssumption
  <1>e. page \in Pages BY DEF Pages
  <1>3. PageTypeOK BY <1>d, <1>e DEF PageTypeOK, Posts
  <1>4. PageSound /\ SuccessHasData /\ Kept BY DEF PageSound, SuccessHasData, Kept
  <1> QED BY <1>1, <1>2, <1>3, <1>4 DEF Inv, ServerInv, PageInv

LEMMA InvNext == Inv /\ [Next]_vars => Inv'
  <1> SUFFICES ASSUME Inv, [Next]_vars PROVE Inv' OBVIOUS
  <1> USE ServerAssumption, PageAssumption
  <1>1. CASE ServerNext /\ UNCHANGED pageVars
    <2>1. ServerInv'
      BY <1>1, ServerTypeStep, StopHeededStep, KeyStoredStep DEF Inv, ServerInv
    <2> QED BY <1>1, <2>1, PageInvServerStep DEF Inv
  <1>2. CASE PageActs
    <2>1. ServerInv' /\ how' = how BY <1>2, PageActsOnServer DEF Inv
    <2>2. PageTypeOK' /\ PageSound' /\ SuccessHasData'
      BY <1>2, PageTypeStep, PageSoundStep, SuccessHasDataStep DEF Inv
    <2>3. how.async => Kept' BY <1>2, KeptStep DEF Inv
    <2> QED BY <2>1, <2>2, <2>3 DEF Inv, PageInv
  <1>3. CASE UNCHANGED vars
    <2>1. ServerInv'
      BY <1>3 DEF Inv, vars, serverVars, ServerInv, ServerTypeOK, HasWork, NotLaunched, StopHeeded,
                  KeyStored, Sound, Stores
    <2>2. PageInv'
      BY <1>3 DEF Inv, vars, serverVars, pageVars, PageInv, PageTypeOK, PageSound, SuccessHasData,
                  Kept, Sound, Stores
    <2> QED BY <2>1, <2>2 DEF Inv
  <1> QED BY <1>1, <1>2, <1>3 DEF Next, PageActs

LEMMA InvAlways == Spec => []Inv
  BY InvInit, InvNext, PTL DEF Spec

-----------------------------------------------------------------------------
\* That no poll misses a conclusion.  The row's news has been told: every poll under way
\* saw the row as it is or not at all, and the page knows of its conclusion, if any.
Told ==
    /\ \A p \in polls : p.seen \in {Seen, Unseen}
    /\ row.status \in Concluded => page.state \notin {"none", "pending", "running"}

\* No time that the page has, or will have from a poll, is far ahead of the clock; none
\* is more than the buffer ahead of the row's stamp before its news has been told, but
\* one that comes with the row as it is.
InTime ==
    /\ row.changed <= now /\ lastUpdate <= Later(Ahead, now)
    /\ \A p \in polls : p.latest <= Later(Ahead, now)
    /\ Told \/ lastUpdate <= row.changed + Buffer
    /\ \A p \in polls : p.seen = Seen \/ Told \/ p.latest <= row.changed + Buffer

\* A commit stamps the row with a time that is at most MaxLag old.
Stamped == \E lag \in 0 .. MaxLag : row'.changed = now - lag

\* A step of the server commits the row or leaves it as it is.
LEMMA ServerStamps ==
    ASSUME ServerAssumption, ServerTypeOK, ServerNext
    PROVE  \/ now' = now /\ Stamped
           \/ row' = row /\ now' \in {now, now + 1}
  <1>1. ASSUME NEW r \in Rows, Commits(r) PROVE Stamped
    BY <1>1 DEF Commits, Rows, Stamped
  <1>2. ASSUME NEW s \in Statuses, CommitsStatus(s) PROVE Stamped
    <2>1. [row EXCEPT !.status = s] \in Rows BY DEF ServerTypeOK, Rows
    <2> QED BY <1>1, <1>2, <2>1 DEF CommitsStatus
  <1>3. CASE Launch \/ LaunchFails \/ LaunchFailsLate
    BY <1>2, <1>3 DEF Launch, LaunchFails, LaunchFailsLate, Statuses
  <1>4. CASE AnswerSync BY <1>2, <1>4 DEF AnswerSync, Statuses
  <1>5. CASE Begin \/ TaskFails BY <1>2, <1>5 DEF Begin, TaskFails, Statuses
  <1>6. CASE Finish
    <2>1. [row EXCEPT !.status = "success", !.key = Stores] \in Rows
      BY DEF ServerTypeOK, Rows, Statuses, Stores, Hows
    <2> QED BY <1>1, <1>6, <2>1 DEF Finish
  <1>7. CASE StopWrites BY <1>2, <1>7 DEF StopWrites, Statuses
  <1>8. CASE AnswerAsync \/ CheckStopped \/ StatementDone \/ StatementStopped \/ Store
              \/ Killed \/ StopReads \/ StopGivesUp \/ Tick
    BY <1>8 DEF AnswerAsync, CheckStopped, StatementDone, StatementStopped, Store, Killed,
                StopReads, StopGivesUp, Tick
  <1> QED
    BY <1>3, <1>4, <1>5, <1>6, <1>7, <1>8 DEF ServerNext, WebStep, TaskStep, StopStep

LEMMA InTimeServerStep ==
    ASSUME ServerAssumption, PageAssumption, Inv, InTime, ServerNext, UNCHANGED pageVars
    PROVE  InTime'
  <1>0. /\ UNCHANGED <<page, polls, lastUpdate>>
        /\ now \in Nat /\ row.changed \in Int /\ lastUpdate \in Nat
        /\ \A p \in polls : p.latest \in Nat
    BY DEF pageVars, Inv, ServerInv, ServerTypeOK, PageInv, PageTypeOK, PollAnswers, Rows,
           ServerAssumption, PageAssumption
  <1>1. CASE now' = now /\ Stamped
    <2>1. /\ row'.changed \in Int /\ row'.changed <= now
          /\ now <= row'.changed + Buffer /\ Later(Ahead, now) <= row'.changed + Buffer
      BY <1>0, <1>1 DEF Stamped, ServerAssumption, PageAssumption, Later
    <2>2. /\ lastUpdate <= row'.changed + Buffer
          /\ \A p \in polls : p.latest <= row'.changed + Buffer
      BY <1>0, <2>1 DEF InTime, Later, PageAssumption
    <2> QED BY <1>0, <1>1, <2>1, <2>2 DEF InTime, Later
  <1>2. CASE row' = row /\ now' \in {now, now + 1}
    <2>1. Later(Ahead, now) <= Later(Ahead, now') /\ now <= now'
          /\ Later(Ahead, now) \in Nat /\ Later(Ahead, now') \in Nat
      BY <1>0, <1>2 DEF Later, PageAssumption
    <2>2. /\ row'.changed <= now' /\ lastUpdate' <= Later(Ahead, now')
          /\ \A p \in polls' : p.latest <= Later(Ahead, now')
      BY <1>0, <1>2, <2>1 DEF InTime
    <2>3. (Told' <=> Told) /\ Seen' = Seen BY <1>0, <1>2 DEF Told, Seen, Unseen
    <2>4. Later(Ahead, now)' = Later(Ahead, now') BY DEF Later
    <2> QED BY <1>0, <1>2, <2>2, <2>3, <2>4 DEF InTime
  <1> QED BY <1>1, <1>2, ServerStamps DEF Inv, ServerInv

\* A poll sees the row as it is, unless there is none or its news has been told.
LEMMA PollSees ==
    ASSUME PageAssumption, Inv, InTime, PollServed
    PROVE  /\ \A p \in polls' : p.seen \in {Seen, Unseen} /\ p.latest <= Later(Ahead, now)
           /\ (\A p \in polls' : p.seen = Seen) \/ row.status = "none" \/ Told
  <1>1. PICK other \in {lastUpdate, now} :
          \/ polls' = {[seen |-> Seen, latest |-> Later(other, row.changed)]}
          \/ /\ row.status = "none" \/ row.changed < lastUpdate - Buffer
             /\ polls' = {[seen |-> Unseen, latest |-> other]}
    BY DEF PollServed, PollsFrom
  <1>2. /\ lastUpdate <= row.changed + Buffer => ~(row.changed < lastUpdate - Buffer)
        /\ other <= Later(Ahead, now) /\ Later(other, row.changed) <= Later(Ahead, now)
    BY DEF Inv, InTime, Later, ServerInv, ServerTypeOK, Rows, PageInv, PageTypeOK, PageAssumption
  <1> QED BY <1>1, <1>2 DEF InTime

\* What the page knows by its own actions: it never goes back to where it waits for news
\* of a query that has concluded, unless a poll brings older news.
LEMMA WaitsNoMore ==
    ASSUME ServerInv, PageInv, PageActs, ~PollReceived, page.state \notin {"none", "pending", "running"}
    PROVE  page'.state \notin {"none", "pending", "running"}
  <1>0. page \in Pages BY DEF PageInv, PageTypeOK
  <1>7. CASE SentAgain BY <1>7 DEF SentAgain
  <1>8. CASE RepeatReceived BY <1>0, <1>8, RepeatReceivedStep DEF PageInv, Pages
  <1>1. CASE ResultsReceived BY <1>1, ResultsReceivedStep
  <1>2. CASE Run \/ AnswerReceived \/ StoppedReceived \/ AnswerLost
    BY <1>0, <1>2 DEF Run, AnswerReceived, StoppedReceived, AnswerLost, Pages
  <1>3. CASE PollServed \/ PollFails \/ ClickStop \/ StopFailed
    BY <1>3 DEF PollServed, PollsFrom, PollFails, ClickStop, StopFailed, pageVars
  <1>4. CASE FetchReceived BY <1>4 DEF FetchReceived
  <1>5. CASE FetchFails BY <1>0, <1>5 DEF FetchFails, Pages
  <1>6. CASE StopReceived BY <1>0, <1>6 DEF StopReceived, Pages
  <1> QED BY <1>1, <1>2, <1>3, <1>4, <1>5, <1>6, <1>7, <1>8 DEF PageActs

\* Receiving a poll that saw the row as it is tells the page its conclusion.
LEMMA PollHeeded ==
    ASSUME ServerAssumption, ServerInv, PageInv, PollReceived,
           NEW p \in polls, polls' = polls \ {p}
    PROVE  /\ polls' = {}
           /\ p.seen = Seen /\ row.status \in Concluded =>
                 page'.state \notin {"none", "pending", "running"}
           /\ p.seen = Unseen => page' = page
  <1>1. \A q \in polls : q = p BY DEF PageInv, PageSound
  <1>2. polls' = {} BY <1>1
  <1>3. \/ page' = page /\ (p.seen = Unseen \/ page.state \in {"stopped", "failed"})
        \/ page'.state \in {"fetching", "success", p.seen.status} /\ p.seen # Unseen
    <2>1. PICK q \in polls :
             \/ q.seen # Unseen /\ page.state \notin {"stopped", "failed"} /\ Shows(Refreshed(q.seen))
             \/ (q.seen = Unseen \/ page.state \in {"stopped", "failed"}) /\ page' = page
      BY DEF PollReceived
    <2>2. q = p BY <1>1
    <2>3. CASE q.seen # Unseen /\ Shows(Refreshed(q.seen))
      <3>1. page \in Pages /\ p.seen \in Sights /\ p.seen.status # "none"
        BY <2>2, <2>3 DEF PageInv, PageTypeOK, PageSound, PollAnswers
      <3>2. page'.state = "fetching" \/ page' = Refreshed(p.seen) BY <2>2, <2>3 DEF Shows, Refreshed, Pages
      <3> QED BY <2>2, <2>3, <3>1, <3>2, RefreshedType
    <2> QED BY <2>1, <2>2, <2>3
  <1> QED BY <1>2, <1>3 DEF Concluded, Unseen, Seen

LEMMA InTimePageStep ==
    ASSUME ServerAssumption, PageAssumption, Inv, InTime, PageActs
    PROVE  InTime'
  <1> USE DEF Inv
  <1>0. /\ UNCHANGED <<row, now>> /\ Unseen' = Unseen /\ Seen' = Seen
        /\ now \in Nat /\ row.changed \in Int /\ lastUpdate \in Nat
        /\ \A p \in polls : p.latest \in Nat
    BY PageActsOnServer DEF ServerInv, ServerTypeOK, PageInv, PageTypeOK, PollAnswers, Rows,
           ServerAssumption, PageAssumption, Unseen, Seen
  <1>1. CASE PollServed
    <2>1. /\ UNCHANGED <<page, lastUpdate>>
          /\ \A p \in polls' : p.seen \in {Seen, Unseen} /\ p.latest <= Later(Ahead, now)
          /\ (\A p \in polls' : p.seen = Seen) \/ row.status = "none" \/ Told
      BY <1>1, PollSees DEF PollServed, PollsFrom
    <2>2. Told => Told' BY <1>0, <2>1 DEF Told
    <2>3. row.status = "none" => Told' BY <1>0, <2>1 DEF Told, Concluded
    <2>5. /\ row'.changed <= now' /\ lastUpdate' <= Later(Ahead, now)'
          /\ \A p \in polls' : p.latest <= Later(Ahead, now)'
      BY <1>0, <2>1 DEF InTime, Later, PageAssumption
    <2> QED BY <1>0, <2>1, <2>2, <2>3, <2>5 DEF InTime
  <1>2. CASE PollReceived
    <2>1. PICK p \in polls :
            /\ polls' = polls \ {p}
            /\ lastUpdate' \in {lastUpdate, Later(lastUpdate, p.latest)}
      BY <1>2 DEF PollReceived
    <2>2. /\ polls' = {}
          /\ p.seen = Seen /\ row.status \in Concluded =>
                page'.state \notin {"none", "pending", "running"}
          /\ p.seen = Unseen => page' = page
      BY <1>2, <2>1, PollHeeded
    <2>3. lastUpdate' <= Later(Ahead, now)'
      BY <1>0, <2>1 DEF InTime, Later, PageAssumption
    <2>4. CASE p.seen = Seen \/ Told
      <3>1. Told' BY <1>0, <2>1, <2>2, <2>4 DEF Told
      <3> QED BY <1>0, <2>2, <2>3, <3>1 DEF InTime
    <2>5. CASE ~Told /\ p.latest <= row.changed + Buffer
      <3>1. lastUpdate' <= row'.changed + Buffer
        BY <1>0, <2>1, <2>5 DEF InTime, Later, PageAssumption
      <3> QED BY <1>0, <2>2, <2>3, <3>1 DEF InTime
    <2> QED BY <2>1, <2>4, <2>5 DEF InTime
  <1>3. CASE ~PollServed /\ ~PollReceived
    <2>1. polls' \subseteq polls /\ lastUpdate' = lastUpdate
      BY <1>3 DEF PageActs, Run, AnswerReceived, ResultsReceived, StoppedReceived, AnswerLost,
           SentAgain, RepeatReceived,
             PollFails, FetchReceived, FetchFails, ClickStop, StopReceived, StopFailed, pageVars
    <2>2. Told => Told' BY <1>0, <1>3, <2>1, WaitsNoMore DEF Told
    <2> QED BY <1>0, <2>1, <2>2 DEF InTime, Later
  <1> QED BY <1>1, <1>2, <1>3

LEMMA InTimeAlways == Spec => []InTime
  <1>1. Init => InTime
    BY ServerAssumption, PageAssumption DEF Init, ServerInit, InTime, Later, Told
  <1>2. Inv /\ InTime /\ [Next]_vars => InTime'
    <2> SUFFICES ASSUME Inv, InTime, [Next]_vars PROVE InTime' OBVIOUS
    <2>1. CASE ServerNext /\ UNCHANGED pageVars
      BY <2>1, InTimeServerStep, ServerAssumption, PageAssumption
    <2>2. CASE PageActs BY <2>2, InTimePageStep, ServerAssumption, PageAssumption
    <2>3. CASE UNCHANGED vars
      BY <2>3 DEF vars, serverVars, pageVars, InTime, Told, Later, Seen, Unseen
    <2> QED BY <2>1, <2>2, <2>3 DEF Next, PageActs
  <1> QED BY <1>1, <1>2, InvAlways, PTL DEF Spec

-----------------------------------------------------------------------------
\* Types: whatever the number of statements, and as long as the buffer covers the errors
\* of the clocks, the row, the task and what the page holds of them are well formed.
THEOREM SqlLabTypeOK == Spec => []TypeOK
  <1>1. Inv => TypeOK
    BY DEF Inv, ServerInv, PageInv, TypeOK, PageTypeOK, Pages, PollAnswers, Sights
  <1> QED BY <1>1, InvAlways, PTL

\* sql_lab.py looks at the row before every statement: a query stopped while it runs
\* begins no further one.
THEOREM SqlLabStopEndsWork == Spec => []StopEndsWork
  <1>1. Inv => StopEndsWork BY DEF Inv, ServerInv, StopHeeded, StopEndsWork
  <1> QED BY <1>1, InvAlways, PTL

\* sql_lab.py stores the results before it commits their key.
THEOREM SqlLabKeyHasResults == Spec => []KeyHasResults
  <1>1. Inv => KeyHasResults BY DEF Inv, ServerInv, KeyStored, KeyHasResults
  <1> QED BY <1>1, InvAlways, PTL

\* However the answers, polls and fetches of reducers/sqlLab.js overtake each other, a
\* success with stored results is shown with its data.
THEOREM SqlLabSuccessHasData == Spec => []SuccessHasData
  <1>1. Inv => SuccessHasData BY DEF Inv, PageInv
  <1> QED BY <1>1, InvAlways, PTL

\* QueryAutoRefresh polls once at a time: what the page shows as concluded of an
\* asynchronous query does not turn into progress again.
THEOREM SqlLabConclusionKept == Spec => ConclusionKept
  <1> DEFINE Keeps == how.async /\ page.state \in Concluded => page'.state \in Concluded
  <1>1. Inv /\ [Next]_vars => [Keeps]_vars
    <2> SUFFICES ASSUME Inv, Next PROVE Keeps \/ UNCHANGED vars
      OBVIOUS
    <2>1. CASE ServerNext /\ UNCHANGED pageVars BY <2>1 DEF pageVars
    <2>2. CASE PageActs BY <2>2, KeptStep, ServerAssumption DEF Inv
    <2> QED BY <2>1, <2>2 DEF Next, PageActs
  <1>2. ConclusionKept <=> [][Keeps]_vars BY DEF ConclusionKept
  <1> QED BY <1>1, <1>2, InvAlways, PTL DEF Spec

\* QueryAutoRefresh asks from a time that other queries move, by another host's clock;
\* as long as the buffer covers the errors of the clocks, every poll sees a row that has
\* concluded while the page shows the query in progress.
THEOREM SqlLabNoPollMisses == Spec => NoPollMisses
  <1> DEFINE Sees == \A p \in polls' \ polls :
        page.state \in {"pending", "running"} /\ row.status \in {"success", "failed", "stopped"}
            => p.seen = Seen
  <1>1. Inv /\ InTime /\ [Next]_vars => [Sees]_vars
    <2> SUFFICES ASSUME Inv, InTime, Next PROVE Sees
      OBVIOUS
    <2>1. CASE ServerNext /\ UNCHANGED pageVars BY <2>1 DEF pageVars
    <2>2. CASE PageActs
      <3>1. CASE polls' \subseteq polls BY <3>1
      <3>2. CASE PollServed
        BY <3>2, PollSees, PageAssumption DEF Told, Concluded
      <3> QED BY <2>2, <3>1, <3>2, PollsStep DEF Inv
    <2> QED BY <2>1, <2>2 DEF Next, PageActs
  <1>2. NoPollMisses <=> [][Sees]_vars BY DEF NoPollMisses
  <1> QED BY <1>1, <1>2, InvAlways, InTimeAlways, PTL DEF Spec
=============================================================================
