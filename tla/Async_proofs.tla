---------------------------- MODULE Async_proofs ----------------------------
(***************************************************************************)
(* Proofs about global async queries.  Over the polling transport: types,      *)
(* listeners that go with their promises, and that no event a listener needs    *)
(* is lost.  Over the websocket transport: types, and that the server's blocking  *)
(* reads leave no event out, whatever workers, the page and the range commands do.  *)
(* Over both: that they implement the abstract promise of AsyncResult.              *)
(***************************************************************************)
EXTENDS AsyncWebSocket, EventStream_proofs, SequenceTheorems, FiniteSetTheorems,
        WellFoundedInduction, TLAPS

\* The timers: a bag of events.
EventBag == UNION {[S -> Nat \ {0}] : S \in SUBSET Event}

\* The client records of the page.
Client ==
    [listening : SUBSET Job,
     promise   : [Job -> {"none", "waiting", "resolved", "rejected", "unfetched", "left"}],
     retries   : [Job -> 0 .. MaxRetries],
     timers    : EventBag,
     fetching  : [Job -> Nat],
     lastId    : Ids]

Timed(c) == BagToSet(c.timers)

\* Listeners and waiting promises of a client record go together.
Paired(c) == c.listening = {j \in Job : c.promise[j] = "waiting"}

\* The listener of j has work under way: an event in a timer, or data to come.
HasTimer(c, j) == \E p \in Timed(c) : p.job = j
Covers(c, j) == HasTimer(c, j) \/ c.fetching[j] > 0

Waits(c, j) == reply[j] = "coming" \/ c.promise[j] = "waiting"

\* A retry count of a job whose listener is still to come counts an event that a timer holds.
ToCome(j) == reply[j] \in {"none", "coming"}
BackedFor(c, j) == ToCome(j) /\ c.retries[j] > 0 => HasTimer(c, j)
Backed(c) == \A j \in Job : BackedFor(c, j)

\* Only a job whose answer is here has a listener, or data to come.
Answered(c) ==
    \A j \in Job : j \in c.listening \/ c.fetching[j] > 0 => reply[j] = "here"
-----------------------------------------------------------------------------
\* Adding an event to the timers.
LEMMA BagAdd ==
    ASSUME NEW b \in EventBag, NEW e \in Event
    PROVE  b (+) SetToBag({e}) \in EventBag /\ BagToSet(b (+) SetToBag({e})) = BagToSet(b) \cup {e}
  <1> DEFINE sum == b (+) SetToBag({e})
  <1>1. PICK S \in SUBSET Event : b \in [S -> Nat \ {0}] BY DEF EventBag
  <1>2. DOMAIN sum = S \cup {e} BY <1>1 DEF SetToBag, (+)
  <1>3. sum = [x \in S \cup {e} |-> (IF x \in S THEN b[x] ELSE 0)
                                    + (IF x \in {e} THEN [y \in {e} |-> 1][x] ELSE 0)]
    BY <1>1 DEF SetToBag, (+)
  <1>4. ASSUME NEW x \in S \cup {e} PROVE sum[x] \in Nat \ {0}
    BY <1>1, <1>3
  <1>5. sum \in [S \cup {e} -> Nat \ {0}] BY <1>3, <1>4
  <1>6. S \cup {e} \in SUBSET Event BY <1>1
  <1> QED BY <1>1, <1>2, <1>5, <1>6 DEF EventBag, BagToSet

\* Taking an event from the timers.
LEMMA BagTake ==
    ASSUME NEW b \in EventBag, NEW e
    PROVE  /\ b (-) SetToBag({e}) \in EventBag
           /\ BagToSet(b (-) SetToBag({e})) \subseteq BagToSet(b)
           /\ BagToSet(b) \ {e} \subseteq BagToSet(b (-) SetToBag({e}))
  <1> DEFINE d == [x \in DOMAIN b |-> IF x \in {e} THEN b[x] - [y \in {e} |-> 1][x] ELSE b[x]]
             rest == [x \in {y \in DOMAIN d : d[y] > 0} |-> d[x]]
  <1>1. PICK S \in SUBSET Event : b \in [S -> Nat \ {0}] BY DEF EventBag
  <1>2. b (-) SetToBag({e}) = rest BY DEF SetToBag, (-)
  <1>3. \A x \in S : d[x] \in Nat /\ (x # e => d[x] > 0) BY <1>1
  <1>4. DOMAIN d = S BY <1>1
  <1> HIDE DEF d
  <1> DEFINE T == {y \in S : d[y] > 0}
  <1>5. rest \in [T -> Nat \ {0}] /\ DOMAIN rest = T BY <1>3, <1>4
  <1>6. T \in SUBSET Event /\ T \subseteq S /\ S \ {e} \subseteq T BY <1>3
  <1> QED BY <1>1, <1>2, <1>5, <1>6 DEF EventBag, BagToSet

\* What a turn of the loop does to a client record.
LEMMA Turn ==
    ASSUME NEW c \in Client, NEW e \in Event
    PROVE  LET d == ProcessEvent(c, e)
               j == e.job
           IN  /\ d \in Client /\ d.lastId = e.id
               /\ \A k \in Job \ {j} : /\ d.promise[k] = c.promise[k] /\ d.retries[k] = c.retries[k]
                                       /\ d.fetching[k] = c.fetching[k]
                                       /\ k \in d.listening <=> k \in c.listening
               /\ Timed(c) \subseteq Timed(d) /\ Timed(d) \subseteq Timed(c) \cup {e}
               /\ j \in c.listening =>
                      /\ d.retries[j] = 0
                      /\ \/ /\ e.status = "error" /\ j \notin d.listening
                            /\ d.promise[j] = IF c.promise[j] = "waiting" THEN "rejected" ELSE c.promise[j]
                            /\ d.fetching[j] = c.fetching[j]
                         \/ /\ e.status # "error" /\ j \in d.listening /\ d.promise[j] = c.promise[j]
                            /\ d.fetching[j] = c.fetching[j] + 1
               /\ j \notin c.listening =>
                      /\ j \notin d.listening /\ d.promise[j] = c.promise[j]
                      /\ d.fetching[j] = c.fetching[j]
                      /\ IF c.retries[j] < MaxRetries THEN e \in Timed(d)
                                                      ELSE d.retries[j] = 0
  <1> DEFINE d == ProcessEvent(c, e)
             j == e.job
  <1>1. e.id \in Ids /\ j \in Job /\ e.status \in {"done", "error"} BY DEF Event
  <1>2. MaxRetries \in Nat BY ClientAssumption
  <1>3. /\ c.listening \in SUBSET Job /\ c.timers \in EventBag /\ c.lastId \in Ids
        /\ c.promise \in [Job -> {"none", "waiting", "resolved", "rejected", "unfetched", "left"}]
        /\ c.retries \in [Job -> 0 .. MaxRetries] /\ c.fetching \in [Job -> Nat]
    BY DEF Client
  <1> HIDE DEF j
  <1>4. CASE j \in c.listening /\ e.status = "error"
    <2>1. /\ d = [c EXCEPT !.promise[j] = IF @ = "waiting" THEN "rejected" ELSE @,
                           !.listening = @ \ {j}, !.retries[j] = 0, !.lastId = e.id]
      BY <1>3, <1>4 DEF ProcessEvent, Heard, Settle, StopListening, Client, j
    <2> HIDE DEF d
    <2>2. d = [listening |-> c.listening \ {j},
               promise   |-> [c.promise EXCEPT ![j] = IF c.promise[j] = "waiting" THEN "rejected"
                                                      ELSE c.promise[j]],
               retries   |-> [c.retries EXCEPT ![j] = 0], timers |-> c.timers,
               fetching  |-> c.fetching, lastId |-> e.id]
      BY <2>1 DEF Client
    <2>3. d \in Client BY <1>1, <1>2, <1>3, <2>2 DEF Client
    <2> QED BY <1>1, <1>3, <1>4, <2>2, <2>3 DEF Timed, BagToSet, d, j
  <1>5. CASE j \in c.listening /\ e.status # "error"
    <2>1. d = [c EXCEPT !.fetching[j] = @ + 1, !.retries[j] = 0, !.lastId = e.id]
      BY <1>3, <1>5 DEF ProcessEvent, Heard, Client, j
    <2> HIDE DEF d
    <2>2. d = [listening |-> c.listening, promise |-> c.promise,
               retries   |-> [c.retries EXCEPT ![j] = 0], timers |-> c.timers,
               fetching  |-> [c.fetching EXCEPT ![j] = c.fetching[j] + 1], lastId |-> e.id]
      BY <2>1 DEF Client
    <2>3. d \in Client BY <1>1, <1>2, <1>3, <2>2 DEF Client
    <2> QED BY <1>1, <1>3, <1>5, <2>2, <2>3 DEF Timed, BagToSet, d, j
  <1>6. CASE j \notin c.listening /\ c.retries[j] < MaxRetries
    <2> DEFINE more == c.timers (+) SetToBag({e})
    <2>1. d = [c EXCEPT !.retries[j] = @ + 1, !.timers = more, !.lastId = e.id]
      BY <1>3, <1>6 DEF ProcessEvent, Unheard, Client, j
    <2>2. more \in EventBag /\ BagToSet(more) = BagToSet(c.timers) \cup {e}
      BY <1>3, BagAdd
    <2> HIDE DEF d, more
    <2>3. d = [listening |-> c.listening, promise |-> c.promise,
               retries   |-> [c.retries EXCEPT ![j] = c.retries[j] + 1], timers |-> more,
               fetching  |-> c.fetching, lastId |-> e.id]
      BY <2>1 DEF Client
    <2>4. c.retries[j] + 1 \in 0 .. MaxRetries BY <1>1, <1>2, <1>3, <1>6
    <2>5. d \in Client BY <1>1, <1>3, <2>2, <2>3, <2>4 DEF Client
    <2> QED BY <1>1, <1>3, <1>6, <2>2, <2>3, <2>5 DEF Timed, d, j
  <1>7. CASE j \notin c.listening /\ ~(c.retries[j] < MaxRetries)
    <2>1. d = [c EXCEPT !.retries[j] = 0, !.lastId = e.id]
      BY <1>3, <1>7 DEF ProcessEvent, Unheard, Client, j
    <2> HIDE DEF d
    <2>2. d = [listening |-> c.listening, promise |-> c.promise,
               retries   |-> [c.retries EXCEPT ![j] = 0], timers |-> c.timers,
               fetching  |-> c.fetching, lastId |-> e.id]
      BY <2>1 DEF Client
    <2>3. d \in Client BY <1>1, <1>2, <1>3, <2>2 DEF Client
    <2> QED BY <1>1, <1>3, <1>7, <2>2, <2>3 DEF Timed, BagToSet, d, j
  <1> QED BY <1>4, <1>5, <1>6, <1>7

-----------------------------------------------------------------------------
\* A turn keeps listeners and promises together, and ends no wait that it does not settle.
LEMMA TurnKeeps ==
    ASSUME NEW c \in Client, NEW e \in Event, Paired(c), Answered(c)
    PROVE  LET d == ProcessEvent(c, e)
           IN  /\ Paired(d) /\ Answered(d)
               /\ \A j \in Job : /\ Waits(d, j) => Waits(c, j)
                                 /\ Covers(c, j) => Covers(d, j)
  <1> DEFINE d == ProcessEvent(c, e)
  <1>1. e.job \in Job BY DEF Event
  <1>2. d \in Client BY Turn
  <1>3. /\ c.listening \subseteq Job /\ d.listening \subseteq Job
        /\ c.fetching \in [Job -> Nat] /\ d.fetching \in [Job -> Nat]
    BY <1>2 DEF Client
  <1>4. /\ \A k \in Job \ {e.job} : /\ d.promise[k] = c.promise[k]
                                    /\ d.fetching[k] = c.fetching[k]
                                    /\ k \in d.listening <=> k \in c.listening
        /\ Timed(c) \subseteq Timed(d)
        /\ \/ /\ e.job \in c.listening /\ e.job \notin d.listening
              /\ d.promise[e.job] = IF c.promise[e.job] = "waiting" THEN "rejected" ELSE c.promise[e.job]
              /\ d.fetching[e.job] = c.fetching[e.job]
           \/ /\ e.job \in c.listening /\ e.job \in d.listening /\ d.promise[e.job] = c.promise[e.job]
              /\ d.fetching[e.job] = c.fetching[e.job] + 1
           \/ /\ e.job \notin c.listening /\ e.job \notin d.listening
              /\ d.promise[e.job] = c.promise[e.job] /\ d.fetching[e.job] = c.fetching[e.job]
    BY Turn
  <1> HIDE DEF d
  <1>5. Paired(d) BY <1>1, <1>3, <1>4 DEF Paired
  <1>6. Answered(d) BY <1>1, <1>3, <1>4 DEF Answered
  <1>7. ASSUME NEW j \in Job PROVE (Waits(d, j) => Waits(c, j)) /\ (Covers(c, j) => Covers(d, j))
    <2>1. Waits(d, j) => Waits(c, j) BY <1>1, <1>4 DEF Waits
    <2>2. d.fetching[j] >= c.fetching[j] BY <1>1, <1>3, <1>4
    <2>3. HasTimer(c, j) => HasTimer(d, j) BY <1>4 DEF HasTimer
    <2> QED BY <2>1, <2>2, <2>3, <1>3 DEF Covers
  <1> QED BY <1>5, <1>6, <1>7 DEF d

\* A turn leaves its job settled, or with work under way.
LEMMA TurnCovers ==
    ASSUME NEW c \in Client, NEW e \in Event, Paired(c), Answered(c), MaxRetries > 0,
           \A j \in Job \ {e.job} : BackedFor(c, j),
           ToCome(e.job) => c.retries[e.job] < MaxRetries \/ HasTimer(c, e.job)
    PROVE  LET d == ProcessEvent(c, e)
           IN  Backed(d) /\ (Waits(d, e.job) => Covers(d, e.job))
  <1> DEFINE d == ProcessEvent(c, e)
  <1>1. e.job \in Job BY DEF Event
  <1>2. d \in Client /\ Timed(c) \subseteq Timed(d)
        /\ \A k \in Job \ {e.job} : d.retries[k] = c.retries[k]
    BY Turn
  <1>3. HasTimer(d, e.job) <=> \E p \in Timed(d) : p.job = e.job BY DEF HasTimer
  <1>4. CASE e.job \in c.listening
    <2>1. /\ d.retries[e.job] = 0
          /\ \/ d.promise[e.job] # "waiting"
             \/ d.fetching[e.job] = c.fetching[e.job] + 1
      BY <1>4, Turn
    <2>2. reply[e.job] = "here" BY <1>1, <1>4 DEF Answered
    <2>3. c.fetching[e.job] \in Nat BY <1>1 DEF Client
    <2> HIDE DEF d
    <2>4. Waits(d, e.job) => Covers(d, e.job) BY <2>1, <2>2, <2>3 DEF Waits, Covers
    <2>5. Backed(d) BY <1>1, <1>2, <2>1, <2>2 DEF Backed, BackedFor, HasTimer, ToCome
    <2> QED BY <2>4, <2>5 DEF d
  <1>5. CASE e.job \notin c.listening
    <2>1. /\ d.promise[e.job] = c.promise[e.job]
          /\ IF c.retries[e.job] < MaxRetries THEN e \in Timed(d) ELSE d.retries[e.job] = 0
      BY <1>5, Turn
    <2>2. c.promise[e.job] # "waiting" BY <1>1, <1>5 DEF Paired
    <2> HIDE DEF d
    <2>3. (ToCome(e.job) /\ d.retries[e.job] > 0) \/ reply[e.job] = "coming" => HasTimer(d, e.job) 
      BY <1>2, <2>1 DEF HasTimer, ToCome
    <2>4. Waits(d, e.job) => Covers(d, e.job) BY <2>1, <2>2, <2>3 DEF Waits, Covers
    <2>5. Backed(d) BY <1>1, <1>2, <2>3 DEF Backed, BackedFor, HasTimer
    <2> QED BY <2>4, <2>5 DEF d
  <1> QED BY <1>4, <1>5
-----------------------------------------------------------------------------
\* The order of numbers is well founded.
NatOrder == {pair \in Nat \X Nat : pair[1] < pair[2]}

\* A set of numbers has a least element.
LEMMA Least ==
    ASSUME NEW T \in SUBSET Nat, T # {}
    PROVE  \E x \in T : \A y \in T : x <= y
  <1>1. IsWellFoundedOn(NatOrder, Nat) BY NatLessThanWellFounded DEF OpToRel, NatOrder
  <1>2. PICK x \in T : \A y \in T : ~(<<y, x>> \in NatOrder) BY <1>1, WFMin
  <1>3. \A y \in T : ~(y < x) BY <1>2 DEF NatOrder
  <1> QED BY <1>3

\* Induction along a range, in terms of sets.
LEMMA UpTo ==
    ASSUME NEW N \in Nat, NEW S, 0 \in S, \A n \in 0 .. N - 1 : n \in S => n + 1 \in S
    PROVE  \A n \in 0 .. N : n \in S
  <1> DEFINE T == {n \in 0 .. N : n \notin S}
  <1> SUFFICES ASSUME T # {} PROVE FALSE OBVIOUS
  <1>1. PICK x \in T : \A y \in T : x <= y
    <2>1. T \in SUBSET Nat OBVIOUS
    <2> QED BY <2>1, Least
  <1>2. x \in 1 .. N BY <1>1
  <1>3. x - 1 \in 0 .. N - 1 /\ x - 1 \notin T BY <1>1, <1>2
  <1>4. x - 1 \in S BY <1>3
  <1>5. x - 1 + 1 = x BY <1>2
  <1> QED BY <1>1, <1>3, <1>4, <1>5

\* The records that a loop over events goes through.
Loop(c, events, f, n) ==
    f = [m \in 0 .. n |-> IF m = 0 THEN c ELSE ProcessEvent(f[m-1], events[m])]

\* They exist, however many events.
LEMMA LoopExists ==
    ASSUME NEW c, NEW events, NEW N \in Nat
    PROVE  \E f : Loop(c, events, f, N)
  <1> DEFINE S == {n \in 0 .. N : \E f : Loop(c, events, f, n)}
  <1>1. 0 \in S
    <2> DEFINE f == [m \in 0 .. 0 |-> c]
    <2>1. f = [m \in 0 .. 0 |-> IF m = 0 THEN c ELSE ProcessEvent(f[m-1], events[m])] OBVIOUS
    <2> HIDE DEF f
    <2> QED BY <2>1 DEF Loop
  <1>2. ASSUME NEW n \in 0 .. N - 1, n \in S PROVE n + 1 \in S
    <2>1. PICK f : Loop(c, events, f, n) BY <1>2
    <2> DEFINE g == [m \in 0 .. n + 1 |-> IF m <= n THEN f[m] ELSE ProcessEvent(f[n], events[n+1])]
    <2>2. ASSUME NEW m \in 0 .. n + 1
          PROVE  g[m] = IF m = 0 THEN c ELSE ProcessEvent(g[m-1], events[m])
      <3>1. CASE m = n + 1
        <4>1. g[m] = ProcessEvent(f[n], events[m]) /\ m # 0 /\ m - 1 = n BY <3>1
        <4>2. g[n] = f[n] OBVIOUS
        <4> HIDE DEF g
        <4> QED BY <4>1, <4>2
      <3>2. CASE m \in 1 .. n
        <4>1. f[m] = ProcessEvent(f[m-1], events[m]) BY <2>1, <3>2 DEF Loop
        <4>2. g[m] = f[m] /\ g[m-1] = f[m-1] BY <3>2
        <4> HIDE DEF g
        <4> QED BY <4>1, <4>2, <3>2
      <3>3. CASE m = 0
        <4>1. f[0] = c BY <2>1 DEF Loop
        <4> QED BY <4>1, <3>3
      <3> QED BY <3>1, <3>2, <3>3
    <2>3. g = [m \in 0 .. n + 1 |-> g[m]] OBVIOUS
    <2> HIDE DEF g
    <2>4. g = [m \in 0 .. n + 1 |-> IF m = 0 THEN c ELSE ProcessEvent(g[m-1], events[m])]
      BY <2>2, <2>3
    <2>5. n + 1 \in 0 .. N OBVIOUS
    <2> QED BY <2>4, <2>5 DEF Loop
  <1> HIDE DEF S
  <1>3. \A n \in 0 .. N : n \in S BY <1>1, <1>2, UpTo
  <1> QED BY <1>3 DEF S

\* They lead from the client record to what processEvents makes of it.
Runs(c, events, f) ==
    /\ ProcessEvents(c, events) = f[Len(events)]
    /\ f[0] = c
    /\ \A n \in 0 .. Len(events) - 1 : f[n+1] = ProcessEvent(f[n], events[n+1])

\* The loop runs.
LEMMA LoopIs ==
    ASSUME NEW c, NEW events \in Seq(Event)
    PROVE  \E f : Runs(c, events, f)
  <1> DEFINE f == CHOOSE g : Loop(c, events, g, Len(events))
  <1>1. Len(events) \in Nat BY LenProperties
  <1>2. ProcessEvents(c, events) = f[Len(events)] BY DEF ProcessEvents, Loop
  <1>3. Loop(c, events, f, Len(events)) BY <1>1, LoopExists
  <1> HIDE DEF f
  <1>4. f[0] = c BY <1>1, <1>3 DEF Loop
  <1>5. ASSUME NEW n \in 0 .. Len(events) - 1 PROVE f[n+1] = ProcessEvent(f[n], events[n+1])
    <2>1. n + 1 \in 0 .. Len(events) /\ n + 1 # 0 /\ n + 1 - 1 = n BY <1>1
    <2> QED BY <1>3, <2>1 DEF Loop
  <1> QED BY <1>2, <1>4, <1>5 DEF Runs

-----------------------------------------------------------------------------
\* What the loop of processEvents makes of a client record.
LEMMA LoopKeeps ==
    ASSUME NEW c \in Client, NEW events \in Seq(Event), Paired(c), Answered(c)
    PROVE  LET d == ProcessEvents(c, events)
           IN  /\ d \in Client /\ Paired(d) /\ Answered(d)
               /\ \A j \in Job : /\ Waits(d, j) => Waits(c, j)
                                 /\ Covers(c, j) => Covers(d, j)
               /\ Timed(d) \subseteq Timed(c) \cup {events[i] : i \in DOMAIN events}
               /\ d.lastId = IF events = <<>> THEN c.lastId ELSE events[Len(events)].id
               /\ MaxRetries > 0 /\ Backed(c) =>
                      /\ Backed(d)
                      /\ \A i \in DOMAIN events : Waits(d, events[i].job) => Covers(d, events[i].job)
  <1>0. PICK f : Runs(c, events, f) BY LoopIs
  <1>1. /\ ProcessEvents(c, events) = f[Len(events)]
        /\ f[0] = c
        /\ \A n \in 0 .. Len(events) - 1 : f[n+1] = ProcessEvent(f[n], events[n+1])
    BY <1>0 DEF Runs
  <1>2. Len(events) \in Nat /\ DOMAIN events = 1 .. Len(events) BY LenProperties
  <1> DEFINE Done(n) ==
          /\ f[n] \in Client /\ Paired(f[n]) /\ Answered(f[n])
          /\ \A j \in Job : /\ Waits(f[n], j) => Waits(c, j)
                            /\ Covers(c, j) => Covers(f[n], j)
          /\ Timed(f[n]) \subseteq Timed(c) \cup {events[i] : i \in DOMAIN events}
          /\ f[n].lastId = IF n = 0 THEN c.lastId ELSE events[n].id
          /\ MaxRetries > 0 /\ Backed(c) =>
                 /\ Backed(f[n])
                 /\ \A i \in 1 .. n : Waits(f[n], events[i].job) => Covers(f[n], events[i].job)
             S == {n \in 0 .. Len(events) : Done(n)}
  <1>3. Done(0) BY <1>1, <1>2
  <1>4. ASSUME NEW n \in 0 .. Len(events) - 1, Done(n) PROVE Done(n + 1)
    <2> DEFINE e == events[n+1]
               d == f[n]
               g == f[n+1]
    <2>1. e \in Event /\ n + 1 \in DOMAIN events /\ n + 1 # 0 BY <1>2, ElementOfSeq
    <2>2. g = ProcessEvent(d, e) BY <1>1, <1>4
    <2>3. g \in Client /\ g.lastId = e.id /\ Timed(g) \subseteq Timed(d) \cup {e}
      <3>1. d \in Client BY <1>4
      <3> HIDE DEF d, e, g
      <3> QED BY <3>1, <2>1, <2>2, Turn
    <2>4. /\ Paired(g) /\ Answered(g)
          /\ \A j \in Job : /\ Waits(g, j) => Waits(d, j)
                            /\ Covers(d, j) => Covers(g, j)
      BY <1>4, <2>1, <2>2, TurnKeeps
    <2>5. ASSUME MaxRetries > 0, Backed(c)
          PROVE  /\ Backed(g)
                 /\ \A i \in 1 .. n + 1 : Waits(g, events[i].job) => Covers(g, events[i].job)
      <3>1. Backed(d) BY <1>4, <2>5
      <3>2. e.job \in Job BY <2>1 DEF Event
      <3>3. MaxRetries \in Nat /\ d.retries[e.job] \in Nat
        BY <1>4, <3>2, ClientAssumption DEF Client
      <3>4. ToCome(e.job) => d.retries[e.job] < MaxRetries \/ HasTimer(d, e.job)
        BY <2>5, <3>1, <3>2, <3>3 DEF Backed, BackedFor
      <3>5. \A j \in Job \ {e.job} : BackedFor(d, j) BY <3>1 DEF Backed
      <3>6. Backed(g) /\ (Waits(g, e.job) => Covers(g, e.job))
        BY <1>4, <2>1, <2>2, <2>5, <3>4, <3>5, TurnCovers
      <3>7. ASSUME NEW i \in 1 .. n, Waits(g, events[i].job) PROVE Covers(g, events[i].job)
        <4>1. i \in 1 .. Len(events) BY <1>2
        <4>2. events[i] \in Event BY <4>1, ElementOfSeq
        <4>3. events[i].job \in Job BY <4>2 DEF Event
        <4>4. Waits(d, events[i].job) BY <3>7, <4>3, <2>4
        <4>5. Covers(d, events[i].job) BY <1>4, <2>5, <4>4
        <4> QED BY <4>3, <4>5, <2>4
      <3>8. \A i \in 1 .. n + 1 : i \in 1 .. n \/ i = n + 1 OBVIOUS
      <3> QED BY <3>6, <3>7, <3>8
    <2> HIDE DEF g
    <2>6. \A j \in Job : /\ Waits(g, j) => Waits(c, j)
                         /\ Covers(c, j) => Covers(g, j)
      BY <1>4, <2>4
    <2>7. Timed(g) \subseteq Timed(c) \cup {events[i] : i \in DOMAIN events}
      BY <1>4, <2>1, <2>3
    <2> QED BY <2>1, <2>3, <2>4, <2>5, <2>6, <2>7 DEF g
  <1> HIDE DEF Done
  <1>5. 0 \in S BY <1>2, <1>3
  <1>6. \A n \in 0 .. Len(events) - 1 : n \in S => n + 1 \in S BY <1>2, <1>4
  <1> HIDE DEF S
  <1>7. \A n \in 0 .. Len(events) : n \in S BY <1>2, <1>5, <1>6, UpTo
  <1>8. Done(Len(events)) BY <1>2, <1>7 DEF S
  <1>9. events = <<>> <=> Len(events) = 0 BY EmptySeq, LenProperties
  <1> QED BY <1>1, <1>2, <1>8, <1>9 DEF Done

-----------------------------------------------------------------------------
\* The ids of a stream's entries ascend.
Ascending(stream) ==
    /\ \A i \in DOMAIN stream : stream[i].id[1] > 0
    /\ \A i, k \in DOMAIN stream : i < k => Precedes(stream[i].id, stream[k].id)

\* Entries have ids.
LEMMA EntryId ==
    ASSUME NEW stream \in Seq(Event), NEW i \in DOMAIN stream
    PROVE  stream[i] \in Event /\ stream[i].id \in Ids
  <1>1. stream[i] \in Event BY ElementOfSeq, LenProperties
  <1> QED BY <1>1 DEF Event

\* The counts that delimit a range are natural numbers within the stream.
LEMMA CountType ==
    ASSUME NEW stream \in Seq(Event), NEW id
    PROVE  CountBefore(stream, id) \in 0 .. Len(stream) /\ CountUpTo(stream, id) \in 0 .. Len(stream)
  <1>1. Len(stream) \in Nat /\ DOMAIN stream = 1 .. Len(stream) BY LenProperties
  <1>2. IsFiniteSet(1 .. Len(stream)) /\ Cardinality(1 .. Len(stream)) = Len(stream)
    BY <1>1, FS_Interval
  <1>3. ASSUME NEW T \in SUBSET (1 .. Len(stream)) PROVE Cardinality(T) \in 0 .. Len(stream)
    <2>1. IsFiniteSet(T) /\ Cardinality(T) <= Len(stream) BY <1>2, FS_Subset
    <2>2. Cardinality(T) \in Nat BY <2>1, FS_CardinalityType
    <2> QED BY <2>1, <2>2, <1>1
  <1>4. {i \in DOMAIN stream : Precedes(stream[i].id, id)} \in SUBSET (1 .. Len(stream))
    BY <1>1
  <1>5. {i \in DOMAIN stream : AtMost(stream[i].id, id)} \in SUBSET (1 .. Len(stream))
    BY <1>1
  <1> QED BY <1>3, <1>4, <1>5 DEF CountBefore, CountUpTo


\* XADD's entry follows every entry of the stream.
LEMMA AddedFollows ==
    ASSUME NEW stream \in Seq(Event), Ascending(stream), ms \in Nat \ {0},
           NEW j \in Job, NEW s \in {"done", "error"}
    PROVE  LET added == Added(stream, j, s)
               last  == Len(stream) + 1
           IN  /\ added \in Seq(Event) /\ Ascending(added)
               /\ Len(added) = last /\ DOMAIN added = 1 .. last
               /\ \A i \in DOMAIN stream : /\ added[i] = stream[i]
                                           /\ Precedes(stream[i].id, added[last].id)
               /\ added[last].job = j /\ added[last].status = s
               /\ added[last].id \in Ids /\ added[last].id[1] > 0
  <1> DEFINE id == FreshId(NewestId(stream), ms)
             e == [id |-> id, job |-> j, status |-> s]
             added == Added(stream, j, s)
             last == Len(stream) + 1
  <1>1. Len(stream) \in Nat /\ DOMAIN stream = 1 .. Len(stream) BY LenProperties
  <1>2. \A i \in DOMAIN stream : stream[i].id \in Ids BY EntryId
  <1>3. NewestId(stream) \in Ids /\ (stream # <<>> => NewestId(stream) = stream[Len(stream)].id)
    <2>1. stream = <<>> \/ Len(stream) \in DOMAIN stream BY <1>1
    <2> QED BY <2>1, <1>2 DEF NewestId, Origin, Ids
  <1>4. id \in Ids /\ id[1] > 0 /\ Precedes(NewestId(stream), id)
    <2>1. PICK a \in Nat, b \in Nat : NewestId(stream) = <<a, b>> BY <1>3 DEF Ids
    <2>2. id = IF ms > a THEN <<ms, 0>> ELSE <<a, b + 1>> BY <2>1 DEF FreshId
    <2> HIDE DEF id
    <2>3. CASE ms > a BY <2>1, <2>2, <2>3 DEF Ids, Precedes
    <2>4. CASE ~(ms > a) BY <2>1, <2>2, <2>4 DEF Ids, Precedes
    <2> QED BY <2>3, <2>4
  <1> HIDE DEF id
  <1>5. ASSUME NEW i \in DOMAIN stream PROVE Precedes(stream[i].id, id)
    <2>1. stream # <<>> /\ Len(stream) \in DOMAIN stream BY <1>1
    <2>2. AtMost(stream[i].id, stream[Len(stream)].id)
      BY <1>1, <2>1 DEF Ascending, AtMost
    <2> QED BY <2>1, <2>2, <1>2, <1>3, <1>4, IdOrder
  <1>6. e \in Event /\ e.id = id /\ e.job = j /\ e.status = s BY <1>4 DEF Event
  <1>7. added = Append(stream, e) BY DEF Added, id
  <1> HIDE DEF e, added
  <1>8. /\ added \in Seq(Event) /\ Len(added) = last /\ DOMAIN added = 1 .. last
        /\ \A i \in DOMAIN stream : added[i] = stream[i]
        /\ added[last] = e
    BY <1>1, <1>6, <1>7, AppendProperties
  <1>9. \A i \in DOMAIN added : i \in DOMAIN stream \/ i = last BY <1>1, <1>8
  <1>10. Ascending(added)
    <2>1. \A i \in DOMAIN added : added[i].id[1] > 0
      BY <1>4, <1>6, <1>8, <1>9 DEF Ascending
    <2>2. ASSUME NEW i \in DOMAIN added, NEW k \in DOMAIN added, i < k
          PROVE  Precedes(added[i].id, added[k].id)
      <3>1. i \in DOMAIN stream BY <2>2, <1>1, <1>8
      <3>2. CASE k \in DOMAIN stream BY <3>1, <3>2, <2>2, <1>8 DEF Ascending
      <3>3. CASE k = last BY <3>1, <3>3, <1>5, <1>6, <1>8
      <3> QED BY <3>2, <3>3, <1>9
    <2> QED BY <2>1, <2>2 DEF Ascending
  <1> QED BY <1>4, <1>5, <1>6, <1>8, <1>10 DEF added

\* A page holds entries of the stream.
LEMMA PageHolds ==
    ASSUME NEW stream \in Seq(Event), NEW cut \in 0 .. Len(stream), NEW start, NEW n \in Nat
    PROVE  LET page == RangeFrom(stream, cut, start, n)
               before == Before(cut, CountBefore(stream, start))
               last == IF before + n < Len(stream) THEN before + n ELSE Len(stream)
           IN  /\ page \in Seq(Event)
               /\ DOMAIN page = 1 .. last - before
               /\ \A i \in DOMAIN page : before + i \in DOMAIN stream /\ page[i] = stream[before + i]
  <1> DEFINE before == Before(cut, CountBefore(stream, start))
             last == IF before + n < Len(stream) THEN before + n ELSE Len(stream)
             page == SubSeq(stream, before + 1, last)
  <1>1. before \in 0 .. Len(stream) BY CountType DEF Before
  <1>2. Len(stream) \in Nat /\ DOMAIN stream = 1 .. Len(stream) BY LenProperties
  <1>3. last \in before .. Len(stream) BY <1>1, <1>2
  <1> HIDE DEF before, last
  <1>4. \A i \in before + 1 .. last : stream[i] \in Event BY <1>1, <1>2, <1>3, EntryId
  <1>5. /\ page \in Seq(Event)
        /\ Len(page) = IF before + 1 <= last THEN last - (before + 1) + 1 ELSE 0
        /\ \A i \in 1 .. last - (before + 1) + 1 : page[i] = stream[before + 1 + i - 1]
    BY <1>1, <1>3, <1>4, SubSeqProperties
  <1> HIDE DEF page
  <1>6. Len(page) = last - before BY <1>1, <1>2, <1>3, <1>5
  <1>7. DOMAIN page = 1 .. last - before BY <1>5, <1>6, LenProperties
  <1>8. ASSUME NEW i \in DOMAIN page
        PROVE  before + i \in DOMAIN stream /\ page[i] = stream[before + i]
    <2>1. i \in 1 .. last - before BY <1>7
    <2>2. i \in 1 .. last - (before + 1) + 1 /\ before + 1 + i - 1 = before + i
      BY <1>1, <1>2, <1>3, <2>1
    <2>3. page[i] = stream[before + 1 + i - 1] BY <1>5, <2>2
    <2>4. page[i] = stream[before + i] BY <2>2, <2>3
    <2>5. before + i \in DOMAIN stream BY <1>1, <1>2, <1>3, <2>1
    <2> QED BY <2>4, <2>5
  <1> QED BY <1>5, <1>7, <1>8 DEF RangeFrom, page, last, before

\* The entries of an ascending stream that come before an id are its first ones.
LEMMA FirstOnes ==
    ASSUME NEW stream \in Seq(Event), Ascending(stream), NEW start \in Ids,
           NEW i \in DOMAIN stream
    PROVE  Precedes(stream[i].id, start) <=> i <= CountBefore(stream, start)
  <1> DEFINE S == {k \in DOMAIN stream : Precedes(stream[k].id, start)}
             T == {k \in DOMAIN stream : ~Precedes(stream[k].id, start)}
  <1>1. Len(stream) \in Nat /\ DOMAIN stream = 1 .. Len(stream) BY LenProperties
  <1>2. ASSUME NEW k \in DOMAIN stream, NEW m \in S, k < m PROVE k \in S
    <2>1. AtMost(stream[k].id, stream[m].id) BY <1>2 DEF Ascending, AtMost
    <2>2. stream[k].id \in Ids /\ stream[m].id \in Ids BY EntryId
    <2> QED BY <2>1, <2>2, IdOrder
  <1>3. \E n \in 0 .. Len(stream) : S = 1 .. n
    <2>1. CASE T = {} BY <2>1, <1>1
    <2>2. CASE T # {}
      <3>1. T \in SUBSET Nat BY <1>1
      <3>2. PICK t \in T : \A y \in T : t <= y BY <2>2, <3>1, Least
      <3>3. t \in DOMAIN stream /\ t \notin S BY <3>2
      <3>4. ASSUME NEW k \in S PROVE k < t BY <1>1, <1>2, <3>3
      <3>5. ASSUME NEW k \in 1 .. t - 1 PROVE k \in S
        <4>1. k \in DOMAIN stream /\ ~(t <= k) BY <1>1, <3>3
        <4>2. k \notin T BY <3>2, <4>1
        <4> QED BY <4>1, <4>2
      <3>6. S \subseteq DOMAIN stream OBVIOUS
      <3> HIDE DEF S, T
      <3>7. S \subseteq 1 .. t - 1 BY <1>1, <3>3, <3>4, <3>6
      <3>8. 1 .. t - 1 \subseteq S BY <3>5
      <3>9. S = 1 .. t - 1 BY <3>7, <3>8
      <3> QED BY <3>9, <1>1, <3>3
    <2> QED BY <2>1, <2>2
  <1>4. PICK n \in 0 .. Len(stream) : S = 1 .. n BY <1>3
  <1>5. Cardinality(1 .. n) = n BY <1>1, FS_Interval
  <1>6. CountBefore(stream, start) = n BY <1>4, <1>5 DEF CountBefore
  <1>7. i \in S <=> i \in 1 .. n BY <1>4
  <1> QED BY <1>1, <1>6, <1>7

\* An entry from start on that is not trimmed is in the page, or after everything in it.
LEMMA PageReaches ==
    ASSUME NEW stream \in Seq(Event), Ascending(stream), NEW cut \in 0 .. Len(stream),
           NEW start \in Ids, NEW n \in Nat,
           NEW i \in DOMAIN stream, i > cut, ~Precedes(stream[i].id, start)
    PROVE  LET page == RangeFrom(stream, cut, start, n)
           IN  \/ \E k \in DOMAIN page : page[k] = stream[i]
               \/ \A k \in DOMAIN page : Precedes(page[k].id, stream[i].id)
  <1> DEFINE before == Before(cut, CountBefore(stream, start))
             last == IF before + n < Len(stream) THEN before + n ELSE Len(stream)
             page == RangeFrom(stream, cut, start, n)
  <1>1. before \in 0 .. Len(stream) BY CountType DEF Before
  <1>2. Len(stream) \in Nat /\ DOMAIN stream = 1 .. Len(stream) BY LenProperties
  <1>3. last \in before .. Len(stream) BY <1>1, <1>2
  <1>4. /\ DOMAIN page = 1 .. last - before
        /\ \A k \in DOMAIN page : before + k \in DOMAIN stream /\ page[k] = stream[before + k]
    BY PageHolds
  <1>5. i > before
    <2>1. CountBefore(stream, start) \in 0 .. Len(stream) BY CountType
    <2> QED BY <1>2, <2>1, FirstOnes DEF Before
  <1> HIDE DEF before, last, page
  <1>6. CASE i <= last
    <2>1. i - before \in DOMAIN page /\ before + (i - before) = i
      BY <1>1, <1>2, <1>3, <1>4, <1>5, <1>6
    <2> QED BY <2>1, <1>4 DEF page
  <1>7. CASE i > last
    <2>1. ASSUME NEW k \in DOMAIN page PROVE Precedes(page[k].id, stream[i].id)
      <3>1. before + k < i BY <1>1, <1>2, <1>3, <1>4, <1>7
      <3> QED BY <3>1, <1>4 DEF Ascending
    <2> QED BY <2>1 DEF page
  <1> QED BY <1>1, <1>2, <1>3, <1>6, <1>7

-----------------------------------------------------------------------------
\* Types, with the client a record whose listeners and promises go together.
Typed ==
    /\ JobsTypeOK /\ poll \in PollStates
    /\ reply \in [Job -> {"none", "coming", "here", "lost"}]
    /\ client \in Client /\ Paired(client) /\ Answered(client)
    /\ \A j \in Job : client.fetching[j] <= MaxCopies

\* A new page has no timers.
LEMMA EmptyTimers == EmptyBag \in EventBag /\ BagToSet(EmptyBag) = {}
  <1>1. EmptyBag \in [{} -> Nat \ {0}] /\ DOMAIN EmptyBag = {} BY DEF EmptyBag, SetToBag
  <1> QED BY <1>1 DEF EventBag, BagToSet

\* A page that has just called init().
LEMMA NewPage ==
    ASSUME NEW id \in Ids
    PROVE  LET c == NewClient(Job, id)
           IN  /\ c \in Client /\ Paired(c) /\ Timed(c) = {} /\ c.lastId = id
               /\ \A j \in Job : c.fetching[j] = 0 /\ c.retries[j] = 0 /\ c.promise[j] = "none"
               /\ c.listening = {}
  <1> DEFINE c == NewClient(Job, id)
  <1>1. MaxRetries \in Nat BY ClientAssumption
  <1>2. c = [listening |-> {}, promise |-> [j \in Job |-> "none"], retries |-> [j \in Job |-> 0],
             timers |-> EmptyBag, fetching |-> [j \in Job |-> 0], lastId |-> id]
    BY DEF NewClient
  <1> HIDE DEF c
  <1>3. c \in Client BY <1>1, <1>2, EmptyTimers DEF Client
  <1> QED BY <1>2, <1>3, EmptyTimers DEF Paired, Timed, c

\* XADD's result is a stream.
LEMMA AddedIs ==
    ASSUME NEW stream \in Seq(Event), NEW j \in Job, NEW s \in {"done", "error"},
           ms \in Nat \ {0}
    PROVE  Added(stream, j, s) \in Seq(Event) /\ Len(Added(stream, j, s)) = Len(stream) + 1
  <1>1. NewestId(stream) \in Ids
    <2>1. Len(stream) \in Nat /\ DOMAIN stream = 1 .. Len(stream) BY LenProperties
    <2>2. stream = <<>> \/ Len(stream) \in DOMAIN stream BY <2>1
    <2> QED BY <2>2, EntryId DEF NewestId, Origin, Ids
  <1>2. FreshId(NewestId(stream), ms) \in Ids
    BY <1>1, IdPair DEF FreshId, Ids
  <1>3. [id |-> FreshId(NewestId(stream), ms), job |-> j, status |-> s] \in Event
    BY <1>2 DEF Event
  <1> QED BY <1>3, AppendProperties DEF Added

\* XADD trims no more than there is, and brings nothing back.
LEMMA TrimmedIs ==
    ASSUME NEW stream \in Seq(Event), NEW added \in Seq(Event), Len(added) = Len(stream) + 1,
           NEW cut \in 0 .. Len(stream), NEW limit \in Nat, NEW n \in Trimmed(cut, added, limit)
    PROVE  n \in cut .. Len(added) /\ n \in 0 .. Len(added)
  <1>1. Len(stream) \in Nat /\ Len(added) \in Nat BY LenProperties
  <1> QED BY <1>1 DEF Trimmed

\* Workers keep their types.
LEMMA JobsKeepTypes == ASSUME JobsTypeOK, JobsNext PROVE JobsTypeOK'
  <1>1. ms \in Nat \ {0} /\ MaxMs \in Nat BY JobsAssumption DEF JobsTypeOK
  <1> USE DEF JobsTypeOK
  <1>2. CASE NextMs BY <1>1, <1>2 DEF NextMs, streams
  <1>3. ASSUME NEW j \in Job, JobStep(j) PROVE JobsTypeOK'
    <2>1. CASE Compute(j) \/ Fail(j) BY <2>1 DEF Compute, streams, Fail, Moves, WorkerStates
    <2>2. CASE AddScoped(j)
      <3>1. scoped' \in Seq(Event) /\ Len(scoped') = Len(scoped) + 1
        BY <1>1, <2>2, AddedIs DEF AddScoped
      <3>2. scopedCut' \in 0 .. Len(scoped')
        BY <2>2, <3>1, TrimmedIs, JobsAssumption DEF AddScoped
      <3> QED BY <2>2, <3>1, <3>2 DEF AddScoped, Moves, WorkerStates
    <2>3. CASE AddFull(j)
      <3>1. full' \in Seq(Event) /\ Len(full') = Len(full) + 1
        BY <1>1, <2>3, AddedIs DEF AddFull
      <3>2. fullCut' \in 0 .. Len(full')
        BY <2>3, <3>1, TrimmedIs, JobsAssumption DEF AddFull
      <3> QED BY <2>3, <3>1, <3>2 DEF AddFull, Moves, WorkerStates
    <2> QED BY <1>3, <2>1, <2>2, <2>3 DEF JobStep
  <1>4. ASSUME NEW j \in Job, JobFault(j) PROVE JobsTypeOK'
    <2>1. CASE SoftTimeout(j) \/ Crash(j) BY <2>1 DEF SoftTimeout, streams, Crash, Moves, WorkerStates
    <2>2. CASE RedisError(j) BY <2>2 DEF RedisError, streams, Moves, WorkerStates
    <2>3. CASE Evict(j) BY <2>3 DEF Evict, streams
    <2> QED BY <1>4, <2>1, <2>2, <2>3 DEF JobFault
  <1> QED BY <1>2, <1>3, <1>4 DEF JobsNext

\* Data has arrived, or an error in its place.
LEMMA FetchedIs ==
    ASSUME NEW c \in Client, NEW j \in Job, NEW to \in {"resolved", "rejected", "unfetched"},
           c.fetching[j] > 0
    PROVE  LET d == Fetched(c, j, to)
           IN  /\ d \in Client /\ d.lastId = c.lastId /\ Timed(d) = Timed(c)
               /\ d.retries = c.retries
               /\ d.listening = c.listening \ {j}
               /\ \A k \in Job \ {j} : d.promise[k] = c.promise[k] /\ d.fetching[k] = c.fetching[k]
               /\ d.promise[j] # "waiting"
               /\ d.fetching[j] = c.fetching[j] - 1
  <1> DEFINE d == Fetched(c, j, to)
  <1>1. /\ c.listening \in SUBSET Job /\ c.timers \in EventBag /\ c.lastId \in Ids
        /\ c.promise \in [Job -> {"none", "waiting", "resolved", "rejected", "unfetched", "left"}]
        /\ c.retries \in [Job -> 0 .. MaxRetries] /\ c.fetching \in [Job -> Nat]
    BY DEF Client
  <1>3. d = [c EXCEPT !.fetching[j] = @ - 1, !.promise[j] = IF @ = "waiting" THEN to ELSE @,
                      !.listening = @ \ {j}]
    BY <1>1 DEF Fetched, Settle, StopListening, Client
  <1> HIDE DEF d
  <1>4. d = [listening |-> c.listening \ {j},
             promise   |-> [c.promise EXCEPT ![j] = IF c.promise[j] = "waiting" THEN to
                                                    ELSE c.promise[j]],
             retries   |-> c.retries, timers |-> c.timers,
             fetching  |-> [c.fetching EXCEPT ![j] = c.fetching[j] - 1], lastId |-> c.lastId]
    BY <1>3 DEF Client
  <1>5. c.fetching[j] - 1 \in Nat BY <1>1
  <1>6. d \in Client BY <1>1, <1>4, <1>5 DEF Client
  <1> QED BY <1>1, <1>4, <1>6 DEF Timed, BagToSet, d

\* A listener has been added.
LEMMA ListenIs ==
    ASSUME NEW c \in Client, NEW j \in Job
    PROVE  LET d == Listen(c, j)
           IN  /\ d \in Client /\ d.lastId = c.lastId /\ Timed(d) = Timed(c)
               /\ d.retries = c.retries /\ d.fetching = c.fetching
               /\ d.listening = c.listening \cup {j}
               /\ d.promise = [c.promise EXCEPT ![j] = "waiting"]
  <1> DEFINE d == Listen(c, j)
  <1>1. d = [c EXCEPT !.promise[j] = "waiting", !.listening = @ \cup {j}]
    BY DEF Listen, Client
  <1> HIDE DEF d
  <1>2. d = [listening |-> c.listening \cup {j}, promise |-> [c.promise EXCEPT ![j] = "waiting"],
             retries |-> c.retries, timers |-> c.timers, fetching |-> c.fetching,
             lastId |-> c.lastId]
    BY <1>1 DEF Client
  <1>3. d \in Client BY <1>2 DEF Client
  <1> QED BY <1>2, <1>3 DEF Timed, BagToSet, d

\* The client record whose timer of e has fired, before its event is processed.
Popped(c, e) == [c EXCEPT !.timers = @ (-) SetToBag({e})]

\* Its timers lose that event, or one copy of it.
LEMMA PoppedIs ==
    ASSUME NEW c \in Client, NEW e \in Event
    PROVE  LET d == Popped(c, e)
           IN  /\ d \in Client /\ d.lastId = c.lastId /\ d.retries = c.retries
               /\ d.fetching = c.fetching /\ d.listening = c.listening /\ d.promise = c.promise
               /\ Timed(d) \subseteq Timed(c) /\ Timed(c) \ {e} \subseteq Timed(d)
  <1> DEFINE rest == c.timers (-) SetToBag({e})
             d == Popped(c, e)
  <1>1. /\ rest \in EventBag /\ BagToSet(rest) \subseteq BagToSet(c.timers)
        /\ BagToSet(c.timers) \ {e} \subseteq BagToSet(rest)
    BY BagTake DEF Client
  <1> HIDE DEF rest
  <1>2. d = [c EXCEPT !.timers = rest] BY DEF Popped, rest, Client
  <1> HIDE DEF d
  <1>3. d = [listening |-> c.listening, promise |-> c.promise, retries |-> c.retries,
             timers |-> rest, fetching |-> c.fetching, lastId |-> c.lastId]
    BY <1>2 DEF Client
  <1>4. d \in Client BY <1>1, <1>3 DEF Client
  <1> QED BY <1>1, <1>3, <1>4 DEF Timed, d

-----------------------------------------------------------------------------
\* The page starts without listeners.
LEMMA TypedInit == Init => Typed
  <1> SUFFICES ASSUME Init PROVE Typed OBVIOUS
  <1>1. JobsTypeOK
    <2>1. 1 \in 1 .. MaxMs BY JobsAssumption
    <2> QED BY <2>1 DEF Init, JobsInit, JobsTypeOK, WorkerStates
  <1>2. Origin \in Ids BY DEF Origin, Ids
  <1>3. poll \in PollStates BY <1>2 DEF Init, Idle, PollStates
  <1>4. client = NewClient(Job, Origin) /\ reply = [j \in Job |-> "none"]
    BY DEF Init, PageInit
  <1>5. /\ client \in Client /\ Paired(client)
        /\ \A j \in Job : client.fetching[j] = 0 /\ client.listening = {}
    BY <1>2, <1>4, NewPage
  <1>6. 0 <= MaxCopies BY PageAssumption
  <1> QED BY <1>1, <1>3, <1>4, <1>5, <1>6 DEF Typed, Answered

\* A reloaded page starts afresh, from whichever id.
LEMMA ReloadTyped ==
    ASSUME Typed, NEW id \in Ids, ReloadWith(id), poll' = Idle
    PROVE  Typed'
  <1>0. /\ JobsTypeOK /\ client \in Client
        /\ reply \in [Job -> {"none", "coming", "here", "lost"}]
    BY DEF Typed
  <1> DEFINE left == [j \in Job |-> IF client.promise[j] = "waiting" THEN "left" ELSE client.promise[j]]
  <1>3. /\ client' = [NewClient(Job, id) EXCEPT !.promise = left]
        /\ reply' = [j \in Job |-> IF reply[j] = "coming" THEN "lost" ELSE reply[j]]
        /\ UNCHANGED jobVars /\ poll' = Idle
    BY DEF ReloadWith
  <1>4. left \in [Job -> {"none", "waiting", "resolved", "rejected", "unfetched", "left"}]
        /\ \A j \in Job : left[j] # "waiting"
    BY <1>0 DEF Client
  <1> HIDE DEF left
  <1>5. /\ NewClient(Job, id) \in Client /\ NewClient(Job, id).listening = {}
        /\ \A j \in Job : NewClient(Job, id).fetching[j] = 0
    BY NewPage
  <1>6. /\ client' \in Client /\ client'.listening = {} /\ client'.promise = left
        /\ client'.fetching = NewClient(Job, id).fetching
    <2> DEFINE c == NewClient(Job, id)
    <2> HIDE DEF c
    <2>1. c \in Client BY <1>5 DEF c
    <2>2. client' = [c EXCEPT !.promise = left] BY <1>3 DEF c
    <2>3. client' = [listening |-> c.listening, promise |-> left, retries |-> c.retries,
                     timers |-> c.timers, fetching |-> c.fetching, lastId |-> c.lastId]
      BY <2>1, <2>2 DEF Client
    <2> QED BY <1>4, <1>5, <2>1, <2>3 DEF Client, c
  <1>7. JobsTypeOK' BY <1>0, <1>3 DEF JobsTypeOK, jobVars, streams
  <1>8. poll' \in PollStates BY <1>3 DEF PollStates, Idle, Origin, Ids
  <1>9. reply' \in [Job -> {"none", "coming", "here", "lost"}] BY <1>0, <1>3
  <1> QED BY <1>4, <1>5, <1>6, <1>7, <1>8, <1>9, PageAssumption DEF Typed, Paired, Answered

\* Every step of the page and of the workers keeps the types.
LEMMA TypedNext == Typed /\ [Next]_vars => Typed'
  <1> SUFFICES ASSUME Typed, [Next]_vars PROVE Typed' OBVIOUS
  <1>0. /\ JobsTypeOK /\ poll \in PollStates
        /\ reply \in [Job -> {"none", "coming", "here", "lost"}]
        /\ client \in Client /\ Paired(client) /\ Answered(client)
        /\ \A j \in Job : client.fetching[j] <= MaxCopies
        /\ client.fetching \in [Job -> Nat]
    BY DEF Typed, Client
  <1>1. CASE JobsNext /\ UNCHANGED <<pageVars, poll>>
    <2>1. JobsTypeOK' BY <1>0, <1>1, JobsKeepTypes
    <2> QED BY <1>1, <2>1 DEF Typed, Paired, Answered, pageVars
  <1>2. ASSUME NEW j \in Job, Submit(j), UNCHANGED poll PROVE Typed'
    <2>1. JobsTypeOK' BY <1>0, <1>2 DEF Submit, Enqueue, streams, Moves, JobsTypeOK, WorkerStates
    <2>2. reply[j] = "none" /\ reply' = [reply EXCEPT ![j] = "coming"] /\ client' = client
      BY <1>2 DEF Submit
    <2>3. Answered(client)' BY <1>0, <2>2 DEF Answered
    <2> QED BY <1>0, <1>2, <2>1, <2>2, <2>3 DEF Typed, Paired
  <1>3. ASSUME NEW j \in Job, Register(j), UNCHANGED poll PROVE Typed'
    <2>1. /\ reply[j] = "coming" /\ reply' = [reply EXCEPT ![j] = "here"]
          /\ client' = Listen(client, j) /\ UNCHANGED jobVars
      BY <1>3 DEF Register
    <2>2. /\ client' \in Client /\ client'.fetching = client.fetching
          /\ client'.listening = client.listening \cup {j}
          /\ client'.promise = [client.promise EXCEPT ![j] = "waiting"]
      BY <1>0, <2>1, ListenIs
    <2>3. JobsTypeOK' BY <1>0, <2>1 DEF JobsTypeOK, jobVars, streams
    <2>4. client.promise \in [Job -> {"none", "waiting", "resolved", "rejected", "unfetched", "left"}]
      BY <1>0 DEF Client
    <2>5. Paired(client') BY <1>0, <2>2, <2>4 DEF Paired
    <2>6. Answered(client)' BY <1>0, <2>1, <2>2 DEF Answered
    <2> QED BY <1>0, <1>3, <2>1, <2>2, <2>3, <2>5, <2>6 DEF Typed, Paired
  <1>4. ASSUME NEW j \in Job, ReplyLost(j), UNCHANGED poll PROVE Typed'
    <2>1. /\ reply[j] = "coming" /\ reply' = [reply EXCEPT ![j] = "lost"]
          /\ client' = client /\ UNCHANGED jobVars
      BY <1>4 DEF ReplyLost
    <2>2. JobsTypeOK' BY <1>0, <2>1 DEF JobsTypeOK, jobVars, streams
    <2>3. Answered(client)' BY <1>0, <2>1 DEF Answered
    <2> QED BY <1>0, <1>4, <2>1, <2>2, <2>3 DEF Typed, Paired
  <1>5. ASSUME NEW j \in Job, DataArrives(j), UNCHANGED poll PROVE Typed'
    <2>1. PICK to \in {"resolved", "rejected", "unfetched"} :
              /\ client.fetching[j] > 0 /\ client' = Fetched(client, j, to)
              /\ reply' = reply /\ UNCHANGED jobVars
      BY <1>5 DEF DataArrives
    <2>2. /\ client' \in Client /\ client'.listening = client.listening \ {j}
          /\ \A k \in Job \ {j} : /\ client'.promise[k] = client.promise[k]
                                  /\ client'.fetching[k] = client.fetching[k]
          /\ client'.promise[j] # "waiting" /\ client'.fetching[j] = client.fetching[j] - 1
      BY <1>0, <2>1, FetchedIs
    <2>3. JobsTypeOK' BY <1>0, <2>1 DEF JobsTypeOK, jobVars, streams
    <2>4. Paired(client') BY <1>0, <2>2 DEF Paired
    <2>5. Answered(client)' BY <1>0, <2>1, <2>2 DEF Answered
    <2>6. \A k \in Job : client'.fetching[k] <= MaxCopies
      BY <1>0, <2>2, PageAssumption
    <2> QED BY <1>0, <1>5, <2>1, <2>2, <2>3, <2>4, <2>5, <2>6 DEF Typed, Paired
  <1>6. ASSUME NEW e \in Pending, RetryFires(e), UNCHANGED poll PROVE Typed'
    <2>1. /\ client' = ProcessEvent(Popped(client, e), e) /\ Fits(client')
          /\ reply' = reply /\ UNCHANGED jobVars
      BY <1>6 DEF RetryFires, Retry, Popped
    <2>2. e \in Event BY <1>0, <1>6 DEF Pending, Client, EventBag, BagToSet
    <2> DEFINE c == Popped(client, e)
    <2>3. c \in Client /\ Paired(c) /\ Answered(c) BY <1>0, <2>2, PoppedIs DEF Paired, Answered
    <2> HIDE DEF c
    <2>4. client' \in Client /\ Paired(client') /\ Answered(client')
      BY <2>1, <2>2, <2>3, Turn, TurnKeeps DEF c
    <2>5. JobsTypeOK' BY <1>0, <2>1 DEF JobsTypeOK, jobVars, streams
    <2>6. Answered(client)' BY <2>1, <2>4 DEF Answered
    <2> QED BY <1>0, <1>6, <2>1, <2>4, <2>5, <2>6 DEF Typed, Paired, Fits
  <1>7. CASE PollSent \/ PollAnswered \/ PollFails
    <2>1. UNCHANGED <<jobVars, pageVars>> BY <1>7 DEF PollSent, PollAnswered, PollFails
    <2>2. poll' \in PollStates
      <3>1. CASE PollSent
        <4>1. client.lastId \in Ids BY <1>0 DEF Client
        <4>2. poll' = [pc |-> "sent", from |-> client.lastId, events |-> <<>>]
          BY <3>1 DEF PollSent, Idle
        <4> QED BY <4>1, <4>2 DEF PollStates
      <3>2. CASE PollAnswered
        <4>1. ReadEvents(poll.from) \in Seq(Event)
          <5> DEFINE start == IF poll.from = Origin THEN Origin ELSE PyIncrement(poll.from)
          <5>1. scoped \in Seq(Event) /\ MaxEventCount \in Nat /\ scopedCut \in 0 .. Len(scoped)
            BY <1>0, PageAssumption DEF JobsTypeOK
          <5> HIDE DEF start
          <5>2. RangeFrom(scoped, scopedCut, start, MaxEventCount) \in Seq(Event) BY <5>1, PageHolds
          <5> QED BY <5>2 DEF ReadEvents, start
        <4> HIDE DEF ReadEvents
        <4> QED BY <1>0, <3>2, <4>1 DEF PollAnswered, PollStates
      <3>3. CASE PollFails BY <3>3 DEF PollFails, PollStates, Idle, Origin, Ids
      <3> QED BY <1>7, <3>1, <3>2, <3>3
    <2> QED BY <1>0, <2>1, <2>2 DEF Typed, JobsTypeOK, Paired, Answered, jobVars, streams, pageVars
  <1>8. CASE PollReceived
    <2>1. /\ client' = ProcessEvents(client, poll.events) /\ Fits(client')
          /\ reply' = reply /\ UNCHANGED jobVars /\ poll' = Idle
      BY <1>8 DEF PollReceived
    <2>2. poll.events \in Seq(Event) BY <1>0 DEF PollStates
    <2>3. client' \in Client /\ Paired(client') /\ Answered(client')
      BY <1>0, <2>1, <2>2, LoopKeeps
    <2>4. JobsTypeOK' BY <1>0, <2>1 DEF JobsTypeOK, jobVars, streams
    <2>5. Answered(client)' BY <2>1, <2>3 DEF Answered
    <2>6. poll' \in PollStates BY <2>1 DEF PollStates, Idle, Origin, Ids
    <2> QED BY <1>0, <2>1, <2>3, <2>4, <2>5, <2>6 DEF Typed, Paired, Fits
  <1>9. CASE Reload
    <2>1. PICK id \in StoredIds(scoped) : ReloadWith(id) BY <1>9 DEF Reload
    <2>2. id \in Ids BY <1>0, EntryId DEF StoredIds, Client, JobsTypeOK
    <2> QED BY <1>9, <2>1, <2>2, ReloadTyped DEF Reload
  <1>10. CASE UNCHANGED vars
    BY <1>0, <1>10 DEF vars, jobVars, streams, pageVars, Typed, JobsTypeOK, Paired, Answered
  <1> QED BY <1>1, <1>2, <1>3, <1>4, <1>5, <1>6, <1>7, <1>8, <1>9, <1>10
          DEF Next, PageNext, PageStep, pageVars

\* Typed is the model's type invariant, and more.
LEMMA TypedIs == Typed => TypeOK
  <1> SUFFICES ASSUME Typed PROVE PageTypeOK BY DEF Typed, TypeOK
  <1>1. BagToSet(client.timers) \subseteq Event
    BY DEF Typed, Client, EventBag, BagToSet
  <1>2. client.fetching \in [Job -> 0 .. MaxCopies]
    BY PageAssumption DEF Typed, Client
  <1> QED BY <1>1, <1>2 DEF Typed, Client, PageTypeOK

\* Types are kept, whatever fails.
THEOREM PollingTypeOK == Spec => []TypeOK
  BY TypedIs, TypedInit, TypedNext, PTL DEF Spec

\* Listeners and waiting promises go together.
THEOREM PollingNoListenerLeak == Spec => []NoListenerLeak
  <1>1. Typed => NoListenerLeak BY DEF Typed, Paired, NoListenerLeak
  <1> QED BY <1>1, TypedInit, TypedNext, PTL DEF Spec

-----------------------------------------------------------------------------
\* At most twenty events of the channel in a millisecond.
Quiet == \A i \in DOMAIN scoped : scoped[i].id[2] < 20

Stored(e) == \E i \in DOMAIN scoped : scoped[i] = e
Known(id) == id = Origin \/ \E i \in DOMAIN scoped : scoped[i].id = id

\* What the page holds comes from the channel's stream.
Recorded ==
    /\ Ascending(scoped)
    /\ Known(client.lastId) /\ Known(poll.from)
    /\ \A p \in Pending : Stored(p)
    /\ \A i \in DOMAIN poll.events : Stored(poll.events[i])

\* Only a job that was submitted has events.
Started ==
    /\ \A j \in Job : reply[j] = "none" => worker[j] = "none"
    /\ \A i \in DOMAIN scoped : worker[scoped[i].job] # "none"

\* An event every poll from now on still brings: nothing that the page has or is about
\* to process puts the last id past it.
Ahead(e) ==
    /\ Precedes(client.lastId, e.id)
    /\ \A p \in Pending : Precedes(p.id, e.id)
    /\ poll.pc = "sent" => Precedes(poll.from, e.id)
    /\ poll.pc = "answered" =>
          \/ \E i \in DOMAIN poll.events : poll.events[i] = e
          \/ \A i \in DOMAIN poll.events : Precedes(poll.events[i].id, e.id)

\* An awaited job has work under way, or all its events that are left are still ahead.
Tracked ==
    \A j \in Job : Waits(client, j) =>
        \A i \in Held(scoped, scopedCut, j) : Ahead(scoped[i]) \/ Covers(client, j)

Kept == Typed /\ Recorded /\ Started /\ Backed(client) /\ Tracked

\* What the types say of each variable.
LEMMA TypedGives ==
    ASSUME Typed
    PROVE  /\ ms \in Nat \ {0} /\ scoped \in Seq(Event) /\ worker \in [Job -> WorkerStates]
           /\ scopedCut \in 0 .. Len(scoped)
           /\ poll.pc \in {"idle", "sent", "answered"} /\ poll.from \in Ids
           /\ poll.events \in Seq(Event)
           /\ reply \in [Job -> {"none", "coming", "here", "lost"}]
           /\ client \in Client /\ Paired(client) /\ Answered(client)
           /\ client.fetching \in [Job -> Nat] /\ client.lastId \in Ids
           /\ Pending \subseteq Event /\ Pending = Timed(client)
           /\ DOMAIN scoped = 1 .. Len(scoped) /\ Len(scoped) \in Nat
           /\ \A i \in DOMAIN scoped : scoped[i] \in Event /\ scoped[i].id \in Ids
                                       /\ scoped[i].job \in Job
  <1>1. /\ ms \in Nat \ {0} /\ scoped \in Seq(Event) /\ worker \in [Job -> WorkerStates]
        /\ scopedCut \in 0 .. Len(scoped)
    BY JobsAssumption DEF Typed, JobsTypeOK
  <1>2. poll.pc \in {"idle", "sent", "answered"} /\ poll.from \in Ids /\ poll.events \in Seq(Event)
    BY DEF Typed, PollStates
  <1>3. /\ client \in Client /\ Paired(client) /\ Answered(client)
        /\ reply \in [Job -> {"none", "coming", "here", "lost"}]
    BY DEF Typed
  <1>4. /\ client.fetching \in [Job -> Nat] /\ client.lastId \in Ids
        /\ Pending \subseteq Event /\ Pending = Timed(client)
    BY <1>3 DEF Client, Pending, Timed, EventBag, BagToSet
  <1>5. DOMAIN scoped = 1 .. Len(scoped) /\ Len(scoped) \in Nat BY <1>1, LenProperties
  <1>6. ASSUME NEW i \in DOMAIN scoped
        PROVE  scoped[i] \in Event /\ scoped[i].id \in Ids /\ scoped[i].job \in Job
    <2>1. scoped[i] \in Event BY <1>1, <1>5, ElementOfSeq
    <2> QED BY <2>1 DEF Event
  <1> QED BY <1>1, <1>2, <1>3, <1>4, <1>5, <1>6

\* What the workers do to the channel's stream.
LEMMA JobsDo ==
    ASSUME Typed, JobsNext
    PROVE  /\ \A j \in Job : worker'[j] = "none" <=> worker[j] = "none"
           /\ \/ scoped' = scoped /\ scopedCut' = scopedCut
              \/ /\ \E j \in Job, s \in {"done", "error"} :
                        scoped' = Added(scoped, j, s) /\ worker[j] # "none"
                 /\ scopedCut' >= scopedCut
  <1> USE TypedGives
  <1>1. CASE NextMs BY <1>1 DEF NextMs, streams
  <1>2. ASSUME NEW j \in Job, JobStep(j)
        PROVE  /\ \A k \in Job : worker'[k] = "none" <=> worker[k] = "none"
               /\ \/ scoped' = scoped /\ scopedCut' = scopedCut
                  \/ /\ \E s \in {"done", "error"} :
                            scoped' = Added(scoped, j, s) /\ worker[j] # "none"
                     /\ scopedCut' >= scopedCut
    <2>1. CASE Compute(j) \/ Fail(j) BY <2>1 DEF Compute, streams, Fail, Moves
    <2>2. CASE AddScoped(j)
      <3>1. \E s \in {"done", "error"} : scoped' = Added(scoped, j, s) /\ worker[j] # "none"
        BY <2>2 DEF AddScoped, Moves
      <3>2. ms \in Nat \ {0} /\ scoped \in Seq(Event) OBVIOUS
      <3>3. scoped' \in Seq(Event) /\ Len(scoped') = Len(scoped) + 1 BY <3>1, <3>2, AddedIs
      <3>4. scopedCut' >= scopedCut
        BY <2>2, <3>3, TrimmedIs, JobsAssumption DEF AddScoped
      <3> QED BY <2>2, <3>1, <3>4 DEF AddScoped, Moves
    <2>3. CASE AddFull(j) BY <2>3 DEF AddFull, Moves
    <2> QED BY <1>2, <2>1, <2>2, <2>3 DEF JobStep
  <1>3. ASSUME NEW j \in Job, JobFault(j)
        PROVE  scoped' = scoped /\ scopedCut' = scopedCut /\ \A k \in Job : worker'[k] = "none" <=> worker[k] = "none"
    <2>1. CASE SoftTimeout(j) \/ Crash(j) BY <2>1 DEF SoftTimeout, streams, Crash, Moves, Running
    <2>2. CASE RedisError(j) BY <2>2 DEF RedisError, streams, Moves
    <2>3. CASE Evict(j) BY <2>3 DEF Evict, streams
    <2> QED BY <1>3, <2>1, <2>2, <2>3 DEF JobFault
  <1> QED BY <1>1, <1>2, <1>3 DEF JobsNext

\* Workers, and the clock.
LEMMA JobsKeep ==
    ASSUME Kept, Typed', JobsNext, UNCHANGED <<pageVars, poll>>
    PROVE  Kept'
  <1>1. UNCHANGED <<client, reply, poll>> BY DEF pageVars
  <1>2. \A j \in Job : worker'[j] = "none" <=> worker[j] = "none" BY JobsDo DEF Kept
  <1>3. CASE scoped' = scoped /\ scopedCut' = scopedCut
    <2>1. Started' BY <1>1, <1>2, <1>3, TypedGives DEF Kept, Started
    <2> QED BY <1>1, <1>3, <2>1
            DEF Kept, Recorded, Known, Stored, Pending, Backed, BackedFor, ToCome, HasTimer, Timed,
                Tracked, Waits, Covers, Held, EventsOf, Ahead
  <1>4. ASSUME NEW j \in Job, NEW s \in {"done", "error"}, scoped' = Added(scoped, j, s),
               worker[j] # "none", scopedCut' >= scopedCut
        PROVE  Kept'
    <2>0. PICK last \in Nat : last = Len(scoped) + 1 BY TypedGives DEF Kept
    <2>1. /\ scoped' \in Seq(Event) /\ Ascending(scoped')
          /\ DOMAIN scoped' = 1 .. last
          /\ \A i \in DOMAIN scoped : /\ scoped'[i] = scoped[i]
                                      /\ Precedes(scoped[i].id, scoped'[last].id)
          /\ scoped'[last].job = j
          /\ scoped'[last].id \in Ids /\ scoped'[last].id[1] > 0
      BY <1>4, <2>0, AddedFollows, TypedGives DEF Kept, Recorded
    <2>2. DOMAIN scoped = 1 .. Len(scoped) /\ Len(scoped) \in Nat BY TypedGives DEF Kept
    <2>3. DOMAIN scoped \subseteq DOMAIN scoped' /\ last \in DOMAIN scoped'
          /\ \A i \in DOMAIN scoped' : i \in DOMAIN scoped \/ i = last
      BY <2>0, <2>1, <2>2
    <2>4. /\ \A e : Stored(e) => Stored(e)' /\ Precedes(e.id, scoped'[last].id)
          /\ \A id : Known(id) => Known(id)' /\ Precedes(id, scoped'[last].id)
      <3>1. ASSUME NEW e, Stored(e) PROVE Stored(e)' /\ Precedes(e.id, scoped'[last].id)
        BY <2>1, <2>3, <3>1 DEF Stored
      <3>2. ASSUME NEW id, Known(id) PROVE Known(id)' /\ Precedes(id, scoped'[last].id)
        <4>1. CASE id = Origin BY <2>1, <4>1 DEF Known, Origin, Precedes
        <4>2. CASE \E i \in DOMAIN scoped : scoped[i].id = id BY <2>1, <2>3, <4>2 DEF Known
        <4> QED BY <3>2, <4>1, <4>2 DEF Known
      <3> QED BY <3>1, <3>2
    <2>5. Recorded'
      BY <1>1, <2>1, <2>4 DEF Kept, Recorded, Ascending, Pending
    <2>6. Started' BY <1>1, <1>2, <1>4, <2>1, <2>3, TypedGives DEF Kept, Started
    <2>7. Ahead(scoped[last])'
      BY <1>1, <2>4 DEF Kept, Recorded, Ahead, Pending
    <2>8. Tracked'
      <3> SUFFICES ASSUME NEW k \in Job, Waits(client, k)', NEW i \in Held(scoped, scopedCut, k)'
                   PROVE  Ahead(scoped[i])' \/ Covers(client, k)'
        BY DEF Tracked
      <3>1. Waits(client, k) BY <1>1 DEF Waits
      <3>2. CASE i = last BY <3>2, <2>7
      <3>3. CASE i \in DOMAIN scoped
        <4>1. i \in Held(scoped, scopedCut, k)
          <5>1. i \in EventsOf(scoped, k) /\ i > scopedCut' BY <2>1, <3>3 DEF Held, EventsOf
          <5>2. i \in Nat /\ scopedCut \in Nat /\ scopedCut' \in Nat
            BY <3>3, <2>2, TypedGives DEF Kept, Typed, JobsTypeOK
          <5> QED BY <1>4, <5>1, <5>2 DEF Held
        <4>2. Ahead(scoped[i]) \/ Covers(client, k) BY <3>1, <4>1 DEF Kept, Tracked
        <4>3. Ahead(scoped[i]) => Ahead(scoped[i])' BY <1>1, <2>1, <3>3 DEF Ahead, Pending
        <4>4. Covers(client, k) => Covers(client, k)' BY <1>1 DEF Covers, HasTimer, Timed
        <4> QED BY <4>2, <4>3, <4>4
      <3> QED BY <2>3, <3>2, <3>3 DEF Held, EventsOf
    <2>9. Backed(client)' BY <1>1 DEF Kept, Backed, BackedFor, ToCome, HasTimer, Timed
    <2> QED BY <2>5, <2>6, <2>8, <2>9 DEF Kept
  <1> QED BY <1>3, <1>4, JobsDo DEF Kept

-----------------------------------------------------------------------------
\* A step that leaves the streams alone keeps what the page holds recorded.
LEMMA StillRecorded ==
    ASSUME Recorded, scoped' = scoped, Known(client'.lastId), Known(poll'.from),
           \A p \in Timed(client') : Stored(p),
           \A i \in DOMAIN poll'.events : Stored(poll'.events[i])
    PROVE  Recorded'
  BY DEF Recorded, Known, Stored, Pending, Timed

\* An event that is ahead of the page stays there.
LEMMA StillAhead ==
    ASSUME NEW e, Ahead(e), Precedes(client'.lastId, e.id),
           \A p \in Timed(client') : p \in Pending \/ Precedes(p.id, e.id),
           poll' = poll \/ poll'.pc = "idle"
    PROVE  Ahead(e)'
  BY DEF Ahead, Pending, Timed

\* A new request has no events yet.
LEMMA SubmitKeeps ==
    ASSUME Kept, Typed', NEW j \in Job, Submit(j), UNCHANGED poll
    PROVE  Kept'
  <1>1. /\ reply[j] = "none" /\ reply' = [reply EXCEPT ![j] = "coming"]
        /\ UNCHANGED <<client, scoped, scopedCut, poll>>
        /\ worker[j] = "none" /\ worker' = [worker EXCEPT ![j] = "queued"]
    BY DEF Submit, Enqueue, streams, Moves
  <1>2. Recorded' BY <1>1 DEF Kept, Recorded, Known, Stored, Pending
  <1>3. Started' BY <1>1, TypedGives DEF Kept, Started
  <1>4. \A i \in DOMAIN scoped : scoped[i].job # j BY <1>1 DEF Kept, Started
  <1>5. Backed(client)'
    BY <1>1, TypedGives DEF Kept, Backed, BackedFor, ToCome, HasTimer, Timed
  <1>6. Tracked'
    <2> SUFFICES ASSUME NEW k \in Job, Waits(client, k)', NEW i \in Held(scoped, scopedCut, k)'
                 PROVE  Ahead(scoped[i])' \/ Covers(client, k)'
      BY DEF Tracked
    <2>1. i \in Held(scoped, scopedCut, k) /\ k # j BY <1>1, <1>4 DEF Held, EventsOf
    <2>2. Waits(client, k) BY <1>1, <2>1, TypedGives DEF Kept, Waits
    <2>3. Ahead(scoped[i]) \/ Covers(client, k) BY <2>1, <2>2 DEF Kept, Tracked
    <2> QED BY <1>1, <2>3 DEF Ahead, Pending, Covers, HasTimer, Timed
  <1> QED BY <1>2, <1>3, <1>5, <1>6 DEF Kept

\* An answer, or its loss, adds no wait.
LEMMA RegisterKeeps ==
    ASSUME Kept, Typed', NEW j \in Job, Register(j) \/ ReplyLost(j), UNCHANGED poll
    PROVE  Kept'
  <1>1. reply[j] = "coming" /\ UNCHANGED <<scoped, scopedCut, worker, poll>>
        /\ \/ reply' = [reply EXCEPT ![j] = "here"] /\ client' = Listen(client, j)
           \/ reply' = [reply EXCEPT ![j] = "lost"] /\ client' = client
    BY DEF Register, ReplyLost, jobVars, streams
  <1>2. /\ client'.lastId = client.lastId /\ Timed(client') = Timed(client)
        /\ client'.retries = client.retries /\ client'.fetching = client.fetching
        /\ \A k \in Job \ {j} : client'.promise[k] = client.promise[k]
    <2>1. CASE client' = Listen(client, j)
      <3>1. client \in Client BY TypedGives DEF Kept
      <3>2. client'.promise = [client.promise EXCEPT ![j] = "waiting"] BY <2>1, <3>1, ListenIs
      <3> QED BY <2>1, <3>1, <3>2, ListenIs DEF Client
    <2> QED BY <1>1, <2>1
  <1>3. Recorded' BY <1>1, <1>2, StillRecorded, TypedGives DEF Kept, Recorded
  <1>4. Started' BY <1>1, TypedGives DEF Kept, Started
  <1>5. Backed(client)'
    BY <1>1, <1>2, TypedGives DEF Kept, Backed, BackedFor, ToCome, HasTimer
  <1>6. Tracked'
    <2> SUFFICES ASSUME NEW k \in Job, Waits(client, k)', NEW i \in Held(scoped, scopedCut, k)'
                 PROVE  Ahead(scoped[i])' \/ Covers(client, k)'
      BY DEF Tracked
    <2>1. i \in Held(scoped, scopedCut, k) BY <1>1 DEF Held, EventsOf
    <2>2. Waits(client, k) BY <1>1, <1>2, TypedGives DEF Kept, Waits
    <2>3. Ahead(scoped[i]) \/ Covers(client, k) BY <2>1, <2>2 DEF Kept, Tracked
    <2> QED BY <1>1, <1>2, <2>3 DEF Ahead, Pending, Covers, HasTimer, Timed
  <1> QED BY <1>3, <1>4, <1>5, <1>6 DEF Kept

\* Data that arrives settles its promise.
LEMMA DataKeeps ==
    ASSUME Kept, Typed', NEW j \in Job, DataArrives(j), UNCHANGED poll
    PROVE  Kept'
  <1>1. PICK to \in {"resolved", "rejected", "unfetched"} :
            /\ client.fetching[j] > 0 /\ client' = Fetched(client, j, to)
            /\ UNCHANGED <<scoped, scopedCut, worker, reply, poll>>
    BY DEF DataArrives, jobVars, streams
  <1>2. /\ client'.lastId = client.lastId /\ Timed(client') = Timed(client)
        /\ client'.retries = client.retries /\ client'.promise[j] # "waiting"
        /\ \A k \in Job \ {j} : /\ client'.promise[k] = client.promise[k]
                                /\ client'.fetching[k] = client.fetching[k]
    BY <1>1, FetchedIs, TypedGives DEF Kept
  <1>3. reply[j] = "here" BY <1>1, TypedGives DEF Kept, Answered
  <1>4. Recorded' BY <1>1, <1>2, StillRecorded, TypedGives DEF Kept, Recorded
  <1>5. Started' BY <1>1 DEF Kept, Started
  <1>6. Backed(client)' BY <1>1, <1>2 DEF Kept, Backed, BackedFor, ToCome, HasTimer
  <1>7. Tracked'
    <2> SUFFICES ASSUME NEW k \in Job, Waits(client, k)', NEW i \in Held(scoped, scopedCut, k)'
                 PROVE  Ahead(scoped[i])' \/ Covers(client, k)'
      BY DEF Tracked
    <2>1. i \in Held(scoped, scopedCut, k) /\ k # j BY <1>1, <1>2, <1>3 DEF Held, EventsOf, Waits
    <2>2. Waits(client, k) BY <1>1, <1>2, <2>1 DEF Waits
    <2>3. Ahead(scoped[i]) \/ Covers(client, k) BY <2>1, <2>2 DEF Kept, Tracked
    <2> QED BY <1>1, <1>2, <2>1, <2>3 DEF Ahead, Pending, Covers, HasTimer, Timed
  <1> QED BY <1>4, <1>5, <1>6, <1>7 DEF Kept

\* The last retry fires after the answer, so the event finds its listener or waits again.
LEMMA RetryKeeps ==
    ASSUME PromptReply, MaxRetries > 0,
           Kept, Typed', NEW e \in Pending, RetryFires(e), UNCHANGED poll
    PROVE  Kept'
  <1> DEFINE c == Popped(client, e)
             d == ProcessEvent(c, e)
  <1>1. /\ client' = d /\ UNCHANGED <<scoped, scopedCut, worker, reply, poll>>
        /\ reply[e.job] = "coming" => client.retries[e.job] < MaxRetries
    BY DEF RetryFires, Retry, Popped, jobVars, streams
  <1>2. e \in Event /\ Stored(e) /\ e.job \in Job
    <2>1. e \in Event BY TypedGives DEF Kept
    <2> QED BY <2>1 DEF Kept, Recorded, Event
  <1>3. /\ c \in Client /\ c.lastId = client.lastId /\ c.retries = client.retries
        /\ c.fetching = client.fetching /\ c.listening = client.listening
        /\ c.promise = client.promise
        /\ Timed(c) \subseteq Timed(client) /\ Timed(client) \ {e} \subseteq Timed(c)
    BY <1>2, PoppedIs, TypedGives DEF Kept
  <1> HIDE DEF c
  <1>4. Paired(c) /\ Answered(c) BY <1>3, TypedGives DEF Kept, Paired, Answered
  <1>5. ToCome(e.job) => c.retries[e.job] < MaxRetries
    <2>1. reply[e.job] # "none" BY <1>2 DEF Kept, Started, Stored
    <2> QED BY <1>1, <1>3, <2>1 DEF ToCome
  <1>6. \A j \in Job \ {e.job} : BackedFor(c, j)
    BY <1>3 DEF Kept, Backed, BackedFor, HasTimer
  <1>7. Backed(d) /\ (Waits(d, e.job) => Covers(d, e.job))
    BY <1>2, <1>3, <1>4, <1>5, <1>6, TurnCovers
  <1>8. d.lastId = e.id /\ Timed(d) \subseteq Timed(c) \cup {e} BY <1>2, <1>3, Turn
  <1>9. \A j \in Job : (Waits(d, j) => Waits(c, j)) /\ (Covers(c, j) => Covers(d, j))
    BY <1>2, <1>3, <1>4, TurnKeeps
  <1> HIDE DEF d
  <1>10. Recorded'
    <2>1. Known(client'.lastId) BY <1>1, <1>2, <1>8 DEF Known, Stored
    <2>2. \A p \in Timed(client') : Stored(p)
      BY <1>1, <1>2, <1>3, <1>8, TypedGives DEF Kept, Recorded
    <2> QED BY <1>1, <2>1, <2>2, StillRecorded DEF Kept, Recorded
  <1>11. Started' BY <1>1 DEF Kept, Started
  <1>12. Backed(client)' BY <1>1, <1>7 DEF Backed, BackedFor, ToCome, HasTimer
  <1>13. Tracked'
    <2> SUFFICES ASSUME NEW k \in Job, Waits(client, k)', NEW i \in Held(scoped, scopedCut, k)'
                 PROVE  Ahead(scoped[i])' \/ Covers(client, k)'
      BY DEF Tracked
    <2>1. i \in Held(scoped, scopedCut, k) /\ Waits(d, k) BY <1>1 DEF Held, EventsOf, Waits
    <2>2. Covers(d, k) => Covers(client, k)' BY <1>1 DEF Covers, HasTimer, Timed
    <2>3. CASE k = e.job BY <2>1, <2>2, <2>3, <1>7
    <2>4. CASE k # e.job /\ Covers(client, k)
      <3>1. Covers(c, k) BY <2>4, <1>3 DEF Covers, HasTimer
      <3> QED BY <3>1, <2>2, <1>9
    <2>5. CASE k # e.job /\ Ahead(scoped[i])
      <3>1. Precedes(client'.lastId, scoped[i].id) BY <1>1, <1>8, <2>5 DEF Ahead
      <3>2. \A p \in Timed(client') : p \in Pending
        BY <1>1, <1>3, <1>8, TypedGives DEF Kept
      <3>3. Ahead(scoped[i])' BY <3>1, <3>2, <2>5, <1>1, StillAhead
      <3> QED BY <3>3
    <2>6. Waits(client, k) BY <2>1, <1>3, <1>9 DEF Waits
    <2> QED BY <2>1, <2>3, <2>4, <2>5, <2>6 DEF Kept, Tracked
  <1> QED BY <1>10, <1>11, <1>12, <1>13 DEF Kept

-----------------------------------------------------------------------------
\* A request is sent, or is lost.
LEMMA SentKeeps ==
    ASSUME Kept, Typed', PollSent \/ PollFails
    PROVE  Kept'
  <1>1. /\ UNCHANGED <<scoped, scopedCut, worker, reply, client>> /\ poll'.events = <<>>
        /\ \/ poll'.pc = "sent" /\ poll'.from = client.lastId
           \/ poll'.pc = "idle" /\ poll'.from = Origin
    <2>1. CASE PollSent
      <3>1. poll' = [pc |-> "sent", from |-> client.lastId, events |-> <<>>]
        BY <2>1 DEF PollSent, Idle
      <3>2. UNCHANGED <<scoped, scopedCut, worker, reply, client>>
        BY <2>1 DEF PollSent, jobVars, streams, pageVars
      <3> QED BY <3>1, <3>2
    <2>2. CASE PollFails BY <2>2 DEF PollFails, Idle, jobVars, streams, pageVars
    <2> QED BY <2>1, <2>2
  <1>2. Recorded'
    <2>1. Known(poll'.from) BY <1>1 DEF Kept, Recorded, Known
    <2>2. \A i \in DOMAIN poll'.events : Stored(poll'.events[i]) BY <1>1
    <2> QED BY <1>1, <2>1, <2>2, StillRecorded, TypedGives DEF Kept, Recorded
  <1>3. Started' /\ Backed(client)'
    BY <1>1 DEF Kept, Started, Backed, BackedFor, ToCome, HasTimer, Timed
  <1>4. Tracked'
    <2> SUFFICES ASSUME NEW k \in Job, Waits(client, k)', NEW i \in Held(scoped, scopedCut, k)'
                 PROVE  Ahead(scoped[i])' \/ Covers(client, k)'
      BY DEF Tracked
    <2>1. i \in Held(scoped, scopedCut, k) /\ Waits(client, k) BY <1>1 DEF Held, EventsOf, Waits
    <2>2. Ahead(scoped[i]) \/ Covers(client, k) BY <2>1 DEF Kept, Tracked
    <2> QED BY <1>1, <2>2 DEF Ahead, Pending, Covers, HasTimer, Timed
  <1> QED BY <1>2, <1>3, <1>4 DEF Kept

\* The answer holds what is ahead, or ends before it.
LEMMA AnsweredKeeps ==
    ASSUME Quiet, Kept, Typed', PollAnswered
    PROVE  Kept'
  <1> DEFINE start == IF poll.from = Origin THEN Origin ELSE PyIncrement(poll.from)
             page == RangeFrom(scoped, scopedCut, start, MaxEventCount)
  <1>1. /\ UNCHANGED <<scoped, scopedCut, worker, reply, client>>
        /\ poll.pc = "sent" /\ poll'.pc = "answered" /\ poll'.from = poll.from
        /\ poll'.events = page
    BY TypedGives DEF PollAnswered, ReadEvents, jobVars, streams, pageVars, Kept, Typed, PollStates
  <1>2. /\ scoped \in Seq(Event) /\ MaxEventCount \in Nat /\ Ascending(scoped)
        /\ scopedCut \in 0 .. Len(scoped)
    BY TypedGives, PageAssumption DEF Kept, Recorded
  <1>3. \A i \in DOMAIN page : Stored(page[i])
    <2> DEFINE before == Before(scopedCut, CountBefore(scoped, start))
    <2>1. \A i \in DOMAIN page : before + i \in DOMAIN scoped /\ page[i] = scoped[before + i]
      BY <1>2, PageHolds
    <2> QED BY <2>1 DEF Stored
  <1>4. start \in Ids
    <2>1. poll.from \in Ids BY TypedGives DEF Kept
    <2>2. poll.from[1] \in Nat /\ poll.from[2] \in Nat BY <2>1, IdPair
    <2>3. PyIncrement(poll.from) \in Ids
      <3>1. (poll.from[2] \div 10) * 100 + 10 \in Nat BY <2>2
      <3> QED BY <2>2, <3>1 DEF PyIncrement, Ids
    <2> QED BY <2>3 DEF Origin, Ids
  <1>5. ASSUME NEW i \in DOMAIN scoped, Precedes(poll.from, scoped[i].id)
        PROVE  ~Precedes(scoped[i].id, start)
    <2>1. poll.from \in Ids /\ scoped[i].id \in Ids BY TypedGives DEF Kept
    <2>2. CASE poll.from = Origin
      <3>1. start = poll.from BY <2>2
      <3> HIDE DEF start
      <3> QED BY <1>5, <2>1, <3>1, IdOrder DEF AtMost
    <2>3. CASE poll.from # Origin
      <3>1. PICK k \in DOMAIN scoped : scoped[k].id = poll.from
        BY <2>3 DEF Kept, Recorded, Known
      <3>2. poll.from[2] < 20 /\ scoped[i].id[2] < 20 BY <3>1 DEF Quiet
      <3>3. AtMost(PyIncrement(poll.from), scoped[i].id)
        BY <1>5, <2>1, <3>2, PyResumesAfterWhenQuiet
      <3>4. start = PyIncrement(poll.from) BY <2>3
      <3> HIDE DEF start
      <3> QED BY <1>4, <2>1, <3>3, <3>4, IdOrder
    <2> QED BY <2>2, <2>3
  <1>6. ASSUME NEW i \in DOMAIN scoped, i > scopedCut, Precedes(poll.from, scoped[i].id)
        PROVE  \/ \E k \in DOMAIN page : page[k] = scoped[i]
               \/ \A k \in DOMAIN page : Precedes(page[k].id, scoped[i].id)
    <2>1. ~Precedes(scoped[i].id, start) BY <1>5, <1>6
    <2> HIDE DEF start
    <2> QED BY <1>2, <1>4, <1>6, <2>1, PageReaches
  <1> HIDE DEF page
  <1>7. Recorded'
    BY <1>1, <1>3, StillRecorded, TypedGives DEF Kept, Recorded
  <1>8. Started' /\ Backed(client)'
    BY <1>1 DEF Kept, Started, Backed, BackedFor, ToCome, HasTimer, Timed
  <1>9. Tracked'
    <2> SUFFICES ASSUME NEW k \in Job, Waits(client, k)', NEW i \in Held(scoped, scopedCut, k)'
                 PROVE  Ahead(scoped[i])' \/ Covers(client, k)'
      BY DEF Tracked
    <2>1. i \in Held(scoped, scopedCut, k) /\ Waits(client, k) BY <1>1 DEF Held, EventsOf, Waits
    <2>2. CASE Ahead(scoped[i])
      <3>1. i \in DOMAIN scoped /\ i > scopedCut /\ Precedes(poll.from, scoped[i].id)
        BY <1>1, <2>1, <2>2 DEF Ahead, Held, EventsOf
      <3>2. \/ \E m \in DOMAIN page : page[m] = scoped[i]
            \/ \A m \in DOMAIN page : Precedes(page[m].id, scoped[i].id)
        BY <3>1, <1>6
      <3> QED BY <1>1, <2>2, <3>2 DEF Ahead, Pending
    <2>3. CASE Covers(client, k) BY <1>1, <2>3 DEF Covers, HasTimer, Timed
    <2> QED BY <2>1, <2>2, <2>3 DEF Kept, Tracked
  <1> QED BY <1>7, <1>8, <1>9 DEF Kept

\* Whatever the answer holds is handed to its listener or retried.
LEMMA ReceivedKeeps ==
    ASSUME MaxRetries > 0, Kept, Typed', PollReceived
    PROVE  Kept'
  <1> DEFINE events == poll.events
             d == ProcessEvents(client, events)
  <1>1. /\ UNCHANGED <<scoped, scopedCut, worker, reply>> /\ client' = d /\ poll.pc = "answered"
        /\ poll'.pc = "idle" /\ poll'.from = Origin /\ poll'.events = <<>>
    BY DEF PollReceived, Idle, jobVars, streams
  <1>2. /\ client \in Client /\ Paired(client) /\ Answered(client) /\ Backed(client)
        /\ events \in Seq(Event)
    BY TypedGives DEF Kept
  <1>3. Len(events) \in Nat /\ DOMAIN events = 1 .. Len(events) BY <1>2, LenProperties
  <1> HIDE DEF events
  <1>4. /\ \A j \in Job : (Waits(d, j) => Waits(client, j)) /\ (Covers(client, j) => Covers(d, j))
        /\ Timed(d) \subseteq Timed(client) \cup {events[i] : i \in DOMAIN events}
        /\ d.lastId = IF events = <<>> THEN client.lastId ELSE events[Len(events)].id
        /\ Backed(d)
        /\ \A i \in DOMAIN events : Waits(d, events[i].job) => Covers(d, events[i].job)
    BY <1>2, LoopKeeps
  <1> HIDE DEF d
  <1>5. events = <<>> \/ Len(events) \in DOMAIN events BY <1>2, <1>3, EmptySeq
  <1>6. Recorded'
    <2>1. \A i \in DOMAIN events : Stored(events[i]) BY DEF Kept, Recorded, events
    <2>2. Known(client'.lastId)
      <3>1. CASE events = <<>> BY <1>1, <1>4, <3>1 DEF Kept, Recorded
      <3>2. CASE events # <<>> BY <1>1, <1>4, <1>5, <2>1, <3>2 DEF Known, Stored
      <3> QED BY <3>1, <3>2
    <2>3. \A p \in Timed(client') : Stored(p)
      BY <1>1, <1>4, <2>1, TypedGives DEF Kept, Recorded
    <2>4. Known(poll'.from) BY <1>1 DEF Known
    <2>5. \A i \in DOMAIN poll'.events : Stored(poll'.events[i]) BY <1>1
    <2> QED BY <1>1, <2>2, <2>3, <2>4, <2>5, StillRecorded DEF Kept, Recorded
  <1>7. Started' BY <1>1 DEF Kept, Started
  <1>8. Backed(client)' BY <1>1, <1>4 DEF Backed, BackedFor, ToCome, HasTimer
  <1>9. Tracked'
    <2> SUFFICES ASSUME NEW k \in Job, Waits(client, k)', NEW i \in Held(scoped, scopedCut, k)'
                 PROVE  Ahead(scoped[i])' \/ Covers(client, k)'
      BY DEF Tracked
    <2>1. i \in Held(scoped, scopedCut, k) /\ Waits(d, k) BY <1>1 DEF Held, EventsOf, Waits
    <2>2. Covers(d, k) => Covers(client, k)' BY <1>1 DEF Covers, HasTimer, Timed
    <2>3. CASE Covers(client, k) BY <2>2, <2>3, <1>4
    <2>4. CASE \E m \in DOMAIN events : events[m] = scoped[i]
      <3>1. PICK m \in DOMAIN events : events[m] = scoped[i] BY <2>4
      <3>2. events[m].job = k BY <2>1, <3>1 DEF Held, EventsOf
      <3> QED BY <2>1, <2>2, <3>2, <1>4
    <2>5. CASE Ahead(scoped[i]) /\ ~(\E m \in DOMAIN events : events[m] = scoped[i])
      <3>1. \A m \in DOMAIN events : Precedes(events[m].id, scoped[i].id)
        BY <2>5, <1>1 DEF Ahead, events
      <3>2. Precedes(client'.lastId, scoped[i].id)
        <4>1. CASE events = <<>> BY <4>1, <1>1, <1>4, <2>5 DEF Ahead
        <4>2. CASE events # <<>> BY <4>2, <1>1, <1>4, <1>5, <3>1
        <4> QED BY <4>1, <4>2
      <3>3. \A p \in Timed(client') : p \in Pending \/ Precedes(p.id, scoped[i].id)
        BY <1>1, <1>4, <3>1, TypedGives DEF Kept
      <3>4. Ahead(scoped[i])' BY <1>1, <2>5, <3>2, <3>3, StillAhead
      <3> QED BY <3>4
    <2>6. Waits(client, k) BY <2>1, <1>4
    <2> QED BY <2>1, <2>3, <2>4, <2>5, <2>6 DEF Kept, Tracked
  <1> QED BY <1>6, <1>7, <1>8, <1>9 DEF Kept

\* A reloaded page awaits nothing.
LEMMA ReloadKeeps ==
    ASSUME Kept, Typed', Reload
    PROVE  Kept'
  <1>1. PICK id \in StoredIds(scoped) : ReloadWith(id) BY DEF Reload
  <1> DEFINE left == [j \in Job |-> IF client.promise[j] = "waiting" THEN "left" ELSE client.promise[j]]
             c == NewClient(Job, id)
  <1>2. /\ client' = [c EXCEPT !.promise = left]
        /\ reply' = [j \in Job |-> IF reply[j] = "coming" THEN "lost" ELSE reply[j]]
        /\ UNCHANGED <<scoped, scopedCut, worker>>
        /\ poll'.from = Origin /\ poll'.events = <<>>
    BY <1>1 DEF ReloadWith, Reload, Idle, jobVars, streams
  <1>3. id \in Ids /\ Known(id)
    BY TypedGives DEF StoredIds, Kept, Recorded, Known
  <1>4. /\ c \in Client /\ Timed(c) = {} /\ c.lastId = id
        /\ \A j \in Job : c.retries[j] = 0
    BY <1>3, NewPage
  <1>5. \A j \in Job : left[j] # "waiting" OBVIOUS
  <1> HIDE DEF c, left
  <1>6. client'.promise = left /\ client'.lastId = id /\ client'.retries = c.retries
        /\ Timed(client') = {}
    BY <1>2, <1>4 DEF Client, Timed
  <1>7. Recorded'
    <2>1. Known(client'.lastId) /\ Known(poll'.from) BY <1>2, <1>3, <1>6 DEF Known
    <2>2. \A i \in DOMAIN poll'.events : Stored(poll'.events[i]) BY <1>2
    <2> QED BY <1>2, <1>6, <2>1, <2>2, StillRecorded DEF Kept, Recorded
  <1>8. Started' BY <1>2, TypedGives DEF Kept, Started
  <1>9. Backed(client)' BY <1>4, <1>6 DEF Backed, BackedFor
  <1>10. Tracked' BY <1>2, <1>5, <1>6 DEF Tracked, Waits
  <1> QED BY <1>7, <1>8, <1>9, <1>10 DEF Kept

\* The invariant holds at first.
LEMMA KeptInit == Init => Kept
  <1> SUFFICES ASSUME Init PROVE Kept OBVIOUS
  <1>1. Typed BY TypedInit
  <1>2. /\ scoped = <<>> /\ worker = [j \in Job |-> "none"] /\ client = NewClient(Job, Origin)
        /\ reply = [j \in Job |-> "none"] /\ poll = Idle
    BY DEF Init, JobsInit, PageInit
  <1>3. Origin \in Ids /\ DOMAIN scoped = {} BY <1>2 DEF Origin, Ids
  <1>4. Timed(client) = {} /\ client.lastId = Origin /\ \A j \in Job : client.retries[j] = 0
    BY <1>2, <1>3, NewPage
  <1>5. Recorded
    BY <1>2, <1>3, <1>4 DEF Recorded, Ascending, Known, Idle, Pending, Timed
  <1>6. Started /\ Backed(client) /\ Tracked
    BY <1>2, <1>3, <1>4 DEF Started, Backed, BackedFor, Tracked, Held, EventsOf
  <1> QED BY <1>1, <1>5, <1>6 DEF Kept

\* Every step keeps it.
LEMMA KeptNext ==
    ASSUME PromptReply, MaxRetries > 0
    PROVE  Quiet /\ Kept /\ [Next]_vars => Kept'
  <1> SUFFICES ASSUME Quiet, Kept, [Next]_vars PROVE Kept' OBVIOUS
  <1>1. Typed' BY TypedNext DEF Kept
  <1>2. CASE UNCHANGED vars
    BY <1>1, <1>2 DEF vars, jobVars, streams, pageVars, Kept, Recorded, Known, Stored, Pending, Started,
                      Backed, BackedFor, ToCome, HasTimer, Timed, Tracked, Waits, Covers,
                      Held, EventsOf, Ahead
  <1>3. CASE PageNext /\ UNCHANGED poll
    <2>1. CASE JobsNext /\ UNCHANGED pageVars BY <1>1, <1>3, <2>1, JobsKeep
    <2>2. ASSUME NEW j \in Job, PageStep(j) PROVE Kept'
      BY <1>1, <1>3, <2>2, SubmitKeeps, RegisterKeeps, DataKeeps DEF PageStep
    <2>3. ASSUME NEW e \in Pending, RetryFires(e) PROVE Kept'
      BY <1>1, <1>3, <2>3, RetryKeeps
    <2> QED BY <1>3, <2>1, <2>2, <2>3 DEF PageNext
  <1>4. CASE PollSent \/ PollFails BY <1>1, <1>4, SentKeeps
  <1>5. CASE PollAnswered BY <1>1, <1>5, AnsweredKeeps
  <1>6. CASE PollReceived BY <1>1, <1>6, ReceivedKeeps
  <1>7. CASE Reload BY <1>1, <1>7, ReloadKeeps
  <1> QED BY <1>2, <1>3, <1>4, <1>5, <1>6, <1>7 DEF Next

\* While no millisecond holds more than twenty events of the channel, and the 202 answer
\* beats the last retry, a page that waits for a job of which the stream holds an event
\* has one on its way to the listener, for every number of jobs and retries, every page
\* size, wherever the stream is trimmed and whatever faults.
THEOREM PollingNothingLost ==
    ASSUME PromptReply, MaxRetries > 0
    PROVE  Spec /\ []Quiet => []NothingLost
  <1>1. Kept => NothingLost
    <2> SUFFICES ASSUME Kept, NEW j \in Job, Awaited(j),
                        Held(scoped, scopedCut, j) # {}
                 PROVE  \E i \in EventsOf(scoped, j) : Underway(scoped[i])
      BY DEF NothingLost
    <2>1. PICK i \in Held(scoped, scopedCut, j) : TRUE OBVIOUS
    <2>2. i \in DOMAIN scoped /\ scoped[i].job = j /\ i \in EventsOf(scoped, j)
      BY DEF Held, EventsOf
    <2>3. Ahead(scoped[i]) \/ Covers(client, j) BY DEF Kept, Tracked, Waits, Awaited
    <2>4. CASE Ahead(scoped[i]) BY <2>2, <2>4 DEF Ahead, Underway
    <2>5. CASE HasTimer(client, j)
      <3>1. PICK p \in Pending : p.job = j BY <2>5, TypedGives DEF HasTimer, Kept
      <3>2. PICK k \in DOMAIN scoped : scoped[k] = p BY DEF Kept, Recorded, Stored
      <3> QED BY <3>1, <3>2 DEF Held, EventsOf, Underway
    <2>6. CASE client.fetching[j] > 0 BY <2>2, <2>6 DEF Underway
    <2> QED BY <2>3, <2>4, <2>5, <2>6 DEF Covers
  <1>2. Quiet /\ Kept /\ [Next]_vars => Kept' BY KeptNext
  <1> QED BY <1>1, <1>2, KeptInit, PTL DEF Spec

-----------------------------------------------------------------------------
\* The entries at or before id are the first n.
EndsAt(id, n) == \A i \in DOMAIN full : AtMost(full[i].id, id) <=> i <= n

\* lastFirehoseId is "$", older than the stream, or the id of an entry.
Position ==
    /\ firehose \in Ids
    /\ \/ firehose[1] = 0
       \/ \E k \in DOMAIN full : firehose = full[k].id

\* A blocked XREAD goes on where the last one ended.
ReadsOn ==
    /\ reading \in -1 .. Len(full)
    /\ reading >= 0 /\ firehose # Dollar => EndsAt(firehose, reading)

\* A connection has entries to get once the server's position is known.
Served ==
    /\ since \in -1 .. Len(full)
    /\ conn = "open" /\ since >= 0 => firehose # Dollar

Streams ==
    /\ ms \in Nat \ {0}
    /\ scoped \in Seq(Event) /\ full \in Seq(Event) /\ wire \in Seq(Event)
    /\ scopedCut \in 0 .. Len(scoped) /\ fullCut \in 0 .. Len(full)

Inv == Streams /\ Ascending(full) /\ Position /\ ReadsOn /\ Served /\ NoGapWhileConnected
-----------------------------------------------------------------------------
\* XRANGE returns entries of the stream.
LEMMA XRangeType ==
    ASSUME NEW stream \in Seq(Event), NEW cut \in 0 .. Len(stream), NEW start, NEW end
    PROVE  XRange(stream, cut, start, end) \in Seq(Event)
  <1> DEFINE m == Before(cut, CountBefore(stream, start)) + 1
             n == CountUpTo(stream, end)
  <1>1. Before(cut, CountBefore(stream, start)) \in 0 .. Len(stream) /\ n \in 0 .. Len(stream)
    BY CountType DEF Before
  <1>2. Len(stream) \in Nat /\ DOMAIN stream = 1 .. Len(stream) BY LenProperties
  <1>3. m \in Int /\ n \in Int /\ m .. n \subseteq 1 .. Len(stream) BY <1>1, <1>2
  <1>4. \A i \in m .. n : stream[i] \in Event BY <1>2, <1>3
  <1> HIDE DEF m, n
  <1>5. SubSeq(stream, m, n) \in Seq(Event) BY <1>3, <1>4, SubSeqProperties
  <1> QED BY <1>5 DEF XRange, m, n

\* What is sent is added to what is on the wire.
LEMMA SentAdds ==
    ASSUME wire \in Seq(Event), NEW events \in Seq(Event)
    PROVE  /\ Sent(events) \in Seq(Event)
           /\ Outcomes(wire) \subseteq Outcomes(Sent(events))
           /\ conn = "open" => Outcomes(events) \subseteq Outcomes(Sent(events))
  <1> DEFINE both == wire \o events
  <1>1. /\ both \in Seq(Event) /\ Len(both) = Len(wire) + Len(events)
        /\ \A i \in 1 .. Len(wire) + Len(events) :
               both[i] = IF i <= Len(wire) THEN wire[i] ELSE events[i - Len(wire)]
    BY ConcatProperties
  <1>2. /\ Len(wire) \in Nat /\ Len(events) \in Nat
        /\ DOMAIN wire = 1 .. Len(wire) /\ DOMAIN events = 1 .. Len(events)
        /\ DOMAIN both = 1 .. Len(both)
    BY <1>1, LenProperties
  <1> HIDE DEF both
  <1>3. Outcomes(wire) \subseteq Outcomes(both)
    <2> SUFFICES ASSUME NEW i \in DOMAIN wire
                 PROVE  <<wire[i].job, wire[i].status>> \in Outcomes(both)
      BY DEF Outcomes
    <2>1. i \in DOMAIN both /\ both[i] = wire[i] BY <1>1, <1>2
    <2> QED BY <2>1 DEF Outcomes
  <1>4. Outcomes(events) \subseteq Outcomes(both)
    <2> SUFFICES ASSUME NEW i \in DOMAIN events
                 PROVE  <<events[i].job, events[i].status>> \in Outcomes(both)
      BY DEF Outcomes
    <2>1. i + Len(wire) \in DOMAIN both /\ both[i + Len(wire)] = events[i] BY <1>1, <1>2
    <2> QED BY <2>1 DEF Outcomes
  <1> QED BY <1>1, <1>3, <1>4 DEF Sent, both

\* What the head of the wire brings, the rest does not have to.
LEMMA ReceiveKeeps ==
    ASSUME wire \in Seq(Event), wire # <<>>
    PROVE  /\ Tail(wire) \in Seq(Event)
           /\ Outcomes(wire) \subseteq Outcomes(Tail(wire)) \cup Outcomes(<<Head(wire)>>)
  <1>1. /\ Tail(wire) \in Seq(Event) /\ Len(Tail(wire)) = Len(wire) - 1
        /\ \A i \in 1 .. Len(Tail(wire)) : Tail(wire)[i] = wire[i + 1]
    BY HeadTailProperties
  <1>2. /\ Len(wire) \in Nat /\ DOMAIN wire = 1 .. Len(wire)
        /\ DOMAIN Tail(wire) = 1 .. Len(Tail(wire))
    BY <1>1, LenProperties
  <1> SUFFICES ASSUME NEW i \in DOMAIN wire
               PROVE  <<wire[i].job, wire[i].status>>
                          \in Outcomes(Tail(wire)) \cup Outcomes(<<Head(wire)>>)
    BY <1>1 DEF Outcomes
  <1>3. CASE i = 1
    <2>1. Head(wire) = wire[i] BY <1>3
    <2>2. 1 \in DOMAIN <<Head(wire)>> /\ <<Head(wire)>>[1] = Head(wire) OBVIOUS
    <2> QED BY <2>1, <2>2 DEF Outcomes
  <1>4. CASE i # 1
    <2> DEFINE rest == Tail(wire)
    <2>1. i - 1 \in DOMAIN rest /\ rest[i - 1] = wire[i] BY <1>1, <1>2, <1>4
    <2> HIDE DEF rest
    <2>2. <<wire[i].job, wire[i].status>> \in Outcomes(rest) BY <2>1 DEF Outcomes
    <2> QED BY <2>2 DEF rest
  <1> QED BY <1>3, <1>4
-----------------------------------------------------------------------------
\* A position that ends at an entry is found by counting.
LEMMA CountIs ==
    ASSUME full \in Seq(Event), NEW id, NEW n \in 0 .. Len(full), EndsAt(id, n)
    PROVE  CountUpTo(full, id) = n
  <1>1. Len(full) \in Nat /\ DOMAIN full = 1 .. Len(full) BY LenProperties
  <1>2. {i \in DOMAIN full : AtMost(full[i].id, id)} = 1 .. n BY <1>1 DEF EndsAt
  <1>3. Cardinality(1 .. n) = n BY <1>1, FS_Interval
  <1> QED BY <1>2, <1>3 DEF CountUpTo

\* An entry of an ascending stream ends the entries up to its id.
LEMMA EntryEnds ==
    ASSUME full \in Seq(Event), Ascending(full), NEW k \in DOMAIN full
    PROVE  EndsAt(full[k].id, k)
  <1> SUFFICES ASSUME NEW i \in DOMAIN full
               PROVE  AtMost(full[i].id, full[k].id) <=> i <= k
    BY DEF EndsAt
  <1>1. Len(full) \in Nat /\ DOMAIN full = 1 .. Len(full) BY LenProperties
  <1>2. full[i].id \in Ids /\ full[k].id \in Ids BY EntryId
  <1>3. CASE i < k BY <1>3, <1>1 DEF Ascending, AtMost
  <1>4. CASE i = k BY <1>4 DEF AtMost
  <1>5. CASE k < i BY <1>5, <1>1, <1>2, IdOrder DEF Ascending
  <1> QED BY <1>1, <1>3, <1>4, <1>5

\* The server's position ends somewhere in the stream.
LEMMA PositionEnds ==
    ASSUME full \in Seq(Event), Ascending(full), Position
    PROVE  \E n \in 0 .. Len(full) : EndsAt(firehose, n)
  <1>1. Len(full) \in Nat /\ DOMAIN full = 1 .. Len(full) BY LenProperties
  <1>2. CASE firehose[1] = 0
    <2>1. EndsAt(firehose, 0)
      <3> SUFFICES ASSUME NEW i \in DOMAIN full PROVE ~AtMost(full[i].id, firehose)
        BY <1>1 DEF EndsAt
      <3>1. full[i].id \in Ids /\ full[i].id[1] > 0 BY EntryId DEF Ascending
      <3>2. full[i].id[1] \in Nat BY <3>1, IdPair
      <3> QED BY <1>2, <3>1, <3>2 DEF AtMost, Precedes
    <2> QED BY <2>1, <1>1
  <1>3. ASSUME NEW k \in DOMAIN full, firehose = full[k].id
        PROVE  \E n \in 0 .. Len(full) : EndsAt(firehose, n)
    BY <1>3, <1>1, EntryEnds
  <1> QED BY <1>2, <1>3 DEF Position

-----------------------------------------------------------------------------
\* The read loop's invariant holds at first.
LEMMA InvInit == WsInit => Inv
  <1> SUFFICES ASSUME WsInit PROVE Inv
    OBVIOUS
  <1>1. /\ full = <<>> /\ scoped = <<>> /\ wire = <<>> /\ ms = 1
        /\ scopedCut = 0 /\ fullCut = 0
        /\ since = -1 /\ reading = -1 /\ conn = "connecting"
    BY DEF WsInit, Init, JobsInit
  <1>2. firehose \in Ids /\ firehose[1] = 0
    BY DEF WsInit, Ids, Dollar, Origin
  <1>3. Len(full) = 0 /\ DOMAIN full = {} BY <1>1
  <1>4. Streams
    <2>1. 0 \in 0 .. Len(<<>>) OBVIOUS
    <2> QED BY <1>1, <2>1 DEF Streams
  <1>5. Ascending(full) /\ Position BY <1>2, <1>3 DEF Ascending, Position
  <1>6. ReadsOn /\ Served /\ NoGapWhileConnected
    BY <1>1, <1>3 DEF ReadsOn, Served, NoGapWhileConnected
  <1> QED BY <1>4, <1>5, <1>6 DEF Inv

\* What the jobs and the page do to the streams, or leave alone.
LEMMA PageActsOn ==
    ASSUME Streams, PageActs
    PROVE  /\ UNCHANGED wsVars
           /\ \/ /\ UNCHANGED <<full, fullCut>> /\ ms' \in Nat \ {0}
                 /\ scoped' \in Seq(Event) /\ scopedCut' \in 0 .. Len(scoped')
              \/ /\ UNCHANGED <<scoped, scopedCut, ms>> /\ fullCut' \in 0 .. Len(full')
                 /\ \E j \in Job, s \in {"done", "error"} : full' = Added(full, j, s)
  <1>1. UNCHANGED wsVars BY DEF PageActs
  <1>2. CASE JobsNext
    <2>1. CASE NextMs BY <1>1, <2>1 DEF NextMs, streams, Streams
    <2>2. ASSUME NEW j \in Job, Compute(j) \/ Fail(j)
          PROVE  UNCHANGED <<streams, ms>>
      BY <2>2 DEF Compute, streams, Fail
    <2>3. ASSUME NEW j \in Job, AddScoped(j)
          PROVE  /\ UNCHANGED <<full, fullCut, ms>> /\ scoped' \in Seq(Event)
                 /\ scopedCut' \in 0 .. Len(scoped')
      <3>1. scoped' \in Seq(Event) /\ Len(scoped') = Len(scoped) + 1
        BY <2>3, AddedIs DEF AddScoped, Streams
      <3>2. scopedCut' \in 0 .. Len(scoped')
        BY <2>3, <3>1, TrimmedIs, JobsAssumption DEF AddScoped, Streams
      <3> QED BY <2>3, <3>1, <3>2 DEF AddScoped
    <2>4. ASSUME NEW j \in Job, AddFull(j)
          PROVE  /\ UNCHANGED <<scoped, scopedCut, ms>> /\ fullCut' \in 0 .. Len(full')
                 /\ \E s \in {"done", "error"} : full' = Added(full, j, s)
      <3>1. \E s \in {"done", "error"} : full' = Added(full, j, s) BY <2>4 DEF AddFull
      <3>2. full' \in Seq(Event) /\ Len(full') = Len(full) + 1 BY <3>1, AddedIs DEF Streams
      <3>3. fullCut' \in 0 .. Len(full')
        BY <2>4, <3>2, TrimmedIs, JobsAssumption DEF AddFull, Streams
      <3> QED BY <2>4, <3>1, <3>3 DEF AddFull
    <2>5. ASSUME NEW j \in Job, JobFault(j)
          PROVE  UNCHANGED <<streams, ms>>
      BY <2>5 DEF JobFault, SoftTimeout, streams, Crash, RedisError, Evict
    <2> QED BY <1>1, <1>2, <2>1, <2>2, <2>3, <2>4, <2>5 DEF JobsNext, JobStep, Streams, streams
  <1>3. ASSUME NEW j \in Job, PageStep(j)
        PROVE  UNCHANGED <<streams, ms>>
    BY <1>3 DEF PageStep, Submit, Enqueue, streams, Register, ReplyLost, DataArrives, jobVars
  <1>4. ASSUME NEW e \in Pending, RetryFires(e)
        PROVE  UNCHANGED <<streams, ms>>
    BY <1>4 DEF RetryFires, jobVars, streams
  <1> QED BY <1>1, <1>2, <1>3, <1>4 DEF PageActs, PageNext, Streams, streams

\* An entry is added to the stream of all channels.
LEMMA AddKeeps ==
    ASSUME Inv, UNCHANGED wsVars, UNCHANGED <<scoped, scopedCut, ms>>,
           NEW j \in Job, NEW s \in {"done", "error"}, full' = Added(full, j, s),
           fullCut' \in 0 .. Len(full')
    PROVE  Inv'
  <1>1. Len(full) \in Nat /\ DOMAIN full = 1 .. Len(full) BY LenProperties DEF Inv, Streams
  <1>2. PICK last \in Nat : last = Len(full) + 1 BY <1>1
  <1>3. /\ full' \in Seq(Event) /\ Ascending(full') /\ Len(full') = last
        /\ DOMAIN full' = 1 .. last
        /\ \A i \in DOMAIN full : /\ full'[i] = full[i]
                                  /\ Precedes(full[i].id, full'[last].id)
        /\ full'[last].id \in Ids /\ full'[last].id[1] > 0
    BY <1>2, AddedFollows DEF Inv, Streams
  <1>4. \A i \in DOMAIN full' : i \in DOMAIN full \/ i = last BY <1>1, <1>2, <1>3
  <1>5. firehose' = firehose /\ reading' = reading /\ since' = since /\ conn' = conn
        /\ wire' = wire /\ received' = received
    BY DEF wsVars
  <1>6. ~AtMost(full'[last].id, firehose)
    <2>1. CASE firehose[1] = 0
      <3>1. firehose \in Ids /\ full'[last].id[1] \in Nat BY <1>3, IdPair DEF Inv, Position
      <3> QED BY <1>3, <2>1, <3>1 DEF AtMost, Precedes
    <2>2. ASSUME NEW k \in DOMAIN full, firehose = full[k].id
          PROVE  ~AtMost(full'[last].id, firehose)
      <3>1. full[k].id \in Ids BY EntryId DEF Inv, Streams
      <3> QED BY <2>2, <3>1, <1>3, IdOrder
    <2> QED BY <2>1, <2>2 DEF Inv, Position
  <1>7. Streams' /\ Ascending(full)' BY <1>3, <1>5 DEF Inv, Streams, Ascending
  <1>8. Position' BY <1>1, <1>2, <1>3, <1>5 DEF Inv, Position
  <1>9. ReadsOn'
    <2>1. ASSUME EndsAt(firehose, reading), reading \in 0 .. Len(full)
          PROVE  EndsAt(firehose, reading)'
      <3> SUFFICES ASSUME NEW i \in DOMAIN full'
                   PROVE  AtMost(full'[i].id, firehose) <=> i <= reading
        BY <1>5 DEF EndsAt
      <3>1. CASE i \in DOMAIN full BY <3>1, <2>1, <1>3 DEF EndsAt
      <3>2. CASE i = last BY <3>2, <2>1, <1>1, <1>2, <1>6
      <3> QED BY <3>1, <3>2, <1>4
    <2> QED BY <2>1, <1>1, <1>2, <1>3, <1>5 DEF Inv, ReadsOn, Dollar, Origin
  <1>10. Served' BY <1>1, <1>2, <1>3, <1>5 DEF Inv, Served, Dollar, Origin
  <1>11. NoGapWhileConnected'
    <2> SUFFICES ASSUME conn' = "open", since' >= 0, NEW i \in since' + 1 .. Len(full'),
                        AtMost(full'[i].id, firehose')
                 PROVE  GotOrOnTheWire(full[i])'
      BY DEF NoGapWhileConnected
    <2>1. since \in Nat BY <1>5 DEF Inv, Served
    <2>2. i # last BY <1>5, <1>6
    <2>3. i \in since + 1 .. Len(full) /\ i \in DOMAIN full
      BY <2>1, <2>2, <1>1, <1>2, <1>3, <1>5
    <2>4. GotOrOnTheWire(full[i]) BY <2>1, <2>3, <1>3, <1>5 DEF Inv, NoGapWhileConnected
    <2> QED BY <2>3, <2>4, <1>3, <1>5 DEF GotOrOnTheWire, Outcomes
  <1> QED BY <1>7, <1>8, <1>9, <1>10, <1>11 DEF Inv

-----------------------------------------------------------------------------
\* A step that leaves streams and position alone, and takes from the wire only what
\* is received, leaves no gap.
LEMMA NothingTaken ==
    ASSUME Inv, UNCHANGED <<full, firehose>>,
           conn' = "open" => conn = "open" /\ since' = since,
           received \cup Outcomes(wire) \subseteq (received \cup Outcomes(wire))'
    PROVE  NoGapWhileConnected'
  <1> SUFFICES ASSUME conn' = "open", since' >= 0, NEW i \in since' + 1 .. Len(full'),
                      AtMost(full'[i].id, firehose')
               PROVE  GotOrOnTheWire(full[i])'
    BY DEF NoGapWhileConnected
  <1>1. GotOrOnTheWire(full[i]) BY DEF Inv, NoGapWhileConnected
  <1> QED BY <1>1 DEF GotOrOnTheWire

\* Steps of the page and its connection: the read loop is not concerned.
LEMMA ConnectionSteps ==
    ASSUME Inv, ConnDrops \/ Reconnect \/ Receive \/ FallbackGoesOn \/ WsReload
    PROVE  Inv'
  <1>1. UNCHANGED <<ms, scoped, scopedCut, full, fullCut, firehose, reading, since>>
    BY DEF ConnDrops, Reconnect, Receive, FallbackGoesOn, WsReload,
           ReloadWith, PollAnswered, PollFails, PollReceived, PollSent, vars, jobVars, streams
  <1>2. conn' = "open" => conn = "open"
    BY DEF ConnDrops, Reconnect, Receive, FallbackGoesOn, WsReload
  <1>3. wire' \in Seq(Event)
    <2>1. <<>> \in Seq(Event) OBVIOUS
    <2>2. CASE Receive BY <2>2, ReceiveKeeps DEF Receive, Inv, Streams
    <2> QED BY <2>1, <2>2 DEF ConnDrops, Reconnect, FallbackGoesOn,
                              WsReload, Inv, Streams
  <1>4. conn' = "open" => received \cup Outcomes(wire) \subseteq (received \cup Outcomes(wire))'
    <2>1. CASE Receive BY <2>1, ReceiveKeeps DEF Receive, Inv, Streams, Outcomes
    <2>2. CASE ConnDrops \/ Reconnect \/ WsReload BY <2>2 DEF ConnDrops, Reconnect, WsReload
    <2>3. CASE FallbackGoesOn
      BY <2>3 DEF FallbackGoesOn, Outcomes
    <2> QED BY <2>1, <2>2, <2>3
  <1>5. Streams' /\ Ascending(full)' /\ Position' /\ ReadsOn' /\ Served'
    BY <1>1, <1>2, <1>3 DEF Inv, Streams, Ascending, Position, ReadsOn, EndsAt, Served
  <1>6. NoGapWhileConnected'
    <2>1. CASE conn' = "open" BY <2>1, <1>1, <1>2, <1>4, NothingTaken
    <2>2. CASE conn' # "open" BY <2>2 DEF NoGapWhileConnected
    <2> QED BY <2>1, <2>2
  <1> QED BY <1>5, <1>6 DEF Inv

\* What the page holds of the read loop starts afresh.
LEMMA ServerSteps ==
    ASSUME Inv, ServerRestarts \/ ConnOpens \/ ReadTimesOut \/ ReadBlocks \/ RangeRuns
    PROVE  Inv'
  <1>1. UNCHANGED <<ms, scoped, scopedCut, full, fullCut>>
    BY DEF ServerRestarts, ConnOpens, ReadTimesOut, ReadBlocks, RangeRuns, vars, jobVars, streams
  <1>2. Len(full) \in Nat /\ DOMAIN full = 1 .. Len(full) BY LenProperties DEF Inv, Streams
  <1>3. PICK n \in 0 .. Len(full) : EndsAt(firehose, n) BY PositionEnds DEF Inv, Streams
  <1>4. CountUpTo(full, firehose) = n BY <1>3, CountIs DEF Inv, Streams
  <1>5. CASE ServerRestarts
    <2>1. firehose' \in Ids /\ firehose'[1] = 0 BY <1>5 DEF ServerRestarts, Dollar, Origin, Ids
    <2>2. /\ wire' = <<>> /\ reading' = -1 /\ since' = -1 /\ <<>> \in Seq(Event)
      BY <1>5 DEF ServerRestarts
    <2> QED BY <1>1, <1>2, <2>1, <2>2
            DEF Inv, Streams, Ascending, Position, ReadsOn, Served, NoGapWhileConnected
  <1>6. CASE ConnOpens
    <2>1. UNCHANGED <<wire, firehose, reading, received>>
          /\ since' = IF firehose = Dollar THEN -1 ELSE n
      BY <1>4, <1>6 DEF ConnOpens
    <2>2. NoGapWhileConnected'
      <3> SUFFICES ASSUME since' >= 0, NEW i \in since' + 1 .. Len(full'),
                          AtMost(full'[i].id, firehose')
                   PROVE  FALSE
        BY DEF NoGapWhileConnected
      <3>1. since' = n /\ i \in DOMAIN full /\ i > n BY <1>1, <1>2, <2>1
      <3> QED BY <1>1, <1>3, <2>1, <3>1 DEF EndsAt
    <2> QED BY <1>1, <1>2, <2>1, <2>2
            DEF Inv, Streams, Ascending, Position, ReadsOn, EndsAt, Served
  <1>7. CASE ReadTimesOut \/ ReadBlocks
    <2>1. UNCHANGED <<wire, firehose, received, conn, since>>
      BY <1>7 DEF ReadTimesOut, ReadBlocks
    <2>2. reading' \in -1 .. Len(full) /\ (reading' >= 0 /\ firehose # Dollar => reading' = n)
      BY <1>2, <1>4, <1>7 DEF ReadTimesOut, ReadBlocks
    <2>3. ReadsOn' BY <1>1, <1>3, <2>1, <2>2 DEF ReadsOn, EndsAt
    <2>4. NoGapWhileConnected' BY <1>1, <2>1, NothingTaken DEF Outcomes
    <2> QED BY <1>1, <2>1, <2>3, <2>4 DEF Inv, Streams, Ascending, Position, Served
  <1>8. CASE RangeRuns
    <2>1. UNCHANGED <<firehose, reading, received, conn, since>> BY <1>8 DEF RangeRuns
    <2>2. PICK start, end : wire' = Sent(XRange(scoped, scopedCut, start, end))
      BY <1>8 DEF RangeRuns
    <2>3. wire' \in Seq(Event) /\ Outcomes(wire) \subseteq Outcomes(wire)'
      <3>1. XRange(scoped, scopedCut, start, end) \in Seq(Event) BY XRangeType DEF Inv, Streams
      <3>2. Outcomes(wire)' = Outcomes(wire') BY DEF Outcomes
      <3> QED BY <2>2, <3>1, <3>2, SentAdds DEF Inv, Streams
    <2>4. NoGapWhileConnected' BY <1>1, <2>1, <2>3, NothingTaken
    <2> QED BY <1>1, <2>1, <2>3, <2>4
            DEF Inv, Streams, Ascending, Position, ReadsOn, EndsAt, Served
  <1> QED BY <1>5, <1>6, <1>7, <1>8

\* The next entries are sent, whichever the read brings.
LEMMA ReadStep == ASSUME Inv, ReadReturns PROVE Inv'
  <1> DEFINE first == Before(fullCut, reading)
             last == IF first + ReadCount < Len(full) THEN first + ReadCount ELSE Len(full)
             batch == SubSeq(full, first + 1, last)
  <1>1. /\ UNCHANGED <<ms, scoped, scopedCut, full, fullCut, conn, received>>
        /\ reading >= 0 /\ Len(full) > first /\ reading' = -1
        /\ wire' = Sent(batch) /\ firehose' = NewestId(batch)
        /\ since' = IF conn = "open" /\ (since = -1 \/ reading < fullCut) THEN first ELSE since
    BY DEF ReadReturns, vars, jobVars, streams
  <1>2. Len(full) \in Nat /\ DOMAIN full = 1 .. Len(full) BY LenProperties DEF Inv, Streams
  <1>3. /\ reading \in Nat /\ first \in Nat /\ (first = reading \/ reading < fullCut)
        /\ last \in Nat /\ first < last /\ last <= Len(full)
    <2>1. reading \in Nat /\ fullCut \in Nat BY <1>1, <1>2 DEF Inv, ReadsOn, Streams
    <2>2. first \in Nat /\ (first = reading \/ reading < fullCut) BY <2>1 DEF Before
    <2> HIDE DEF first
    <2> QED BY <1>1, <1>2, <2>1, <2>2, WebSocketAssumption
  <1> HIDE DEF first, last
  <1>4. /\ batch \in Seq(Event) /\ Len(batch) = last - first
        /\ \A i \in 1 .. last - first : batch[i] = full[first + i]
    <2>1. \A i \in first + 1 .. last : full[i] \in Event
      BY <1>2, <1>3, EntryId DEF Inv, Streams
    <2>2. /\ SubSeq(full, first + 1, last) \in Seq(Event)
          /\ Len(SubSeq(full, first + 1, last)) = last - (first + 1) + 1
          /\ \A i \in 1 .. last - (first + 1) + 1 :
                 SubSeq(full, first + 1, last)[i] = full[first + 1 + i - 1]
      BY <1>3, <2>1, SubSeqProperties
    <2> QED BY <1>3, <2>2
  <1>5. DOMAIN batch = 1 .. last - first BY <1>4, LenProperties
  <1> HIDE DEF batch
  <1>6. firehose' = full[last].id
    <2>1. batch # <<>> /\ batch[Len(batch)] = full[last] BY <1>3, <1>4
    <2> QED BY <1>1, <2>1 DEF NewestId
  <1>7. last \in DOMAIN full /\ full[last].id \in Ids /\ full[last].id[1] > 0
    BY <1>2, <1>3, EntryId DEF Inv, Streams, Ascending
  <1>8. EndsAt(firehose', last) BY <1>6, <1>7, EntryEnds DEF Inv, Streams
  <1>9. firehose' # Dollar BY <1>6, <1>7 DEF Dollar, Origin
  <1>10. /\ wire' \in Seq(Event) /\ Outcomes(wire) \subseteq Outcomes(wire')
         /\ conn = "open" => Outcomes(batch) \subseteq Outcomes(wire')
    BY <1>1, <1>4, SentAdds DEF Inv, Streams
  <1>11. NoGapWhileConnected'
    <2> SUFFICES ASSUME conn' = "open", since' >= 0, NEW i \in since' + 1 .. Len(full'),
                        AtMost(full'[i].id, firehose')
                 PROVE  GotOrOnTheWire(full[i])'
      BY DEF NoGapWhileConnected
    <2>1. conn = "open" /\ full'[i] = full[i] /\ since' \in Nat /\ since \in Int
      BY <1>1, <1>2, <1>3 DEF Inv, Served
    <2>2. i \in DOMAIN full /\ i <= last
      BY <1>1, <1>2, <1>8, <2>1 DEF EndsAt
    <2>3. CASE i <= first
      <3>0. since' # first BY <1>2, <1>3, <2>1, <2>2, <2>3
      <3>1. since >= 0 /\ since' = since /\ first = reading /\ i \in since + 1 .. Len(full)
        BY <1>1, <1>2, <1>3, <2>1, <2>3, <3>0 DEF Inv, Served
      <3>2. AtMost(full[i].id, firehose)
        BY <2>1, <2>2, <2>3, <1>3, <3>1 DEF Inv, Served, ReadsOn, EndsAt
      <3>3. GotOrOnTheWire(full[i]) BY <2>1, <3>1, <3>2 DEF Inv, NoGapWhileConnected
      <3> QED BY <3>3, <1>1, <1>10, <2>1 DEF GotOrOnTheWire, Outcomes
    <2>4. CASE i > first
      <3>1. i - first \in DOMAIN batch /\ batch[i - first] = full[i]
        <4>1. i - first \in 1 .. last - first /\ first + (i - first) = i BY <1>2, <1>3, <2>2, <2>4
        <4> QED BY <4>1, <1>4, <1>5
      <3>2. <<full[i].job, full[i].status>> \in Outcomes(batch) BY <3>1 DEF Outcomes
      <3>3. <<full[i].job, full[i].status>> \in Outcomes(wire') BY <3>2, <1>10, <2>1
      <3> QED BY <3>3, <2>1 DEF GotOrOnTheWire, Outcomes
    <2> QED BY <2>2, <2>3, <2>4, <1>2, <1>3
  <1>12. Streams' /\ Ascending(full)' /\ ReadsOn' BY <1>1, <1>2, <1>10 DEF Inv, Streams, Ascending, ReadsOn
  <1>13. Position' BY <1>1, <1>6, <1>7 DEF Position
  <1>14. Served' BY <1>1, <1>2, <1>3, <1>9 DEF Inv, Served
  <1> QED BY <1>11, <1>12, <1>13, <1>14 DEF Inv
-----------------------------------------------------------------------------
\* Every step keeps it.
LEMMA InvNext == Inv /\ [WsNext]_allVars => Inv'
  <1> SUFFICES ASSUME Inv, [WsNext]_allVars PROVE Inv'
    OBVIOUS
  <1>1. CASE PageActs
    <2>1. CASE /\ UNCHANGED <<full, fullCut>> /\ ms' \in Nat \ {0}
               /\ scoped' \in Seq(Event) /\ scopedCut' \in 0 .. Len(scoped')
      <3>1. UNCHANGED <<wire, firehose, reading, since, conn, received>>
        BY <1>1 DEF PageActs, wsVars
      <3>2. NoGapWhileConnected' BY <2>1, <3>1, NothingTaken DEF Outcomes
      <3> QED BY <2>1, <3>1, <3>2
              DEF Inv, Streams, Ascending, Position, ReadsOn, EndsAt, Served
    <2>2. ASSUME UNCHANGED <<scoped, scopedCut, ms>>, NEW j \in Job, NEW s \in {"done", "error"},
                 full' = Added(full, j, s), fullCut' \in 0 .. Len(full')
          PROVE  Inv'
      BY <1>1, <2>2, AddKeeps DEF PageActs
    <2> QED BY <1>1, <2>1, <2>2, PageActsOn DEF Inv
  <1>2. CASE UNCHANGED allVars
    <2>1. UNCHANGED <<full, fullCut, scoped, scopedCut, ms, wire, firehose, reading, since, conn, received>>
      BY <1>2 DEF allVars, vars, jobVars, streams, wsVars
    <2> QED BY <2>1 DEF Inv, Streams, Ascending, Position, ReadsOn, EndsAt, Served,
                        NoGapWhileConnected, GotOrOnTheWire, Outcomes
  <1> QED BY <1>1, <1>2, ConnectionSteps, ServerSteps, ReadStep DEF WsNext

\* While a connection lasts, every event that the server reads from the stream of all
\* channels after it was made gets to it, for every number of jobs, every read count
\* and whatever drops, restarts, ranges, trimming and failing XADDs come in between.
THEOREM WebSocketNoGap == WsSpec => []NoGapWhileConnected
  <1>1. Inv => NoGapWhileConnected BY DEF Inv
  <1> QED BY <1>1, InvInit, InvNext, PTL DEF WsSpec
-----------------------------------------------------------------------------
\* Types of the connection, and of the page whatever the transport.
Connected ==
    /\ Typed
    /\ conn \in {"connecting", "open", "closed", "given_up"}
    /\ asked \in Ids
    /\ attempts \in 0 .. MaxConnectRetries + 1
    /\ conn # "given_up" => attempts <= MaxConnectRetries
    /\ ranges \in Seq([from : Ids, to : Ids])
    /\ received \subseteq Job \X {"done", "error"}
    /\ drops \in 0 .. MaxDrops

\* What events bring is the outcome of a job.
LEMMA OutcomesType ==
    ASSUME NEW events \in Seq(Event)
    PROVE  Outcomes(events) \subseteq Job \X {"done", "error"}
  <1> SUFFICES ASSUME NEW i \in DOMAIN events
               PROVE  <<events[i].job, events[i].status>> \in Job \X {"done", "error"}
    BY DEF Outcomes
  <1>1. events[i] \in Event BY ElementOfSeq, LenProperties
  <1> QED BY <1>1 DEF Event

\* Steps of the websocket transport that are steps of the page's too, or of nobody.
LEMMA TypedSteps ==
    ASSUME Typed,
           \/ PageActs \/ ReadBlocks \/ ReadTimesOut \/ ReadReturns \/ RangeRuns
           \/ ConnOpens \/ ConnDrops \/ ServerRestarts \/ Reconnect \/ FallbackGoesOn
    PROVE  Typed'
  <1>1. [Next]_vars
    <2>1. CASE PageActs BY <2>1 DEF PageActs, Next
    <2>2. CASE ReadBlocks \/ ReadTimesOut \/ ReadReturns \/ RangeRuns
      BY <2>2 DEF ReadBlocks, ReadTimesOut, ReadReturns, RangeRuns
    <2>3. CASE ConnOpens \/ ConnDrops \/ ServerRestarts
      BY <2>3 DEF ConnOpens, ConnDrops, ServerRestarts
    <2>4. CASE Reconnect BY <2>4 DEF Reconnect, Next
    <2>5. CASE FallbackGoesOn BY <2>5 DEF FallbackGoesOn, Next
    <2> QED BY <2>1, <2>2, <2>3, <2>4, <2>5
  <1> QED BY <1>1, TypedNext

\* A message is processed as an event of a poll is.
LEMMA TypedReceive == ASSUME Inv, Typed, Receive PROVE Typed'
  <1>1. /\ wire # <<>> /\ client' = ProcessEvent(client, Head(wire)) /\ Fits(client')
        /\ UNCHANGED <<jobVars, reply, poll>>
    BY DEF Receive
  <1>2. Head(wire) \in Event BY <1>1, HeadTailProperties DEF Inv, Streams
  <1>3. client' \in Client /\ Paired(client') /\ Answered(client')
    BY <1>1, <1>2, Turn, TurnKeeps DEF Typed
  <1>4. JobsTypeOK' BY <1>1 DEF Typed, JobsTypeOK, jobVars, streams
  <1>5. Answered(client)' BY <1>1, <1>3 DEF Answered
  <1> QED BY <1>1, <1>3, <1>4, <1>5 DEF Typed, Paired, Fits

\* The types of the connection hold at first.
LEMMA ConnectedInit == WsInit => Connected
  <1> SUFFICES ASSUME WsInit PROVE Connected OBVIOUS
  <1>1. Typed BY TypedInit DEF WsInit
  <1>2. Origin \in Ids /\ 0 \in 0 .. MaxDrops
        /\ 0 \in 0 .. MaxConnectRetries + 1 /\ 0 <= MaxConnectRetries
    BY WebSocketAssumption DEF Origin, Ids
  <1> QED BY <1>1, <1>2 DEF WsInit, Connected

\* Every step keeps them.
LEMMA ConnectedNext == Inv /\ Connected /\ [WsNext]_allVars => Connected'
  <1> SUFFICES ASSUME Inv, Connected, [WsNext]_allVars PROVE Connected' OBVIOUS
  <1>0. /\ MaxConnectRetries \in Nat /\ MaxDrops \in Nat
        /\ firehose \in Ids /\ wire \in Seq(Event) /\ client.lastId \in Ids
        /\ poll.events \in Seq(Event)
    BY WebSocketAssumption, TypedGives DEF Inv, Position, Streams, Connected
  <1>1. CASE UNCHANGED allVars
    BY <1>1 DEF allVars, vars, jobVars, streams, pageVars, wsVars, Connected, Typed, JobsTypeOK,
                Paired, Answered
  <1>2. CASE PageActs
    <2>1. Typed' BY <1>2, TypedSteps DEF Connected
    <2> QED BY <1>2, <2>1 DEF PageActs, wsVars, Connected
  <1>3. CASE ReadBlocks \/ ReadTimesOut \/ ReadReturns
    <2>1. Typed' BY <1>3, TypedSteps DEF Connected
    <2>2. UNCHANGED <<conn, asked, attempts, ranges, received, drops>>
      BY <1>3 DEF ReadBlocks, ReadTimesOut, ReadReturns
    <2> QED BY <2>1, <2>2 DEF Connected
  <1>4. CASE RangeRuns
    <2>1. Typed' BY <1>4, TypedSteps DEF Connected
    <2>2. ranges' \in Seq([from : Ids, to : Ids])
      BY <1>4, HeadTailProperties DEF RangeRuns, Connected
    <2> QED BY <1>4, <2>1, <2>2 DEF RangeRuns, Connected
  <1>5. CASE ConnOpens
    <2>1. Typed' BY <1>5, TypedSteps DEF Connected
    <2>2. TsIncrement(asked) \in Ids BY IdPair DEF Connected, TsIncrement, Ids
    <2>3. [from |-> TsIncrement(asked), to |-> firehose] \in [from : Ids, to : Ids]
      BY <1>0, <2>2
    <2>4. ranges' \in Seq([from : Ids, to : Ids])
      BY <1>5, <2>3, AppendProperties DEF ConnOpens, Connected
    <2> QED BY <1>0, <1>5, <2>1, <2>4 DEF ConnOpens, Connected
  <1>6. CASE ConnDrops \/ ServerRestarts
    <2>1. Typed' BY <1>6, TypedSteps DEF Connected
    <2>2. drops' \in 0 .. MaxDrops BY <1>0, <1>6 DEF ConnDrops, ServerRestarts, Connected
    <2>3. ranges' \in Seq([from : Ids, to : Ids])
      BY <1>6, EmptySeq DEF ConnDrops, ServerRestarts, Connected
    <2> QED BY <1>6, <2>1, <2>2, <2>3 DEF ConnDrops, ServerRestarts, Connected
  <1>7. CASE Reconnect
    <2>1. Typed' BY <1>7, TypedSteps DEF Connected
    <2>2. attempts' = attempts + 1 /\ attempts <= MaxConnectRetries /\ attempts \in Nat
      BY <1>0, <1>7 DEF Reconnect, Connected
    <2>3. \/ conn' = "connecting" /\ asked' = client.lastId /\ attempts < MaxConnectRetries
          \/ conn' = "given_up" /\ asked' = asked
      BY <1>7 DEF Reconnect
    <2>4. UNCHANGED <<ranges, received, drops>> BY <1>7 DEF Reconnect
    <2> QED BY <1>0, <2>1, <2>2, <2>3, <2>4 DEF Connected
  <1>8. CASE Receive
    <2>1. Typed' BY <1>8, TypedReceive DEF Connected
    <2>2. <<Head(wire)>> \in Seq(Event)
      <3>1. Head(wire) \in Event BY <1>0, <1>8, HeadTailProperties DEF Receive
      <3> QED BY <3>1
    <2>3. Outcomes(<<Head(wire)>>) \subseteq Job \X {"done", "error"} BY <2>2, OutcomesType
    <2> QED BY <1>8, <2>1, <2>3 DEF Receive, Connected
  <1>9. CASE FallbackGoesOn
    <2>1. Typed' BY <1>9, TypedSteps DEF Connected
    <2>2. Outcomes(poll.events) \subseteq Job \X {"done", "error"} BY <1>0, OutcomesType
    <2> QED BY <1>9, <2>1, <2>2 DEF FallbackGoesOn, Connected
  <1>10. CASE WsReload
    <2>1. PICK id \in StoredIds(full) : ReloadWith(id) /\ asked' = id BY <1>10 DEF WsReload
    <2>2. id \in Ids BY <1>0, <2>1, EntryId DEF StoredIds, Inv, Streams
    <2>3. Typed' BY <1>10, <2>1, <2>2, ReloadTyped DEF WsReload, Connected
    <2> QED BY <1>0, <1>10, <2>1, <2>2, <2>3 DEF WsReload, Connected
  <1> QED BY <1>1, <1>2, <1>3, <1>4, <1>5, <1>6, <1>7, <1>8, <1>9, <1>10 DEF WsNext

\* Types are kept over the websocket transport too.
THEOREM WebSocketTypeOK == WsSpec => []WsTypeOK
  <1>1. Inv /\ Connected => WsTypeOK
    BY TypedIs DEF Inv, Connected, WsTypeOK, Position, Streams, ReadsOn, Served
  <1> QED BY <1>1, InvInit, InvNext, ConnectedInit, ConnectedNext, PTL DEF WsSpec
-----------------------------------------------------------------------------
\* What an event says is on the channel's stream.
Told(e) == Announced(scoped, e.job, e.status)
AllTold(events) == \A i \in DOMAIN events : Told(events[i])

\* A worker announces what its task came to, the data of a success is in the cache before
\* that, and stays there unless the cache may drop it.
WorkTold ==
    /\ \A j \in Job :
          /\ worker[j] = "done_scoped" => "evict" \in Faults \/ j \in cached
          /\ worker[j] = "done_full" => Announced(scoped, j, "done")
          /\ worker[j] = "error_full" => Announced(scoped, j, "error")
          /\ Announced(scoped, j, "done") =>
                worker[j] \notin {"none", "queued"} /\ ("evict" \in Faults \/ j \in cached)
    /\ AllTold(full)

\* What the page holds was announced; it awaits nothing before the answer to its request.
PageTold(c) ==
    /\ \A p \in Timed(c) : Told(p)
    /\ \A j \in Job : /\ c.fetching[j] > 0 => Announced(scoped, j, "done")
                      /\ ToCome(j) => c.promise[j] = "none"

Truthful == WorkTold /\ PageTold(client) /\ AllTold(poll.events)

\* Promises change as announced errors allow.
Rejects(c, d) ==
    \A j \in Job : \/ d.promise[j] = c.promise[j]
                   \/ /\ c.promise[j] = "waiting" /\ d.promise[j] = "rejected"
                      /\ Announced(scoped, j, "error")
-----------------------------------------------------------------------------
\* A turn of the loop only rejects what was announced an error.
LEMMA TurnTold ==
    ASSUME NEW c \in Client, NEW e \in Event, Paired(c), Answered(c), PageTold(c), Told(e)
    PROVE  PageTold(ProcessEvent(c, e)) /\ Rejects(c, ProcessEvent(c, e))
  <1> DEFINE d == ProcessEvent(c, e)
  <1>1. e.job \in Job /\ e.status \in {"done", "error"} BY DEF Event
  <1>2. d \in Client /\ Timed(d) \subseteq Timed(c) \cup {e} BY Turn
  <1>3. /\ c.fetching \in [Job -> Nat] /\ d.fetching \in [Job -> Nat] BY <1>2 DEF Client
  <1>4. /\ \A k \in Job \ {e.job} : /\ d.promise[k] = c.promise[k]
                                    /\ d.fetching[k] = c.fetching[k]
        /\ \/ /\ e.status = "error" /\ e.job \in c.listening
              /\ d.promise[e.job] = IF c.promise[e.job] = "waiting" THEN "rejected" ELSE c.promise[e.job]
              /\ d.fetching[e.job] = c.fetching[e.job]
           \/ /\ e.status # "error" /\ e.job \in c.listening /\ d.promise[e.job] = c.promise[e.job]
              /\ d.fetching[e.job] = c.fetching[e.job] + 1
           \/ d.promise[e.job] = c.promise[e.job] /\ d.fetching[e.job] = c.fetching[e.job]
    BY Turn
  <1> HIDE DEF d
  <1>5. \A p \in Timed(d) : Told(p) BY <1>2 DEF PageTold
  <1>6. \A j \in Job : d.fetching[j] > 0 => Announced(scoped, j, "done")
    BY <1>1, <1>3, <1>4 DEF PageTold, Told
  <1>7. \A j \in Job : ToCome(j) => d.promise[j] = "none"
    BY <1>1, <1>4 DEF PageTold, Answered, ToCome
  <1>8. Rejects(c, d) BY <1>1, <1>4 DEF Rejects, Told
  <1> QED BY <1>5, <1>6, <1>7, <1>8 DEF PageTold, d

\* So does the whole loop.
LEMMA LoopTold ==
    ASSUME NEW c \in Client, NEW events \in Seq(Event), Paired(c), Answered(c), PageTold(c),
           AllTold(events)
    PROVE  PageTold(ProcessEvents(c, events)) /\ Rejects(c, ProcessEvents(c, events))
  <1>0. PICK f : Runs(c, events, f) BY LoopIs
  <1>1. /\ ProcessEvents(c, events) = f[Len(events)]
        /\ f[0] = c
        /\ \A n \in 0 .. Len(events) - 1 : f[n+1] = ProcessEvent(f[n], events[n+1])
    BY <1>0 DEF Runs
  <1>2. Len(events) \in Nat /\ DOMAIN events = 1 .. Len(events) BY LenProperties
  <1> DEFINE Done(n) == /\ f[n] \in Client /\ Paired(f[n]) /\ Answered(f[n])
                        /\ PageTold(f[n]) /\ Rejects(c, f[n])
             S == {n \in 0 .. Len(events) : Done(n)}
  <1>3. Done(0) BY <1>1 DEF Rejects
  <1>4. ASSUME NEW n \in 0 .. Len(events) - 1, Done(n) PROVE Done(n + 1)
    <2>1. events[n+1] \in Event /\ Told(events[n+1])
      BY <1>2, ElementOfSeq DEF AllTold
    <2>2. f[n+1] = ProcessEvent(f[n], events[n+1]) BY <1>1
    <2>3. f[n+1] \in Client /\ Paired(f[n+1]) /\ Answered(f[n+1])
      BY <1>4, <2>1, <2>2, Turn, TurnKeeps
    <2>4. PageTold(f[n+1]) /\ Rejects(f[n], f[n+1]) BY <1>4, <2>1, <2>2, TurnTold
    <2> QED BY <1>4, <2>3, <2>4 DEF Rejects
  <1> HIDE DEF Done
  <1>5. 0 \in S BY <1>2, <1>3
  <1>6. \A n \in 0 .. Len(events) - 1 : n \in S => n + 1 \in S BY <1>2, <1>4
  <1> HIDE DEF S
  <1>7. \A n \in 0 .. Len(events) : n \in S BY <1>2, <1>5, <1>6, UpTo
  <1>8. Done(Len(events)) BY <1>2, <1>7 DEF S
  <1> QED BY <1>1, <1>8 DEF Done
-----------------------------------------------------------------------------
\* Nothing is missed, or announced, while the streams rest.
LEMMA MissedRests ==
    ASSUME UNCHANGED streams
    PROVE  /\ Missed' = Missed
           /\ \A j, s : Announced(scoped', j, s) <=> Announced(scoped, j, s)
  BY DEF streams, Missed, CutFrom, Held, EventsOf, Announced

\* A step that rejects promises, or none, is one of the abstract promise's.
LEMMA RejectsMaps ==
    ASSUME Typed, client' \in Client, UNCHANGED jobVars, Rejects(client, client')
    PROVE  [Result!Next]_(Result!vars)
  <1> DEFINE jobs == {j \in Job : client'.promise[j] # client.promise[j]}
             to == [j \in jobs |-> "rejected"]
  <1>1. /\ client.promise \in [Job -> {"none", "waiting", "resolved", "rejected", "unfetched", "left"}]
        /\ client'.promise \in [Job -> {"none", "waiting", "resolved", "rejected", "unfetched", "left"}]
    BY DEF Typed, Client
  <1>2. UNCHANGED <<worker, cached>> /\ Missed' = Missed
        /\ \A j, s : Announced(scoped', j, s) <=> Announced(scoped, j, s)
    BY MissedRests DEF jobVars
  <1>3. CASE jobs = {}
    <2>1. client'.promise = client.promise BY <1>1, <1>3
    <2> QED BY <1>2, <2>1 DEF Result!vars
  <1>4. CASE jobs # {}
    <2>1. Result!SettleAll(jobs)
      <3>1. to \in [jobs -> {"resolved", "rejected", "unfetched"}] OBVIOUS
      <3>2. ASSUME NEW j \in jobs PROVE Result!MaySettle(j, to[j])
        BY <1>1 DEF Rejects, Result!MaySettle
      <3>3. client'.promise = [j \in Job |-> IF j \in jobs THEN to[j] ELSE client.promise[j]]
        BY <1>1 DEF Rejects
      <3> HIDE DEF jobs, to
      <3> QED BY <1>2, <3>1, <3>2, <3>3 DEF Result!SettleAll
    <2>2. PICK j \in jobs : TRUE BY <1>4
    <2>3. jobs \in SUBSET Job OBVIOUS
    <2> HIDE DEF jobs
    <2> QED BY <2>1, <2>2, <2>3 DEF Result!Next, Result!Settle
  <1> QED BY <1>3, <1>4
-----------------------------------------------------------------------------
\* XADD keeps the entries and adds one.
LEMMA AddedHolds ==
    ASSUME NEW stream \in Seq(Event), NEW j \in Job, NEW s \in {"done", "error"},
           ms \in Nat \ {0}, NEW added, added = Added(stream, j, s)
    PROVE  \E last : /\ \A i : i \in DOMAIN added <=> i \in DOMAIN stream \/ i = last
                     /\ \A i \in DOMAIN stream : added[i] = stream[i]
                     /\ added[last].job = j /\ added[last].status = s
  <1> DEFINE e == [id |-> FreshId(NewestId(stream), ms), job |-> j, status |-> s]
             last == Len(stream) + 1
  <1>1. Len(stream) \in Nat /\ DOMAIN stream = 1 .. Len(stream) BY LenProperties
  <1>2. NewestId(stream) \in Ids
    <2>1. stream = <<>> \/ Len(stream) \in DOMAIN stream BY <1>1
    <2> QED BY <2>1, EntryId DEF NewestId, Origin, Ids
  <1>3. FreshId(NewestId(stream), ms) \in Ids BY <1>2, IdPair DEF FreshId, Ids
  <1>4. e \in Event /\ e.job = j /\ e.status = s BY <1>3 DEF Event
  <1>5. added = Append(stream, e) BY DEF Added
  <1> HIDE DEF e
  <1>6. /\ DOMAIN added = 1 .. last
        /\ \A i \in DOMAIN stream : added[i] = stream[i]
        /\ added[last] = e
    BY <1>1, <1>4, <1>5, AppendProperties
  <1>7. \A i : i \in DOMAIN added <=> i \in DOMAIN stream \/ i = last BY <1>1, <1>6
  <1> QED BY <1>4, <1>6, <1>7

\* An announcement adds an outcome, and takes none away.
LEMMA AddedTells ==
    ASSUME scoped \in Seq(Event), ms \in Nat \ {0}, NEW j \in Job, NEW s \in {"done", "error"},
           scoped' = Added(scoped, j, s)
    PROVE  \A k, t : Announced(scoped', k, t) <=> Announced(scoped, k, t) \/ (k = j /\ t = s)
  <1>1. PICK last :
        /\ \A i : i \in DOMAIN scoped' <=> i \in DOMAIN scoped \/ i = last
        /\ \A i \in DOMAIN scoped : scoped'[i] = scoped[i]
        /\ scoped'[last].job = j /\ scoped'[last].status = s
    BY AddedHolds
  <1>2. ASSUME NEW k, NEW t
        PROVE  Announced(scoped', k, t) <=> Announced(scoped, k, t) \/ (k = j /\ t = s)
    <2>1. Announced(scoped, k, t) <=> \E i \in DOMAIN scoped : scoped[i].job = k /\ scoped[i].status = t
      BY DEF Announced, EventsOf
    <2>2. Announced(scoped', k, t)
          <=> \E i \in DOMAIN scoped' : scoped'[i].job = k /\ scoped'[i].status = t
      BY DEF Announced, EventsOf
    <2>3. CASE k = j /\ t = s BY <2>2, <2>3, <1>1
    <2>4. CASE ~(k = j /\ t = s) BY <2>1, <2>2, <2>4, <1>1
    <2> QED BY <2>3, <2>4
  <1> QED BY <1>2

\* What is missed stays so when entries are added and trimmed.
LEMMA StaysCut ==
    ASSUME NEW stream \in Seq(Event), NEW j \in Job, NEW s \in {"done", "error"},
           ms \in Nat \ {0}, NEW added, added = Added(stream, j, s),
           NEW cut \in Nat, NEW more \in Nat, more >= cut
    PROVE  \A k : CutFrom(stream, cut, k) => CutFrom(added, more, k)
  <1>0. \E last : /\ \A i : i \in DOMAIN added <=> i \in DOMAIN stream \/ i = last
                  /\ \A i \in DOMAIN stream : added[i] = stream[i]
                  /\ added[last].job = j /\ added[last].status = s
    BY AddedHolds
  <1>1. PICK last :
        /\ \A i : i \in DOMAIN added <=> i \in DOMAIN stream \/ i = last
        /\ \A i \in DOMAIN stream : added[i] = stream[i]
    BY <1>0
  <1> SUFFICES ASSUME NEW k, CutFrom(stream, cut, k) PROVE CutFrom(added, more, k) OBVIOUS
  <1>2. PICK i \in EventsOf(stream, k) : ~(i > cut) BY DEF CutFrom, Held
  <1>3. i \in DOMAIN stream /\ stream[i].job = k BY DEF EventsOf
  <1>4. i \in Nat BY <1>3, LenProperties
  <1>5. i \in EventsOf(added, k) BY <1>1, <1>3 DEF EventsOf
  <1>6. ~(i > more) BY <1>2, <1>4
  <1> QED BY <1>5, <1>6 DEF CutFrom, Held

\* So what a step of a worker makes a page miss is added to what it missed.
LEMMA Misses ==
    ASSUME \A k \in Job : CutFrom(scoped, scopedCut, k) => CutFrom(scoped', scopedCut', k),
           \A k \in Job : CutFrom(full, fullCut, k) => CutFrom(full', fullCut', k)
    PROVE  Result!Miss
  <1>1. Missed' \in SUBSET Job /\ Missed \subseteq Missed' BY DEF Missed
  <1>2. Missed' = Missed \cup Missed' BY <1>1
  <1> QED BY <1>1, <1>2 DEF Result!Miss

\* What the page holds stays true while workers announce.
LEMMA StillTold ==
    ASSUME \A k, t : Announced(scoped, k, t) => Announced(scoped', k, t),
           UNCHANGED pageVars, PageTold(client)
    PROVE  PageTold(client)'
  BY DEF PageTold, Told, pageVars, ToCome, Timed

\* Nothing the abstract promise tells apart.
LEMMA NothingMaps ==
    ASSUME UNCHANGED <<streams, client, cached>>,
           \A j \in Job : worker'[j] \notin {"none", "queued"} <=> worker[j] \notin {"none", "queued"}
    PROVE  UNCHANGED Result!vars
  <1>1. Missed' = Missed /\ \A k, s : Announced(scoped', k, s) <=> Announced(scoped, k, s)
    BY MissedRests
  <1> QED BY <1>1 DEF Result!vars

\* A step of a worker that announces nothing at most loses data.
LEMMA LosesMaps ==
    ASSUME Typed, UNCHANGED streams, client' = client, NEW j \in Job,
           \A k \in Job \ {j} : /\ worker'[k] = worker[k]
                                /\ k \in cached' <=> k \in cached,
           worker[j] \notin {"none", "queued"} => worker'[j] \notin {"none", "queued"},
           j \in cached' => j \in cached \/ worker[j] = "queued"
    PROVE  [Result!Next]_(Result!vars)
  <1> DEFINE lost == IF "evict" \in Faults
                     THEN {k \in Job : worker[k] \notin {"none", "queued"} /\ k \notin cached}
                     ELSE {}
             next == IF "evict" \in Faults
                     THEN {k \in Job : worker'[k] \notin {"none", "queued"} /\ k \notin cached'}
                     ELSE {}
  <1>0. Missed' = Missed /\ \A k, s : Announced(scoped', k, s) <=> Announced(scoped, k, s)
    BY MissedRests
  <1>1. next = lost \/ next = lost \cup {j} OBVIOUS
  <1>2. CASE next = lost BY <1>0, <1>2 DEF Result!vars
  <1>3. CASE next = lost \cup {j} BY <1>0, <1>3 DEF Result!Next, Result!Lose
  <1> QED BY <1>1, <1>2, <1>3

\* Nothing is unsaid.
LEMMA StaysAnnounced ==
    ASSUME Typed, JobsNext
    PROVE  \A k, t : Announced(scoped, k, t) => Announced(scoped', k, t)
  <1>0. ms \in Nat \ {0} /\ scoped \in Seq(Event) BY TypedGives
  <1>1. CASE scoped' = scoped BY <1>1
  <1>2. ASSUME NEW j \in Job, NEW s \in {"done", "error"}, scoped' = Added(scoped, j, s)
        PROVE  \A k, t : Announced(scoped, k, t) => Announced(scoped', k, t)
    BY <1>0, <1>2, AddedTells
  <1> QED BY <1>1, <1>2, JobsDo

\* The workers announce, lose data, or do nothing the page could learn of.
LEMMA WorkersTold ==
    ASSUME Typed, Truthful, JobsNext, UNCHANGED <<pageVars, poll>>
    PROVE  Truthful' /\ [Result!Next]_(Result!vars)
  <1>0. /\ ms \in Nat \ {0} /\ scoped \in Seq(Event) /\ full \in Seq(Event)
        /\ worker \in [Job -> WorkerStates] /\ cached \subseteq Job
        /\ scopedCut \in 0 .. Len(scoped) /\ fullCut \in 0 .. Len(full)
    BY JobsAssumption DEF Typed, JobsTypeOK
  <1>1. UNCHANGED <<client, reply, poll>> BY DEF pageVars
  <1>2. \A k, t : Announced(scoped, k, t) => Announced(scoped', k, t) BY StaysAnnounced
  <1>3. PageTold(client)' /\ AllTold(poll.events)'
    BY <1>1, <1>2, StillTold DEF Truthful, AllTold, Told
  <1>4. (AllTold(full) /\ full' = full) => AllTold(full)' BY <1>2 DEF AllTold, Told
  <1>5. CASE NextMs
    <2>1. UNCHANGED <<scoped, full, streams, worker, cached>> BY <1>5 DEF NextMs, streams
    <2>2. WorkTold' BY <2>1, <1>4 DEF Truthful, WorkTold
    <2>3. UNCHANGED Result!vars BY <1>1, <2>1, NothingMaps
    <2> QED BY <1>3, <2>2, <2>3 DEF Truthful
  <1>6. ASSUME NEW j \in Job, UNCHANGED streams, scoped' = scoped, full' = full,
               \/ Compute(j) \/ Fail(j) \/ SoftTimeout(j) \/ Crash(j) \/ RedisError(j) \/ Evict(j)
        PROVE  WorkTold' /\ [Result!Next]_(Result!vars)
    <2>1. /\ \A k \in Job \ {j} : worker'[k] = worker[k] /\ (k \in cached' <=> k \in cached)
          /\ worker[j] \notin {"none", "queued"} => worker'[j] \notin {"none", "queued"}
          /\ j \in cached' => j \in cached \/ worker[j] = "queued"
      BY <1>0, <1>6 DEF Compute, streams, Fail, SoftTimeout, Crash, RedisError, Evict, Moves, Running
    <2>2. /\ "evict" \in Faults \/ (j \in cached => j \in cached')
          /\ worker'[j] = "done_scoped" => j \in cached' \/ worker'[j] = worker[j]
          /\ worker'[j] \in {"done_full", "error_full"} => worker'[j] = worker[j]
      BY <1>0, <1>6 DEF Compute, streams, Fail, SoftTimeout, Crash, RedisError, Evict, Moves, Running
    <2>3. WorkTold'
      BY <1>0, <1>4, <1>6, <2>1, <2>2 DEF Truthful, WorkTold
    <2> QED BY <1>1, <1>6, <2>1, <2>3, LosesMaps
  <1>7. ASSUME NEW j \in Job, NEW s \in {"done", "error"}, scoped' = Added(scoped, j, s),
               worker[j] = IF s = "done" THEN "done_scoped" ELSE "error_scoped",
               worker' = [worker EXCEPT ![j] = IF s = "done" THEN "done_full" ELSE "error_full"],
               UNCHANGED <<full, fullCut, cached>>, scopedCut' \in Nat, scopedCut' >= scopedCut
        PROVE  WorkTold' /\ [Result!Next]_(Result!vars)
    <2>1. \A k, t : Announced(scoped', k, t) <=> Announced(scoped, k, t) \/ (k = j /\ t = s)
      BY <1>0, <1>7, AddedTells
    <2>2. WorkTold' BY <1>0, <1>4, <1>7, <2>1 DEF Truthful, WorkTold
    <2>3. Result!Announce(j, s)
      <3> DEFINE outcome == [k \in Job |-> {t \in {"done", "error"} : Announced(scoped, k, t)}]
                 next == [k \in Job |-> {t \in {"done", "error"} : Announced(scoped', k, t)}]
      <3>1. next = [outcome EXCEPT ![j] = @ \cup {s}] BY <2>1
      <3>2. \A k \in Job : worker'[k] \notin {"none", "queued"} <=> worker[k] \notin {"none", "queued"}
        BY <1>0, <1>7
      <3>3. Result!Miss
        <4>1. scopedCut \in Nat BY <1>0
        <4>2. \A k : CutFrom(scoped, scopedCut, k) => CutFrom(scoped', scopedCut', k)
          BY <1>0, <1>7, <4>1, StaysCut
        <4> QED BY <1>7, <4>2, Misses
      <3> QED BY <1>1, <1>7, <3>1, <3>2, <3>3 DEF Result!Announce
    <2> QED BY <2>2, <2>3 DEF Result!Next
  <1>8. ASSUME NEW j \in Job, AddFull(j) PROVE WorkTold' /\ [Result!Next]_(Result!vars)
    <2>1. PICK s \in {"done", "error"} :
              /\ full' = Added(full, j, s)
              /\ worker[j] = IF s = "done" THEN "done_full" ELSE "error_full"
      BY <1>8 DEF AddFull, Moves
    <2>2. worker' = [worker EXCEPT ![j] = "ended"] /\ UNCHANGED <<scoped, scopedCut, cached>>
      BY <1>8 DEF AddFull, Moves
    <2>3. Announced(scoped, j, s) BY <2>1 DEF Truthful, WorkTold
    <2>4. AllTold(full)'
      <3>1. PICK last :
            /\ \A i : i \in DOMAIN full' <=> i \in DOMAIN full \/ i = last
            /\ \A i \in DOMAIN full : full'[i] = full[i]
            /\ full'[last].job = j /\ full'[last].status = s
        BY <1>0, <2>1, AddedHolds
      <3> QED BY <2>2, <2>3, <3>1 DEF Truthful, WorkTold, AllTold, Told
    <2>5. WorkTold' BY <1>0, <2>1, <2>2, <2>4 DEF Truthful, WorkTold
    <2>6. worker[j] \notin {"none", "queued"} /\ worker'[j] \notin {"none", "queued"}
          /\ \A k \in Job \ {j} : worker'[k] = worker[k]
      BY <1>0, <2>1, <2>2
    <2>7. Result!Miss
      <3>1. full' \in Seq(Event) /\ Len(full') = Len(full) + 1 BY <1>0, <2>1, AddedIs
      <3>2. fullCut' \in Nat /\ fullCut' >= fullCut /\ fullCut \in Nat
        BY <1>0, <1>8, <3>1, TrimmedIs, JobsAssumption DEF AddFull
      <3>3. \A k : CutFrom(full, fullCut, k) => CutFrom(full', fullCut', k)
        BY <1>0, <2>1, <3>2, StaysCut
      <3>4. UNCHANGED <<scoped, scopedCut>> BY <1>8 DEF AddFull
      <3> QED BY <3>3, <3>4, Misses
    <2>8. \A k, t : Announced(scoped', k, t) <=> Announced(scoped, k, t) BY <2>2
    <2>9. Result!Next
      <3>1. \A k \in Job : worker'[k] \notin {"none", "queued"} <=> worker[k] \notin {"none", "queued"}
        BY <2>6
      <3> QED BY <1>1, <2>2, <2>7, <2>8, <3>1 DEF Result!Next
    <2> QED BY <2>5, <2>9
  <1>9. ASSUME NEW j \in Job, AddScoped(j) PROVE WorkTold' /\ [Result!Next]_(Result!vars)
    <2>0. scopedCut' \in Nat /\ scopedCut' >= scopedCut
      <3>1. scoped' \in Seq(Event) /\ Len(scoped') = Len(scoped) + 1
        BY <1>0, <1>9, AddedIs DEF AddScoped
      <3> QED BY <1>0, <1>9, <3>1, TrimmedIs, JobsAssumption DEF AddScoped
    <2>1. CASE worker[j] = "done_scoped"
      BY <1>7, <1>9, <2>0, <2>1 DEF AddScoped, Moves
    <2>2. CASE worker[j] = "error_scoped"
      BY <1>7, <1>9, <2>0, <2>2 DEF AddScoped, Moves
    <2> QED BY <1>9, <2>1, <2>2 DEF AddScoped, Moves
  <1>10. ASSUME NEW j \in Job, Compute(j) \/ Fail(j) \/ JobFault(j)
         PROVE  WorkTold' /\ [Result!Next]_(Result!vars)
    <2>1. UNCHANGED streams /\ scoped' = scoped /\ full' = full
      BY <1>10 DEF Compute, streams, Fail, JobFault, SoftTimeout, Crash, RedisError, Evict
    <2> QED BY <1>6, <1>10, <2>1 DEF JobFault
  <1> QED BY <1>3, <1>5, <1>8, <1>9, <1>10 DEF JobsNext, JobStep, Truthful
-----------------------------------------------------------------------------
\* What is announced stays so while the streams and workers rest.
LEMMA RestTold ==
    ASSUME UNCHANGED jobVars
    PROVE  /\ WorkTold => WorkTold'
           /\ \A e : Told(e)' <=> Told(e)
           /\ \A j, s : Announced(scoped', j, s) <=> Announced(scoped, j, s)
           /\ Missed' = Missed
  <1>1. UNCHANGED streams /\ UNCHANGED <<scoped, full, worker, cached>> BY DEF jobVars, streams
  <1> QED BY <1>1, MissedRests DEF WorkTold, AllTold, Told

\* A new request.
LEMMA SubmitTold ==
    ASSUME Typed, Truthful, NEW j \in Job, Submit(j), UNCHANGED poll
    PROVE  Truthful' /\ [Result!Next]_(Result!vars)
  <1>1. /\ reply[j] = "none" /\ reply' = [reply EXCEPT ![j] = "coming"]
        /\ UNCHANGED <<client, streams, scoped, full, cached, poll>>
        /\ worker[j] = "none" /\ worker' = [worker EXCEPT ![j] = "queued"]
    BY DEF Submit, Enqueue, streams, Moves
  <1>2. /\ worker \in [Job -> WorkerStates]
        /\ reply \in [Job -> {"none", "coming", "here", "lost"}]
    BY TypedGives
  <1>3. WorkTold' BY <1>1, <1>2 DEF Truthful, WorkTold, AllTold, Told
  <1>4. PageTold(client)'
    BY <1>1, <1>2 DEF Truthful, PageTold, Told, ToCome, Timed
  <1>5. UNCHANGED Result!vars BY <1>1, <1>2, NothingMaps
  <1> QED BY <1>1, <1>3, <1>4, <1>5 DEF Truthful, AllTold, Told

\* Its answer: somebody waits for the job now.
LEMMA RegisterTold ==
    ASSUME Typed, Truthful, NEW j \in Job, Register(j), UNCHANGED poll
    PROVE  Truthful' /\ [Result!Next]_(Result!vars)
  <1>1. /\ reply[j] = "coming" /\ reply' = [reply EXCEPT ![j] = "here"]
        /\ client' = Listen(client, j) /\ UNCHANGED <<jobVars, poll>>
    BY DEF Register
  <1>2. client \in Client /\ reply \in [Job -> {"none", "coming", "here", "lost"}]
    BY TypedGives
  <1>3. /\ Timed(client') = Timed(client) /\ client'.fetching = client.fetching
        /\ client'.promise = [client.promise EXCEPT ![j] = "waiting"]
    BY <1>1, <1>2, ListenIs
  <1>4. client.promise[j] = "none" BY <1>1 DEF Truthful, PageTold, ToCome
  <1>5. DOMAIN client.promise = Job BY <1>2 DEF Client
  <1>6. PageTold(client)'
    BY <1>1, <1>2, <1>3, <1>5, RestTold DEF Truthful, PageTold, ToCome
  <1>7. Result!Ask(j)
    BY <1>1, <1>3, <1>4, RestTold DEF Result!Ask, jobVars
  <1> QED BY <1>1, <1>6, <1>7, RestTold DEF Truthful, AllTold, Result!Next

\* The answer is lost: nobody waits.
LEMMA ReplyLostTold ==
    ASSUME Typed, Truthful, NEW j \in Job, ReplyLost(j), UNCHANGED poll
    PROVE  Truthful' /\ [Result!Next]_(Result!vars)
  <1>1. /\ reply[j] = "coming" /\ reply' = [reply EXCEPT ![j] = "lost"]
        /\ client' = client /\ UNCHANGED <<jobVars, poll>>
    BY DEF ReplyLost
  <1>2. reply \in [Job -> {"none", "coming", "here", "lost"}] BY TypedGives
  <1>3. PageTold(client)'
    BY <1>1, <1>2, RestTold DEF Truthful, PageTold, ToCome
  <1>4. UNCHANGED Result!vars BY <1>1, NothingMaps DEF jobVars, streams
  <1> QED BY <1>1, <1>3, <1>4, RestTold DEF Truthful, AllTold

\* What a promise becomes when its data arrives.
LEMMA FetchedPromise ==
    ASSUME NEW c \in Client, NEW j \in Job, NEW to, c.promise[j] = "waiting"
    PROVE  Fetched(c, j, to).promise = [c.promise EXCEPT ![j] = to]
  BY DEF Fetched, Settle, StopListening, Client

\* Data arrives: it was announced, and is there unless the cache has lost it or the request
\* fails.
LEMMA DataTold ==
    ASSUME Typed, Truthful, NEW j \in Job, DataArrives(j), UNCHANGED poll
    PROVE  Truthful' /\ [Result!Next]_(Result!vars)
  <1>1. PICK to \in {"resolved", "rejected", "unfetched"} :
            /\ to = "rejected" => j \notin cached
            /\ client.fetching[j] > 0 /\ client' = Fetched(client, j, to)
            /\ UNCHANGED <<jobVars, reply, poll>>
    BY DEF DataArrives
  <1>2. client \in Client /\ client.fetching \in [Job -> Nat] BY TypedGives
  <1>3. /\ client' \in Client /\ Timed(client') = Timed(client)
        /\ \A k \in Job \ {j} : /\ client'.promise[k] = client.promise[k]
                                /\ client'.fetching[k] = client.fetching[k]
        /\ client'.fetching[j] = client.fetching[j] - 1
    BY <1>1, <1>2, FetchedIs
  <1>4. reply[j] = "here" /\ Announced(scoped, j, "done")
    BY <1>1, <1>2 DEF Typed, Answered, Truthful, PageTold
  <1>5. j \notin cached => "evict" \in Faults /\ worker[j] \notin {"none", "queued"}
    BY <1>4 DEF Truthful, WorkTold
  <1>6. PageTold(client)'
    BY <1>1, <1>2, <1>3, <1>4, RestTold DEF Truthful, PageTold, ToCome
  <1>7. CASE client.promise[j] = "waiting"
    <2>1. client'.promise = [client.promise EXCEPT ![j] = to]
      BY <1>1, <1>2, <1>7, FetchedPromise
    <2>2. client'.promise = [k \in Job |-> IF k \in {j} THEN [i \in {j} |-> to][k] ELSE client.promise[k]]
      BY <1>2, <2>1 DEF Client
    <2>3. [i \in {j} |-> to] \in [{j} -> {"resolved", "rejected", "unfetched"}] OBVIOUS
    <2>4. Result!MaySettle(j, to)
      BY <1>1, <1>4, <1>5, <1>7 DEF Result!MaySettle
    <2>5. Result!SettleAll({j})
      BY <1>1, <2>2, <2>3, <2>4, RestTold DEF Result!SettleAll, jobVars
    <2>6. Result!Settle(j) BY <2>5 DEF Result!Settle
    <2> QED BY <1>1, <1>6, <2>6, RestTold DEF Truthful, AllTold, Result!Next
  <1>8. CASE client.promise[j] # "waiting"
    <2>1. client'.promise = client.promise
      BY <1>1, <1>2, <1>8 DEF Fetched, Settle, StopListening, Client
    <2>2. UNCHANGED Result!vars
      BY <1>1, <2>1, RestTold DEF Result!vars, jobVars
    <2> QED BY <1>1, <1>6, <2>2, RestTold DEF Truthful, AllTold
  <1> QED BY <1>7, <1>8

\* A timer fires: its event was announced.
LEMMA RetryTold ==
    ASSUME Typed, Typed', Truthful, NEW e \in Pending, RetryFires(e), UNCHANGED poll
    PROVE  Truthful' /\ [Result!Next]_(Result!vars)
  <1> DEFINE c == Popped(client, e)
  <1>1. /\ client' = ProcessEvent(c, e) /\ UNCHANGED <<jobVars, reply, poll>>
    BY DEF RetryFires, Retry, Popped
  <1>2. e \in Event /\ client \in Client /\ e \in Timed(client)
        /\ Paired(client) /\ Answered(client)
    BY TypedGives
  <1>3. c \in Client /\ Paired(c) /\ Answered(c) /\ c.promise = client.promise
        /\ c.fetching = client.fetching /\ Timed(c) \subseteq Timed(client)
    BY <1>2, PoppedIs DEF Paired, Answered
  <1> HIDE DEF c
  <1>4. PageTold(c) /\ Told(e) BY <1>2, <1>3 DEF Truthful, PageTold
  <1>5. PageTold(client') /\ Rejects(c, client') BY <1>1, <1>2, <1>3, <1>4, TurnTold
  <1>6. Rejects(client, client') BY <1>3, <1>5 DEF Rejects
  <1>7. PageTold(client)' BY <1>1, <1>5, RestTold DEF PageTold, ToCome
  <1>8. client' \in Client BY DEF Typed
  <1> QED BY <1>1, <1>6, <1>7, <1>8, RestTold, RejectsMaps DEF Truthful, AllTold

\* All of the page's steps, and the workers'.
LEMMA PageTells ==
    ASSUME Typed, Typed', Truthful, PageNext, UNCHANGED poll
    PROVE  Truthful' /\ [Result!Next]_(Result!vars)
  BY WorkersTold, SubmitTold, RegisterTold, ReplyLostTold, DataTold, RetryTold
  DEF PageNext, PageStep

\* A poll brings entries of the stream.
LEMMA PollTells ==
    ASSUME Typed, Typed', Truthful, PollSent \/ PollAnswered \/ PollReceived \/ PollFails
    PROVE  Truthful' /\ [Result!Next]_(Result!vars)
  <1>1. scoped \in Seq(Event) /\ MaxEventCount \in Nat /\ poll.events \in Seq(Event)
        /\ client \in Client /\ Paired(client) /\ Answered(client)
    BY PageAssumption, TypedGives
  <1>2. CASE PollReceived
    <2>1. client' = ProcessEvents(client, poll.events) /\ UNCHANGED <<jobVars, reply>> /\ poll' = Idle
      BY <1>2 DEF PollReceived
    <2>2. PageTold(client') /\ Rejects(client, client')
      BY <1>1, <2>1, LoopTold DEF Truthful
    <2>3. PageTold(client)' BY <2>1, <2>2, RestTold DEF PageTold, ToCome
    <2>4. AllTold(poll.events)' BY <2>1 DEF AllTold, Idle
    <2>5. client' \in Client BY DEF Typed
    <2> QED BY <2>1, <2>2, <2>3, <2>4, <2>5, RestTold, RejectsMaps DEF Truthful
  <1>3. CASE PollSent \/ PollAnswered \/ PollFails
    <2>1. UNCHANGED <<jobVars, pageVars>> BY <1>3 DEF PollSent, PollAnswered, PollFails
    <2>2. AllTold(poll'.events)
      <3>1. CASE PollAnswered
        <4> DEFINE start == IF poll.from = Origin THEN Origin ELSE PyIncrement(poll.from)
                   page == RangeFrom(scoped, scopedCut, start, MaxEventCount)
        <4>1. poll'.events = page BY <3>1 DEF PollAnswered, PollStates, Typed, ReadEvents
        <4> HIDE DEF start
        <4>2. \A i \in DOMAIN page : \E k \in DOMAIN scoped : page[i] = scoped[k]
          <5> DEFINE before == Before(scopedCut, CountBefore(scoped, start))
          <5>1. scopedCut \in 0 .. Len(scoped) BY TypedGives
          <5>2. \A i \in DOMAIN page : before + i \in DOMAIN scoped /\ page[i] = scoped[before + i]
            BY <1>1, <5>1, PageHolds
          <5> HIDE DEF page, before
          <5> QED BY <5>2
        <4> HIDE DEF page
        <4>3. \A k \in DOMAIN scoped : Told(scoped[k]) BY DEF Told, Announced, EventsOf
        <4> QED BY <4>1, <4>2, <4>3 DEF AllTold
      <3>2. CASE PollSent \/ PollFails
        <4>1. poll' \in [pc : {"idle", "sent"}, from : Ids, events : {<<>>}]
          <5>1. CASE PollFails BY <5>1 DEF PollFails, Idle, Origin, Ids
          <5>2. CASE PollSent
            <6>1. client.lastId \in Ids BY <1>1 DEF Client
            <6>2. poll' = [pc |-> "sent", from |-> client.lastId, events |-> <<>>]
              BY <5>2 DEF PollSent, Idle
            <6> QED BY <6>1, <6>2
          <5> QED BY <3>2, <5>1, <5>2
        <4> QED BY <4>1 DEF AllTold
      <3> QED BY <1>3, <3>1, <3>2
    <2>3. Truthful' BY <2>1, <2>2, RestTold DEF Truthful, AllTold, PageTold, ToCome, pageVars
    <2>4. UNCHANGED Result!vars BY <2>1, NothingMaps DEF jobVars, streams, pageVars
    <2> QED BY <2>3, <2>4
  <1> QED BY <1>2, <1>3

\* A reloaded page waits for nothing.
LEMMA ReloadTells ==
    ASSUME Typed, Truthful, NEW id \in Ids, ReloadWith(id), poll' = Idle
    PROVE  Truthful' /\ [Result!Next]_(Result!vars)
  <1> DEFINE left == [j \in Job |-> IF client.promise[j] = "waiting" THEN "left" ELSE client.promise[j]]
             c == NewClient(Job, id)
  <1>1. /\ client' = [c EXCEPT !.promise = left] /\ UNCHANGED jobVars
        /\ reply' = [j \in Job |-> IF reply[j] = "coming" THEN "lost" ELSE reply[j]]
    BY DEF ReloadWith
  <1>2. c \in Client /\ Timed(c) = {} /\ \A j \in Job : c.fetching[j] = 0 BY NewPage
  <1> HIDE DEF c, left
  <1>3. client'.promise = left /\ client'.fetching = c.fetching /\ client'.timers = c.timers
    BY <1>1, <1>2 DEF Client
  <1>4. Result!LeavePage
    BY <1>1, <1>3, RestTold DEF Result!LeavePage, left, jobVars
  <1>5. \A j \in Job : ToCome(j)' => left[j] = "none"
    BY <1>1 DEF Truthful, PageTold, ToCome, left
  <1>6. PageTold(client)' BY <1>2, <1>3, <1>5 DEF PageTold, Timed
  <1>7. AllTold(poll.events)' BY DEF AllTold, Idle
  <1> QED BY <1>1, <1>4, <1>6, <1>7, RestTold DEF Truthful, Result!Next

\* Nothing happens to the page and the workers.
LEMMA StillTells ==
    ASSUME Truthful, UNCHANGED vars
    PROVE  Truthful' /\ [Result!Next]_(Result!vars)
  <1>1. UNCHANGED <<jobVars, client, reply, poll>> BY DEF vars, pageVars
  <1>2. Truthful' BY <1>1, RestTold DEF Truthful, AllTold, PageTold, ToCome
  <1>3. UNCHANGED Result!vars BY <1>1, NothingMaps DEF jobVars, streams
  <1> QED BY <1>2, <1>3

\* Nothing is announced, and nobody waits, to begin with.
LEMMA TellsInit == Init => Truthful /\ Result!Init
  <1> SUFFICES ASSUME Init PROVE Truthful /\ Result!Init OBVIOUS
  <1>1. /\ scoped = <<>> /\ full = <<>> /\ worker = [j \in Job |-> "none"] /\ poll.events = <<>>
        /\ client = NewClient(Job, Origin)
    BY DEF Init, JobsInit, PageInit, Idle
  <1>2. \A j, s : ~Announced(scoped, j, s) BY <1>1 DEF Announced, EventsOf
  <1>3. Origin \in Ids BY DEF Origin, Ids
  <1>4. Timed(client) = {} /\ client \in Client
        /\ \A j \in Job : client.fetching[j] = 0 /\ client.promise[j] = "none"
    BY <1>1, <1>3, NewPage
  <1>5. client.promise = [j \in Job |-> "none"] BY <1>4 DEF Client
  <1>6. Truthful BY <1>1, <1>2, <1>4 DEF Truthful, WorkTold, PageTold, AllTold
  <1>7. Missed = {} BY <1>1 DEF Missed, CutFrom, Held, EventsOf
  <1>8. Result!Init BY <1>1, <1>2, <1>5, <1>7 DEF Result!Init
  <1> QED BY <1>6, <1>8

\* Over the polling transport every promise settles at most once, as the workers announced
\* and the cache and the request for the data allow, however polls, timers, reloads and faults interleave.
THEOREM PollingSettlesOnce == Spec => SettlesOnce
  <1>1. Typed /\ Truthful /\ [Next]_vars => Truthful' /\ [Result!Next]_(Result!vars)
    <2> SUFFICES ASSUME Typed, Truthful, [Next]_vars PROVE Truthful' /\ [Result!Next]_(Result!vars)
      OBVIOUS
    <2>0. Typed' BY TypedNext
    <2>1. CASE PageNext /\ UNCHANGED poll BY <2>0, <2>1, PageTells
    <2>2. CASE PollSent \/ PollAnswered \/ PollReceived \/ PollFails BY <2>0, <2>2, PollTells
    <2>3. CASE Reload
      <3>1. PICK id \in StoredIds(scoped) : ReloadWith(id) BY <2>3 DEF Reload
      <3>2. id \in Ids BY EntryId, TypedGives DEF StoredIds
      <3> QED BY <2>3, <3>1, <3>2, ReloadTells DEF Reload
    <2>4. CASE UNCHANGED vars BY <2>4, StillTells
    <2> QED BY <2>1, <2>2, <2>3, <2>4 DEF Next
  <1> QED BY <1>1, TellsInit, TypedInit, TypedNext, PTL DEF Spec, SettlesOnce, Result!Spec
-----------------------------------------------------------------------------
\* Part of what was announced, was.
LEMMA PartTold ==
    ASSUME NEW stream \in Seq(Event), AllTold(stream), NEW m \in Nat \ {0},
           NEW n \in 0 .. Len(stream)
    PROVE  AllTold(SubSeq(stream, m, n)) /\ SubSeq(stream, m, n) \in Seq(Event)
  <1> DEFINE part == SubSeq(stream, m, n)
  <1>1. Len(stream) \in Nat /\ DOMAIN stream = 1 .. Len(stream) BY LenProperties
  <1>2. m .. n \subseteq 1 .. Len(stream) BY <1>1
  <1>3. \A i \in m .. n : stream[i] \in Event BY <1>1, <1>2, EntryId
  <1>4. /\ part \in Seq(Event) /\ Len(part) = IF m <= n THEN n - m + 1 ELSE 0
        /\ \A i \in 1 .. n - m + 1 : part[i] = stream[m + i - 1]
    BY <1>1, <1>3, SubSeqProperties
  <1> HIDE DEF part
  <1>5. DOMAIN part = 1 .. Len(part) BY <1>4, LenProperties
  <1>6. ASSUME NEW i \in DOMAIN part PROVE Told(part[i])
    <2>1. i \in 1 .. n - m + 1 /\ m + i - 1 \in m .. n BY <1>1, <1>4, <1>5
    <2>2. part[i] = stream[m + i - 1] BY <1>4, <2>1
    <2>3. m + i - 1 \in DOMAIN stream BY <1>1, <1>2, <2>1
    <2> QED BY <2>2, <2>3 DEF AllTold
  <1> QED BY <1>4, <1>6 DEF AllTold, part

\* What is sent is on the wire with what was.
LEMMA SentTold ==
    ASSUME wire \in Seq(Event), NEW events \in Seq(Event), AllTold(wire), AllTold(events)
    PROVE  AllTold(Sent(events))
  <1> DEFINE both == wire \o events
  <1>1. /\ both \in Seq(Event) /\ Len(both) = Len(wire) + Len(events)
        /\ \A i \in 1 .. Len(wire) + Len(events) :
               both[i] = IF i <= Len(wire) THEN wire[i] ELSE events[i - Len(wire)]
    BY ConcatProperties
  <1>2. /\ Len(wire) \in Nat /\ Len(events) \in Nat
        /\ DOMAIN wire = 1 .. Len(wire) /\ DOMAIN events = 1 .. Len(events)
        /\ DOMAIN both = 1 .. Len(both)
    BY <1>1, LenProperties
  <1> HIDE DEF both
  <1>3. ASSUME NEW i \in DOMAIN both PROVE Told(both[i])
    <2>1. CASE i <= Len(wire)
      <3>1. i \in DOMAIN wire /\ both[i] = wire[i] BY <1>1, <1>2, <2>1
      <3> QED BY <3>1 DEF AllTold
    <2>2. CASE ~(i <= Len(wire))
      <3>1. i - Len(wire) \in DOMAIN events /\ both[i] = events[i - Len(wire)]
        BY <1>1, <1>2, <2>2
      <3> QED BY <3>1 DEF AllTold
    <2> QED BY <2>1, <2>2
  <1> QED BY <1>3 DEF AllTold, Sent, both

\* The server sends what the workers announced.
LEMMA ServerTold ==
    ASSUME Inv, Truthful, AllTold(wire), ReadReturns \/ RangeRuns
    PROVE  AllTold(wire')
  <1>1. /\ scoped \in Seq(Event) /\ full \in Seq(Event) /\ wire \in Seq(Event)
        /\ Len(full) \in Nat
    BY LenProperties DEF Inv, Streams
  <1>2. CASE ReadReturns
    <2> DEFINE first == Before(fullCut, reading)
               last == IF first + ReadCount < Len(full) THEN first + ReadCount ELSE Len(full)
               batch == SubSeq(full, first + 1, last)
    <2>1. wire' = Sent(batch) /\ reading >= 0 BY <1>2 DEF ReadReturns
    <2>2. first + 1 \in Nat \ {0} /\ last \in 0 .. Len(full)
      <3>1. reading \in Nat /\ fullCut \in Nat BY <1>1, <2>1 DEF Inv, ReadsOn, Streams
      <3>2. first \in Nat BY <3>1 DEF Before
      <3> HIDE DEF first
      <3> QED BY <1>1, <3>2, WebSocketAssumption
    <2> HIDE DEF first, last
    <2>3. AllTold(batch) /\ batch \in Seq(Event) BY <1>1, <2>2, PartTold DEF Truthful, WorkTold
    <2> QED BY <1>1, <2>1, <2>3, SentTold
  <1>3. CASE RangeRuns
    <2>1. PICK start, end : wire' = Sent(XRange(scoped, scopedCut, start, end))
      BY <1>3 DEF RangeRuns
    <2> DEFINE m == Before(scopedCut, CountBefore(scoped, start))
               n == CountUpTo(scoped, end)
    <2>2. m \in 0 .. Len(scoped) /\ n \in 0 .. Len(scoped)
      BY <1>1, CountType DEF Before, Inv, Streams
    <2>3. m + 1 \in Nat \ {0} BY <2>2
    <2>4. AllTold(scoped) BY DEF AllTold, Told, Announced, EventsOf
    <2> HIDE DEF m, n
    <2>5. AllTold(SubSeq(scoped, m + 1, n)) /\ SubSeq(scoped, m + 1, n) \in Seq(Event)
      BY <1>1, <2>2, <2>3, <2>4, PartTold
    <2>6. XRange(scoped, scopedCut, start, end) = SubSeq(scoped, m + 1, n) BY DEF XRange, m, n
    <2> QED BY <1>1, <2>1, <2>5, <2>6, SentTold
  <1> QED BY <1>2, <1>3

\* A message brings what was announced.
LEMMA ReceiveTold ==
    ASSUME Inv, Typed, Typed', Truthful, AllTold(wire), Receive
    PROVE  Truthful' /\ AllTold(wire') /\ [Result!Next]_(Result!vars)
  <1>1. /\ wire # <<>> /\ client' = ProcessEvent(client, Head(wire)) /\ wire' = Tail(wire)
        /\ UNCHANGED <<jobVars, reply, poll>>
    BY DEF Receive
  <1>2. /\ Head(wire) \in Event /\ Head(wire) = wire[1] /\ 1 \in DOMAIN wire
        /\ \A i \in DOMAIN Tail(wire) : i + 1 \in DOMAIN wire /\ Tail(wire)[i] = wire[i + 1]
    <2>1. /\ Tail(wire) \in Seq(Event) /\ Len(Tail(wire)) = Len(wire) - 1
          /\ \A i \in 1 .. Len(Tail(wire)) : Tail(wire)[i] = wire[i + 1]
          /\ Head(wire) \in Event
      BY <1>1, HeadTailProperties DEF Inv, Streams
    <2>2. Len(wire) \in Nat \ {0} /\ DOMAIN wire = 1 .. Len(wire)
          /\ DOMAIN Tail(wire) = 1 .. Len(Tail(wire))
      BY <1>1, <2>1, EmptySeq, LenProperties DEF Inv, Streams
    <2> QED BY <2>1, <2>2
  <1>3. Told(Head(wire)) /\ AllTold(Tail(wire)) BY <1>2 DEF AllTold
  <1>4. client \in Client /\ Paired(client) /\ Answered(client) BY TypedGives
  <1>5. PageTold(client') /\ Rejects(client, client')
    BY <1>1, <1>2, <1>3, <1>4, TurnTold DEF Truthful
  <1>6. PageTold(client)' BY <1>1, <1>5, RestTold DEF PageTold, ToCome
  <1>7. client' \in Client BY DEF Typed
  <1> QED BY <1>1, <1>3, <1>5, <1>6, <1>7, RestTold, RejectsMaps DEF Truthful, AllTold

\* So it does over the websocket transport, with its server, its lost connections, its ranges
\* and its fallback.
THEOREM WebSocketSettlesOnce == WsSpec => SettlesOnce
  <1>1. Inv /\ Connected /\ Truthful /\ AllTold(wire) /\ [WsNext]_allVars
            => Truthful' /\ AllTold(wire)' /\ [Result!Next]_(Result!vars)
    <2> SUFFICES ASSUME Inv, Connected, Truthful, AllTold(wire), [WsNext]_allVars
                 PROVE  Truthful' /\ AllTold(wire)' /\ [Result!Next]_(Result!vars)
      OBVIOUS
    <2>0. Typed /\ Typed' BY ConnectedNext DEF Connected
    <2>1. scoped' = scoped /\ AllTold(wire') => AllTold(wire)' BY DEF AllTold, Told
    <2>2. AllTold(<<>>) BY DEF AllTold
    <2>3. CASE UNCHANGED vars /\ wire' \in {wire, <<>>}
      <3>1. scoped' = scoped BY <2>3 DEF vars, jobVars, streams
      <3>2. AllTold(wire') BY <2>2, <2>3
      <3> QED BY <2>1, <2>3, <3>1, <3>2, StillTells
    <2>4. CASE PageActs
      <3>1. PageNext /\ UNCHANGED <<poll, wire>> BY <2>4 DEF PageActs, wsVars
      <3>2. \A k, t : Announced(scoped, k, t) => Announced(scoped', k, t)
        <4>1. CASE JobsNext BY <2>0, <4>1, StaysAnnounced
        <4>2. CASE scoped' = scoped BY <4>2
        <4>3. JobsNext \/ scoped' = scoped
          BY <3>1 DEF PageNext, PageStep, Submit, Enqueue, streams, Register, ReplyLost, DataArrives,
                      RetryFires, jobVars
        <4> QED BY <4>1, <4>2, <4>3
      <3>3. AllTold(wire)' BY <3>1, <3>2 DEF AllTold, Told
      <3> QED BY <2>0, <3>1, <3>3, PageTells
    <2>5. CASE ReadReturns \/ RangeRuns
      <3>1. UNCHANGED vars BY <2>5 DEF ReadReturns, RangeRuns
      <3>2. scoped' = scoped BY <3>1 DEF vars, jobVars, streams
      <3> QED BY <2>1, <2>5, <3>1, <3>2, ServerTold, StillTells
    <2>6. CASE Receive
      <3>1. scoped' = scoped BY <2>6 DEF Receive, jobVars, streams
      <3> QED BY <2>0, <2>1, <2>6, <3>1, ReceiveTold
    <2>7. CASE (PollSent \/ PollAnswered \/ PollReceived \/ PollFails) /\ wire' = wire
      <3>1. scoped' = scoped
        BY <2>7 DEF PollSent, PollAnswered, PollReceived, PollFails, jobVars, streams
      <3>2. AllTold(wire') BY <2>7
      <3> QED BY <2>0, <2>1, <2>7, <3>1, <3>2, PollTells
    <2>8. CASE WsReload
      <3>1. PICK id \in StoredIds(full) : ReloadWith(id) BY <2>8 DEF WsReload
      <3>2. id \in Ids BY <2>0, EntryId, TypedGives DEF StoredIds, Inv, Streams
      <3>3. poll' = Idle /\ wire' = <<>> BY <2>8 DEF WsReload
      <3>4. scoped' = scoped BY <3>1 DEF ReloadWith, jobVars, streams
      <3>5. AllTold(wire') BY <2>2, <3>3
      <3> QED BY <2>0, <2>1, <3>1, <3>2, <3>3, <3>4, <3>5, ReloadTells
    <2>9. CASE ReadBlocks \/ ReadTimesOut \/ ConnOpens \/ ConnDrops \/ ServerRestarts
      BY <2>3, <2>9 DEF ReadBlocks, ReadTimesOut, ConnOpens, ConnDrops, ServerRestarts
    <2>10. CASE Reconnect BY <2>3, <2>7, <2>10 DEF Reconnect
    <2>11. CASE FallbackGoesOn BY <2>7, <2>11 DEF FallbackGoesOn
    <2>12. CASE UNCHANGED allVars BY <2>3, <2>12 DEF allVars, wsVars
    <2> QED BY <2>4, <2>5, <2>6, <2>8, <2>9, <2>10, <2>11, <2>12 DEF WsNext
  <1>2. WsInit => Truthful /\ AllTold(wire) /\ Result!Init
    BY TellsInit DEF WsInit, AllTold
  <1> QED BY <1>1, <1>2, InvInit, InvNext, ConnectedInit, ConnectedNext, PTL
          DEF WsSpec, SettlesOnce, Result!Spec
=============================================================================
