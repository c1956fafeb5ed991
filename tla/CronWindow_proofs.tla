------------------------- MODULE CronWindow_proofs -------------------------
(***************************************************************************)
(* Proof that the cron window neither misses nor repeats a minute, for every *)
(* period, crontab and length of a second, as long as scheduler tasks run less  *)
(* than a second late.                                                          *)
(***************************************************************************)
EXTENDS CronWindow, TLAPS

\* Later minutes start at least a period later.
LEMMA StartsApart ==
    ASSUME NEW k \in Nat, NEW m \in Nat, m < k
    PROVE  Start(m) + Period <= Start(k)
<1>1. PICK d \in Nat : k = m + 1 + d
  <2>1. k - m - 1 \in Nat /\ k = m + 1 + (k - m - 1)
    OBVIOUS
  <2> QED
    BY <2>1
<1>2. Period \in Nat
  BY WindowAssumption
<1>3. k * Period = m * Period + Period + d * Period
  BY <1>1, <1>2
<1>4. d * Period \in Nat /\ m * Period \in Nat
  BY <1>2
<1> QED
  BY <1>2, <1>3, <1>4 DEF Start

\* A scheduler task that runs less than a second after its minute began finds that
\* minute in its window and no other.
LEMMA WindowIsItsMinute ==
    ASSUME NEW k \in Nat, NEW m \in Nat, now \in Nat,
           Start(k) <= now, now < Start(k) + Second
    PROVE  InWindow(m) <=> m = k
<1>1. Period \in Nat /\ Second \in Nat /\ WindowSize = Period - Second
  BY WindowAssumption
<1>2. Start(k) \in Nat /\ Start(m) \in Nat
  BY <1>1 DEF Start
<1>3. CASE m = k
  BY <1>1, <1>2, <1>3, WindowAssumption DEF InWindow
<1>4. CASE m < k
  BY <1>1, <1>2, <1>4, StartsApart, WindowAssumption DEF InWindow
<1>5. CASE k < m
  BY <1>1, <1>2, <1>5, StartsApart, WindowAssumption DEF InWindow
<1> QED
  BY <1>3, <1>4, <1>5

\* Each minute's execution is queued by its own scheduler task, and that task is
\* not late.
WindowInv ==
    /\ TypeOK
    /\ \A m \in Cron : queued[m] = IF m \in ran THEN 1 ELSE 0
    /\ \A k \in Minutes : k \notin ran => now <= Start(k) + MaxDelay

\* Every match of the crontab is executed exactly once if tasks run less than a
\* second late.
THEOREM CronQueuedOnce ==
    ASSUME MaxDelay < Second
    PROVE  Spec => []QueuedOnce
<1>1. Init => WindowInv
  <2> SUFFICES ASSUME Init PROVE WindowInv
    OBVIOUS
  <2>1. \A k \in Minutes : Start(k) \in Nat
    BY WindowAssumption DEF Start, Minutes
  <2> QED
    BY <2>1, WindowAssumption DEF Init, WindowInv, TypeOK
<1>2. WindowInv /\ [Next]_vars => WindowInv'
  <2> SUFFICES ASSUME WindowInv, [Next]_vars PROVE WindowInv'
    OBVIOUS
  <2>1. \A k \in Minutes : k \in Nat /\ Start(k) \in Nat
    BY WindowAssumption DEF Start, Minutes
  <2>2. now \in Nat /\ ran \subseteq Minutes /\ queued \in [Cron -> Nat]
        /\ (\A m \in Cron : queued[m] = IF m \in ran THEN 1 ELSE 0)
        /\ (\A k \in Minutes : k \notin ran => now <= Start(k) + MaxDelay)
    BY DEF WindowInv, TypeOK
  <2>3. CASE Tick
    <3>1. now' = now + 1 /\ UNCHANGED <<ran, queued>>
          /\ \A k \in Minutes : k \notin ran => now < Start(k) + MaxDelay
      BY <2>3 DEF Tick
    <3>2. \A k \in Minutes : k \notin ran' => now' <= Start(k) + MaxDelay
      BY <2>1, <2>2, <3>1, WindowAssumption
    <3> QED
      BY <2>2, <3>1, <3>2 DEF WindowInv, TypeOK, Start
  <2>4. ASSUME NEW k \in Minutes, RunScheduler(k) PROVE WindowInv'
    <3>1. Start(k) <= now /\ k \notin ran /\ now' = now /\ ran' = ran \cup {k}
      BY <2>4 DEF RunScheduler
    <3>2. now < Start(k) + Second
      BY <2>1, <2>2, <3>1, WindowAssumption
    <3>3. \A m \in Cron : InWindow(m) <=> m = k
      BY <2>1, <2>2, <3>1, <3>2, WindowIsItsMinute, WindowAssumption
    <3>4. queued' = [m \in Cron |-> IF m = k THEN queued[m] + 1 ELSE queued[m]]
      BY <2>4, <3>3 DEF RunScheduler
    <3>5. \A m \in Cron : queued'[m] = IF m \in ran' THEN 1 ELSE 0
      BY <2>2, <3>1, <3>4
    <3> QED
      BY <2>2, <3>1, <3>4, <3>5 DEF WindowInv, TypeOK, Start
  <2>5. CASE UNCHANGED vars
    BY <2>5 DEF vars, WindowInv, TypeOK, Start
  <2> QED
    BY <2>3, <2>4, <2>5 DEF Next
<1>3. WindowInv => QueuedOnce
  <2> SUFFICES ASSUME WindowInv, NEW m \in Cron
               PROVE  queued[m] <= 1 /\ (now > Start(m) + MaxDelay => queued[m] = 1)
    BY DEF QueuedOnce
  <2>1. m \in Minutes /\ Start(m) \in Nat /\ now \in Nat /\ MaxDelay \in Nat
    BY WindowAssumption DEF Start, Minutes, WindowInv, TypeOK
  <2>2. queued[m] = IF m \in ran THEN 1 ELSE 0
    BY DEF WindowInv
  <2>3. m \notin ran => now <= Start(m) + MaxDelay
    BY <2>1 DEF WindowInv
  <2> QED
    BY <2>1, <2>2, <2>3
<1> QED
  BY <1>1, <1>2, <1>3, PTL DEF Spec
=============================================================================
