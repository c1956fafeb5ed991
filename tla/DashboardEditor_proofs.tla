------------------------ MODULE DashboardEditor_proofs ------------------------
(***************************************************************************)
(* Proofs about editing a dashboard, in three parts.                                *)
(*                                                                                   *)
(* What the operators of DashboardLayout do to a layout, for every layout: lists of     *)
(* children stay lists without repetition, what is under a component is the least       *)
(* set closed under children, and each of the reducer's handlers leaves a forest,       *)
(* connected from the root unless a component was dropped inside itself.                *)
(*                                                                                   *)
(* UnsavedShown: whatever edits do to the layout, the oldest layout that can still be    *)
(* undone to is the server's, until the history has overflown (Inv).                    *)
(*                                                                                   *)
(* TypeOK, LayoutIsTree and ChartsKept: every layout of the history is such a forest     *)
(* (TreeInv).                                                                           *)
(***************************************************************************)
EXTENDS DashboardEditor, SequenceTheorems, FiniteSetTheorems, NaturalsInduction,
        WellFoundedInduction, TLAPS

-----------------------------------------------------------------------------
\* Sequences without repetition.

\* s lists the elements of X, each once.
Lists(s, X) == s \in Seq(X) /\ ToSet(s) = X /\ IsInjective(s)

\* In terms of positions.
LEMMA ListsDef ==
    ASSUME NEW s, NEW X
    PROVE  Lists(s, X) <=>
              /\ s \in Seq(X)
              /\ \A x \in X : \E i \in 1 .. Len(s) : s[i] = x
              /\ \A i, j \in 1 .. Len(s) : s[i] = s[j] => i = j
  <1>1. ASSUME s \in Seq(X)
        PROVE  DOMAIN s = 1 .. Len(s) /\ \A i \in 1 .. Len(s) : s[i] \in X
    BY <1>1, LenProperties, ElementOfSeq
  <1> QED BY <1>1 DEF Lists, ToSet, IsInjective

LEMMA ListsFacts ==
    ASSUME NEW s, NEW X, Lists(s, X)
    PROVE  /\ Len(s) \in Nat /\ DOMAIN s = 1 .. Len(s) /\ ToSet(s) = X
           /\ \A i \in 1 .. Len(s) : s[i] \in X
           /\ \A S : X \subseteq S => s \in Seq(S)
  <1>1. s \in Seq(X) BY DEF Lists
  <1>2. \A S : X \subseteq S => s \in Seq(S) BY <1>1, SeqMonotonic
  <1> QED BY <1>1, <1>2, LenProperties, ElementOfSeq DEF Lists

LEMMA EmptyLists == Lists(<<>>, {})
  <1>1. <<>> \in Seq({}) /\ Len(<<>>) = 0 BY EmptySeq
  <1>2. DOMAIN <<>> = {} BY <1>1, LenProperties
  <1> QED BY <1>1, <1>2 DEF Lists, ToSet, IsInjective

LEMMA SingleLists == ASSUME NEW x PROVE Lists(<<x>>, {x})
  <1>1. <<x>> \in Seq({x}) /\ <<x>>[1] = x OBVIOUS
  <1>2. DOMAIN <<x>> = {1} OBVIOUS
  <1>3. ToSet(<<x>>) = {x} BY <1>1, <1>2 DEF ToSet
  <1>4. IsInjective(<<x>>) BY <1>2 DEF IsInjective
  <1> QED BY <1>1, <1>3, <1>4 DEF Lists

LEMMA ConcatLists ==
    ASSUME NEW s, NEW X, NEW t, NEW Y, Lists(s, X), Lists(t, Y), X \cap Y = {}
    PROVE  Lists(s \o t, X \cup Y) /\ Len(s \o t) = Len(s) + Len(t)
  <1> DEFINE r == s \o t
             m == Len(s)
             n == Len(t)
  <1>1. s \in Seq(X \cup Y) /\ t \in Seq(X \cup Y) /\ m \in Nat /\ n \in Nat
    BY ListsFacts
  <1>2. /\ r \in Seq(X \cup Y) /\ Len(r) = m + n
        /\ \A i \in 1 .. m + n : r[i] = IF i <= m THEN s[i] ELSE t[i - m]
    BY <1>1, ConcatProperties
  <1>3. /\ \A i \in 1 .. m : s[i] \in X
        /\ \A i \in 1 .. n : t[i] \in Y
        /\ \A x \in X : \E i \in 1 .. m : s[i] = x
        /\ \A y \in Y : \E i \in 1 .. n : t[i] = y
        /\ \A i, j \in 1 .. m : s[i] = s[j] => i = j
        /\ \A i, j \in 1 .. n : t[i] = t[j] => i = j
    BY ListsFacts, ListsDef
  <1> HIDE DEF r, m, n
  <1>4. \A i \in 1 .. m : i \in 1 .. m + n /\ r[i] = s[i] BY <1>1, <1>2
  <1>5. \A i \in 1 .. n : m + i \in 1 .. m + n /\ r[m + i] = t[i]
    <2> TAKE i \in 1 .. n
    <2> DEFINE k == m + i
    <2>1. k \in 1 .. m + n /\ ~(k <= m) /\ k - m = i BY <1>1
    <2> HIDE DEF k
    <2>2. r[k] = t[i] BY <1>2, <2>1
    <2> QED BY <2>1, <2>2 DEF k
  <1>6. \A i \in 1 .. m + n : i \in 1 .. m \/ \E k \in 1 .. n : i = m + k
    <2> TAKE i \in 1 .. m + n
    <2>1. i \in 1 .. m \/ (i - m \in 1 .. n /\ i = m + (i - m)) BY <1>1
    <2> QED BY <2>1
  <1>7. \A x \in X \cup Y : \E i \in 1 .. m + n : r[i] = x
    BY <1>3, <1>4, <1>5
  <1>8. ASSUME NEW i \in 1 .. m + n, NEW j \in 1 .. m + n, r[i] = r[j] PROVE i = j
    BY <1>3, <1>4, <1>5, <1>6, <1>8
  <1> QED BY <1>2, <1>7, <1>8, ListsDef DEF r, m, n

\* A stretch of a list.
LEMMA SubLists ==
    ASSUME NEW s, NEW X, Lists(s, X), NEW a \in 1 .. Len(s) + 1, NEW b \in a - 1 .. Len(s)
    PROVE  /\ Lists(SubSeq(s, a, b), {s[i] : i \in a .. b})
           /\ Len(SubSeq(s, a, b)) = b - a + 1
  <1> DEFINE r == SubSeq(s, a, b)
             R == {s[i] : i \in a .. b}
             k == b - a + 1
  <1>1. Len(s) \in Nat BY ListsFacts
  <1>2. a \in Int /\ b \in Int /\ k \in Nat /\ a .. b \subseteq 1 .. Len(s) BY <1>1
  <1>3. \A i \in a .. b : s[i] \in R OBVIOUS
  <1>4. r \in Seq(R) /\ Len(r) = k /\ \A i \in 1 .. k : r[i] = s[a + i - 1]
    <2>1. r \in Seq(R) /\ Len(r) = (IF a <= b THEN k ELSE 0) /\ \A i \in 1 .. k : r[i] = s[a + i - 1]
      <3> HIDE DEF R
      <3> QED BY <1>2, <1>3, SubSeqProperties
    <2>2. ~(a <= b) => k = 0 BY <1>1
    <2> QED BY <2>1, <2>2
  <1>5. \A i \in 1 .. k : a + i - 1 \in a .. b BY <1>2
  <1>6. \A x \in R : \E i \in 1 .. k : r[i] = x
    <2> TAKE x \in R
    <2>1. PICK i \in a .. b : x = s[i] OBVIOUS
    <2>2. i - a + 1 \in 1 .. k /\ a + (i - a + 1) - 1 = i BY <1>2
    <2> QED BY <1>4, <2>1, <2>2
  <1>7. ASSUME NEW i \in 1 .. k, NEW j \in 1 .. k, r[i] = r[j] PROVE i = j
    <2>1. s[a + i - 1] = s[a + j - 1] BY <1>4, <1>7
    <2>2. a + i - 1 = a + j - 1 BY <1>2, <1>5, <2>1, ListsDef
    <2> QED BY <1>2, <2>2
  <1> HIDE DEF r, R, k
  <1>8. Lists(r, R) BY <1>4, <1>6, <1>7, ListsDef
  <1> QED BY <1>4, <1>8 DEF r, R, k

\* reorder: InsertAt and RemoveAt.
LEMMA InsertLists ==
    ASSUME NEW s, NEW X, Lists(s, X), NEW i \in 1 .. Len(s) + 1, NEW x, x \notin X
    PROVE  Lists(InsertAt(s, i, x), X \cup {x})
  <1> DEFINE A == {s[k] : k \in 1 .. i - 1}
             B == {s[k] : k \in i .. Len(s)}
  <1>1. Len(s) \in Nat /\ \A k \in 1 .. Len(s) : s[k] \in X BY ListsFacts
  <1>2. Lists(SubSeq(s, 1, i - 1), A)
    <2>1. 1 \in 1 .. Len(s) + 1 /\ i - 1 \in 1 - 1 .. Len(s) BY <1>1
    <2> QED BY <2>1, SubLists
  <1>3. Lists(SubSeq(s, i, Len(s)), B) BY <1>1, SubLists
  <1>4. Lists(<<x>>, {x}) BY SingleLists
  <1>5. 1 .. i - 1 \subseteq 1 .. Len(s) /\ i .. Len(s) \subseteq 1 .. Len(s)
        /\ \A k \in 1 .. Len(s) : k \in 1 .. i - 1 \/ k \in i .. Len(s)
    BY <1>1
  <1>6. X = A \cup B /\ A \cap B = {}
    <2>1. A \subseteq X /\ B \subseteq X BY <1>1, <1>5
    <2>2. X \subseteq A \cup B
      <3>1. \A y \in X : \E k \in 1 .. Len(s) : s[k] = y BY ListsDef
      <3> QED BY ONLY <1>5, <3>1
    <2>3. \A k \in 1 .. i - 1, j \in i .. Len(s) : k # j BY <1>1
    <2>4. A \cap B = {} BY <1>5, <2>3, ListsDef
    <2> QED BY <2>1, <2>2, <2>4
  <1> HIDE DEF A, B
  <1>7. Lists(SubSeq(s, 1, i - 1) \o <<x>>, A \cup {x}) BY <1>2, <1>4, <1>6, ConcatLists
  <1>8. (A \cup {x}) \cap B = {} /\ (A \cup {x}) \cup B = X \cup {x} BY <1>6
  <1>9. Lists((SubSeq(s, 1, i - 1) \o <<x>>) \o SubSeq(s, i, Len(s)), X \cup {x})
    BY <1>3, <1>7, <1>8, ConcatLists
  <1> QED BY <1>9 DEF InsertAt

LEMMA RemoveAtLists ==
    ASSUME NEW s, NEW X, Lists(s, X), NEW i \in 1 .. Len(s)
    PROVE  Lists(RemoveAt(s, i), X \ {s[i]}) /\ Len(RemoveAt(s, i)) = Len(s) - 1
  <1> DEFINE A == {s[k] : k \in 1 .. i - 1}
             B == {s[k] : k \in i + 1 .. Len(s)}
  <1>1. Len(s) \in Nat /\ \A k \in 1 .. Len(s) : s[k] \in X BY ListsFacts
  <1>2. Lists(SubSeq(s, 1, i - 1), A) /\ Len(SubSeq(s, 1, i - 1)) = i - 1
    <2>1. 1 \in 1 .. Len(s) + 1 /\ i - 1 \in 1 - 1 .. Len(s) /\ i - 1 - 1 + 1 = i - 1 BY <1>1
    <2> QED BY <2>1, SubLists
  <1>3. Lists(SubSeq(s, i + 1, Len(s)), B) /\ Len(SubSeq(s, i + 1, Len(s))) = Len(s) - i
    <2>1. i + 1 \in 1 .. Len(s) + 1 /\ Len(s) \in (i + 1) - 1 .. Len(s)
          /\ Len(s) - (i + 1) + 1 = Len(s) - i
      BY <1>1
    <2> QED BY <2>1, SubLists
  <1>5. 1 .. i - 1 \subseteq 1 .. Len(s) /\ i + 1 .. Len(s) \subseteq 1 .. Len(s)
        /\ \A k \in 1 .. Len(s) : k \in 1 .. i - 1 \/ k = i \/ k \in i + 1 .. Len(s)
    BY <1>1
  <1>6. X \ {s[i]} = A \cup B /\ A \cap B = {}
    <2>1. A \subseteq X /\ B \subseteq X BY <1>1, <1>5
    <2>2. X \ {s[i]} \subseteq A \cup B
      <3>1. \A y \in X : \E k \in 1 .. Len(s) : s[k] = y BY ListsDef
      <3> QED BY ONLY <1>5, <3>1
    <2>3. \A k \in 1 .. i - 1, j \in i + 1 .. Len(s) : k # j /\ k # i /\ j # i BY <1>1
    <2>4. A \cap B = {} BY <1>5, <2>3, ListsDef
    <2>5. \A k \in 1 .. i - 1 : k # i BY <1>1
    <2>6. \A j \in i + 1 .. Len(s) : j # i BY <1>1
    <2>7. s[i] \notin A /\ s[i] \notin B BY <1>5, <2>5, <2>6, ListsDef
    <2> QED BY <2>1, <2>2, <2>4, <2>7
  <1> HIDE DEF A, B
  <1> DEFINE q == SubSeq(s, 1, i - 1)
             r == SubSeq(s, i + 1, Len(s))
  <1>7. Lists(q, A) /\ Lists(r, B) /\ Len(q) = i - 1 /\ Len(r) = Len(s) - i BY <1>2, <1>3
  <1>8. RemoveAt(s, i) = q \o r BY DEF RemoveAt
  <1> HIDE DEF q, r
  <1>9. Lists(q \o r, A \cup B) /\ Len(q \o r) = Len(q) + Len(r) BY <1>6, <1>7, ConcatLists
  <1>10. (i - 1) + (Len(s) - i) = Len(s) - 1 BY <1>1
  <1> QED BY <1>6, <1>7, <1>8, <1>9, <1>10

LEMMA RemoveFirstLists ==
    ASSUME NEW s, NEW X, Lists(s, X), NEW x \in X
    PROVE  Lists(RemoveFirst(s, x), X \ {x})
  <1> DEFINE I == {i \in 1 .. Len(s) : s[i] = x}
  <1>1. PICK k \in 1 .. Len(s) : s[k] = x BY ListsDef
  <1>2. I = {k} BY <1>1, ListsDef
  <1>3. Min(I) = k
    <2>1. k <= k /\ \A j \in {k} : k <= j BY <1>1, ListsFacts
    <2>2. \A y \in {k} : y = k OBVIOUS
    <2> HIDE DEF I
    <2> QED BY <1>2, <2>1, <2>2 DEF Min
  <1>4. SelectInSeq(s, LAMBDA v : v = x) = k
    BY <1>2, <1>3 DEF SelectInSeq
  <1>5. RemoveFirst(s, x) = RemoveAt(s, k) BY <1>1, <1>4 DEF RemoveFirst
  <1> QED BY <1>1, <1>5, RemoveAtLists

-----------------------------------------------------------------------------
\* Induction over numbers, in terms of sets.

NatOrder == {pair \in Nat \X Nat : pair[1] < pair[2]}

\* A set of numbers has a least element.
LEMMA Least ==
    ASSUME NEW T \in SUBSET Nat, T # {}
    PROVE  \E x \in T : \A y \in T : x <= y
  <1>1. IsWellFoundedOn(NatOrder, Nat) BY NatLessThanWellFounded DEF OpToRel, NatOrder
  <1>2. PICK x \in T : \A y \in T : ~(<<y, x>> \in NatOrder) BY <1>1, WFMin
  <1>3. \A y \in T : ~(y < x) BY <1>2 DEF NatOrder
  <1> QED BY <1>3

\* What holds of 0 and passes to the next number holds up to N.
LEMMA UpTo ==
    ASSUME NEW N \in Nat, NEW S, 0 \in S, \A n \in 0 .. N - 1 : n \in S => n + 1 \in S
    PROVE  \A n \in 0 .. N : n \in S
  <1> DEFINE T == {n \in 0 .. N : n \notin S}
  <1> SUFFICES ASSUME T # {} PROVE FALSE OBVIOUS
  <1>1. PICK x \in T : \A y \in T : x <= y
    <2>1. T \in SUBSET Nat OBVIOUS
    <2> QED BY <2>1, Least
  <1>2. x \in 1 .. N BY <1>1
  <1>3. x - 1 \in 0 .. N - 1 /\ x - 1 \notin T BY <1>1, <1>2
  <1>4. x - 1 \in S BY <1>3
  <1>5. x - 1 + 1 = x BY <1>2
  <1> QED BY <1>1, <1>3, <1>4, <1>5

\* FlattenSeq, by prefixes: f[k] is what the first k lists join to.
Joins(ss, f, n) == f = [i \in 1 .. n |-> IF i = 1 THEN ss[i] ELSE f[i-1] \o ss[i]]

LEMMA JoinsExist ==
    ASSUME NEW ss, NEW N \in Nat
    PROVE  \E f : Joins(ss, f, N)
  <1> DEFINE S == {n \in 0 .. N : \E f : Joins(ss, f, n)}
  <1>1. 0 \in S
    <2> DEFINE f == [i \in 1 .. 0 |-> ss[i]]
    <2>1. f = [i \in 1 .. 0 |-> IF i = 1 THEN ss[i] ELSE f[i-1] \o ss[i]] OBVIOUS
    <2> HIDE DEF f
    <2>2. Joins(ss, f, 0) BY <2>1 DEF Joins
    <2> QED BY <2>2
  <1>2. ASSUME NEW n \in 0 .. N - 1, n \in S PROVE n + 1 \in S
    <2>1. PICK f : Joins(ss, f, n) BY <1>2
    <2> DEFINE g == [i \in 1 .. n + 1 |-> IF i <= n THEN f[i]
                                          ELSE IF i = 1 THEN ss[i] ELSE f[n] \o ss[i]]
    <2>2. ASSUME NEW i \in 1 .. n + 1
          PROVE  g[i] = IF i = 1 THEN ss[i] ELSE g[i-1] \o ss[i]
      <3>1. CASE i = n + 1 /\ i # 1
        <4>0. n \in Nat /\ i = n + 1 /\ n # 0 BY <3>1
        <4>1. i - 1 = n /\ n \in 1 .. n /\ n \in 1 .. n + 1 /\ n <= n /\ ~(i <= n) BY <4>0
        <4>2. g[n] = f[n] BY <4>1
        <4>3. g[i] = f[n] \o ss[i] BY <3>1, <4>1
        <4> HIDE DEF g
        <4> QED BY <3>1, <4>1, <4>2, <4>3
      <3>2. CASE i \in 1 .. n /\ i # 1
        <4>1. f[i] = f[i-1] \o ss[i] BY <2>1, <3>2 DEF Joins
        <4>2. g[i] = f[i] /\ g[i-1] = f[i-1] BY <3>2
        <4> HIDE DEF g
        <4> QED BY <3>2, <4>1, <4>2
      <3>3. CASE i = 1
        <4>1. 1 \in 1 .. n => f[1] = ss[1] BY <2>1 DEF Joins
        <4> QED BY <3>3, <4>1
      <3> QED BY <3>1, <3>2, <3>3
    <2>3. g = [i \in 1 .. n + 1 |-> g[i]] OBVIOUS
    <2> HIDE DEF g
    <2>4. g = [i \in 1 .. n + 1 |-> IF i = 1 THEN ss[i] ELSE g[i-1] \o ss[i]] BY <2>2, <2>3
    <2>5. n + 1 \in 0 .. N OBVIOUS
    <2> QED BY <2>4, <2>5 DEF Joins
  <1> HIDE DEF S
  <1>3. \A n \in 0 .. N : n \in S BY <1>1, <1>2, UpTo
  <1> QED BY <1>3 DEF S

\* Lists of disjoint sets, joined, list their union.
LEMMA FlattenLists ==
    ASSUME NEW n \in Nat, NEW ss, ss = [k \in 1 .. n |-> ss[k]], NEW X,
           \A k \in 1 .. n : Lists(ss[k], X[k]),
           \A j, k \in 1 .. n : j # k => X[j] \cap X[k] = {}
    PROVE  Lists(FlattenSeq(ss), UNION {X[k] : k \in 1 .. n})
  <1> DEFINE f == CHOOSE g : Joins(ss, g, n)
             U(k) == UNION {X[i] : i \in 1 .. k}
             S == {k \in 0 .. n : k = 0 \/ Lists(f[k], U(k))}
  <1>0. Len(ss) = n /\ (n = 0 => ss = <<>>)
    <2>1. ss \in [1 .. n -> {ss[k] : k \in 1 .. n}] OBVIOUS
    <2>2. ss \in Seq({ss[k] : k \in 1 .. n}) BY <2>1, SeqDef
    <2>3. DOMAIN ss = 1 .. n /\ DOMAIN ss = 1 .. Len(ss) /\ Len(ss) \in Nat BY <2>2, LenProperties
    <2>4. Len(ss) = n BY <2>3
    <2> QED BY <2>2, <2>4, EmptySeq
  <1>1. n # 0 => FlattenSeq(ss) = f[n] BY <1>0 DEF FlattenSeq, Joins
  <1>2. Joins(ss, f, n) BY JoinsExist
  <1> HIDE DEF f
  <1>3. \A k \in 1 .. n : f[k] = IF k = 1 THEN ss[1] ELSE f[k-1] \o ss[k] BY <1>2 DEF Joins
  <1>4. ASSUME NEW k \in 0 .. n - 1, k \in S PROVE k + 1 \in S
    <2>1. k + 1 \in 1 .. n /\ k + 1 - 1 = k /\ k + 1 \in 0 .. n /\ 1 .. k \subseteq 1 .. n OBVIOUS
    <2>2. CASE k = 0
      <3>1. f[1] = ss[1] /\ U(1) = X[1]
        <4>1. 1 .. 1 = {1} /\ 1 \in 1 .. n BY <2>1, <2>2
        <4> QED BY <1>3, <4>1
      <3>2. k + 1 = 1 /\ 1 \in 1 .. n BY <2>1, <2>2
      <3>3. Lists(ss[1], X[1]) BY <3>2
      <3> HIDE DEF U
      <3>4. Lists(f[1], U(1)) BY <3>1, <3>3
      <3> QED BY <2>1, <3>2, <3>4
    <2>3. CASE k # 0
      <3>1. Lists(f[k], U(k)) /\ Lists(ss[k+1], X[k+1]) BY <1>4, <2>1, <2>3
      <3>2. f[k+1] = f[k] \o ss[k+1]
        <4> DEFINE m == k + 1
        <4>1. m \in 1 .. n /\ m # 1 /\ m - 1 = k BY <2>1, <2>3
        <4> HIDE DEF m
        <4>2. f[m] = f[k] \o ss[m] BY <1>3, <4>1
        <4> QED BY <4>2 DEF m
      <3>3. \A i \in 1 .. k : i \in 1 .. n /\ i # k + 1 BY <2>1
      <3>4. U(k) \cap X[k+1] = {} BY <2>1, <3>3
      <3>5. U(k+1) = U(k) \cup X[k+1]
        <4>1. 1 .. k + 1 = 1 .. k \cup {k+1} OBVIOUS
        <4> QED BY <4>1
      <3> HIDE DEF U
      <3>6. Lists(f[k+1], U(k+1)) BY <3>1, <3>2, <3>4, <3>5, ConcatLists
      <3> QED BY <2>1, <3>6
    <2> QED BY <2>2, <2>3
  <1>5. 0 \in S OBVIOUS
  <1> HIDE DEF S
  <1>6. n \in S BY <1>4, <1>5, UpTo
  <1>7. CASE n = 0
    <2>1. FlattenSeq(ss) = <<>> BY <1>0, <1>7 DEF FlattenSeq
    <2>2. 1 .. n = {} BY <1>7
    <2>3. U(n) = {} BY <2>2
    <2> QED BY <2>1, <2>3, EmptyLists
  <1>8. CASE n # 0 BY <1>1, <1>6, <1>8 DEF S
  <1> QED BY <1>7, <1>8

-----------------------------------------------------------------------------
\* What is under a component.

WellFormed(l) ==
    IsFiniteSet(DOMAIN l) /\ \A x \in DOMAIN l : Children(l, x) \subseteq DOMAIN l

Closed(l, S) == \A x \in DOMAIN l : x \in S => Children(l, x) \subseteq S

\* The stages of Closure.
Further(step, X) == X \cup UNION {step[x] : x \in X}

Stages(step, c, f, N) ==
    f = [n \in 0 .. N |-> IF n = 0 THEN step[c] ELSE Further(step, f[n-1])]

LEMMA StagesExist ==
    ASSUME NEW step, NEW c, NEW N \in Nat
    PROVE  \E f : Stages(step, c, f, N)
  <1> DEFINE S == {n \in 0 .. N : \E f : Stages(step, c, f, n)}
  <1>1. 0 \in S
    <2> DEFINE f == [m \in 0 .. 0 |-> step[c]]
    <2>1. f = [m \in 0 .. 0 |-> IF m = 0 THEN step[c] ELSE Further(step, f[m-1])] OBVIOUS
    <2> HIDE DEF f
    <2>2. Stages(step, c, f, 0) BY <2>1 DEF Stages
    <2> QED BY <2>2
  <1>2. ASSUME NEW n \in 0 .. N - 1, n \in S PROVE n + 1 \in S
    <2>1. PICK f : Stages(step, c, f, n) BY <1>2
    <2> DEFINE g == [m \in 0 .. n + 1 |-> IF m <= n THEN f[m] ELSE Further(step, f[n])]
    <2>2. ASSUME NEW m \in 0 .. n + 1
          PROVE  g[m] = IF m = 0 THEN step[c] ELSE Further(step, g[m-1])
      <3>1. CASE m = n + 1
        <4>1. g[m] = Further(step, f[n]) /\ m # 0 /\ m - 1 = n BY <3>1
        <4>2. g[n] = f[n] OBVIOUS
        <4> HIDE DEF g
        <4> QED BY <4>1, <4>2
      <3>2. CASE m \in 1 .. n
        <4>1. f[m] = Further(step, f[m-1]) BY <2>1, <3>2 DEF Stages
        <4>2. g[m] = f[m] /\ g[m-1] = f[m-1] BY <3>2
        <4> HIDE DEF g
        <4> QED BY <4>1, <4>2, <3>2
      <3>3. CASE m = 0
        <4>1. f[0] = step[c] BY <2>1 DEF Stages
        <4> QED BY <4>1, <3>3
      <3> QED BY <3>1, <3>2, <3>3
    <2>3. g = [m \in 0 .. n + 1 |-> g[m]] OBVIOUS
    <2> HIDE DEF g
    <2>4. g = [m \in 0 .. n + 1 |-> IF m = 0 THEN step[c] ELSE Further(step, g[m-1])]
      BY <2>2, <2>3
    <2>5. n + 1 \in 0 .. N OBVIOUS
    <2> QED BY <2>4, <2>5 DEF Stages
  <1> HIDE DEF S
  <1>3. N \in S BY <1>1, <1>2, UpTo
  <1> QED BY <1>3 DEF S

\* Under(l, c) is closed under children: after as many stages as there are components
\* nothing is added, since each stage that is not the last adds one.
LEMMA UnderClosed ==
    ASSUME NEW l, WellFormed(l), NEW c \in DOMAIN l
    PROVE  /\ Children(l, c) \subseteq Under(l, c)
           /\ Under(l, c) \subseteq DOMAIN l
           /\ Closed(l, Under(l, c))
           /\ \A S : Children(l, c) \subseteq S /\ Closed(l, S) => Under(l, c) \subseteq S
  <1> DEFINE D == DOMAIN l
             N == Cardinality(D)
             step == [x \in D |-> Children(l, x)]
             f == CHOOSE g : Stages(step, c, g, N)
  <1>1. N \in Nat /\ IsFiniteSet(D) BY FS_CardinalityType DEF WellFormed
  <1>2. Under(l, c) = f[N] BY DEF Under, Closure, Stages, Further
  <1>3. Stages(step, c, f, N)
    <2> HIDE DEF step, N
    <2> QED BY <1>1, StagesExist
  <1> HIDE DEF f, N
  <1>4. f[0] = Children(l, c) BY <1>1, <1>3 DEF Stages
  <1>5. \A n \in 0 .. N - 1 : f[n+1] = Further(step, f[n])
    <2> TAKE n \in 0 .. N - 1
    <2> DEFINE m == n + 1
    <2>1. m \in 0 .. N /\ m # 0 /\ m - 1 = n BY <1>1
    <2> HIDE DEF step, m
    <2>2. f[m] = Further(step, f[n]) BY <1>3, <2>1 DEF Stages
    <2> QED BY <2>2 DEF m
  <1> DEFINE Good(n) == /\ Children(l, c) \subseteq f[n] /\ f[n] \subseteq D
                        /\ Closed(l, f[n]) \/ Cardinality(f[n]) >= n
                        /\ \A S : Children(l, c) \subseteq S /\ Closed(l, S) => f[n] \subseteq S
             G == {n \in 0 .. N : Good(n)}
  <1>6. 0 \in G
    <2>1. f[0] \subseteq D BY <1>4 DEF WellFormed
    <2>2. Cardinality(f[0]) \in Nat BY <1>1, <2>1, FS_Subset, FS_CardinalityType
    <2>3. Cardinality(f[0]) >= 0 BY <2>2
    <2>4. 0 \in 0 .. N BY <1>1
    <2> QED BY <1>4, <2>1, <2>3, <2>4
  <1>7. ASSUME NEW n \in 0 .. N - 1, n \in G PROVE n + 1 \in G
    <2> DEFINE X == f[n]
               Y == f[n+1]
    <2>0. n \in Nat /\ n + 1 \in 0 .. N BY <1>1
    <2>1. X \subseteq D /\ Y = X \cup UNION {Children(l, x) : x \in X} /\ X \subseteq Y
      BY <1>5, <1>7 DEF Further
    <2>2. Y \subseteq D BY <2>1 DEF WellFormed
    <2>3. IsFiniteSet(Y) /\ IsFiniteSet(X) BY <1>1, <2>1, <2>2, FS_Subset
    <2>4. Cardinality(X) \in Nat /\ Cardinality(Y) \in Nat BY <2>3, FS_CardinalityType
    <2>5. Closed(l, X) => Y = X BY <2>1 DEF Closed
    <2>6. ~Closed(l, X) => Y # X BY <2>1 DEF Closed
    <2>7. Y # X => Cardinality(Y) >= Cardinality(X) + 1
      <3>1. Cardinality(X) <= Cardinality(Y) /\ (Cardinality(Y) = Cardinality(X) => Y = X)
        BY <2>1, <2>3, FS_Subset
      <3> QED BY <2>4, <3>1
    <2>8. Closed(l, X) \/ Cardinality(X) >= n BY <1>7
    <2> HIDE DEF X, Y
    <2>9. Closed(l, Y) \/ Cardinality(Y) >= n + 1
      BY <2>0, <2>4, <2>5, <2>6, <2>7, <2>8
    <2>10. \A S : Children(l, c) \subseteq S /\ Closed(l, S) => Y \subseteq S
      <3> TAKE S
      <3> HAVE Children(l, c) \subseteq S /\ Closed(l, S)
      <3>1. X \subseteq S BY <1>7 DEF X
      <3> QED BY <2>1, <3>1 DEF Closed
    <2>11. Children(l, c) \subseteq Y BY <1>7, <2>1 DEF X
    <2> QED BY <2>0, <2>2, <2>9, <2>10, <2>11 DEF Y
  <1> HIDE DEF G
  <1>8. N \in G BY <1>1, <1>6, <1>7, UpTo
  <1>9. Good(N) BY <1>8 DEF G
  <1>10. Closed(l, f[N])
    <2>1. CASE Cardinality(f[N]) >= N
      <3>1. f[N] \subseteq D BY <1>9
      <3>2. IsFiniteSet(f[N]) /\ Cardinality(f[N]) <= N
            /\ (Cardinality(D) = Cardinality(f[N]) => D = f[N])
        BY <1>1, <3>1, FS_Subset DEF N
      <3>3. Cardinality(f[N]) \in Nat BY <3>2, FS_CardinalityType
      <3>4. Cardinality(f[N]) = N BY <1>1, <2>1, <3>2, <3>3
      <3>5. D = f[N] BY <3>2, <3>4 DEF N
      <3> QED BY <3>5 DEF Closed, WellFormed
    <2> QED BY <1>9, <2>1
  <1> QED BY <1>2, <1>9, <1>10

\* Whatever is under c has a parent that is c or under c.
LEMMA UnderParent ==
    ASSUME NEW l, WellFormed(l), NEW c \in DOMAIN l, NEW y \in Under(l, c)
    PROVE  \E p \in {c} \cup Under(l, c) : y \in Children(l, p)
  <1> DEFINE S == {z \in Under(l, c) : \E p \in {c} \cup Under(l, c) : z \in Children(l, p)}
  <1>1. Children(l, c) \subseteq S BY UnderClosed
  <1>2. Closed(l, S) BY UnderClosed DEF Closed
  <1> HIDE DEF S
  <1>3. Under(l, c) \subseteq S BY <1>1, <1>2, UnderClosed
  <1> QED BY <1>3 DEF S

-----------------------------------------------------------------------------
\* Forests: every component has at most one parent, which may have it, and the root has
\* none; the root has the grid, or tabs on top and the grid is empty.

\* The components are records whose lists of children name nothing twice.
Proper(l) == \A x \in DOMAIN l :
    /\ l[x] = [type |-> l[x].type, children |-> l[x].children]
    /\ Lists(l[x].children, Children(l, x))

Contained(l) ==
    /\ Root \in DOMAIN l /\ Grid \in DOMAIN l /\ DOMAIN l \subseteq {Root, Grid} \cup Ids
    /\ IsFiniteSet(DOMAIN l)
    /\ \A x \in DOMAIN l : l[x].type \in Types /\ Children(l, x) \subseteq DOMAIN l \ {Root}

OneParent(l) == \A p, q, c \in DOMAIN l : c \in Children(l, p) /\ c \in Children(l, q) => p = q

Allowed(l) == \A p, c \in DOMAIN l : c \in Children(l, p) => MayHave(l, p, c)

Topped(l) ==
    /\ l[Root].type = "ROOT" /\ l[Grid].type = "GRID"
    /\ \E top \in DOMAIN l :
        /\ Children(l, Root) = {top}
        /\ top = Grid \/ (l[top].type = "TABS" /\ Children(l, Grid) = {})

Forest(l) == Proper(l) /\ Contained(l) /\ OneParent(l) /\ Allowed(l) /\ Topped(l)

\* Whatever contains the root and the children of what it contains has everything.
Connected(l) == \A S : Root \in S /\ Closed(l, S) => DOMAIN l \subseteq S \cup {Grid}

\* What l shows m still shows, if it has it.
Reaches(l, m) ==
    /\ Connected(l) => Connected(m)
    /\ Shown(l) \cap DOMAIN m \subseteq Shown(m) \cup {Grid}

\* Whatever holds the root and is closed in l holds what l shows.
LEMMA ShownLeast ==
    ASSUME NEW l, WellFormed(l), Root \in DOMAIN l
    PROVE  /\ Root \in Shown(l) /\ Closed(l, Shown(l))
           /\ \A S : Root \in S /\ Closed(l, S) => Shown(l) \subseteq S
  <1>1. /\ Children(l, Root) \subseteq Under(l, Root) /\ Closed(l, Under(l, Root))
        /\ \A S : Closed(l, S) /\ Children(l, Root) \subseteq S => Under(l, Root) \subseteq S
    BY UnderClosed
  <1>2. Closed(l, Shown(l)) BY <1>1 DEF Closed, Shown
  <1>3. ASSUME NEW S, Root \in S, Closed(l, S) PROVE Shown(l) \subseteq S
    <2>1. Children(l, Root) \subseteq S BY <1>3 DEF Closed
    <2> QED BY <1>1, <1>3, <2>1 DEF Shown
  <1> QED BY <1>2, <1>3 DEF Shown

LEMMA ReachesIntro ==
    ASSUME NEW l, WellFormed(l), Root \in DOMAIN l, NEW m, WellFormed(m), Root \in DOMAIN m,
           \A S : Root \in S /\ Closed(m, S) =>
                 /\ DOMAIN m \ DOMAIN l \subseteq S
                 /\ \E T : Root \in T /\ Closed(l, T) /\ T \cap DOMAIN m \subseteq S \cup {Grid}
    PROVE  Reaches(l, m)
  <1>1. ASSUME Connected(l) PROVE Connected(m)
    <2> SUFFICES ASSUME NEW S, Root \in S, Closed(m, S) PROVE DOMAIN m \subseteq S \cup {Grid}
      BY DEF Connected
    <2>1. PICK T : Root \in T /\ Closed(l, T) /\ T \cap DOMAIN m \subseteq S \cup {Grid} OBVIOUS
    <2>2. DOMAIN l \subseteq T \cup {Grid} BY <1>1, <2>1 DEF Connected
    <2>3. DOMAIN m \ DOMAIN l \subseteq S OBVIOUS
    <2> QED BY <2>1, <2>2, <2>3
  <1>2. Shown(l) \cap DOMAIN m \subseteq Shown(m) \cup {Grid}
    <2>1. Root \in Shown(m) /\ Closed(m, Shown(m)) BY ShownLeast
    <2>2. PICK T : Root \in T /\ Closed(l, T) /\ T \cap DOMAIN m \subseteq Shown(m) \cup {Grid}
      BY <2>1
    <2>3. Shown(l) \subseteq T BY <2>2, ShownLeast
    <2> QED BY <2>2, <2>3
  <1> QED BY <1>1, <1>2 DEF Reaches

LEMMA SingletonList ==
    ASSUME NEW s, NEW x, Lists(s, {x})
    PROVE  s = <<x>>
  <1>1. s \in Seq({x}) /\ Len(s) \in Nat /\ \A i \in 1 .. Len(s) : s[i] = x BY ListsFacts DEF Lists
  <1>2. PICK k \in 1 .. Len(s) : s[k] = x BY ListsDef
  <1>3. \A i, j \in 1 .. Len(s) : i = j BY <1>1, ListsDef
  <1>4. Len(s) = 1
    <2>1. 1 \in 1 .. Len(s) /\ Len(s) \in 1 .. Len(s) BY <1>1, <1>2
    <2> QED BY <1>3, <2>1
  <1>5. <<x>> \in Seq({x}) /\ Len(<<x>>) = 1 /\ <<x>>[1] = x OBVIOUS
  <1>6. \A i \in 1 .. Len(s) : s[i] = <<x>>[i] BY <1>1, <1>4, <1>5
  <1> QED BY <1>1, <1>4, <1>5, <1>6, SeqEqual

LEMMA EmptyList ==
    ASSUME NEW s, NEW X, Lists(s, X)
    PROVE  s = <<>> <=> X = {}
  <1>1. X = {} => s = <<>>
    <2> SUFFICES ASSUME X = {} PROVE s = <<>> OBVIOUS
    <2>1. Len(s) \in Nat /\ \A i \in 1 .. Len(s) : FALSE BY ListsFacts
    <2>2. ~(1 \in 1 .. Len(s)) BY <2>1
    <2>3. Len(s) = 0 BY <2>1, <2>2
    <2>4. s \in Seq(X) BY DEF Lists
    <2> QED BY <2>3, <2>4, EmptySeq
  <1>2. s = <<>> => X = {}
    <2>1. DOMAIN <<>> = {}
      <3>1. <<>> \in Seq({}) /\ Len(<<>>) = 0 BY EmptySeq
      <3> QED BY <3>1, LenProperties
    <2> QED BY <2>1 DEF Lists, ToSet
  <1> QED BY <1>1, <1>2

\* Which types may be whose children.
LEMMA MayHaveTypes ==
    ASSUME NEW p, NEW c
    PROVE  /\ MaxDepth(p, c) >= 0 =>
               /\ c \notin {"ROOT", "GRID"} /\ p \notin {"CHART", "HEADER"} /\ p # c
               /\ (p = "ROOT" => c = "TABS") /\ (p = "TABS" <=> c = "TAB")
               /\ (c = "ROW" => p \in {"GRID", "TAB", "COLUMN"}) /\ (c = "TABS" => p # "ROW")
               /\ (p = "GRID" => c \in {"CHART", "COLUMN", "HEADER", "ROW", "TABS"})
               /\ (p = "TAB" => c \in {"CHART", "COLUMN", "HEADER", "ROW", "TABS"})
           /\ p \in {"GRID", "TAB"} /\ c \in {"CHART", "COLUMN", "HEADER", "ROW", "TABS"} =>
               MaxDepth(p, c) >= 0
           /\ p = "ROW" /\ c \in {"CHART", "COLUMN"} => MaxDepth(p, c) >= 0
           /\ p = "ROOT" /\ c = "TABS" => MaxDepth(p, c) >= 0
           /\ p = "TABS" /\ c = "TAB" => MaxDepth(p, c) >= 0
  BY DEF MaxDepth

\* A component's list of children replaced.
WithChildren(l, p, s) == [l EXCEPT ![p].children = s]

WithList(l, p, K, m) ==
    /\ Proper(m) /\ DOMAIN m = DOMAIN l
    /\ \A x \in DOMAIN l : /\ m[x].type = l[x].type
                           /\ Children(m, x) = IF x = p THEN K ELSE Children(l, x)
                           /\ x # p => m[x] = l[x]

LEMMA SetChildren ==
    ASSUME NEW l, Proper(l), NEW p \in DOMAIN l, NEW s, NEW K, Lists(s, K)
    PROVE  /\ WithList(l, p, K, WithChildren(l, p, s))
           /\ WithChildren(l, p, s)[p].children = s
  <1> DEFINE m == WithChildren(l, p, s)
  <1>1. DOMAIN m = DOMAIN l BY DEF WithChildren
  <1>2. m[p] = [type |-> l[p].type, children |-> s] BY DEF Proper, WithChildren
  <1>3. \A x \in DOMAIN l : x # p => m[x] = l[x] BY DEF WithChildren
  <1> HIDE DEF m
  <1>4. Children(m, p) = K BY <1>2 DEF Children, Lists
  <1>5. \A x \in DOMAIN l : x # p => Children(m, x) = Children(l, x) BY <1>3 DEF Children
  <1>6. Proper(m)
    <2> SUFFICES ASSUME NEW x \in DOMAIN m
                 PROVE  /\ m[x] = [type |-> m[x].type, children |-> m[x].children]
                        /\ Lists(m[x].children, Children(m, x))
      BY DEF Proper
    <2>1. CASE x = p BY <1>2, <1>4, <2>1
    <2>2. CASE x # p BY <1>1, <1>3, <1>5, <2>2 DEF Proper
    <2> QED BY <2>1, <2>2
  <1> QED BY <1>1, <1>2, <1>3, <1>4, <1>5, <1>6 DEF m, WithList

\* A component added.
WithNew(l, id, type, s, K, m) ==
    /\ Proper(m) /\ DOMAIN m = DOMAIN l \cup {id}
    /\ m[id].type = type /\ Children(m, id) = K /\ m[id].children = s
    /\ \A x \in DOMAIN l : m[x] = l[x] /\ Children(m, x) = Children(l, x)

LEMMA AddComponent ==
    ASSUME NEW l, Proper(l), NEW id, id \notin DOMAIN l, NEW type, NEW s, NEW K, Lists(s, K),
           NEW m, m = New(l, id, type, s)
    PROVE  WithNew(l, id, type, s, K, m)
  <1>1. DOMAIN m = DOMAIN l \cup {id} BY DEF New
  <1>2. m[id] = [type |-> type, children |-> s] BY DEF New
  <1>3. \A x \in DOMAIN l : m[x] = l[x] BY DEF New
  <1>4. Children(m, id) = K BY <1>2 DEF Children, Lists
  <1>5. \A x \in DOMAIN l : Children(m, x) = Children(l, x) BY <1>3 DEF Children
  <1>6. Proper(m)
    <2> SUFFICES ASSUME NEW x \in DOMAIN m
                 PROVE  /\ m[x] = [type |-> m[x].type, children |-> m[x].children]
                        /\ Lists(m[x].children, Children(m, x))
      BY DEF Proper
    <2>1. CASE x = id BY <1>2, <1>4, <2>1
    <2>2. CASE x # id BY <1>1, <1>3, <1>5, <2>2 DEF Proper
    <2> QED BY <2>1, <2>2
  <1> QED BY <1>1, <1>2, <1>3, <1>4, <1>5, <1>6 DEF WithNew

-----------------------------------------------------------------------------
\* What is above and under what in a forest.

LEMMA ForestWellFormed ==
    ASSUME NEW l, Forest(l)
    PROVE  /\ WellFormed(l) /\ Root \in DOMAIN l /\ Grid \in DOMAIN l
           /\ \A x \in DOMAIN l : \A y \in Children(l, x) : y \in DOMAIN l /\ y # Root
  BY DEF Forest, Contained, WellFormed

LEMMA RootIsTop ==
    ASSUME NEW l, Forest(l), NEW c \in DOMAIN l
    PROVE  /\ Root \notin Under(l, c)
           /\ c # Root => Grid \notin Under(l, c)
  <1>1. Root \notin Under(l, c)
    <2> DEFINE S == DOMAIN l \ {Root}
    <2>1. Children(l, c) \subseteq S BY ForestWellFormed
    <2>2. Closed(l, S) BY ForestWellFormed DEF Closed
    <2> HIDE DEF S
    <2>3. Under(l, c) \subseteq S BY <2>1, <2>2, UnderClosed, ForestWellFormed
    <2> QED BY <2>3 DEF S
  <1>2. ASSUME c # Root, Grid \in Under(l, c) PROVE FALSE
    <2>1. PICK p \in {c} \cup Under(l, c) : Grid \in Children(l, p)
      BY <1>2, UnderParent, ForestWellFormed
    <2>2. p \in DOMAIN l BY UnderClosed, ForestWellFormed
    <2>3. p = Root BY <2>1, <2>2, ForestWellFormed DEF Forest, Allowed, MayHave
    <2> QED BY <1>1, <1>2, <2>3
  <1> QED BY <1>1, <1>2

\* Nothing that is shown is under itself.
LEMMA Acyclic ==
    ASSUME NEW l, Forest(l), NEW c \in Under(l, Root)
    PROVE  c \in DOMAIN l /\ c # Root /\ c \notin Under(l, c)
  <1>1. c \in DOMAIN l /\ c # Root BY UnderClosed, ForestWellFormed, RootIsTop
  <1>2. SUFFICES ASSUME c \in Under(l, c) PROVE FALSE BY <1>1
  <1> DEFINE S == DOMAIN l \ Under(l, c)
  <1>3. ASSUME NEW x \in S, NEW y \in Children(l, x) PROVE y \in S
    <2>1. y \in DOMAIN l BY ForestWellFormed
    <2>2. SUFFICES ASSUME y \in Under(l, c) PROVE FALSE BY <2>1
    <2>3. PICK p \in {c} \cup Under(l, c) : y \in Children(l, p)
      BY <1>1, <2>2, UnderParent, ForestWellFormed
    <2>4. p \in Under(l, c) /\ p \in DOMAIN l BY <1>1, <1>2, UnderClosed, ForestWellFormed
    <2>5. p = x BY <1>3, <2>1, <2>3, <2>4 DEF Forest, OneParent
    <2> QED BY <2>4, <2>5
  <1>4. Root \in S BY <1>1, RootIsTop, ForestWellFormed
  <1>5. Children(l, Root) \subseteq S /\ Closed(l, S) BY <1>3, <1>4 DEF Closed
  <1> HIDE DEF S
  <1>6. Under(l, Root) \subseteq S BY <1>5, UnderClosed, ForestWellFormed
  <1> QED BY <1>2, <1>6 DEF S

\* The parent that findParentId finds is the only one.
LEMMA ShownParent ==
    ASSUME NEW l, Forest(l), NEW c \in Under(l, Root)
    PROVE  LET p == findParentId(l, c)
           IN  /\ p \in DOMAIN l /\ p \in Shown(l) /\ c \in Children(l, p)
               /\ Parents(l, c) = {p}
               /\ \A q \in DOMAIN l : c \in Children(l, q) => q = p
  <1>1. c \in DOMAIN l BY Acyclic
  <1>2. PICK p \in {Root} \cup Under(l, Root) : c \in Children(l, p)
    BY UnderParent, ForestWellFormed
  <1>3. p \in DOMAIN l BY UnderClosed, ForestWellFormed
  <1>4. \A q \in DOMAIN l : c \in Children(l, q) => q = p
    BY <1>1, <1>2, <1>3 DEF Forest, OneParent
  <1>5. Parents(l, c) = {p} BY <1>2, <1>3, <1>4 DEF Parents
  <1>6. findParentId(l, c) = p
    <2>1. findParentId(l, c) \in {p} BY <1>5 DEF findParentId
    <2> QED BY <2>1
  <1> QED BY <1>2, <1>3, <1>4, <1>5, <1>6 DEF Shown

\* The grid is shown only under the root.
LEMMA ShownGrid ==
    ASSUME NEW l, Forest(l), Grid \in Shown(l)
    PROVE  Children(l, Root) = {Grid}
  <1>1. Root # Grid BY DEF Root, Grid
  <1>2. Grid \in Under(l, Root) BY <1>1 DEF Shown
  <1>3. PICK p \in DOMAIN l : Grid \in Children(l, p) BY <1>2, ShownParent
  <1>4. p = Root BY <1>3, ForestWellFormed DEF Forest, Allowed, MayHave
  <1> QED BY <1>3, <1>4 DEF Forest, Topped

LEMMA TopLevelIs ==
    ASSUME NEW l, Forest(l)
    PROVE  /\ TopLevel(l) \in DOMAIN l /\ Children(l, Root) = {TopLevel(l)}
           /\ l[Root].children = <<TopLevel(l)>>
           /\ TopLevel(l) = Grid \/ (l[TopLevel(l)].type = "TABS" /\ Children(l, Grid) = {})
           /\ HasTopLevelTabs(l) <=> TopLevel(l) # Grid
  <1>1. PICK top \in DOMAIN l : /\ Children(l, Root) = {top}
                                /\ top = Grid \/ (l[top].type = "TABS" /\ Children(l, Grid) = {})
    BY DEF Forest, Topped
  <1>2. l[Root].children = <<top>>
    <2>1. Lists(l[Root].children, {top}) BY <1>1, ForestWellFormed DEF Forest, Proper
    <2> QED BY <2>1, SingletonList
  <1>3. TopLevel(l) = top BY <1>2 DEF TopLevel
  <1>4. l[Grid].type = "GRID" BY DEF Forest, Topped
  <1> QED BY <1>1, <1>2, <1>3, <1>4 DEF HasTopLevelTabs

-----------------------------------------------------------------------------
\* Steps that keep a forest a forest.

\* Components lose children, but not the root.
LEMMA FewerChildren ==
    ASSUME NEW l, Forest(l), NEW m, Proper(m), DOMAIN m = DOMAIN l,
           \A x \in DOMAIN l : m[x].type = l[x].type /\ Children(m, x) \subseteq Children(l, x),
           Children(m, Root) = Children(l, Root)
    PROVE  Forest(m)
  <1> USE DEF Forest
  <1>1. Contained(m) BY DEF Contained
  <1>2. OneParent(m) BY DEF OneParent
  <1>3. Allowed(m) BY DEF Allowed, MayHave
  <1>4. Topped(m)
    <2>1. Root \in DOMAIN l /\ Grid \in DOMAIN l BY ForestWellFormed
    <2> QED BY <2>1 DEF Topped
  <1> QED BY <1>1, <1>2, <1>3, <1>4

Orphan(l, c) == \A x \in DOMAIN l : c \notin Children(l, x)

\* A new component, without children or over one that has no parent.
WithOrphan(l, id, type, s, K, m) ==
    /\ Forest(m) /\ Orphan(m, id) /\ DOMAIN m = DOMAIN l \cup {id}
    /\ m[id].type = type /\ Children(m, id) = K /\ m[id].children = s
    /\ \A x \in DOMAIN l : m[x] = l[x] /\ Children(m, x) = Children(l, x)

LEMMA NewOrphan ==
    ASSUME NEW l, Forest(l), NEW id \in Ids, id \notin DOMAIN l, NEW type \in Types,
           NEW s, NEW K, Lists(s, K), K \subseteq DOMAIN l \ {Root, Grid},
           \A x \in K : Orphan(l, x) /\ MaxDepth(type, l[x].type) >= 0,
           NEW m, m = New(l, id, type, s)
    PROVE  WithOrphan(l, id, type, s, K, m)
  <1>1. /\ Proper(m) /\ DOMAIN m = DOMAIN l \cup {id}
        /\ m[id].type = type /\ Children(m, id) = K /\ m[id].children = s
        /\ \A x \in DOMAIN l : m[x] = l[x] /\ Children(m, x) = Children(l, x)
    <2>1. Proper(l) BY DEF Forest
    <2>2. WithNew(l, id, type, s, K, m)
      BY ONLY <2>1, m = New(l, id, type, s), id \notin DOMAIN l, Lists(s, K), AddComponent
    <2> QED BY <2>2 DEF WithNew
  <1>2. id # Root /\ id # Grid BY IdsAssumption
  <1>3. \A x \in DOMAIN l : Children(l, x) \subseteq DOMAIN l \ {Root} BY DEF Forest, Contained
  <1>4. Orphan(m, id) BY <1>1, <1>3 DEF Orphan
  <1>5. Contained(m)
    <2>1. IsFiniteSet(DOMAIN m) BY <1>1, FS_AddElement DEF Forest, Contained
    <2> QED BY <1>1, <2>1 DEF Forest, Contained
  <1>6. OneParent(m)
    <2> SUFFICES ASSUME NEW p \in DOMAIN m, NEW q \in DOMAIN m, NEW c \in DOMAIN m,
                        c \in Children(m, p), c \in Children(m, q)
                 PROVE  p = q
      BY DEF OneParent
    <2>1. c # id BY <1>4 DEF Orphan
    <2>2. CASE p # id /\ q # id BY <1>1, <2>1, <2>2 DEF Forest, OneParent
    <2>3. CASE p = id /\ q = id BY <2>3
    <2>4. CASE p # q /\ (p = id \/ q = id) BY <1>1, <2>4 DEF Orphan
    <2> QED BY <2>2, <2>3, <2>4
  <1>7. Allowed(m)
    <2> SUFFICES ASSUME NEW p \in DOMAIN m, NEW c \in DOMAIN m, c \in Children(m, p)
                 PROVE  MayHave(m, p, c)
      BY DEF Allowed
    <2>1. c # id BY <1>4 DEF Orphan
    <2>2. CASE p = id BY <1>1, <2>2 DEF MayHave
    <2>3. CASE p # id BY <1>1, <2>1, <2>3 DEF Forest, Allowed, MayHave
    <2> QED BY <2>2, <2>3
  <1>8. Topped(m) BY <1>1, <1>2 DEF Forest, Contained, Topped
  <1> QED BY <1>1, <1>4, <1>5, <1>6, <1>7, <1>8 DEF Forest, WithOrphan

\* A component without a parent inserted somewhere.
LEMMA Adopted ==
    ASSUME NEW l, Forest(l), NEW p \in DOMAIN l \ {Root}, p = Grid => Children(l, Root) = {Grid},
           NEW c \in DOMAIN l \ {Root, Grid}, Orphan(l, c), MaxDepth(l[p].type, l[c].type) >= 0,
           NEW i \in 1 .. Len(l[p].children) + 1
    PROVE  LET m == Insert(l, p, i, c)
           IN  /\ Forest(m) /\ DOMAIN m = DOMAIN l
               /\ \A x \in DOMAIN l : /\ m[x].type = l[x].type
                                      /\ Children(m, x) = IF x = p THEN Children(l, p) \cup {c}
                                                          ELSE Children(l, x)
  <1> DEFINE s == InsertAt(l[p].children, i, c)
             K == Children(l, p) \cup {c}
             m == Insert(l, p, i, c)
  <1>1. Lists(s, K)
    <2>1. Lists(l[p].children, Children(l, p)) BY DEF Forest, Proper
    <2>2. c \notin Children(l, p) BY DEF Orphan
    <2> QED BY <2>1, <2>2, InsertLists
  <1>2. m = WithChildren(l, p, s) BY DEF Insert, WithChildren
  <1> HIDE DEF s, m
  <1>3. /\ Proper(m) /\ DOMAIN m = DOMAIN l
        /\ \A x \in DOMAIN l : /\ m[x].type = l[x].type
                               /\ Children(m, x) = IF x = p THEN K ELSE Children(l, x)
    <2>1. Proper(l) /\ p \in DOMAIN l BY DEF Forest
    <2> HIDE DEF K
    <2>2. WithList(l, p, K, m) BY <1>1, <1>2, <2>1, SetChildren
    <2> QED BY <2>2 DEF WithList
  <1>4. Contained(m) BY <1>3 DEF Forest, Contained
  <1>5. OneParent(m)
    <2> SUFFICES ASSUME NEW q \in DOMAIN m, NEW r \in DOMAIN m, NEW x \in DOMAIN m,
                        x \in Children(m, q), x \in Children(m, r)
                 PROVE  q = r
      BY DEF OneParent
    <2>1. CASE x = c BY <1>3, <2>1 DEF Orphan
    <2>2. CASE x # c BY <1>3, <2>2 DEF Forest, OneParent
    <2> QED BY <2>1, <2>2
  <1>6. Allowed(m) BY <1>3 DEF Forest, Allowed, MayHave
  <1>7. Topped(m)
    <2>1. Root \in DOMAIN l /\ Grid \in DOMAIN l /\ Root # Grid BY ForestWellFormed DEF Root, Grid
    <2>2. Children(m, Root) = Children(l, Root) BY <1>3, <2>1
    <2>3. CASE p = Grid BY <1>3, <2>1, <2>2, <2>3 DEF Forest, Topped
    <2>4. CASE p # Grid BY <1>3, <2>1, <2>2, <2>4 DEF Forest, Topped
    <2> QED BY <2>3, <2>4
  <1> QED BY <1>3, <1>4, <1>5, <1>6, <1>7 DEF Forest, m

-----------------------------------------------------------------------------
\* MOVE_COMPONENT.

\* m is l with c, a child of src, left without a parent.
WithoutChild(l, src, c, m) ==
    /\ Forest(m) /\ Orphan(m, c) /\ DOMAIN m = DOMAIN l /\ c \in Children(l, src)
    /\ Len(m[src].children) = Len(l[src].children) - 1
    /\ \A x \in DOMAIN l : /\ m[x].type = l[x].type
                           /\ Children(m, x) = Children(l, x) \ {c}
                           /\ x # src => m[x] = l[x]

LEMMA Taken ==
    ASSUME NEW l, Forest(l), NEW src \in DOMAIN l \ {Root}, NEW si \in 1 .. Len(l[src].children),
           NEW c, c = l[src].children[si],
           NEW m, m = WithChildren(l, src, RemoveAt(l[src].children, si))
    PROVE  WithoutChild(l, src, c, m)
  <1> DEFINE s == RemoveAt(l[src].children, si)
             K == Children(l, src) \ {c}
  <1>0. Proper(l) /\ src \in DOMAIN l /\ Lists(l[src].children, Children(l, src))
    BY DEF Forest, Proper
  <1>1. Lists(s, K) /\ Len(s) = Len(l[src].children) - 1 /\ c \in Children(l, src)
    BY <1>0, RemoveAtLists, ListsFacts
  <1>2. m = WithChildren(l, src, s) OBVIOUS
  <1> HIDE DEF s, K
  <1>3. /\ Proper(m) /\ DOMAIN m = DOMAIN l /\ m[src].children = s
        /\ \A x \in DOMAIN l : /\ m[x].type = l[x].type
                               /\ Children(m, x) = IF x = src THEN K ELSE Children(l, x)
                               /\ x # src => m[x] = l[x]
    BY ONLY <1>0, <1>1, <1>2, SetChildren DEF WithList
  <1>4. \A x \in DOMAIN l : x # src => c \notin Children(l, x)
    <2>1. c \in DOMAIN l BY <1>0, <1>1, ForestWellFormed
    <2> QED BY <1>0, <1>1, <2>1 DEF Forest, OneParent
  <1>5. \A x \in DOMAIN l : Children(m, x) = Children(l, x) \ {c} BY <1>3, <1>4 DEF K
  <1>6. Children(m, Root) = Children(l, Root) BY <1>3, ForestWellFormed
  <1>7. Forest(m)
    <2>1. \A x \in DOMAIN l : Children(m, x) \subseteq Children(l, x) BY <1>5
    <2> QED BY <1>3, <1>6, <2>1, FewerChildren
  <1>8. Orphan(m, c) BY <1>3, <1>5 DEF Orphan
  <1> QED BY <1>1, <1>3, <1>5, <1>7, <1>8 DEF WithoutChild

\* What is moved to a place that is not under it stays connected to the root.
LEMMA MoveReaches ==
    ASSUME NEW l, WellFormed(l), Root \in DOMAIN l,
           NEW c \in DOMAIN l \ {Root, Grid}, NEW dest \in Shown(l), dest \notin {c} \cup Under(l, c),
           NEW m, WellFormed(m), DOMAIN l \subseteq DOMAIN m,
           \A x \in DOMAIN l : Children(l, x) \ {c} \subseteq Children(m, x),
           \A S : Closed(m, S) /\ dest \in S => c \in S /\ DOMAIN m \ DOMAIN l \subseteq S
    PROVE  Reaches(l, m)
  <1>1. ASSUME NEW S, Root \in S, Closed(m, S)
        PROVE  DOMAIN m \ DOMAIN l \subseteq S /\ Closed(l, S)
    <2>1. \A x \in DOMAIN l : x \in S => Children(l, x) \ {c} \subseteq S BY <1>1 DEF Closed
    <2> DEFINE T == S \cup {c} \cup Under(l, c)
    <2>2. Closed(l, T)
      <3>1. Closed(l, Under(l, c)) /\ Children(l, c) \subseteq Under(l, c) BY UnderClosed
      <3> QED BY <2>1, <3>1 DEF Closed
    <2>3. dest \in T BY <1>1, <2>2, ShownLeast
    <2>4. dest \in S BY <2>3
    <2>5. c \in S /\ DOMAIN m \ DOMAIN l \subseteq S BY <1>1, <2>4
    <2> QED BY <2>1, <2>5 DEF Closed
  <1>2. ASSUME NEW S, Root \in S, Closed(m, S)
        PROVE  /\ DOMAIN m \ DOMAIN l \subseteq S
               /\ \E T : Root \in T /\ Closed(l, T) /\ T \cap DOMAIN m \subseteq S \cup {Grid}
    <2>1. DOMAIN m \ DOMAIN l \subseteq S /\ Closed(l, S) BY <1>1, <1>2
    <2> QED BY <1>2, <2>1
  <1> QED BY <1>2, ReachesIntro

\* m is l with c moved from src to dest.
IsMove(l, src, c, dest, m) ==
    /\ Forest(m) /\ DOMAIN l \subseteq DOMAIN m
    /\ \A x \in DOMAIN l : /\ m[x].type = l[x].type
                           /\ Children(l, x) \ {c} \subseteq Children(m, x)
    /\ dest = src => Children(m, src) # {}
    /\ dest \in Shown(l) /\ dest \notin Under(l, c) => Reaches(l, m)

LEMMA Moved ==
    ASSUME NEW l, Forest(l), NEW src \in DOMAIN l \ {Root}, NEW si \in 1 .. Len(l[src].children),
           NEW c, c = l[src].children[si],
           NEW dest \in DOMAIN l \ {Root}, dest = Grid => Children(l, Root) = {Grid},
           MaxDepth(l[dest].type, l[c].type) >= 0,
           NEW di \in 1 .. Len(l[dest].children) + (IF dest = src THEN 0 ELSE 1),
           NEW row \in Ids, row \notin DOMAIN l,
           NEW m, m = MoveComponent(l, src, si, dest, di, row)
    PROVE  IsMove(l, src, c, dest, m)
  <1> DEFINE t == WithChildren(l, src, RemoveAt(l[src].children, si))
             r == New(t, row, "ROW", <<c>>)
             wrap == shouldWrapChildInRow(l[dest].type, l[c].type)
  <1>1. m = IF wrap THEN Insert(r, dest, di, row) ELSE Insert(t, dest, di, c)
    BY DEF MoveComponent, WithChildren
  <1>2. /\ Forest(t) /\ Orphan(t, c) /\ DOMAIN t = DOMAIN l /\ c \in Children(l, src)
        /\ Len(t[src].children) = Len(l[src].children) - 1
        /\ \A x \in DOMAIN l : /\ t[x].type = l[x].type
                               /\ Children(t, x) = Children(l, x) \ {c}
                               /\ x # src => t[x] = l[x]
    <2> HIDE DEF t
    <2>1. t = WithChildren(l, src, RemoveAt(l[src].children, si)) BY DEF t
    <2>2. Forest(l) /\ src \in DOMAIN l \ {Root} /\ si \in 1 .. Len(l[src].children)
          /\ c = l[src].children[si]
      OBVIOUS
    <2>3. WithoutChild(l, src, c, t) BY ONLY <2>1, <2>2, Taken
    <2> QED BY <2>3 DEF WithoutChild
  <1> HIDE DEF t, wrap
  <1>3. c \in DOMAIN l \ {Root, Grid} /\ c # dest
    <2>1. c \in DOMAIN l /\ c # Root BY <1>2, ForestWellFormed
    <2>2. c # Grid BY <1>2, <2>1, ForestWellFormed DEF Forest, Allowed, MayHave
    <2>3. l[dest].type # l[c].type BY MayHaveTypes
    <2> QED BY <2>1, <2>2, <2>3
  <1>4. di \in 1 .. Len(t[dest].children) + 1
    <2>1. Len(l[src].children) \in Nat
      <3>1. Lists(l[src].children, Children(l, src)) BY DEF Forest, Proper
      <3> QED BY <3>1, ListsFacts
    <2>2. CASE dest = src BY <1>2, <2>1, <2>2
    <2>3. CASE dest # src BY <1>2, <2>3
    <2> QED BY <2>2, <2>3
  <1>5. Root \in DOMAIN l /\ Grid \in DOMAIN l /\ Root # Grid /\ WellFormed(l)
    BY ForestWellFormed DEF Root, Grid
  <1>6. dest = Grid => Children(t, Root) = {Grid} BY <1>2, <1>3, <1>5
  <1>7. CASE wrap
    <2>1. /\ Forest(r) /\ Orphan(r, row) /\ DOMAIN r = DOMAIN l \cup {row}
          /\ r[row].type = "ROW" /\ Children(r, row) = {c}
          /\ \A x \in DOMAIN l : r[x] = t[x] /\ Children(r, x) = Children(t, x)
      <3>1. l[c].type \in {"CHART", "COLUMN"} BY <1>7 DEF wrap, shouldWrapChildInRow
      <3>2. MaxDepth("ROW", t[c].type) >= 0 BY <1>2, <1>3, <3>1, MayHaveTypes
      <3>3. "ROW" \in Types BY DEF Types
      <3>4. {c} \subseteq DOMAIN t \ {Root, Grid} BY <1>2, <1>3
      <3>5. \A x \in {c} : Orphan(t, x) /\ MaxDepth("ROW", t[x].type) >= 0 BY <1>2, <3>2
      <3>6. row \notin DOMAIN t BY <1>2
      <3>7. WithOrphan(t, row, "ROW", <<c>>, {c}, r)
        <4>1. Lists(<<c>>, {c}) BY SingleLists
        <4>2. row \in Ids /\ Forest(t) /\ r = New(t, row, "ROW", <<c>>) BY <1>2
        <4> HIDE DEF r
        <4> QED BY ONLY <3>3, <3>4, <3>5, <3>6, <4>1, <4>2, NewOrphan
      <3> HIDE DEF r
      <3> QED BY <1>2, <3>7 DEF WithOrphan
    <2> HIDE DEF r
    <2>2. row # Root /\ row # Grid /\ row # dest BY IdsAssumption
    <2>3. /\ Forest(m) /\ DOMAIN m = DOMAIN r
          /\ \A x \in DOMAIN r : /\ m[x].type = r[x].type
                                 /\ Children(m, x) = IF x = dest THEN Children(r, dest) \cup {row}
                                                     ELSE Children(r, x)
      <3>1. MaxDepth(r[dest].type, r[row].type) >= 0
        <4>1. l[dest].type \in {"GRID", "TAB"} BY <1>7 DEF wrap, shouldWrapChildInRow
        <4> QED BY <1>2, <2>1, <4>1, MayHaveTypes
      <3>2. di \in 1 .. Len(r[dest].children) + 1 BY <1>4, <2>1
      <3>3. dest = Grid => Children(r, Root) = {Grid} BY <1>5, <1>6, <2>1
      <3>4. dest \in DOMAIN r \ {Root} /\ row \in DOMAIN r \ {Root, Grid} BY <2>1, <2>2
      <3>5. m = Insert(r, dest, di, row) BY <1>1, <1>7
      <3>6. Forest(r) /\ Orphan(r, row) BY <2>1
      <3> QED BY ONLY <3>1, <3>2, <3>3, <3>4, <3>5, <3>6, Adopted
    <2>4. DOMAIN l \subseteq DOMAIN m /\ \A x \in DOMAIN l : m[x].type = l[x].type
      BY <1>2, <2>1, <2>3
    <2>5. \A x \in DOMAIN l : Children(l, x) \ {c} \subseteq Children(m, x)
      BY <1>2, <2>1, <2>3
    <2>6. row \in Children(m, dest) /\ Children(m, row) = {c} /\ DOMAIN m = DOMAIN l \cup {row}
      BY <1>2, <2>1, <2>2, <2>3
    <2>7. ASSUME dest \in Shown(l), dest \notin Under(l, c) PROVE Reaches(l, m)
      <3>1. \A S : Closed(m, S) /\ dest \in S => c \in S /\ DOMAIN m \ DOMAIN l \subseteq S
        BY <2>6 DEF Closed
      <3>2. dest \notin {c} \cup Under(l, c) /\ dest \in DOMAIN l BY <1>3, <2>7
      <3>3. WellFormed(m) BY <2>3, ForestWellFormed
      <3> QED BY <1>3, <1>5, <2>4, <2>5, <2>7, <3>1, <3>2, <3>3, MoveReaches
    <2> QED BY <2>3, <2>4, <2>5, <2>6, <2>7 DEF IsMove
  <1>8. CASE ~wrap
    <2>3. /\ Forest(m) /\ DOMAIN m = DOMAIN l
          /\ \A x \in DOMAIN l : /\ m[x].type = l[x].type
                                 /\ Children(m, x) = IF x = dest THEN Children(t, dest) \cup {c}
                                                     ELSE Children(t, x)
      <3>1. MaxDepth(t[dest].type, t[c].type) >= 0 BY <1>2, <1>3
      <3>4. dest \in DOMAIN t \ {Root} /\ c \in DOMAIN t \ {Root, Grid} BY <1>2, <1>3
      <3>5. m = Insert(t, dest, di, c) BY <1>1, <1>8
      <3>6. Forest(t) /\ Orphan(t, c) BY <1>2
      <3>7. /\ Forest(m) /\ DOMAIN m = DOMAIN t
            /\ \A x \in DOMAIN t : /\ m[x].type = t[x].type
                                   /\ Children(m, x) = IF x = dest THEN Children(t, dest) \cup {c}
                                                       ELSE Children(t, x)
        BY ONLY <3>1, <1>4, <1>6, <3>4, <3>5, <3>6, Adopted
      <3> QED BY <1>2, <3>7
    <2>5. \A x \in DOMAIN l : Children(l, x) \ {c} \subseteq Children(m, x) BY <1>2, <2>3
    <2>6. c \in Children(m, dest) BY <2>3
    <2>7. ASSUME dest \in Shown(l), dest \notin Under(l, c) PROVE Reaches(l, m)
      <3>1. \A S : Closed(m, S) /\ dest \in S => c \in S /\ DOMAIN m \ DOMAIN l \subseteq S
        BY <2>3, <2>6 DEF Closed
      <3>2. dest \notin {c} \cup Under(l, c) /\ dest \in DOMAIN l BY <1>3, <2>7
      <3>3. DOMAIN l \subseteq DOMAIN m BY <2>3
      <3>4. WellFormed(m) BY <2>3, ForestWellFormed
      <3> QED BY <1>3, <1>5, <2>5, <2>7, <3>1, <3>2, <3>3, <3>4, MoveReaches
    <2> QED BY <2>3, <2>5, <2>6, <2>7 DEF IsMove
  <1> QED BY <1>7, <1>8

-----------------------------------------------------------------------------
\* DELETE_COMPONENT.

\* m is l without c and what is under it.
WithoutSubtree(l, c, m) ==
    /\ Forest(m) /\ DOMAIN m = DOMAIN l \ ({c} \cup Under(l, c))
    /\ \A x \in DOMAIN m : m[x].type = l[x].type /\ Children(m, x) = Children(l, x) \ {c}
    /\ Reaches(l, m)

LEMMA SubtreeDeleted ==
    ASSUME NEW l, Forest(l), NEW c \in DOMAIN l \ {Root, Grid}, NEW p \in DOMAIN l \ {Root},
           c \in Children(l, p), c \notin Under(l, c),
           NEW m, m = recursivelyDeleteChildren(l, c, p)
    PROVE  WithoutSubtree(l, c, m)
  <1> DEFINE D == DOMAIN l \ ({c} \cup Under(l, c))
             s == RemoveFirst(l[p].children, c)
  <1>1. WellFormed(l) /\ Root \in DOMAIN l /\ Grid \in DOMAIN l /\ c \in DOMAIN l
    BY ForestWellFormed
  <1>2. Children(l, c) \subseteq Under(l, c) /\ Closed(l, Under(l, c)) BY <1>1, UnderClosed
  <1>3. p \in D
    <2>1. p # c BY <1>2
    <2>2. p \notin Under(l, c) BY <1>2 DEF Closed
    <2> QED BY <2>1, <2>2
  <1>4. Root \in D /\ Grid \in D BY <1>1, RootIsTop
  <1>5. Lists(s, Children(l, p) \ {c})
    <2>1. Lists(l[p].children, Children(l, p)) BY DEF Forest, Proper
    <2> QED BY <2>1, RemoveFirstLists
  <1>6. /\ DOMAIN m = D
        /\ m[p] = [type |-> l[p].type, children |-> s]
        /\ \A x \in D : x # p => m[x] = l[x]
    <2>1. l[p] = [type |-> l[p].type, children |-> l[p].children] BY DEF Forest, Proper
    <2>2. m = [x \in D |-> IF x = p THEN [l[x] EXCEPT !.children = s] ELSE l[x]]
      BY DEF recursivelyDeleteChildren
    <2>3. DOMAIN m = D /\ m[p] = [l[p] EXCEPT !.children = s] BY <1>3, <2>2
    <2>4. [l[p] EXCEPT !.children = s] = [type |-> l[p].type, children |-> s]
      BY <2>1
    <2>5. \A x \in D : x # p => m[x] = l[x] BY <2>2
    <2> QED BY <2>3, <2>4, <2>5
  <1>7. \A x \in D : x \in DOMAIN l /\ x # c OBVIOUS
  <1> HIDE DEF s, D
  <1>8. Children(m, p) = Children(l, p) \ {c} BY <1>5, <1>6 DEF Children, Lists
  <1>9. \A x \in DOMAIN l : x # p => c \notin Children(l, x)
    BY <1>1 DEF Forest, OneParent
  <1>10. ASSUME NEW x \in D
         PROVE  m[x].type = l[x].type /\ Children(m, x) = Children(l, x) \ {c}
    <2>1. CASE x = p BY <1>6, <1>8, <2>1
    <2>2. CASE x # p
      <3>1. m[x] = l[x] /\ c \notin Children(l, x) BY <1>6, <1>7, <1>9, <2>2
      <3> QED BY <3>1 DEF Children
    <2> QED BY <2>1, <2>2
  <1>11. ASSUME NEW x \in D PROVE Children(m, x) \subseteq D \ {Root}
    <2>1. Children(l, x) \subseteq DOMAIN l \ {Root} BY <1>7, ForestWellFormed
    <2>2. ASSUME NEW y \in Children(l, x), y # c PROVE y \notin Under(l, c)
      <3>1. SUFFICES ASSUME y \in Under(l, c) PROVE FALSE OBVIOUS
      <3>2. PICK q \in {c} \cup Under(l, c) : y \in Children(l, q) BY <1>1, <3>1, UnderParent
      <3>3. q \in DOMAIN l /\ y \in DOMAIN l BY <1>1, <2>1, UnderClosed
      <3>4. q = x BY <1>7, <2>2, <3>2, <3>3 DEF Forest, OneParent
      <3> QED BY <3>2, <3>4 DEF D
    <2> QED BY <1>10, <2>1, <2>2 DEF D
  <1>12. Proper(m)
    <2> SUFFICES ASSUME NEW x \in D
                 PROVE  /\ m[x] = [type |-> m[x].type, children |-> m[x].children]
                        /\ Lists(m[x].children, Children(m, x))
      BY <1>6 DEF Proper
    <2>1. CASE x = p BY <1>5, <1>6, <1>8, <2>1
    <2>2. CASE x # p
      <3>1. m[x] = l[x] BY <1>6, <2>2
      <3>2. l[x] = [type |-> l[x].type, children |-> l[x].children]
            /\ Lists(l[x].children, Children(l, x))
        BY <1>7 DEF Forest, Proper
      <3> QED BY <3>1, <3>2 DEF Children
    <2> QED BY <2>1, <2>2
  <1>13. Contained(m)
    <2>1. D \subseteq DOMAIN l BY DEF D
    <2>2. IsFiniteSet(D) BY <2>1, FS_Subset DEF Forest, Contained
    <2> QED BY <1>4, <1>6, <1>10, <1>11, <2>1, <2>2 DEF Forest, Contained
  <1>14. OneParent(m) BY <1>6, <1>7, <1>10 DEF Forest, OneParent
  <1>15. Allowed(m)
    <2> SUFFICES ASSUME NEW q \in D, NEW x \in D, x \in Children(m, q)
                 PROVE  MayHave(m, q, x)
      BY <1>6 DEF Allowed
    <2>1. MayHave(l, q, x) BY <1>7, <1>10 DEF Forest, Allowed
    <2> QED BY <1>10, <2>1 DEF MayHave
  <1>16. Children(m, Root) = Children(l, Root) /\ Children(m, Grid) \subseteq Children(l, Grid)
    BY <1>1, <1>4, <1>9, <1>10
  <1>17. Topped(m)
    <2>1. PICK top \in DOMAIN l : /\ Children(l, Root) = {top}
                                  /\ top = Grid \/ (l[top].type = "TABS" /\ Children(l, Grid) = {})
      BY DEF Forest, Topped
    <2>2. top \in D BY <1>4, <1>11, <1>16, <2>1
    <2>3. m[Root].type = "ROOT" /\ m[Grid].type = "GRID" BY <1>4, <1>10 DEF Forest, Topped
    <2>4. Children(m, Root) = {top} /\ m[top].type = l[top].type BY <1>10, <1>16, <2>1, <2>2
    <2>5. top = Grid \/ (m[top].type = "TABS" /\ Children(m, Grid) = {}) BY <1>16, <2>1, <2>4
    <2> QED BY <1>6, <2>2, <2>3, <2>4, <2>5 DEF Topped
  <1>18. Reaches(l, m)
    <2>a. WellFormed(m) /\ Root \in DOMAIN m BY <1>13, <1>16, <1>6 DEF Contained, WellFormed
    <2>b. ASSUME NEW S, Root \in S, Closed(m, S)
          PROVE  /\ DOMAIN m \ DOMAIN l \subseteq S
                 /\ \E T : Root \in T /\ Closed(l, T) /\ T \cap DOMAIN m \subseteq S \cup {Grid}
      <3> DEFINE T == S \cup {c} \cup Under(l, c)
      <3>1. ASSUME NEW x \in DOMAIN l, x \in T PROVE Children(l, x) \subseteq T
        <4>1. CASE x = c BY <1>2, <4>1
        <4>2. CASE x \in Under(l, c) BY <1>2, <4>2 DEF Closed
        <4>3. CASE x \notin {c} \cup Under(l, c)
          <5>1. x \in D /\ x \in S BY <3>1, <4>3 DEF D
          <5>2. Children(m, x) \subseteq S BY <1>6, <2>b, <5>1 DEF Closed
          <5> QED BY <1>10, <5>1, <5>2
        <4> QED BY <4>1, <4>2, <4>3
      <3>2. Closed(l, T) /\ Root \in T BY <2>b, <3>1 DEF Closed
      <3>3. T \cap DOMAIN m \subseteq S BY <1>6 DEF D
      <3>4. DOMAIN m \subseteq DOMAIN l BY <1>6 DEF D
      <3> QED BY <3>2, <3>3, <3>4
    <2> QED BY <1>1, <2>a, <2>b, ReachesIntro
  <1> QED BY <1>6, <1>10, <1>12, <1>13, <1>14, <1>15, <1>17, <1>18 DEF Forest, WithoutSubtree, D

\* m is l without some components: c, what is under it, and perhaps the row it was in.
Deleted(l, c, p, m) ==
    /\ Forest(m) /\ DOMAIN m \subseteq DOMAIN l
    /\ \A x \in DOMAIN l : x \in {c} \cup Under(l, c) \/ (x = p /\ l[p].type = "ROW") \/ x \in DOMAIN m
    /\ \A x \in DOMAIN m : m[x].type = l[x].type
    /\ Reaches(l, m)

LEMMA ComponentDeleted ==
    ASSUME NEW l, Forest(l), NEW c \in DOMAIN l \ {Root, Grid}, NEW p \in DOMAIN l \ {Root},
           c \in Children(l, p), c \notin Under(l, c),
           l[p].type = "ROW" => \E q \in DOMAIN l : p \in Children(l, q),
           NEW m, m = DeleteComponent(l, c, p)
    PROVE  Deleted(l, c, p, m)
  <1> DEFINE d == recursivelyDeleteChildren(l, c, p)
  <1>1. WithoutSubtree(l, c, d)
    <2> HIDE DEF d
    <2>1. d = recursivelyDeleteChildren(l, c, p) BY DEF d
    <2> QED BY <2>1, SubtreeDeleted
  <1>2. m = IF d[p].type = "ROW" /\ d[p].children = <<>>
            THEN recursivelyDeleteChildren(d, p, findParentId(d, p)) ELSE d
    BY DEF DeleteComponent
  <1> HIDE DEF d
  <1>3. WellFormed(l) /\ Closed(l, Under(l, c)) /\ Children(l, c) \subseteq Under(l, c)
    BY ForestWellFormed, UnderClosed
  <1>4. p \in DOMAIN d /\ d[p].type = l[p].type
    <2>1. p # c /\ p \notin Under(l, c) BY <1>3 DEF Closed
    <2> QED BY <1>1, <2>1 DEF WithoutSubtree
  <1>5. CASE d[p].type = "ROW" /\ d[p].children = <<>>
    <2>1. PICK q \in DOMAIN l : p \in Children(l, q) BY <1>4, <1>5
    <2>2. q \in DOMAIN d
      <3>1. q # c BY <1>1, <1>3, <1>4, <2>1 DEF WithoutSubtree
      <3>2. q \notin Under(l, c) BY <1>1, <1>3, <1>4, <2>1 DEF Closed, WithoutSubtree
      <3> QED BY <1>1, <3>1, <3>2 DEF WithoutSubtree
    <2>3. p # c BY <1>1, <1>4 DEF WithoutSubtree
    <2>4. p \in Children(d, q) BY <1>1, <2>1, <2>2, <2>3 DEF WithoutSubtree
    <2>5. Forest(d) BY <1>1 DEF WithoutSubtree
    <2>6. findParentId(d, p) = q
      <3>1. \A x \in DOMAIN d : p \in Children(d, x) => x = q
        BY <1>4, <2>2, <2>4, <2>5 DEF Forest, OneParent
      <3>2. Parents(d, p) = {q} BY <2>2, <2>4, <3>1 DEF Parents
      <3>3. findParentId(d, p) \in {q} BY <3>2 DEF findParentId
      <3> QED BY <3>3
    <2>7. p # Root /\ p # Grid /\ q # Root
      <3>1. p # Grid BY <1>5, <2>5 DEF Forest, Topped
      <3>2. MaxDepth(d[q].type, "ROW") >= 0
        BY <1>4, <1>5, <2>2, <2>4, <2>5, <3>1 DEF Forest, Allowed, MayHave
      <3>3. d[q].type # "ROOT" BY <3>2, MayHaveTypes
      <3>4. d[Root].type = "ROOT" BY <2>5 DEF Forest, Topped
      <3> QED BY <3>1, <3>3, <3>4
    <2>8. Under(d, p) = {}
      <3>1. Lists(<<>>, Children(d, p)) BY <1>4, <1>5, <2>5 DEF Forest, Proper
      <3>2. Children(d, p) = {} BY <3>1, EmptyList
      <3>3. WellFormed(d) BY <2>5, ForestWellFormed
      <3>4. Closed(d, {}) BY DEF Closed
      <3>5. Under(d, p) \subseteq {} BY <1>4, <3>2, <3>3, <3>4, UnderClosed
      <3> QED BY <3>5
    <2>9. WithoutSubtree(d, p, m)
      <3>1. p \in DOMAIN d \ {Root, Grid} /\ q \in DOMAIN d \ {Root} BY <1>4, <2>2, <2>7
      <3>2. m = recursivelyDeleteChildren(d, p, q) BY <1>2, <1>5, <2>6
      <3>3. p \notin Under(d, p) BY <2>8
      <3> QED BY ONLY <2>4, <2>5, <3>1, <3>2, <3>3, SubtreeDeleted
    <2>10. DOMAIN m = DOMAIN l \ ({c} \cup Under(l, c) \cup {p})
      BY <1>1, <2>8, <2>9 DEF WithoutSubtree
    <2>11. \A x \in DOMAIN m : m[x].type = l[x].type
      BY <1>1, <2>9, <2>10 DEF WithoutSubtree
    <2>12. Forest(m) /\ Reaches(l, m)
      <3>1. Forest(m) /\ Reaches(l, d) /\ Reaches(d, m) /\ DOMAIN m \subseteq DOMAIN d
        BY <1>1, <2>9 DEF WithoutSubtree
      <3> QED BY <3>1 DEF Reaches
    <2> QED BY <1>4, <1>5, <2>10, <2>11, <2>12 DEF Deleted
  <1>6. CASE ~(d[p].type = "ROW" /\ d[p].children = <<>>)
    <2>1. WithoutSubtree(l, c, m) BY <1>1, <1>2, <1>6
    <2> QED BY <2>1 DEF WithoutSubtree, Deleted
  <1> QED BY <1>5, <1>6

-----------------------------------------------------------------------------
\* CREATE_COMPONENT.

\* m has everything that l has.
Grown(l, m) ==
    /\ Forest(m) /\ DOMAIN l \subseteq DOMAIN m /\ \A x \in DOMAIN l : m[x].type = l[x].type
    /\ Reaches(l, m)

\* New components, one of them over the others, inserted somewhere.
LEMMA Planted ==
    ASSUME NEW l, Forest(l), NEW dest \in DOMAIN l \ {Root}, dest \in Shown(l), dest = Grid => Children(l, Root) = {Grid},
           NEW i \in 1 .. Len(l[dest].children) + 1,
           NEW b, Forest(b), DOMAIN l \subseteq DOMAIN b, \A x \in DOMAIN l : b[x] = l[x],
           NEW c \in Ids, c \in DOMAIN b \ DOMAIN l, Orphan(b, c), MaxDepth(l[dest].type, b[c].type) >= 0,
           \A S : Closed(b, S) /\ c \in S => DOMAIN b \ DOMAIN l \subseteq S,
           NEW m, m = Insert(b, dest, i, c)
    PROVE  Grown(l, m)
  <1>1. c \in DOMAIN b \ {Root, Grid} /\ dest \in DOMAIN b \ {Root} BY IdsAssumption
  <1>2. \A x \in DOMAIN l : Children(b, x) = Children(l, x) BY DEF Children
  <1>3. Root \in DOMAIN l /\ Grid \in DOMAIN l BY ForestWellFormed
  <1>4. dest = Grid => Children(b, Root) = {Grid} BY <1>2, <1>3
  <1>5. i \in 1 .. Len(b[dest].children) + 1 /\ MaxDepth(b[dest].type, b[c].type) >= 0 OBVIOUS
  <1>6. /\ Forest(m) /\ DOMAIN m = DOMAIN b
        /\ \A x \in DOMAIN b : /\ m[x].type = b[x].type
                               /\ Children(m, x) = IF x = dest THEN Children(b, dest) \cup {c}
                                                   ELSE Children(b, x)
    BY ONLY <1>1, <1>4, <1>5, Forest(b), Orphan(b, c), m = Insert(b, dest, i, c), Adopted
  <1>7. \A x \in DOMAIN l : m[x].type = l[x].type BY <1>6
  <1>8. Reaches(l, m)
    <2>1. \A x \in DOMAIN b : Children(b, x) \subseteq Children(m, x) BY <1>6
    <2>2. ASSUME NEW S, Root \in S, Closed(m, S)
          PROVE  DOMAIN m \ DOMAIN l \subseteq S /\ Closed(l, S)
      <3>1. Closed(b, S) BY <1>6, <2>1, <2>2 DEF Closed
      <3>2. Closed(l, S) BY <1>2, <3>1 DEF Closed
      <3>3. dest \in S BY <1>3, <2>2, <3>2, ForestWellFormed, ShownLeast
      <3>4. Children(m, dest) \subseteq S BY <1>1, <1>6, <2>2, <3>3 DEF Closed
      <3>5. c \in S BY <1>1, <1>6, <3>4
      <3>6. DOMAIN b \ DOMAIN l \subseteq S BY <3>1, <3>5
      <3> QED BY <1>6, <3>2, <3>6
    <2>3. ASSUME NEW S, Root \in S, Closed(m, S)
          PROVE  /\ DOMAIN m \ DOMAIN l \subseteq S
                 /\ \E T : Root \in T /\ Closed(l, T) /\ T \cap DOMAIN m \subseteq S \cup {Grid}
      <3>1. DOMAIN m \ DOMAIN l \subseteq S /\ Closed(l, S) BY <2>2, <2>3
      <3> QED BY <2>3, <3>1
    <2>4. WellFormed(m) /\ Root \in DOMAIN m /\ WellFormed(l) BY <1>6, ForestWellFormed
    <2> QED BY <1>3, <2>3, <2>4, ReachesIntro
  <1> QED BY <1>6, <1>7, <1>8 DEF Grown

\* A component without children, and one over it.
LEMMA Single ==
    ASSUME NEW l, Forest(l), NEW id \in Ids, id \notin DOMAIN l, NEW type \in Types,
           NEW m, m = New(l, id, type, <<>>)
    PROVE  WithOrphan(l, id, type, <<>>, {}, m)
  <1>1. Lists(<<>>, {}) BY EmptyLists
  <1>2. {} \subseteq DOMAIN l \ {Root, Grid} OBVIOUS
  <1>3. \A x \in {} : Orphan(l, x) /\ MaxDepth(type, l[x].type) >= 0 OBVIOUS
  <1> QED BY <1>1, <1>2, <1>3, NewOrphan

WithPair(l, id, type, other, over, m) ==
    /\ Forest(m) /\ DOMAIN m = DOMAIN l \cup {id, other} /\ Orphan(m, other)
    /\ m[other].type = over /\ Children(m, other) = {id} /\ m[other].children = <<id>>
    /\ Children(m, id) = {} /\ m[id].type = type
    /\ \A x \in DOMAIN l : m[x] = l[x] /\ Children(m, x) = Children(l, x)

LEMMA Pair ==
    ASSUME NEW l, Forest(l), NEW id \in Ids, id \notin DOMAIN l, NEW type \in Types,
           NEW other \in Ids, other \notin DOMAIN l, id # other, NEW over \in Types,
           MaxDepth(over, type) >= 0,
           NEW m, m = New(New(l, id, type, <<>>), other, over, <<id>>)
    PROVE  WithPair(l, id, type, other, over, m)
  <1> DEFINE a == New(l, id, type, <<>>)
  <1>1. WithOrphan(l, id, type, <<>>, {}, a) BY Single
  <1>2. m = New(a, other, over, <<id>>) OBVIOUS
  <1> HIDE DEF a
  <1>3. id # Root /\ id # Grid BY IdsAssumption
  <1>4. WithOrphan(a, other, over, <<id>>, {id}, m)
    <2>1. Forest(a) /\ other \notin DOMAIN a BY <1>1 DEF WithOrphan
    <2>2. Lists(<<id>>, {id}) BY SingleLists
    <2>3. {id} \subseteq DOMAIN a \ {Root, Grid} BY <1>1, <1>3 DEF WithOrphan
    <2>4. \A x \in {id} : Orphan(a, x) /\ MaxDepth(over, a[x].type) >= 0 BY <1>1 DEF WithOrphan
    <2> QED BY <1>2, <2>1, <2>2, <2>3, <2>4, NewOrphan
  <1> QED BY <1>1, <1>4 DEF WithOrphan, WithPair

LEMMA ComponentCreated ==
    ASSUME NEW l, Forest(l), NEW dest \in DOMAIN l \ {Root}, dest \in Shown(l), dest = Grid => Children(l, Root) = {Grid},
           NEW type \in Types, MaxDepth(l[dest].type, type) >= 0,
           NEW i \in 1 .. Len(l[dest].children) + 1,
           NEW id \in Ids, id \notin DOMAIN l, NEW other \in Ids, other \notin DOMAIN l, id # other,
           NEW m, m = CreateComponent(l, type, dest, i, id, other)
    PROVE  Grown(l, m)
  <1>0. "ROW" \in Types /\ "TAB" \in Types /\ "TABS" \in Types BY DEF Types
  <1>1. CASE shouldWrapChildInRow(l[dest].type, type)
    <2> DEFINE b == New(New(l, id, type, <<>>), other, "ROW", <<id>>)
    <2>1. m = Insert(b, dest, i, other) BY <1>1 DEF CreateComponent
    <2>2. MaxDepth("ROW", type) >= 0 /\ MaxDepth(l[dest].type, "ROW") >= 0
      BY <1>1, MayHaveTypes DEF shouldWrapChildInRow
    <2>3. b = New(New(l, id, type, <<>>), other, "ROW", <<id>>) OBVIOUS
    <2> HIDE DEF b
    <2>4. /\ Forest(b) /\ DOMAIN b = DOMAIN l \cup {id, other} /\ Orphan(b, other)
          /\ b[other].type = "ROW" /\ Children(b, other) = {id}
          /\ \A x \in DOMAIN l : b[x] = l[x] /\ Children(b, x) = Children(l, x)
      <3>1. WithPair(l, id, type, other, "ROW", b)
        BY <1>0, <2>2, <2>3, Pair
      <3> QED BY <3>1 DEF WithPair
    <2>5. \A S : Closed(b, S) /\ other \in S => DOMAIN b \ DOMAIN l \subseteq S
      BY <2>4 DEF Closed
    <2>6. MaxDepth(l[dest].type, b[other].type) >= 0 BY <2>2, <2>4
    <2> QED BY <2>1, <2>4, <2>5, <2>6, Planted
  <1>2. CASE ~shouldWrapChildInRow(l[dest].type, type) /\ type = "TABS"
    <2> DEFINE b == New(New(l, other, "TAB", <<>>), id, "TABS", <<other>>)
    <2>1. m = Insert(b, dest, i, id) BY <1>2 DEF CreateComponent
    <2>2. MaxDepth("TABS", "TAB") >= 0 BY MayHaveTypes
    <2>3. b = New(New(l, other, "TAB", <<>>), id, "TABS", <<other>>) OBVIOUS
    <2> HIDE DEF b
    <2>4. /\ Forest(b) /\ DOMAIN b = DOMAIN l \cup {id, other} /\ Orphan(b, id)
          /\ b[id].type = "TABS" /\ Children(b, id) = {other}
          /\ \A x \in DOMAIN l : b[x] = l[x] /\ Children(b, x) = Children(l, x)
      <3>1. WithPair(l, other, "TAB", id, "TABS", b)
        BY <1>0, <2>2, <2>3, Pair
      <3> QED BY <3>1 DEF WithPair
    <2>5. \A S : Closed(b, S) /\ id \in S => DOMAIN b \ DOMAIN l \subseteq S
      BY <2>4 DEF Closed
    <2>6. MaxDepth(l[dest].type, b[id].type) >= 0 BY <1>2, <2>4
    <2> QED BY <2>1, <2>4, <2>5, <2>6, Planted
  <1>3. CASE ~shouldWrapChildInRow(l[dest].type, type) /\ type # "TABS"
    <2> DEFINE b == New(l, id, type, <<>>)
    <2>1. m = Insert(b, dest, i, id) BY <1>3 DEF CreateComponent
    <2>2. WithOrphan(l, id, type, <<>>, {}, b) BY Single
    <2> HIDE DEF b
    <2>3. /\ Forest(b) /\ DOMAIN b = DOMAIN l \cup {id} /\ Orphan(b, id) /\ b[id].type = type
          /\ \A x \in DOMAIN l : b[x] = l[x]
      BY <2>2 DEF WithOrphan
    <2>4. \A S : Closed(b, S) /\ id \in S => DOMAIN b \ DOMAIN l \subseteq S BY <2>3
    <2>5. MaxDepth(l[dest].type, b[id].type) >= 0 BY <2>3
    <2> QED BY <2>1, <2>3, <2>4, <2>5, Planted
  <1> QED BY <1>1, <1>2, <1>3

-----------------------------------------------------------------------------
\* CREATE_TOP_LEVEL_TABS and DELETE_TOP_LEVEL_TABS.

LEMMA TwoLists ==
    ASSUME NEW l, NEW p, NEW s, NEW q, NEW t
    PROVE  [l EXCEPT ![p].children = s, ![q].children = t] = WithChildren(WithChildren(l, p, s), q, t)
  BY DEF WithChildren

\* What a grid may have a tab may have, and the other way round.
LEMMA GridOrTab ==
    ASSUME NEW type
    PROVE  MaxDepth("GRID", type) >= 0 <=> MaxDepth("TAB", type) >= 0
  BY MayHaveTypes

LEMMA TopLevelTabsCreated ==
    ASSUME NEW l, Forest(l), ~HasTopLevelTabs(l),
           NEW tabs \in Ids, tabs \notin DOMAIN l, NEW tab \in Ids, tab \notin DOMAIN l, tabs # tab,
           NEW m, m = CreateTopLevelTabs(l, tabs, tab)
    PROVE  Grown(l, m)
  <1> DEFINE a == WithChildren(l, Root, <<tabs>>)
             b == WithChildren(a, Grid, <<>>)
             d == New(b, tab, "TAB", l[Grid].children)
             K == Children(l, Grid)
  <1>1. TopLevel(l) = Grid /\ Children(l, Root) = {Grid} BY TopLevelIs
  <1>2. m = New(d, tabs, "TABS", <<tab>>)
    BY <1>1, TwoLists DEF CreateTopLevelTabs
  <1>3. /\ Root \in DOMAIN l /\ Grid \in DOMAIN l /\ Root # Grid /\ Proper(l)
        /\ tabs # Root /\ tabs # Grid /\ tab # Root /\ tab # Grid
    BY ForestWellFormed, IdsAssumption DEF Root, Grid, Forest
  <1>4. /\ Proper(a) /\ DOMAIN a = DOMAIN l
        /\ \A x \in DOMAIN l : /\ a[x].type = l[x].type
                               /\ Children(a, x) = IF x = Root THEN {tabs} ELSE Children(l, x)
    <2>1. WithList(l, Root, {tabs}, a) BY <1>3, SingleLists, SetChildren
    <2> HIDE DEF a
    <2> QED BY <2>1 DEF WithList
  <1> HIDE DEF a
  <1>5. /\ Proper(b) /\ DOMAIN b = DOMAIN l
        /\ \A x \in DOMAIN l : /\ b[x].type = l[x].type
                               /\ Children(b, x) = IF x = Root THEN {tabs}
                                                   ELSE IF x = Grid THEN {} ELSE Children(l, x)
    <2>1. WithList(a, Grid, {}, b) BY <1>3, <1>4, EmptyLists, SetChildren
    <2> HIDE DEF b
    <2> QED BY <1>3, <1>4, <2>1 DEF WithList
  <1> HIDE DEF b
  <1>6. Lists(l[Grid].children, K) BY <1>3 DEF Proper
  <1>7. /\ Proper(d) /\ DOMAIN d = DOMAIN l \cup {tab}
        /\ d[tab].type = "TAB" /\ Children(d, tab) = K
        /\ \A x \in DOMAIN l : d[x] = b[x] /\ Children(d, x) = Children(b, x)
    <2>1. WithNew(b, tab, "TAB", l[Grid].children, K, d) BY <1>5, <1>6, AddComponent
    <2> HIDE DEF d, K
    <2> QED BY <1>5, <2>1 DEF WithNew
  <1> HIDE DEF d
  <1>8. /\ Proper(m) /\ DOMAIN m = DOMAIN d \cup {tabs}
        /\ m[tabs].type = "TABS" /\ Children(m, tabs) = {tab}
        /\ \A x \in DOMAIN d : m[x] = d[x] /\ Children(m, x) = Children(d, x)
    <2>1. tabs \notin DOMAIN d BY <1>7
    <2>2. WithNew(d, tabs, "TABS", <<tab>>, {tab}, m)
      BY ONLY <1>2, <1>7, <2>1, SingleLists, AddComponent
    <2> QED BY <2>2 DEF WithNew
  <1>9. /\ Proper(m) /\ DOMAIN m = DOMAIN l \cup {tab, tabs}
        /\ \A x \in DOMAIN l : /\ m[x].type = l[x].type
                               /\ Children(m, x) = IF x = Root THEN {tabs}
                                                   ELSE IF x = Grid THEN {} ELSE Children(l, x)
        /\ m[tabs].type = "TABS" /\ Children(m, tabs) = {tab}
        /\ m[tab].type = "TAB" /\ Children(m, tab) = K
    BY <1>5, <1>7, <1>8
  <1>10. \A x \in DOMAIN l : Children(l, x) \subseteq DOMAIN l \ {Root} BY ForestWellFormed
  <1> HIDE DEF K
  <1>11. Contained(m)
    <2>1. IsFiniteSet(DOMAIN l) BY DEF Forest, Contained
    <2>2. IsFiniteSet(DOMAIN m)
      <3>1. IsFiniteSet(DOMAIN l \cup {tab}) BY <2>1, FS_AddElement
      <3>2. IsFiniteSet((DOMAIN l \cup {tab}) \cup {tabs}) BY <3>1, FS_AddElement
      <3>3. (DOMAIN l \cup {tab}) \cup {tabs} = DOMAIN m BY <1>9
      <3> QED BY <3>2, <3>3
    <2>3. DOMAIN l \subseteq {Root, Grid} \cup Ids /\ \A x \in DOMAIN l : l[x].type \in Types
      BY DEF Forest, Contained
    <2>4. \A x \in DOMAIN m : m[x].type \in Types BY <1>9, <2>3 DEF Types
    <2>5. \A x \in DOMAIN m : Children(m, x) \subseteq DOMAIN m \ {Root}
      BY <1>3, <1>9, <1>10 DEF K
    <2> QED BY <1>3, <1>9, <2>2, <2>3, <2>4, <2>5 DEF Contained
  <1>12. OneParent(m)
    <2> SUFFICES ASSUME NEW p \in DOMAIN m, NEW q \in DOMAIN m, NEW x \in DOMAIN m,
                        x \in Children(m, p), x \in Children(m, q)
                 PROVE  p = q
      BY DEF OneParent
    <2>1. CASE x = tabs BY <1>3, <1>9, <1>10, <2>1 DEF K
    <2>2. CASE x = tab BY <1>3, <1>9, <1>10, <2>2 DEF K
    <2>3. CASE x \in DOMAIN l
      <3>1. \A y, z \in DOMAIN l : x \in Children(l, y) /\ x \in Children(l, z) => y = z
        BY <2>3 DEF Forest, OneParent
      <3> QED BY <1>3, <1>9, <2>3, <3>1 DEF K
    <2> QED BY <1>9, <2>1, <2>2, <2>3
  <1>13. Allowed(m)
    <2> SUFFICES ASSUME NEW p \in DOMAIN m, NEW x \in DOMAIN m, x \in Children(m, p)
                 PROVE  MayHave(m, p, x)
      BY DEF Allowed
    <2>0. l[Root].type = "ROOT" /\ l[Grid].type = "GRID" BY DEF Forest, Topped
    <2>1. CASE p = Root
      <3>1. MaxDepth("ROOT", "TABS") >= 0 BY MayHaveTypes
      <3> QED BY <1>3, <1>9, <2>0, <2>1, <3>1 DEF MayHave
    <2>2. CASE p = tabs
      <3>1. MaxDepth("TABS", "TAB") >= 0 BY MayHaveTypes
      <3> QED BY <1>3, <1>9, <2>2, <3>1 DEF MayHave
    <2>3. CASE p = tab
      <3>1. x \in DOMAIN l /\ x \in Children(l, Grid) BY <1>3, <1>9, <1>10, <2>3 DEF K
      <3>2. MayHave(l, Grid, x) BY <1>3, <3>1 DEF Forest, Allowed
      <3>3. x # Grid /\ MaxDepth("GRID", l[x].type) >= 0 BY <1>3, <2>0, <3>2 DEF MayHave
      <3>4. MaxDepth("TAB", l[x].type) >= 0 BY <3>3, GridOrTab
      <3> QED BY <1>9, <2>3, <3>1, <3>3, <3>4 DEF MayHave
    <2>4. CASE p \in DOMAIN l \ {Root}
      <3>1. x \in Children(l, p) BY <1>9, <2>4
      <3>2. x \in DOMAIN l BY <1>10, <2>4, <3>1
      <3>3. MayHave(l, p, x) BY <2>4, <3>1, <3>2 DEF Forest, Allowed
      <3> QED BY <1>9, <2>4, <3>2, <3>3 DEF MayHave
    <2> QED BY <1>9, <2>1, <2>2, <2>3, <2>4
  <1>14. Topped(m)
    <2>1. l[Root].type = "ROOT" /\ l[Grid].type = "GRID" BY DEF Forest, Topped
    <2> QED BY <1>3, <1>9, <2>1 DEF Topped
  <1>15. Reaches(l, m)
    <2>a. WellFormed(m) /\ Root \in DOMAIN m BY <1>9, <1>11, <1>12, <1>13, <1>14, ForestWellFormed DEF Forest
    <2>b. ASSUME NEW S, Root \in S, Closed(m, S)
          PROVE  /\ DOMAIN m \ DOMAIN l \subseteq S
                 /\ \E T : Root \in T /\ Closed(l, T) /\ T \cap DOMAIN m \subseteq S \cup {Grid}
      <3>1. tabs \in S BY <1>3, <1>9, <2>b DEF Closed
      <3>2. tab \in S BY <1>9, <2>b, <3>1 DEF Closed
      <3>3. K \subseteq S BY <1>9, <2>b, <3>2 DEF Closed
      <3> DEFINE T == S \cup {Grid}
      <3>4. ASSUME NEW x \in DOMAIN l, x \in T PROVE Children(l, x) \subseteq T
        <4>1. CASE x = Root BY <1>1, <4>1
        <4>2. CASE x = Grid BY <3>3, <4>2 DEF K
        <4>3. CASE x # Root /\ x # Grid BY <1>9, <2>b, <3>4, <4>3 DEF Closed
        <4> QED BY <4>1, <4>2, <4>3
      <3>5. Closed(l, T) /\ Root \in T BY <2>b, <3>4 DEF Closed
      <3> QED BY <1>9, <3>1, <3>2, <3>5
    <2> QED BY <2>a, <2>b, ForestWellFormed, ReachesIntro
  <1> QED BY <1>9, <1>11, <1>12, <1>13, <1>14, <1>15 DEF Grown, Forest

\* What MakeTopLevel makes of a layout whose grid is on top.
WithTopLevel(l, tabs, first, m) ==
    /\ Proper(m) /\ Contained(m) /\ DOMAIN m = DOMAIN l
    /\ first \in Children(l, tabs) /\ first \notin {Root, Grid, tabs} /\ tabs \notin {Root, Grid}
    /\ \A x \in DOMAIN l :
        /\ m[x].type = l[x].type
        /\ Children(m, x) =
            IF x = Root THEN {tabs} ELSE IF x = Grid THEN {}
            ELSE IF x = first THEN Children(l, first) \cup (Children(l, Grid) \ {tabs})
            ELSE Children(l, x)
    /\ TopLevel(m) = tabs
    /\ Reaches(l, m)

LEMMA TopLevelMade ==
    ASSUME NEW l, Forest(l), ~HasTopLevelTabs(l), NEW tabs \in Under(l, Root), l[tabs].type = "TABS",
           l[tabs].children # <<>>, NEW m, m = MakeTopLevel(l, tabs)
    PROVE  \E first : WithTopLevel(l, tabs, first, m)
  <1> DEFINE first == Head(l[tabs].children)
             rest == RemoveFirst(l[Grid].children, tabs)
             K == Children(l, first) \cup (Children(l, Grid) \ {tabs})
             a == WithChildren(l, Root, <<tabs>>)
             b == WithChildren(a, Grid, <<>>)
  <1>1. TopLevel(l) = Grid /\ Children(l, Root) = {Grid} BY TopLevelIs
  <1>2. /\ Root \in DOMAIN l /\ Grid \in DOMAIN l /\ Root # Grid /\ Proper(l)
        /\ tabs \in DOMAIN l /\ tabs # Root /\ tabs # Grid
        /\ l[Root].type = "ROOT" /\ l[Grid].type = "GRID"
    BY ForestWellFormed, Acyclic DEF Root, Grid, Forest, Topped
  <1>3. /\ first \in Children(l, tabs) /\ first \in DOMAIN l /\ l[first].type = "TAB"
        /\ first # Root /\ first # Grid /\ first # tabs
    <2>1. Lists(l[tabs].children, Children(l, tabs)) BY <1>2 DEF Proper
    <2>2. first = l[tabs].children[1] /\ 1 \in 1 .. Len(l[tabs].children)
      <3>1. l[tabs].children \in Seq(Children(l, tabs)) /\ Len(l[tabs].children) \in Nat
        BY <2>1, ListsFacts DEF Lists
      <3>2. Len(l[tabs].children) # 0 BY <3>1, EmptySeq
      <3> QED BY <3>1, <3>2
    <2>3. first \in Children(l, tabs) BY <2>1, <2>2, ListsFacts
    <2> HIDE DEF first
    <2>4. first \in DOMAIN l /\ first # Root BY <1>2, <2>3, ForestWellFormed
    <2>5. MayHave(l, tabs, first) BY <1>2, <2>3, <2>4 DEF Forest, Allowed
    <2>6. first # Grid BY <1>2, <2>5 DEF MayHave
    <2>7. MaxDepth("TABS", l[first].type) >= 0 BY <2>5, <2>6 DEF MayHave
    <2>8. l[first].type = "TAB" BY <2>7, MayHaveTypes
    <2> QED BY <2>3, <2>4, <2>6, <2>8
  <1>4. m = WithChildren(b, first, l[first].children \o rest)
    <2> HIDE DEF first, rest
    <2>1. MakeTopLevel(l, tabs) =
            [l EXCEPT ![Root].children = <<tabs>>, ![Grid].children = <<>>,
                      ![first].children = @ \o rest]
      BY <1>1 DEF MakeTopLevel, first, rest
    <2> QED BY <1>3, <2>1 DEF WithChildren
  <1> HIDE DEF first
  <1>5. Lists(rest, Children(l, Grid) \ {tabs})
    <2>1. Lists(l[Grid].children, Children(l, Grid)) BY <1>2 DEF Proper
    <2>2. CASE tabs \in Children(l, Grid) BY <2>1, <2>2, RemoveFirstLists
    <2>3. CASE tabs \notin Children(l, Grid)
      <3>1. \A i \in 1 .. Len(l[Grid].children) : l[Grid].children[i] # tabs
        BY <2>1, <2>3, ListsFacts
      <3>2. rest = l[Grid].children BY <3>1 DEF RemoveFirst
      <3>3. Children(l, Grid) \ {tabs} = Children(l, Grid) BY <2>3
      <3> QED BY <2>1, <3>2, <3>3
    <2> QED BY <2>2, <2>3
  <1>6. Lists(l[first].children \o rest, K)
    <2>1. Lists(l[first].children, Children(l, first)) BY <1>2, <1>3 DEF Proper
    <2>2. \A x \in DOMAIN l : x \in Children(l, Grid) => x \notin Children(l, first)
      BY <1>2, <1>3 DEF Forest, OneParent
    <2>3. Children(l, Grid) \subseteq DOMAIN l BY <1>2, ForestWellFormed
    <2>4. Children(l, first) \cap (Children(l, Grid) \ {tabs}) = {} BY <2>2, <2>3
    <2> HIDE DEF rest
    <2> QED BY <1>5, <2>1, <2>4, ConcatLists
  <1> HIDE DEF rest, K
  <1>7. WithList(l, Root, {tabs}, a) BY <1>2, SingleLists, SetChildren
  <1>8. a[Root].children = <<tabs>>
    <2> DEFINE s == <<tabs>>
    <2>1. Lists(s, {tabs}) BY SingleLists
    <2> HIDE DEF s
    <2>2. WithChildren(l, Root, s)[Root].children = s BY <1>2, <2>1, SetChildren
    <2> QED BY <2>2 DEF s
  <1> HIDE DEF a
  <1>9. WithList(a, Grid, {}, b)
    <2>1. Proper(a) /\ Grid \in DOMAIN a BY <1>2, <1>7 DEF WithList
    <2> QED BY <2>1, EmptyLists, SetChildren
  <1> HIDE DEF b
  <1>10. WithList(b, first, K, m)
    <2>1. Proper(b) /\ first \in DOMAIN b BY <1>3, <1>7, <1>9 DEF WithList
    <2> QED BY ONLY <1>4, <1>6, <2>1, SetChildren
  <1>11. /\ Proper(m) /\ DOMAIN m = DOMAIN l
         /\ \A x \in DOMAIN l :
             /\ m[x].type = l[x].type
             /\ Children(m, x) = IF x = Root THEN {tabs} ELSE IF x = Grid THEN {}
                                 ELSE IF x = first THEN K ELSE Children(l, x)
    BY <1>2, <1>3, <1>7, <1>9, <1>10 DEF WithList
  <1>12. TopLevel(m) = tabs
    <2>1. m[Root] = a[Root] BY <1>2, <1>3, <1>7, <1>9, <1>10 DEF WithList
    <2> QED BY <1>8, <2>1 DEF TopLevel
  <1>13. Contained(m)
    <2>1. \A x \in DOMAIN l : Children(l, x) \subseteq DOMAIN l \ {Root} BY ForestWellFormed
    <2>2. \A x \in DOMAIN l : Children(m, x) \subseteq DOMAIN l \ {Root}
      BY <1>2, <1>3, <1>11, <2>1 DEF K
    <2> QED BY <1>11, <2>2 DEF Forest, Contained
  <1>14. Reaches(l, m)
    <2>a. WellFormed(m) /\ Root \in DOMAIN m BY <1>2, <1>11, <1>13 DEF Contained, WellFormed
    <2>b. ASSUME NEW S, Root \in S, Closed(m, S)
          PROVE  /\ DOMAIN m \ DOMAIN l \subseteq S
                 /\ \E T : Root \in T /\ Closed(l, T) /\ T \cap DOMAIN m \subseteq S \cup {Grid}
      <3>1. tabs \in S BY <1>2, <1>11, <2>b DEF Closed
      <3>2. Children(m, tabs) = Children(l, tabs) BY <1>2, <1>3, <1>11
      <3>3. first \in S BY <1>2, <1>3, <1>11, <2>b, <3>1, <3>2 DEF Closed
      <3>4. K \subseteq S BY <1>3, <1>11, <2>b, <3>3 DEF Closed
      <3> DEFINE T == S \cup {Grid}
      <3>5. ASSUME NEW x \in DOMAIN l, x \in T PROVE Children(l, x) \subseteq T
        <4>1. CASE x = Root BY <1>1, <4>1
        <4>2. CASE x = Grid BY <3>1, <3>4, <4>2 DEF K
        <4>3. CASE x = first BY <3>4, <4>3 DEF K
        <4>4. CASE x \notin {Root, Grid, first} BY <1>11, <2>b, <3>5, <4>4 DEF Closed
        <4> QED BY <4>1, <4>2, <4>3, <4>4
      <3>6. Closed(l, T) /\ Root \in T BY <2>b, <3>5 DEF Closed
      <3> QED BY <1>11, <3>6
    <2> QED BY <2>a, <2>b, ForestWellFormed, ReachesIntro
  <1>15. WithTopLevel(l, tabs, first, m)
    BY <1>2, <1>3, <1>11, <1>12, <1>13, <1>14 DEF WithTopLevel, K
  <1> QED BY <1>15

\* Tabs from the grid leave a forest.
LEMMA TopLevelFromGrid ==
    ASSUME NEW l, Forest(l), NEW tabs \in DOMAIN l, l[tabs].type = "TABS", tabs \in Children(l, Grid),
           ~HasTopLevelTabs(l), NEW first, NEW m, WithTopLevel(l, tabs, first, m)
    PROVE  Forest(m)
  <1> USE DEF WithTopLevel
  <1>0. Root \in DOMAIN l /\ Grid \in DOMAIN l /\ Root # Grid
        /\ l[Root].type = "ROOT" /\ l[Grid].type = "GRID"
        /\ \A x \in DOMAIN l : Children(l, x) \subseteq DOMAIN l
    BY ForestWellFormed DEF Root, Grid, Forest, Topped
  <1>1. first \in DOMAIN l /\ l[first].type = "TAB"
    <2>1. first \in DOMAIN l BY <1>0
    <2>2. MaxDepth("TABS", l[first].type) >= 0 BY <2>1 DEF Forest, Allowed, MayHave
    <2> QED BY <2>1, <2>2, MayHaveTypes
  <1>2. OneParent(m)
    <2> SUFFICES ASSUME NEW p \in DOMAIN l, NEW q \in DOMAIN l, NEW x \in DOMAIN l,
                        x \in Children(m, p), x \in Children(m, q)
                 PROVE  p = q
      BY DEF OneParent
    <2>1. \A y, z \in DOMAIN l : x \in Children(l, y) /\ x \in Children(l, z) => y = z
      BY DEF Forest, OneParent
    <2>2. CASE x = tabs BY <1>0, <1>1, <2>1, <2>2
    <2>3. CASE x # tabs BY <1>0, <1>1, <2>1, <2>3
    <2> QED BY <2>2, <2>3
  <1>3. Allowed(m)
    <2> SUFFICES ASSUME NEW p \in DOMAIN l, NEW x \in DOMAIN l, x \in Children(m, p)
                 PROVE  MayHave(m, p, x)
      BY DEF Allowed
    <2>1. \A q \in DOMAIN l : x \in Children(l, q) => MayHave(l, q, x) BY DEF Forest, Allowed
    <2>2. CASE p = Root
      <3>1. MaxDepth("ROOT", "TABS") >= 0 BY MayHaveTypes
      <3> QED BY <1>0, <2>2, <3>1 DEF MayHave
    <2>3. CASE p = first /\ x \notin Children(l, first)
      <3>1. x \in Children(l, Grid) BY <1>1, <2>3
      <3>2. x # Grid /\ MaxDepth("GRID", l[x].type) >= 0 BY <1>0, <2>1, <3>1 DEF MayHave
      <3>3. MaxDepth("TAB", l[x].type) >= 0 BY <3>2, GridOrTab
      <3> QED BY <1>1, <2>3, <3>2, <3>3 DEF MayHave
    <2>4. CASE p # Root /\ ~(p = first /\ x \notin Children(l, first))
      <3>1. x \in Children(l, p) BY <2>4
      <3>2. MayHave(l, p, x) BY <2>1, <3>1
      <3> QED BY <3>2 DEF MayHave
    <2> QED BY <2>2, <2>3, <2>4
  <1>4. Topped(m) BY <1>0 DEF Topped
  <1> QED BY <1>2, <1>3, <1>4 DEF Forest

\* Tabs from anywhere else are then under themselves.
LEMMA TopLevelFromElsewhere ==
    ASSUME NEW l, Forest(l), NEW tabs \in Under(l, Root), tabs \notin Children(l, Grid),
           ~HasTopLevelTabs(l), NEW first, NEW m, WithTopLevel(l, tabs, first, m)
    PROVE  tabs \in Under(m, tabs)
  <1> USE DEF WithTopLevel
  <1>0. Root \in DOMAIN l /\ Grid \in DOMAIN l /\ tabs \in DOMAIN l /\ WellFormed(l)
        /\ Children(l, Root) = {Grid} /\ \A x \in DOMAIN l : Children(l, x) \subseteq DOMAIN l
    BY ForestWellFormed, Acyclic, TopLevelIs
  <1>1. WellFormed(m) BY DEF Contained, WellFormed
  <1> DEFINE U == Under(m, tabs)
             S == U \cup {Root, Grid}
  <1>2. Closed(m, U) /\ Children(m, tabs) \subseteq U BY <1>0, <1>1, UnderClosed
  <1> HIDE DEF U
  <1>3. first \in U /\ first \in DOMAIN l
    <2>1. Children(m, tabs) = Children(l, tabs) BY <1>0
    <2> QED BY <1>0, <1>2, <2>1
  <1>4. Children(m, first) \subseteq U BY <1>2, <1>3 DEF Closed
  <1>5. Children(l, first) \cup Children(l, Grid) \subseteq U BY <1>3, <1>4
  <1>6. ASSUME NEW x \in DOMAIN l, x \in S PROVE Children(l, x) \subseteq S
    <2>1. CASE x = Root BY <1>0, <2>1
    <2>2. CASE x = Grid BY <1>5, <2>2
    <2>3. CASE x = first BY <1>5, <2>3
    <2>4. CASE x \notin {Root, Grid, first} BY <1>2, <1>6, <2>4 DEF Closed
    <2> QED BY <2>1, <2>2, <2>3, <2>4
  <1>7. Closed(l, S) /\ Children(l, Root) \subseteq S BY <1>0, <1>6 DEF Closed
  <1> HIDE DEF S
  <1>8. Under(l, Root) \subseteq S BY <1>0, <1>7, UnderClosed
  <1> QED BY <1>8 DEF S, U

\* m is l without tabs on top and their tabs.
Collapsed(l, m) ==
    /\ Forest(m) /\ DOMAIN m \subseteq DOMAIN l
    /\ \A x \in DOMAIN l : x \in DOMAIN m \/ l[x].type \in {"TABS", "TAB"}
    /\ \A x \in DOMAIN m : m[x].type = l[x].type
    /\ Reaches(l, m)

LEMMA TopLevelTabsDeleted ==
    ASSUME NEW l, Forest(l), HasTopLevelTabs(l), NEW m, m = DeleteTopLevelTabs(l)
    PROVE  Collapsed(l, m)
  <1> DEFINE top == TopLevel(l)
             tabs == l[top].children
             D == DOMAIN l \ ({top} \cup Children(l, top))
             kept == [x \in D |-> l[x]]
             ss == [k \in DOMAIN tabs |-> l[tabs[k]].children]
             U == UNION {Children(l, t) : t \in Children(l, top)}
             a == WithChildren(kept, Root, <<Grid>>)
  <1>1. /\ top \in DOMAIN l /\ Children(l, Root) = {top} /\ top # Grid
        /\ l[top].type = "TABS" /\ Children(l, Grid) = {}
    BY TopLevelIs
  <1>2. /\ Root \in DOMAIN l /\ Grid \in DOMAIN l /\ Root # Grid /\ Proper(l) /\ top # Root
        /\ l[Root].type = "ROOT" /\ l[Grid].type = "GRID"
    BY <1>1, ForestWellFormed DEF Root, Grid, Forest, Topped
  <1>3. m = WithChildren(a, Grid, FlattenSeq(ss))
    <2>1. DeleteTopLevelTabs(l) =
            [kept EXCEPT ![Root].children = <<Grid>>, ![Grid].children = FlattenSeq(ss)]
      BY DEF DeleteTopLevelTabs, Children
    <2> HIDE DEF ss, kept
    <2> QED BY <2>1 DEF WithChildren
  <1> HIDE DEF top
  <1>4. Lists(tabs, Children(l, top)) BY <1>1, <1>2 DEF Proper
  <1>5. \A x \in DOMAIN l : Children(l, x) \subseteq DOMAIN l \ {Root} BY ForestWellFormed
  <1>6. \A x, y, z \in DOMAIN l : z \in Children(l, x) /\ z \in Children(l, y) => x = y
    BY DEF Forest, OneParent
  <1>7. \A x, y \in DOMAIN l : y \in Children(l, x) => MayHave(l, x, y)
    BY DEF Forest, Allowed
  <1>8. \A t \in Children(l, top) : t \in DOMAIN l /\ l[t].type = "TAB" /\ t \notin {Root, Grid, top}
    <2> TAKE t \in Children(l, top)
    <2>1. t \in DOMAIN l /\ t # Root BY <1>1, <1>5
    <2>2. t # Grid BY <1>1, <1>2, <1>7, <2>1 DEF MayHave
    <2>3. MaxDepth("TABS", l[t].type) >= 0 BY <1>1, <1>7, <2>1, <2>2 DEF MayHave
    <2>4. l[t].type = "TAB" BY <2>3, MayHaveTypes
    <2> QED BY <1>1, <2>1, <2>2, <2>4
  <1>9. Lists(FlattenSeq(ss), U)
    <2> DEFINE n == Len(tabs)
               X == [k \in 1 .. n |-> Children(l, tabs[k])]
    <2>1. n \in Nat /\ DOMAIN tabs = 1 .. n /\ \A k \in 1 .. n : tabs[k] \in Children(l, top)
      BY <1>4, ListsFacts
    <2>2. ss = [k \in 1 .. n |-> ss[k]] BY <2>1
    <2>3. \A k \in 1 .. n : Lists(ss[k], X[k]) BY <1>2, <1>8, <2>1 DEF Proper
    <2>4. \A j, k \in 1 .. n : j # k => X[j] \cap X[k] = {}
      <3> TAKE j, k \in 1 .. n
      <3> HAVE j # k
      <3>1. tabs[j] # tabs[k] BY <1>4, ListsDef
      <3>2. tabs[j] \in DOMAIN l /\ tabs[k] \in DOMAIN l BY <1>8, <2>1
      <3>3. X[j] \subseteq DOMAIN l BY <1>5, <3>2
      <3> QED BY <1>6, <3>1, <3>2, <3>3
    <2>5. U = UNION {X[k] : k \in 1 .. n}
      <3>1. \A t \in Children(l, top) : \E k \in 1 .. n : tabs[k] = t BY <1>4, ListsDef
      <3> QED BY <2>1, <3>1
    <2> HIDE DEF ss, X, n, U, tabs
    <2> QED BY <2>1, <2>2, <2>3, <2>4, <2>5, FlattenLists
  <1> HIDE DEF ss, tabs
  <1>10. Root \in D /\ Grid \in D /\ D \subseteq DOMAIN l BY <1>1, <1>2, <1>8
  <1>11. /\ DOMAIN kept = D /\ Proper(kept)
         /\ \A x \in D : kept[x] = l[x] /\ Children(kept, x) = Children(l, x)
    <2>1. DOMAIN kept = D /\ \A x \in D : kept[x] = l[x] OBVIOUS
    <2> HIDE DEF kept, D
    <2>2. \A x \in D : Children(kept, x) = Children(l, x) BY <2>1 DEF Children
    <2> QED BY <1>2, <1>10, <2>1, <2>2 DEF Proper
  <1> HIDE DEF kept
  <1>12. WithList(kept, Root, {Grid}, a) BY <1>10, <1>11, SingleLists, SetChildren
  <1> HIDE DEF a
  <1>13. WithList(a, Grid, U, m)
    <2>1. Proper(a) /\ Grid \in DOMAIN a BY <1>10, <1>11, <1>12 DEF WithList
    <2> HIDE DEF U
    <2> QED BY ONLY <1>3, <1>9, <2>1, SetChildren
  <1>14. /\ Proper(m) /\ DOMAIN m = D
         /\ \A x \in D : /\ m[x].type = l[x].type
                         /\ Children(m, x) = IF x = Root THEN {Grid} ELSE IF x = Grid THEN U
                                             ELSE Children(l, x)
    <2> HIDE DEF U, D
    <2> QED BY <1>2, <1>10, <1>11, <1>12, <1>13 DEF WithList
  <1>15. \A y \in U : y \in D /\ y \notin {Root, Grid} /\ MaxDepth("GRID", l[y].type) >= 0
    <2> TAKE y \in U
    <2>1. PICK t \in Children(l, top) : y \in Children(l, t) OBVIOUS
    <2>2. t \in DOMAIN l /\ l[t].type = "TAB" /\ t # Root /\ t # top BY <1>8
    <2>3. y \in DOMAIN l /\ y # Root /\ MayHave(l, t, y) BY <1>5, <1>7, <2>1, <2>2
    <2>4. y # Grid /\ MaxDepth("TAB", l[y].type) >= 0 BY <2>2, <2>3 DEF MayHave
    <2>5. y # top BY <1>1, <1>2, <1>6, <2>1, <2>2
    <2>6. y \notin Children(l, top) BY <1>1, <1>6, <2>1, <2>2, <2>3
    <2>7. MaxDepth("GRID", l[y].type) >= 0 BY <2>4, GridOrTab
    <2> QED BY <2>3, <2>4, <2>5, <2>6, <2>7
  <1>16. ASSUME NEW x \in D, x \notin {Root, Grid}, NEW y \in Children(l, x)
         PROVE  y \in D /\ y \notin {Root, Grid}
    <2>1. x \in DOMAIN l /\ x # top /\ x \notin Children(l, top) BY <1>10
    <2>2. y \in DOMAIN l /\ y # Root BY <1>5, <2>1, <1>16
    <2>3. y # Grid BY <1>7, <1>16, <2>1, <2>2 DEF MayHave
    <2>4. y # top BY <1>1, <1>2, <1>6, <1>16, <2>1
    <2>5. y \notin Children(l, top) BY <1>1, <1>6, <1>16, <2>1, <2>2
    <2> QED BY <2>2, <2>3, <2>4, <2>5
  <1>17. \A y \in U : \A x \in D : y \notin Children(l, x)
    <2> TAKE y \in U
    <2> TAKE x \in D
    <2>1. PICK t \in Children(l, top) : y \in Children(l, t) OBVIOUS
    <2>2. t \in DOMAIN l /\ t # x /\ y \in DOMAIN l /\ x \in DOMAIN l BY <1>8, <1>15
    <2> QED BY <1>6, <2>1, <2>2
  <1>18. ASSUME NEW S, Root \in S, Closed(m, S)
         PROVE  /\ DOMAIN m \ DOMAIN l \subseteq S
                 /\ \E T : Root \in T /\ Closed(l, T) /\ T \cap DOMAIN m \subseteq S \cup {Grid}
    <2>1. Grid \in S BY <1>10, <1>14, <1>18 DEF Closed
    <2>2. U \subseteq S BY <1>2, <1>10, <1>14, <1>18, <2>1 DEF Closed
    <2> DEFINE T == S \cup {top} \cup Children(l, top)
    <2>3. ASSUME NEW x \in DOMAIN l, x \in T PROVE Children(l, x) \subseteq T
      <3>1. CASE x \in {Root, Grid, top} BY <1>1, <3>1
      <3>2. CASE x \in Children(l, top) BY <2>2, <3>2
      <3>3. CASE x \in D \ {Root, Grid} BY <1>14, <1>18, <2>3, <3>3 DEF Closed
      <3> QED BY <3>1, <3>2, <3>3
    <2>4. Closed(l, T) /\ Root \in T BY <1>18, <2>3 DEF Closed
    <2>5. T \cap D \subseteq S /\ D \subseteq DOMAIN l OBVIOUS
    <2> HIDE DEF T, D
    <2> QED BY <1>14, <2>4, <2>5
  <1>19. \A x \in DOMAIN l : x \in D \/ l[x].type \in {"TABS", "TAB"} BY <1>1, <1>8
  <1>20. IsFiniteSet(D) BY <1>10, FS_Subset DEF Forest, Contained
  <1> HIDE DEF D, U
  <1>21. Contained(m)
    <2>1. \A x \in D : Children(m, x) \subseteq D \ {Root} BY <1>2, <1>10, <1>14, <1>15, <1>16
    <2>2. DOMAIN l \subseteq {Root, Grid} \cup Ids /\ \A x \in DOMAIN l : l[x].type \in Types
      BY DEF Forest, Contained
    <2> QED BY <1>10, <1>14, <1>20, <2>1, <2>2 DEF Contained
  <1>22. OneParent(m)
    <2> SUFFICES ASSUME NEW p \in D, NEW q \in D, NEW x \in D,
                        x \in Children(m, p), x \in Children(m, q)
                 PROVE  p = q
      BY <1>14 DEF OneParent
    <2>1. CASE x = Grid BY <1>2, <1>14, <1>15, <1>16, <2>1
    <2>2. CASE x \in U BY <1>2, <1>14, <1>17, <2>2, <1>15
    <2>3. CASE x # Grid /\ x \notin U BY <1>2, <1>6, <1>10, <1>14, <2>3
    <2> QED BY <2>1, <2>2, <2>3
  <1>23. Allowed(m)
    <2> SUFFICES ASSUME NEW p \in D, NEW x \in D, x \in Children(m, p)
                 PROVE  MayHave(m, p, x)
      BY <1>14 DEF Allowed
    <2>1. CASE p = Root BY <1>2, <1>14, <2>1 DEF MayHave
    <2>2. CASE p = Grid BY <1>2, <1>14, <1>15, <2>2 DEF MayHave
    <2>3. CASE p \notin {Root, Grid}
      <3>1. x \in Children(l, p) /\ MayHave(l, p, x) BY <1>7, <1>10, <1>14, <2>3
      <3> QED BY <1>14, <1>16, <2>3, <3>1 DEF MayHave
    <2> QED BY <2>1, <2>2, <2>3
  <1>24. Topped(m) BY <1>2, <1>10, <1>14 DEF Topped
  <1>25. Forest(m) BY <1>10, <1>14, <1>21, <1>22, <1>23, <1>24 DEF Forest
  <1>26. Reaches(l, m) BY <1>18, <1>25, ForestWellFormed, ReachesIntro
  <1> QED BY <1>10, <1>14, <1>19, <1>25, <1>26 DEF Collapsed

-----------------------------------------------------------------------------
\* A connected forest is a tree, and the layouts of Begin are connected forests.

LEMMA ForestIsTree ==
    ASSUME NEW l, Forest(l), Connected(l)
    PROVE  IsTree(l) /\ DOMAIN l = Shown(l) \cup {Grid}
  <1>1. Root \in DOMAIN l /\ Grid \in DOMAIN l /\ WellFormed(l) BY ForestWellFormed
  <1>2. Under(l, Root) \subseteq DOMAIN l /\ Closed(l, Under(l, Root))
        /\ Children(l, Root) \subseteq Under(l, Root)
    BY <1>1, UnderClosed
  <1>3. Closed(l, Shown(l)) BY <1>2 DEF Closed, Shown
  <1>4. DOMAIN l = Shown(l) \cup {Grid} BY <1>1, <1>2, <1>3 DEF Connected, Shown
  <1>5. Root \notin Under(l, Root) BY <1>1, RootIsTop
  <1>6. \A c \in DOMAIN l : Children(l, c) \subseteq DOMAIN l /\ IsInjective(l[c].children)
    BY <1>1 DEF WellFormed, Forest, Proper, Lists
  <1>7. \A c \in Under(l, Root) : \E p \in DOMAIN l : Parents(l, c) = {p} /\ MayHave(l, p, c)
    <2> TAKE c \in Under(l, Root)
    <2> DEFINE p == findParentId(l, c)
    <2>1. p \in DOMAIN l /\ c \in Children(l, p) /\ Parents(l, c) = {p} BY ShownParent
    <2>2. MayHave(l, p, c) BY <1>2, <2>1 DEF Forest, Allowed
    <2> QED BY <2>1, <2>2
  <1>8. l[Root].type = "ROOT" /\ l[Grid].type = "GRID" BY DEF Forest, Topped
  <1>9. \E top \in DOMAIN l :
           /\ l[Root].children = <<top>>
           /\ top = Grid \/ (l[top].type = "TABS" /\ l[Grid].children = <<>>)
    <2>1. Lists(l[Grid].children, Children(l, Grid)) BY <1>1 DEF Forest, Proper
    <2>2. Children(l, Grid) = {} => l[Grid].children = <<>> BY <2>1, EmptyList
    <2> QED BY <2>2, TopLevelIs
  <1>10. DOMAIN l = {Root, Grid} \cup Under(l, Root) BY <1>4 DEF Shown
  <1>11. IsTree(l) BY <1>5, <1>6, <1>7, <1>8, <1>9, <1>10 DEF IsTree
  <1> QED BY <1>4, <1>11

\* A sequence of anything is a sequence of its elements.
LEMMA SeqOfElements == ASSUME NEW S, NEW s \in Seq(S) PROVE s \in Seq(ToSet(s))
  <1>1. Len(s) \in Nat /\ s \in [1 .. Len(s) -> S] /\ DOMAIN s = 1 .. Len(s)
    BY LenProperties
  <1>2. s \in [1 .. Len(s) -> ToSet(s)] BY <1>1 DEF ToSet
  <1>3. [1 .. Len(s) -> ToSet(s)] \in {[1 .. n -> ToSet(s)] : n \in Nat} BY <1>1
  <1> QED BY <1>2, <1>3, SeqDef

LEMMA TreeIsForest ==
    ASSUME NEW l, IsTree(l), IsFiniteSet(DOMAIN l), DOMAIN l \subseteq {Root, Grid} \cup Ids,
           \A x \in DOMAIN l : l[x] \in Component
    PROVE  Forest(l) /\ Connected(l)
  <1>0. Root \in DOMAIN l /\ Grid \in DOMAIN l BY DEF IsTree, Shown
  <1>1. WellFormed(l) BY DEF IsTree, WellFormed
  <1>2. Under(l, Root) \subseteq DOMAIN l /\ Closed(l, Under(l, Root))
        /\ Children(l, Root) \subseteq Under(l, Root)
        /\ \A S : Children(l, Root) \subseteq S /\ Closed(l, S) => Under(l, Root) \subseteq S
    BY <1>0, <1>1, UnderClosed
  <1>3. PICK top \in DOMAIN l : /\ l[Root].children = <<top>>
                                /\ top = Grid \/ (l[top].type = "TABS" /\ l[Grid].children = <<>>)
    BY DEF IsTree
  <1>4. Children(l, Root) = {top}
    <2>1. Lists(<<top>>, {top}) BY SingleLists
    <2> QED BY <1>3, <2>1 DEF Children, Lists
  <1>5. top = Grid \/ (l[top].type = "TABS" /\ Children(l, Grid) = {})
    <2>1. ToSet(<<>>) = {} BY EmptyLists DEF Lists
    <2> QED BY <1>3, <2>1 DEF Children
  <1>6. ASSUME NEW p \in DOMAIN l, NEW c \in Children(l, p) PROVE c \in Under(l, Root)
    <2>1. CASE p = Root BY <1>2, <1>6, <2>1
    <2>2. CASE p \in Under(l, Root) BY <1>2, <1>6, <2>2 DEF Closed
    <2>3. CASE p \notin {Root} \cup Under(l, Root)
      <3>1. p = Grid /\ top # Grid BY <1>2, <1>4, <2>3 DEF IsTree, Shown
      <3> QED BY <1>5, <1>6, <3>1
    <2> QED BY <2>1, <2>2, <2>3
  <1>7. \A c \in Under(l, Root) : \E p \in DOMAIN l : Parents(l, c) = {p} /\ MayHave(l, p, c)
    BY DEF IsTree
  <1>8. OneParent(l)
    <2> SUFFICES ASSUME NEW p \in DOMAIN l, NEW q \in DOMAIN l, NEW c \in DOMAIN l,
                        c \in Children(l, p), c \in Children(l, q)
                 PROVE  p = q
      BY DEF OneParent
    <2>1. PICK r \in DOMAIN l : Parents(l, c) = {r} BY <1>6, <1>7
    <2> QED BY <2>1 DEF Parents
  <1>9. Allowed(l)
    <2> SUFFICES ASSUME NEW p \in DOMAIN l, NEW c \in DOMAIN l, c \in Children(l, p)
                 PROVE  MayHave(l, p, c)
      BY DEF Allowed
    <2>1. PICK r \in DOMAIN l : Parents(l, c) = {r} /\ MayHave(l, r, c) BY <1>6, <1>7
    <2> QED BY <2>1 DEF Parents
  <1>10. \A x \in DOMAIN l : /\ l[x] = [type |-> l[x].type, children |-> l[x].children]
                             /\ l[x].type \in Types /\ l[x].children \in Seq(Ids \cup {Grid})
    BY DEF Component
  <1>11. Proper(l)
    <2> SUFFICES ASSUME NEW x \in DOMAIN l PROVE Lists(l[x].children, Children(l, x))
      BY <1>10 DEF Proper
    <2>1. l[x].children \in Seq(ToSet(l[x].children)) BY <1>10, SeqOfElements
    <2>2. IsInjective(l[x].children) BY DEF IsTree
    <2> QED BY <2>1, <2>2 DEF Children, Lists
  <1>12. Contained(l)
    <2>1. Root \notin Under(l, Root) BY DEF IsTree
    <2>2. \A x \in DOMAIN l : Children(l, x) \subseteq DOMAIN l \ {Root} BY <1>2, <1>6, <2>1
    <2> QED BY <1>0, <1>10, <2>2 DEF Contained
  <1>13. Topped(l) BY <1>4, <1>5 DEF IsTree, Topped
  <1>14. Connected(l)
    <2> SUFFICES ASSUME NEW S, Root \in S, Closed(l, S) PROVE DOMAIN l \subseteq S \cup {Grid}
      BY DEF Connected
    <2>1. Children(l, Root) \subseteq S BY <1>0 DEF Closed
    <2>2. Under(l, Root) \subseteq S BY <1>2, <2>1
    <2> QED BY <2>2 DEF IsTree, Shown
  <1> QED BY <1>8, <1>9, <1>11, <1>12, <1>13, <1>14 DEF Forest

LEMMA ForestIsLayout ==
    ASSUME NEW l, Proper(l), Contained(l)
    PROVE  DOMAIN l \subseteq {Root, Grid} \cup Ids /\ \A x \in DOMAIN l : l[x] \in Component
  <1> SUFFICES ASSUME NEW x \in DOMAIN l PROVE l[x] \in Component BY DEF Contained
  <1>1. l[x] = [type |-> l[x].type, children |-> l[x].children] /\ l[x].type \in Types
    BY DEF Proper, Contained
  <1>2. Children(l, x) \subseteq Ids \cup {Grid} BY DEF Contained
  <1>3. Lists(l[x].children, Children(l, x)) BY DEF Proper
  <1>4. l[x].children \in Seq(Ids \cup {Grid}) BY <1>2, <1>3, ListsFacts
  <1> QED BY <1>1, <1>4 DEF Component

-----------------------------------------------------------------------------
\* Part two: the history.

IsSeq(s) == s \in Seq(ToSet(s))

LEMMA IsSeqIntro == ASSUME NEW S, NEW s \in Seq(S) PROVE IsSeq(s)
  BY SeqOfElements DEF IsSeq

\* The layout that undoing everything leads to.
Oldest(h) == IF h.past = <<>> THEN h.present ELSE h.past[1]

IsHistory(h) ==
    /\ h = [past |-> h.past, present |-> h.present, future |-> h.future, latest |-> h.latest]
    /\ IsSeq(h.past) /\ h.latest \in BOOLEAN

\* g follows h by recording layouts.
Extends(h, g) ==
    /\ IsHistory(g)
    /\ h.latest => /\ g.latest
                   /\ Len(h.past) > UNDO_LIMIT => Len(g.past) > UNDO_LIMIT
                   /\ Len(g.past) <= UNDO_LIMIT => Oldest(g) = Oldest(h)

\* Append puts its element last, and first only in an empty sequence.
LEMMA AppendSeq ==
    ASSUME NEW s, IsSeq(s), NEW x
    PROVE  /\ IsSeq(Append(s, x)) /\ Append(s, x) # <<>> /\ Len(Append(s, x)) = Len(s) + 1
           /\ Append(s, x)[1] = IF s = <<>> THEN x ELSE s[1]
  <1> DEFINE S == ToSet(s) \cup {x}
  <1>1. s \in Seq(S) /\ x \in S
    BY SeqMonotonic DEF IsSeq
  <1>2. Append(s, x) \in Seq(S) /\ Append(s, x) # <<>> /\ Len(Append(s, x)) = Len(s) + 1
        /\ (\A i \in 1 .. Len(s) : Append(s, x)[i] = s[i]) /\ Append(s, x)[Len(s) + 1] = x
    BY <1>1, AppendProperties
  <1>3. s = <<>> => Len(s) = 0 BY EmptySeq
  <1>4. s # <<>> => Len(s) \in Nat \ {0} BY <1>1, EmptySeq
  <1>5. s # <<>> => 1 \in 1 .. Len(s) BY <1>4
  <1>6. Append(s, x)[1] = IF s = <<>> THEN x ELSE s[1] BY <1>2, <1>3, <1>5
  <1> QED BY <1>2, <1>6, IsSeqIntro

\* A recorded layout drops the oldest only when the history is over the limit.
LEMMA RecordedExtends ==
    ASSUME UNDO_LIMIT \in Nat, NEW h, IsHistory(h), NEW l
    PROVE  Extends(h, Recorded(h, l)) /\ Recorded(h, l).present = l
  <1> DEFINE kept == IF Len(h.past) + 1 >= UNDO_LIMIT + 2 THEN Tail(h.past) ELSE h.past
             g == Recorded(h, l)
  <1>1. Len(h.past) \in Nat BY LenProperties DEF IsHistory, IsSeq
  <1>2. IsSeq(kept) /\ Len(kept) = IF Len(h.past) + 1 >= UNDO_LIMIT + 2 THEN Len(h.past) - 1 ELSE Len(h.past)
    <2>1. CASE Len(h.past) + 1 >= UNDO_LIMIT + 2
      <3>1. h.past \in Seq(ToSet(h.past)) /\ h.past # <<>>
        BY <1>1, <2>1 DEF IsHistory, IsSeq
      <3>2. Tail(h.past) \in Seq(ToSet(h.past)) /\ Len(Tail(h.past)) = Len(h.past) - 1
        BY <3>1, HeadTailProperties
      <3> QED BY <2>1, <3>2, IsSeqIntro
    <2>2. CASE ~(Len(h.past) + 1 >= UNDO_LIMIT + 2)
      BY <2>2 DEF IsHistory
    <2> QED BY <2>1, <2>2
  <1>3. g.past = (IF h.latest THEN Append(kept, h.present) ELSE kept) /\ g.present = l
        /\ g = [past |-> g.past, present |-> g.present, future |-> g.future, latest |-> g.latest]
        /\ g.latest = TRUE
    BY DEF Recorded
  <1> HIDE DEF kept, g
  <1>4. CASE ~h.latest
    <2>1. g.past = kept BY <1>3, <1>4
    <2> QED BY <1>2, <1>3, <1>4, <2>1 DEF Extends, IsHistory, g
  <1>5. CASE h.latest
    <2>1. g.past = Append(kept, h.present) BY <1>3, <1>5
    <2>2. IsSeq(g.past) /\ g.past # <<>> /\ Len(g.past) = Len(kept) + 1
          /\ g.past[1] = IF kept = <<>> THEN h.present ELSE kept[1]
      BY <1>2, <2>1, AppendSeq
    <2>3. Len(h.past) > UNDO_LIMIT => Len(g.past) > UNDO_LIMIT
      BY <1>1, <1>2, <2>2
    <2>4. ASSUME Len(g.past) <= UNDO_LIMIT PROVE Oldest(g) = Oldest(h)
      <3>1. kept = h.past BY <1>1, <1>2, <2>2, <2>4 DEF kept
      <3> QED BY <2>2, <3>1 DEF Oldest
    <2>5. IsHistory(g) BY <1>3, <2>2 DEF IsHistory
    <2> QED BY <1>3, <1>5, <2>3, <2>4, <2>5 DEF Extends, g
  <1> QED BY <1>4, <1>5

\* So does the deletion of an emptied source after a move.
LEMMA EmptiedExtends ==
    ASSUME UNDO_LIMIT \in Nat, NEW h, NEW g, IsHistory(h), Extends(h, g), NEW src
    PROVE  Extends(h, Emptied(g, src))
  <1> DEFINE f == Emptied(g, src)
  <1>1. IsHistory(g) BY DEF Extends
  <1>2. f = g \/ \E l : f = Recorded(g, l) BY DEF Emptied
  <1>3. f = g \/ Extends(g, f) BY <1>1, <1>2, RecordedExtends
  <1>4. Len(g.past) \in Nat /\ Len(h.past) \in Nat BY <1>1, LenProperties DEF IsHistory, IsSeq
  <1>5. CASE f = g BY <1>5
  <1>6. CASE Extends(g, f)
    <2>1. IsHistory(f) /\ Len(f.past) \in Nat BY <1>6, LenProperties DEF Extends, IsHistory, IsSeq
    <2>2. g.latest /\ Len(f.past) <= UNDO_LIMIT => Len(g.past) <= UNDO_LIMIT
      BY <1>4, <1>6, <2>1 DEF Extends
    <2> QED BY <1>6, <2>1, <2>2, <1>4 DEF Extends
  <1> QED BY <1>3, <1>5, <1>6
-----------------------------------------------------------------------------
Clean == mishaps \cap {"css", "overtaken", "lost", "undone"} = {}

\* While no request is stored but unanswered, the oldest layout is the server's, unless the
\* history started with another, and whatever else differs from the server's is flagged.
InStep ==
    /\ saved.settings \subseteq settings
    /\ "exceeded" \notin flags /\ "adrift" \notin mishaps => Oldest(layout) = saved.layout
    /\ Showing # saved => "unsaved" \in flags
    /\ "colour" \in settings \ saved.settings => "recoloured" \in flags

PutSound ==
    /\ put = Nothing \/ put = Foreign \/
          /\ put = [stage |-> put.stage, content |-> put.content]
          /\ put.stage \in {"sent", "stored"}
          /\ put.content = Content(put.content.layout, put.content.settings)
          /\ put.content.settings \subseteq settings
    /\ put.stage = "stored" => saved = put.content

Inv ==
    /\ IsHistory(layout)
    /\ settings \subseteq Settings
    /\ saved = Content(saved.layout, saved.settings)
    /\ PutSound
    /\ "adrift" \notin mishaps => layout.latest /\ (layout.past # <<>> => "unsaved" \in flags)
    /\ Clean /\ put.stage # "stored" => InStep

\* An edit that is dispatched.
LEMMA DispatchedStep ==
    ASSUME UNDO_LIMIT \in Nat, Inv, NEW h, Extends(layout, h), Dispatched(h),
           mishaps' \cap Excused = mishaps \cap Excused
    PROVE  Inv'
  <1>1. layout' = h /\ UNCHANGED <<settings, put, saved>> /\ IsHistory(h)
        /\ "unsaved" \in flags' /\ flags \subseteq flags'
    BY DEF Dispatched, Extends
  <1>2. "exceeded" \notin flags' => "exceeded" \notin flags /\ Len(h.past) <= UNDO_LIMIT
    <2>1. Len(h.past) \in Nat BY <1>1, LenProperties DEF IsHistory, IsSeq
    <2> QED BY <2>1 DEF Dispatched, Noticed
  <1>3. PutSound' BY <1>1 DEF Inv, PutSound
  <1>4. ("adrift" \in mishaps' <=> "adrift" \in mishaps) /\ (Clean' <=> Clean) BY DEF Clean, Excused
  <1>5. "adrift" \notin mishaps => layout.latest /\ h.latest BY DEF Inv, Extends
  <1>6. InStep => InStep'
    BY <1>1, <1>2, <1>4, <1>5 DEF InStep, Extends, Showing
  <1> QED BY <1>1, <1>3, <1>4, <1>5, <1>6 DEF Inv

\* An undo leaves the oldest layout what it was.
LEMMA UndoneOldest ==
    ASSUME NEW h, IsHistory(h)
    PROVE  IsHistory(Undone(h)) /\ Oldest(Undone(h)) = Oldest(h) /\ (h.latest => Undone(h).latest)
  <1> DEFINE g == Undone(h)
             s == h.past
  <1>1. CASE s = <<>> BY <1>1 DEF Undone
  <1>2. CASE s # <<>>
    <2>0. g = [past |-> Front(s), present |-> Last(s), future |-> <<h.present>> \o h.future, latest |-> TRUE]
      BY <1>2 DEF Undone
    <2> HIDE DEF g
    <2>1. s \in Seq(ToSet(s)) BY DEF IsHistory, IsSeq
    <2>2. Len(s) \in Nat \ {0} BY <1>2, <2>1, EmptySeq
    <2>3. \A i \in 1 .. Len(s) - 1 : s[i] \in ToSet(s) BY <2>1, <2>2, ElementOfSeq
    <2>4. Front(s) \in Seq(ToSet(s)) /\ Len(Front(s)) = (IF 1 <= Len(s) - 1 THEN Len(s) - 1 ELSE 0)
          /\ \A i \in 1 .. Len(s) - 1 : Front(s)[i] = s[i]
      <3>1. 1 \in Int /\ Len(s) - 1 \in Int /\ Len(s) - 1 - 1 + 1 = Len(s) - 1 BY <2>2
      <3>2. \A i \in 1 .. Len(s) - 1 : 1 + i - 1 = i OBVIOUS
      <3> QED BY <2>2, <2>3, <3>1, <3>2, SubSeqProperties DEF Front
    <2>5. IsHistory(g) /\ g.latest BY <2>0, <2>4, IsSeqIntro DEF IsHistory
    <2>6. CASE Len(s) = 1
      <3>1. Front(s) = <<>> BY <2>4, <2>6, EmptySeq
      <3> QED BY <1>2, <2>0, <2>5, <2>6, <3>1 DEF Oldest, Last, g
    <2>7. CASE Len(s) # 1
      <3>0. \A n \in Nat \ {0} : n # 1 => n - 1 \in Nat /\ 1 <= n - 1 /\ n - 1 # 0 /\ 1 \in 1 .. n - 1
        OBVIOUS
      <3>1. 1 \in 1 .. Len(s) - 1 /\ Len(Front(s)) # 0
        <4> HIDE DEF s
        <4> QED BY <2>2, <2>4, <2>7, <3>0
      <3>2. Front(s) # <<>> /\ Front(s)[1] = s[1] BY <2>4, <3>1
      <3> QED BY <1>2, <2>0, <2>5, <3>2 DEF Oldest, g
    <2> QED BY <2>6, <2>7
  <1> QED BY <1>1, <1>2

LEMMA UndoStep == ASSUME Inv, Undo PROVE Inv'
  <1> DEFINE h == Undone(layout)
             clears == h.past = <<>> /\ flags \cap {"exceeded", "recoloured"} = {}
  <1>1. layout' = h /\ UNCHANGED <<settings, put, saved>>
        /\ flags' = (IF clears THEN flags \ {"unsaved"} ELSE flags)
        /\ mishaps' = mishaps \cup Unseen
    BY DEF Undo
  <1>2. IsHistory(h) /\ Oldest(h) = Oldest(layout) /\ (layout.latest => h.latest)
    BY UndoneOldest DEF Inv
  <1>3. layout.past = <<>> => h = layout BY DEF Undone
  <1> HIDE DEF h
  <1>4. PutSound' BY <1>1 DEF Inv, PutSound
  <1>5. /\ "adrift" \in mishaps' <=> "adrift" \in mishaps
        /\ Clean' => Clean
        /\ "unsaved" \notin flags' /\ Clean' =>
             /\ "css" \notin settings \ saved.settings
             /\ "adrift" \in mishaps => layout'.present = saved.layout
    BY <1>1 DEF Clean, Unseen
  <1>6. ASSUME Clean', InStep, "unsaved" \notin flags' PROVE Showing' = saved'
    <2>1. "colour" \notin settings \ saved.settings
      <3>1. CASE clears BY <1>6, <3>1 DEF InStep
      <3>2. CASE ~clears
        <4>1. Showing = saved BY <1>1, <1>6, <3>2 DEF InStep
        <4> QED BY <4>1 DEF Showing, Content
      <3> QED BY <3>1, <3>2
    <2>2. settings = saved.settings BY <1>5, <1>6, <2>1 DEF InStep, Inv, Settings
    <2>3. h.present = saved.layout
      <3>1. CASE "adrift" \in mishaps BY <1>1, <1>5, <1>6, <3>1
      <3>2. CASE "adrift" \notin mishaps /\ clears
        <4>1. Oldest(h) = saved.layout BY <1>2, <1>6, <3>2 DEF InStep
        <4> QED BY <3>2, <4>1 DEF Oldest
      <3>3. CASE "adrift" \notin mishaps /\ ~clears
        <4>1. Showing = saved /\ layout.past = <<>> BY <1>1, <1>6, <3>3 DEF InStep, Inv
        <4>2. h = layout BY <1>3, <4>1
        <4> QED BY <4>1, <4>2 DEF Showing, Content
      <3> QED BY <3>1, <3>2, <3>3
    <2> QED BY <1>1, <2>2, <2>3 DEF Showing, Inv, Content
  <1>7. ASSUME Clean', InStep PROVE InStep'
    <2>1. "exceeded" \in flags' <=> "exceeded" \in flags BY <1>1
    <2>2. "recoloured" \in flags' <=> "recoloured" \in flags BY <1>1
    <2> QED BY <1>1, <1>2, <1>5, <1>6, <1>7, <2>1, <2>2 DEF InStep
  <1>8. "adrift" \notin mishaps => h.latest /\ (h.past # <<>> => "unsaved" \in flags')
    <2>1. h.past # <<>> => layout.past # <<>> /\ ~clears BY <1>3
    <2> QED BY <1>1, <1>2, <2>1 DEF Inv
  <1> QED BY <1>1, <1>2, <1>4, <1>5, <1>7, <1>8 DEF Inv

LEMMA SavingStep == ASSUME Inv, Save \/ Store \/ Answer \/ Fail \/ Edit PROVE Inv'
  <1> USE DEF Inv, PutSound, Nothing, Foreign
  <1>1. CASE Save
    <2>1. put' = [stage |-> "sent", content |-> Showing]
          /\ UNCHANGED <<layout, settings, flags, saved, edits, mishaps>> /\ put = Nothing
      BY <1>1 DEF Save
    <2>2. Showing = Content(layout.present, settings) BY DEF Showing
    <2>3. PutSound' BY <2>1, <2>2 DEF Content
    <2>4. Clean' = Clean /\ InStep' = InStep BY <2>1 DEF Clean, InStep, Showing, Oldest
    <2>5. put.stage # "stored" BY <2>1
    <2> QED BY <2>1, <2>3, <2>4, <2>5
  <1>2. CASE Store
    <2>1. put.stage = "sent" /\ put' = [put EXCEPT !.stage = "stored"] /\ saved' = put.content
          /\ UNCHANGED <<layout, settings, flags, edits, mishaps>>
      BY <1>2 DEF Store
    <2>2. put = [stage |-> "sent", content |-> put.content]
          /\ put.content = Content(put.content.layout, put.content.settings)
      BY <2>1
    <2>3. put' = [stage |-> "stored", content |-> put.content] BY <2>1, <2>2
    <2>4. PutSound' BY <2>1, <2>2, <2>3
    <2> QED BY <2>1, <2>2, <2>3, <2>4
  <1>3. CASE Answer
    <2>1. put' = Nothing /\ flags' = {}
          /\ layout' = [layout EXCEPT !.past = <<>>, !.future = <<>>, !.latest = FALSE]
          /\ UNCHANGED <<settings, saved>>
          /\ mishaps' = {"adrift"} \cup
                 IF Showing = saved THEN mishaps \ Excused ELSE mishaps \cup {"overtaken"}
      BY <1>3 DEF Answer
    <2>2. layout' = [past |-> <<>>, present |-> layout.present, future |-> <<>>, latest |-> FALSE]
      BY <2>1 DEF IsHistory
    <2>3. IsHistory(layout') BY <2>2, EmptySeq, IsSeqIntro DEF IsHistory
    <2>4. "adrift" \in mishaps' BY <2>1
    <2>5. ASSUME Clean' PROVE InStep'
      <3>1. saved = Showing BY <2>1, <2>5 DEF Clean
      <3>2. saved.settings = settings BY <3>1 DEF Showing, Content
      <3>3. Showing' = Showing BY <2>1, <2>2 DEF Showing
      <3> QED BY <2>1, <2>4, <3>1, <3>2, <3>3 DEF InStep
    <2>6. PutSound' BY <2>1
    <2> QED BY <2>1, <2>3, <2>4, <2>5, <2>6
  <1>4. CASE Fail
    <2>1. put' = Nothing /\ UNCHANGED <<layout, settings, flags, saved>>
          /\ mishaps' = mishaps \cup (IF put.stage = "stored" THEN {"lost"} ELSE {})
      BY <1>4 DEF Fail
    <2>2. Clean' => Clean /\ put.stage # "stored" BY <2>1 DEF Clean
    <2>3. "adrift" \in mishaps' <=> "adrift" \in mishaps BY <2>1
    <2>4. InStep' = InStep BY <2>1, <2>3 DEF InStep, Showing, Oldest
    <2>5. PutSound' BY <2>1
    <2> QED BY <2>1, <2>2, <2>3, <2>4, <2>5
  <1>5. CASE Edit
    <2>1. flags' = flags \cup {"editing"} \cup Noticed(layout)
          /\ UNCHANGED <<layout, settings, put, saved, mishaps>>
      BY <1>5 DEF Edit
    <2>2. InStep => InStep' BY <2>1 DEF InStep, Showing
    <2> QED BY <2>1, <2>2 DEF Clean
  <1> QED BY <1>1, <1>2, <1>3, <1>4, <1>5

\* Another dashboard shows what is saved of it; the history does not start with that.
LEMMA OpenStep == ASSUME UNDO_LIMIT \in Nat, Inv, NEW l, Open(l) PROVE Inv'
  <1>1. /\ layout' = Recorded(layout, l) /\ saved' = Content(l, {}) /\ settings' = {}
        /\ put' \in {Nothing, Foreign} /\ "adrift" \in mishaps'
    BY DEF Open
  <1>2. IsHistory(layout') /\ layout'.present = l BY <1>1, RecordedExtends DEF Inv, Extends
  <1>3. saved' = [layout |-> l, settings |-> {}] BY <1>1 DEF Content
  <1>4. Showing' = saved' BY <1>1, <1>2 DEF Showing
  <1>5. PutSound' BY <1>1 DEF PutSound, Nothing, Foreign
  <1>6. InStep' BY <1>1, <1>3, <1>4 DEF InStep
  <1>7. saved' = Content(saved'.layout, saved'.settings) BY <1>3 DEF Content
  <1> QED BY <1>1, <1>2, <1>5, <1>6, <1>7 DEF Inv

LEMMA EditStepKeeps == ASSUME UNDO_LIMIT \in Nat, Inv, EditStep PROVE Inv'
  <1>0. IsHistory(layout) BY DEF Inv
  <1>m. \A S : S \subseteq {"inside", "elsewhere"} =>
            (mishaps \cup S) \cap Excused = mishaps \cap Excused
    BY DEF Excused
  <1>d. ASSUME NEW l, Dispatched(Recorded(layout, l)),
               mishaps' = mishaps \/ \E S : S \subseteq {"inside", "elsewhere"} /\ mishaps' = mishaps \cup S
        PROVE  Inv'
    <2>1. mishaps' \cap Excused = mishaps \cap Excused
      BY <1>m, <1>d
    <2> QED BY <1>0, <1>d, <2>1, RecordedExtends, DispatchedStep
  <1>1. ASSUME NEW type, NEW dest, NEW i, DropNew(type, dest, i) PROVE Inv'
    BY <1>1, <1>d DEF DropNew
  <1>2. ASSUME NEW c, NEW dest, NEW i, DropOld(c, dest, i) PROVE Inv'
    <2>1. PICK src, l : Dispatched(Emptied(Recorded(layout, l), src))
      BY <1>2 DEF DropOld
    <2>2. mishaps' = mishaps \/ mishaps' = mishaps \cup {"inside"} BY <1>2 DEF DropOld
    <2>3. mishaps' \cap Excused = mishaps \cap Excused
      BY <2>2 DEF Excused
    <2>4. Extends(layout, Emptied(Recorded(layout, l), src))
      BY <1>0, RecordedExtends, EmptiedExtends
    <2> QED BY <2>1, <2>3, <2>4, DispatchedStep
  <1>3. ASSUME NEW c, DropOnRoot(c) PROVE Inv'
    <2>1. mishaps' = mishaps \/ mishaps' = mishaps \cup {"elsewhere"} BY <1>3 DEF DropOnRoot
    <2>2. \E S : S \subseteq {"inside", "elsewhere"} /\ mishaps' = mishaps \cup S
      <3>1. mishaps = mishaps \cup {} OBVIOUS
      <3> QED BY <2>1, <3>1
    <2> QED BY <1>3, <1>d, <2>2 DEF DropOnRoot
  <1>4. ASSUME NEW c, Delete(c) PROVE Inv' BY <1>4, <1>d DEF Delete
  <1>5. ASSUME NEW tabs, AddTab(tabs) PROVE Inv' BY <1>5, <1>d DEF AddTab
  <1>6. CASE CollapseTabs BY <1>6, <1>d DEF CollapseTabs
  <1>7. ASSUME NEW s \in Settings, Change(s) PROVE Inv'
    <2>1. settings' = settings \cup {s} /\ UNCHANGED <<layout, put, saved, mishaps>>
          /\ flags' = flags \cup {"unsaved"} \cup (IF s = "colour" THEN {"recoloured"} ELSE {})
      BY <1>7 DEF Change
    <2>2. PutSound' BY <2>1 DEF Inv, PutSound
    <2>3. InStep => InStep' BY <2>1 DEF InStep
    <2>4. settings' \subseteq Settings BY <2>1 DEF Inv
    <2> QED BY <2>1, <2>2, <2>3, <2>4 DEF Inv, Clean
  <1> QED BY <1>1, <1>2, <1>3, <1>4, <1>5, <1>6, <1>7 DEF EditStep

LEMMA RedoStep == ASSUME UNDO_LIMIT \in Nat, Inv, Redo PROVE Inv'
  <1> DEFINE h == IF layout.future = <<>> THEN layout
                  ELSE [past |-> Append(layout.past, layout.present),
                        present |-> Head(layout.future), future |-> Tail(layout.future), latest |-> TRUE]
  <1>1. Dispatched(h) /\ mishaps' = mishaps BY DEF Redo, l0
  <1>2. IsSeq(layout.past) /\ Len(layout.past) \in Nat /\ IsHistory(layout)
    BY LenProperties DEF Inv, IsHistory, IsSeq
  <1>3. CASE layout.future = <<>>
    <2>1. Extends(layout, h) BY <1>2, <1>3 DEF Extends
    <2> QED BY <1>1, <2>1, DispatchedStep
  <1>4. CASE layout.future # <<>>
    <2> DEFINE p == Append(layout.past, layout.present)
    <2>1. IsSeq(p) /\ p # <<>> /\ Len(p) = Len(layout.past) + 1
          /\ p[1] = IF layout.past = <<>> THEN layout.present ELSE layout.past[1]
      BY <1>2, AppendSeq
    <2>2. h.past = p /\ h.latest = TRUE
          /\ h = [past |-> h.past, present |-> h.present, future |-> h.future, latest |-> h.latest]
      BY <1>4
    <2>3. Extends(layout, h)
      <3> HIDE DEF h, p
      <3>1. IsHistory(h) BY <2>1, <2>2 DEF IsHistory
      <3>2. Len(layout.past) > UNDO_LIMIT => Len(h.past) > UNDO_LIMIT BY <1>2, <2>1, <2>2
      <3>3. Oldest(h) = Oldest(layout) BY <2>1, <2>2 DEF Oldest
      <3> QED BY <2>2, <3>1, <3>2, <3>3 DEF Extends
    <2> QED BY <1>1, <2>3, DispatchedStep
  <1> QED BY <1>3, <1>4
-----------------------------------------------------------------------------
\* While nothing is being saved, a dashboard that differs from the server's has its
\* Save button enabled (hasUnsavedChanges), whatever the edits do to the layout, for
\* every UNDO_LIMIT: undoLayoutAction may clear the flag when nothing is left to undo,
\* which is wrong of css and of a history that did not start with what is saved.
THEOREM DashboardUnsavedShown == Spec => []UnsavedShown
  <1>1. Init => Inv
    <2> SUFFICES ASSUME Init PROVE Inv OBVIOUS
    <2>1. PICK l \in Begin : layout = [past |-> <<>>, present |-> l, future |-> <<>>, latest |-> TRUE]
                             /\ saved = Content(l, {})
      BY DEF Init
    <2>2. IsHistory(layout) BY <2>1, EmptySeq, IsSeqIntro DEF IsHistory
    <2>3. saved.layout = l /\ saved.settings = {} /\ saved = Content(saved.layout, saved.settings)
      BY <2>1 DEF Content
    <2>4. Showing = saved /\ settings = {} /\ put = Nothing BY <2>1 DEF Init, Showing
    <2>5. PutSound BY <2>4 DEF PutSound, Nothing, Foreign
    <2>6. InStep BY <2>1, <2>3, <2>4 DEF InStep, Oldest
    <2> QED BY <2>1, <2>2, <2>3, <2>4, <2>5, <2>6 DEF Inv
  <1>2. Inv /\ [Next]_vars => Inv'
    <2> SUFFICES ASSUME Inv, [Next]_vars PROVE Inv' OBVIOUS
    <2>0. UNDO_LIMIT \in Nat BY EditorAssumption
    <2>1. CASE EditStep BY <2>0, <2>1, EditStepKeeps
    <2>2. CASE Undo BY <2>2, UndoStep
    <2>3. CASE Redo BY <2>0, <2>3, RedoStep
    <2>4. CASE Save \/ Store \/ Answer \/ Fail \/ Edit BY <2>4, SavingStep
    <2>6. CASE \E l \in Begin : Open(l) BY <2>0, <2>6, OpenStep
    <2>5. CASE UNCHANGED vars
      BY <2>5 DEF vars, Inv, PutSound, Clean, InStep, Showing
    <2> QED BY <2>1, <2>2, <2>3, <2>4, <2>5, <2>6 DEF Next
  <1>3. Inv => UnsavedShown
    BY DEF Inv, InStep, UnsavedShown, Clean, Nothing
  <1> QED BY <1>1, <1>2, <1>3, PTL DEF Spec

-----------------------------------------------------------------------------
\* Every layout of the history is a forest, connected unless a component was dropped
\* inside itself.

Fit(l, m) == Forest(l) /\ ("inside" \notin m => Connected(l))

FitHistory(h, m) ==
    /\ IsHistory(h) /\ IsSeq(h.future)
    /\ Len(h.past) + Len(h.future) <= UNDO_LIMIT + 1
    /\ \A l \in ToSet(h.past) \cup ToSet(h.future) : Fit(l, m)

\* Which elements the parts and extensions of a sequence have.
LEMMA ElementsIn == ASSUME NEW S, NEW s \in Seq(S) PROVE ToSet(s) \subseteq S
  <1>1. DOMAIN s = 1 .. Len(s) /\ \A i \in 1 .. Len(s) : s[i] \in S BY LenProperties, ElementOfSeq
  <1> QED BY <1>1 DEF ToSet

LEMMA SeqParts ==
    ASSUME NEW s, IsSeq(s), NEW x
    PROVE  /\ Len(s) \in Nat /\ (s = <<>> <=> Len(s) = 0)
           /\ IsSeq(Append(s, x)) /\ Len(Append(s, x)) = Len(s) + 1
           /\ ToSet(Append(s, x)) \subseteq ToSet(s) \cup {x}
           /\ IsSeq(<<x>> \o s) /\ Len(<<x>> \o s) = Len(s) + 1
           /\ ToSet(<<x>> \o s) \subseteq ToSet(s) \cup {x}
           /\ s # <<>> =>
                /\ IsSeq(Tail(s)) /\ Len(Tail(s)) = Len(s) - 1 /\ ToSet(Tail(s)) \subseteq ToSet(s)
                /\ IsSeq(Front(s)) /\ Len(Front(s)) = Len(s) - 1 /\ ToSet(Front(s)) \subseteq ToSet(s)
                /\ Head(s) \in ToSet(s) /\ Last(s) \in ToSet(s)
  <1> DEFINE E == ToSet(s)
             S == E \cup {x}
  <1>1. s \in Seq(E) BY DEF IsSeq
  <1> HIDE DEF E
  <1>2. s \in Seq(S) /\ x \in S BY <1>1, SeqMonotonic
  <1>3. Len(s) \in Nat /\ (s = <<>> <=> Len(s) = 0) BY <1>1, EmptySeq, LenProperties
  <1>4. Append(s, x) \in Seq(S) /\ Len(Append(s, x)) = Len(s) + 1 BY <1>2, AppendProperties
  <1>5. <<x>> \o s \in Seq(S) /\ Len(<<x>> \o s) = Len(s) + 1
    <2>1. <<x>> \in Seq(S) /\ Len(<<x>>) = 1 BY <1>2
    <2>2. <<x>> \o s \in Seq(S) /\ Len(<<x>> \o s) = 1 + Len(s) BY <1>2, <2>1, ConcatProperties
    <2> QED BY <1>3, <2>2
  <1>6. ASSUME s # <<>>
        PROVE  /\ Tail(s) \in Seq(E) /\ Len(Tail(s)) = Len(s) - 1
               /\ Front(s) \in Seq(E) /\ Len(Front(s)) = Len(s) - 1
               /\ Head(s) \in E /\ Last(s) \in E
    <2>1. Len(s) \in Nat \ {0} BY <1>3, <1>6
    <2>2. Tail(s) \in Seq(E) /\ Len(Tail(s)) = Len(s) - 1 /\ Head(s) \in E
      BY <1>1, <1>6, HeadTailProperties
    <2>3. \A i \in 1 .. Len(s) : s[i] \in E BY <1>1, ElementOfSeq
    <2>4. 1 \in Int /\ Len(s) - 1 \in Int /\ 1 .. Len(s) - 1 \subseteq 1 .. Len(s)
          /\ Len(s) \in 1 .. Len(s)
      BY <2>1
    <2>5. Front(s) \in Seq(E) /\ Len(Front(s)) = IF 1 <= Len(s) - 1 THEN Len(s) - 1 - 1 + 1 ELSE 0
      BY <2>3, <2>4, SubSeqProperties DEF Front
    <2>6. Last(s) \in E BY <2>3, <2>4 DEF Last
    <2>7. \A n \in Nat \ {0} : n - 1 = IF 1 <= n - 1 THEN n - 1 - 1 + 1 ELSE 0 OBVIOUS
    <2>8. Len(s) - 1 = IF 1 <= Len(s) - 1 THEN Len(s) - 1 - 1 + 1 ELSE 0 BY <2>1, <2>7
    <2>9. Len(Front(s)) = Len(s) - 1 BY ONLY <2>5, <2>8
    <2>10. Front(s) \in Seq(E) BY <2>5
    <2> HIDE DEF Front, Last
    <2> QED BY <2>2, <2>6, <2>9, <2>10
  <1>7. \A r : r \in Seq(S) => IsSeq(r) /\ ToSet(r) \subseteq S BY IsSeqIntro, ElementsIn
  <1>8. \A r : r \in Seq(E) => IsSeq(r) /\ ToSet(r) \subseteq E BY IsSeqIntro, ElementsIn
  <1> HIDE DEF S
  <1>9. /\ IsSeq(Append(s, x)) /\ ToSet(Append(s, x)) \subseteq S
        /\ IsSeq(<<x>> \o s) /\ ToSet(<<x>> \o s) \subseteq S
    BY <1>4, <1>5, <1>7
  <1>10. s # <<>> => /\ IsSeq(Tail(s)) /\ ToSet(Tail(s)) \subseteq E
                     /\ IsSeq(Front(s)) /\ ToSet(Front(s)) \subseteq E
    BY <1>6, <1>8
  <1> QED BY <1>3, <1>4, <1>5, <1>6, <1>9, <1>10 DEF S, E

LEMMA FitIgnores ==
    ASSUME NEW l, NEW m, NEW n, Fit(l, m), "inside" \in m => "inside" \in n
    PROVE  Fit(l, n)
  BY DEF Fit

LEMMA FitHistoryIgnores ==
    ASSUME NEW h, NEW m, NEW n, FitHistory(h, m), "inside" \in m => "inside" \in n
    PROVE  FitHistory(h, n)
  <1>1. \A l : Fit(l, m) => Fit(l, n) BY FitIgnores
  <1> QED BY <1>1 DEF FitHistory

LEMMA NoElements == ToSet(<<>>) = {} /\ IsSeq(<<>>) /\ Len(<<>>) = 0
  <1>1. <<>> \in Seq({}) /\ Len(<<>>) = 0 BY EmptySeq
  <1>2. DOMAIN <<>> = {} BY <1>1, LenProperties
  <1> QED BY <1>1, <1>2, IsSeqIntro DEF ToSet

LEMMA RecordedFits ==
    ASSUME UNDO_LIMIT \in Nat, NEW h, NEW m, FitHistory(h, m), Fit(h.present, m), NEW l
    PROVE  FitHistory(Recorded(h, l), m) /\ Recorded(h, l).present = l
  <1> DEFINE full == Len(h.past) + 1 >= UNDO_LIMIT + 2
             kept == IF full THEN Tail(h.past) ELSE h.past
             g == Recorded(h, l)
  <1>1. IsSeq(h.past) /\ IsSeq(h.future) /\ Len(h.past) \in Nat /\ Len(h.future) \in Nat
        /\ Len(h.past) <= UNDO_LIMIT + 1
    BY SeqParts DEF FitHistory, IsHistory
  <1>2. IsSeq(kept) /\ Len(kept) = (IF full THEN Len(h.past) - 1 ELSE Len(h.past))
        /\ ToSet(kept) \subseteq ToSet(h.past)
    <2>1. CASE full
      <3>1. h.past # <<>> BY <1>1, <2>1, SeqParts
      <3> QED BY <1>1, <2>1, <3>1, SeqParts
    <2>2. CASE ~full BY <1>1, <2>2
    <2> QED BY <2>1, <2>2
  <1>3. g = [past |-> IF h.latest THEN Append(kept, h.present) ELSE kept,
             present |-> l, future |-> <<>>, latest |-> TRUE]
    BY DEF Recorded
  <1>4. full <=> Len(h.past) + 1 >= UNDO_LIMIT + 2 OBVIOUS
  <1> HIDE DEF kept, g, full
  <1>5. /\ g.past = (IF h.latest THEN Append(kept, h.present) ELSE kept) /\ g.present = l /\ g.future = <<>>
        /\ g = [past |-> g.past, present |-> g.present, future |-> g.future, latest |-> g.latest]
        /\ g.latest = TRUE
    BY <1>3
  <1>6. IsSeq(g.past) /\ Len(g.past) \in {Len(kept), Len(kept) + 1} /\ ToSet(g.past) \subseteq ToSet(kept) \cup {h.present}
    <2> DEFINE q == Append(kept, h.present)
    <2>1. IsSeq(q) /\ Len(q) = Len(kept) + 1 /\ ToSet(q) \subseteq ToSet(kept) \cup {h.present}
      BY <1>2, SeqParts
    <2>2. CASE h.latest BY <1>5, <2>1, <2>2
    <2>3. CASE ~h.latest BY <1>2, <1>5, <2>3
    <2> QED BY <2>2, <2>3
  <1>7. Len(g.past) <= UNDO_LIMIT + 1 BY <1>1, <1>2, <1>4, <1>6
  <1>8. Len(g.past) \in Nat BY <1>6, SeqParts
  <1>9. Len(g.past) + Len(g.future) <= UNDO_LIMIT + 1 BY <1>5, <1>7, <1>8, NoElements
  <1>10. \A x \in ToSet(g.past) \cup ToSet(g.future) : Fit(x, m)
    BY <1>2, <1>5, <1>6, NoElements DEF FitHistory
  <1>11. IsHistory(g) /\ IsSeq(g.future) BY <1>5, <1>6, NoElements DEF IsHistory
  <1> QED BY <1>5, <1>9, <1>10, <1>11 DEF FitHistory, g

\* What redoing makes of a history.
Redone(h) ==
    IF h.future = <<>> THEN h
    ELSE [past |-> Append(h.past, h.present), present |-> Head(h.future), future |-> Tail(h.future), latest |-> TRUE]

LEMMA UndoneFits ==
    ASSUME UNDO_LIMIT \in Nat, NEW h, NEW m, FitHistory(h, m), Fit(h.present, m)
    PROVE  FitHistory(Undone(h), m) /\ Fit(Undone(h).present, m)
  <1> DEFINE g == Undone(h)
  <1>1. IsSeq(h.past) /\ IsSeq(h.future) /\ Len(h.past) \in Nat /\ Len(h.future) \in Nat
        /\ Len(h.past) + Len(h.future) <= UNDO_LIMIT + 1
    BY SeqParts DEF FitHistory, IsHistory
  <1>2. CASE h.past = <<>> BY <1>2 DEF Undone
  <1>3. CASE h.past # <<>>
    <2>1. g = [past |-> Front(h.past), present |-> Last(h.past),
               future |-> <<h.present>> \o h.future, latest |-> TRUE]
      BY <1>3 DEF Undone
    <2> HIDE DEF g
    <2>2. /\ IsSeq(g.past) /\ Len(g.past) = Len(h.past) - 1 /\ ToSet(g.past) \subseteq ToSet(h.past)
          /\ g.present \in ToSet(h.past)
      BY <1>1, <1>3, <2>1, SeqParts
    <2>3. /\ IsSeq(g.future) /\ Len(g.future) = Len(h.future) + 1
          /\ ToSet(g.future) \subseteq ToSet(h.future) \cup {h.present}
      BY <1>1, <2>1, SeqParts
    <2>4. Len(g.past) + Len(g.future) <= UNDO_LIMIT + 1
      <3>1. \A a, b \in Nat : a - 1 + (b + 1) = a + b /\ a + 1 + (b - 1) = a + b OBVIOUS
      <3> QED BY <1>1, <2>2, <2>3, <3>1
    <2>5. IsHistory(g) BY <2>1, <2>2 DEF IsHistory
    <2>6. Fit(g.present, m) /\ \A x \in ToSet(g.past) \cup ToSet(g.future) : Fit(x, m)
      BY <2>2, <2>3 DEF FitHistory
    <2> QED BY <2>3, <2>4, <2>5, <2>6 DEF FitHistory, g
  <1> QED BY <1>2, <1>3

LEMMA RedoneFits ==
    ASSUME UNDO_LIMIT \in Nat, NEW h, NEW m, FitHistory(h, m), Fit(h.present, m)
    PROVE  FitHistory(Redone(h), m) /\ Fit(Redone(h).present, m)
  <1> DEFINE g == Redone(h)
  <1>1. IsSeq(h.past) /\ IsSeq(h.future) /\ Len(h.past) \in Nat /\ Len(h.future) \in Nat
        /\ Len(h.past) + Len(h.future) <= UNDO_LIMIT + 1
    BY SeqParts DEF FitHistory, IsHistory
  <1>2. CASE h.future = <<>> BY <1>2 DEF Redone
  <1>3. CASE h.future # <<>>
    <2>1. g = [past |-> Append(h.past, h.present), present |-> Head(h.future),
               future |-> Tail(h.future), latest |-> TRUE]
      BY <1>3 DEF Redone
    <2> HIDE DEF g
    <2>2. /\ IsSeq(g.past) /\ Len(g.past) = Len(h.past) + 1
          /\ ToSet(g.past) \subseteq ToSet(h.past) \cup {h.present}
      BY <1>1, <2>1, SeqParts
    <2>3. /\ IsSeq(g.future) /\ Len(g.future) = Len(h.future) - 1
          /\ ToSet(g.future) \subseteq ToSet(h.future) /\ g.present \in ToSet(h.future)
      BY <1>1, <1>3, <2>1, SeqParts
    <2>4. Len(g.past) + Len(g.future) <= UNDO_LIMIT + 1
      <3>1. \A a, b \in Nat : a - 1 + (b + 1) = a + b /\ a + 1 + (b - 1) = a + b OBVIOUS
      <3> QED BY <1>1, <2>2, <2>3, <3>1
    <2>5. IsHistory(g) BY <2>1, <2>2 DEF IsHistory
    <2>6. Fit(g.present, m) /\ \A x \in ToSet(g.past) \cup ToSet(g.future) : Fit(x, m)
      BY <2>2, <2>3 DEF FitHistory
    <2> QED BY <2>3, <2>4, <2>5, <2>6 DEF FitHistory, g
  <1> QED BY <1>2, <1>3

-----------------------------------------------------------------------------
\* The invariant behind TypeOK, LayoutIsTree and ChartsKept.  Once tabs from inside a row
\* or tab are on top the page no longer renders, and its layout no longer changes.
TreeInv ==
    /\ FitHistory(layout, mishaps)
    /\ "elsewhere" \notin mishaps => Fit(l0, mishaps)
    /\ "elsewhere" \in mishaps => IsLayout(l0) /\ ~Renders
    /\ IsLayout(saved.layout)
    /\ settings \subseteq Settings /\ flags \subseteq Flags
    /\ put \in {Nothing, Foreign} \/
          /\ put = [stage |-> put.stage, content |-> put.content]
          /\ put.stage \in {"sent", "stored"} /\ IsLayout(put.content.layout)
    /\ edits \in 0 .. MaxEdits
    /\ mishaps \subseteq Mishaps

\* m still has the charts of l.
KeepsCharts(l, m) ==
    \A x \in DOMAIN l : l[x].type \in {"CHART", "HEADER"} => x \in DOMAIN m /\ m[x].type = l[x].type

LEMMA ChartsStay ==
    ASSUME NEW l, Forest(l), NEW m, Reaches(l, m), KeepsCharts(l, m)
    PROVE  Charts(l) \subseteq Charts(m)
  <1> SUFFICES ASSUME NEW c \in Shown(l), l[c].type \in {"CHART", "HEADER"}
               PROVE  c \in Shown(m) /\ m[c].type \in {"CHART", "HEADER"}
    BY DEF Charts
  <1>1. c \in DOMAIN l BY ForestWellFormed, UnderClosed DEF Shown
  <1>2. c # Grid BY DEF Forest, Topped
  <1>3. c \in DOMAIN m /\ m[c].type = l[c].type BY <1>1 DEF KeepsCharts
  <1>4. Shown(l) \cap DOMAIN m \subseteq Shown(m) \cup {Grid} BY DEF Reaches
  <1> QED BY <1>2, <1>3, <1>4

\* What each edit does: the invariant is kept and so are the charts.
EditKeeps == TreeInv' /\ Charts(l0) \subseteq Charts(l0')

LEMMA DispatchedTree ==
    ASSUME TreeInv, NEW h, Dispatched(h), edits' \in 0 .. MaxEdits,
           mishaps' \subseteq Mishaps,
           FitHistory(h, mishaps'),
           "elsewhere" \notin mishaps' => Fit(h.present, mishaps'),
           "elsewhere" \in mishaps' =>
               IsLayout(h.present) /\ TopLevel(h.present) \in Under(h.present, TopLevel(h.present))
    PROVE  TreeInv'
  <1>1. layout' = h /\ UNCHANGED <<settings, put, saved>>
        /\ flags' = flags \cup {"unsaved"} \cup Noticed(h)
    BY DEF Dispatched
  <1>2. l0' = h.present BY <1>1 DEF l0
  <1>3. flags' \subseteq Flags BY <1>1 DEF TreeInv, Noticed, Flags
  <1>4. Renders' <=> TopLevel(h.present) \notin Under(h.present, TopLevel(h.present))
    BY <1>2 DEF Renders
  <1> QED BY <1>1, <1>2, <1>3, <1>4 DEF TreeInv

LEMMA EditableFits ==
    ASSUME TreeInv, Editing
    PROVE  "elsewhere" \notin mishaps /\ Fit(l0, mishaps) /\ Forest(l0) /\ FitHistory(layout, mishaps)
  BY DEF TreeInv, Editing, Fit

\* An edit that leaves a forest, with the charts.
LEMMA RecordedTree ==
    ASSUME UNDO_LIMIT \in Nat, TreeInv, Editing, edits' \in 0 .. MaxEdits, mishaps' = mishaps,
           NEW m, Dispatched(Recorded(layout, m)), Forest(m), Reaches(l0, m), KeepsCharts(l0, m)
    PROVE  EditKeeps
  <1> DEFINE h == Recorded(layout, m)
  <1>1. /\ "elsewhere" \notin mishaps /\ Fit(l0, mishaps) /\ FitHistory(layout, mishaps)
        /\ Forest(l0)
    BY EditableFits
  <1>2. FitHistory(h, mishaps) /\ h.present = m BY <1>1, RecordedFits DEF l0
  <1>3. Fit(m, mishaps) BY <1>1 DEF Fit, Reaches
  <1>4. layout' = h BY DEF Dispatched
  <1>5. Dispatched(h) OBVIOUS
  <1> HIDE DEF h
  <1>6. mishaps' \subseteq Mishaps BY DEF TreeInv
  <1>7. TreeInv' BY <1>1, <1>2, <1>3, <1>5, <1>6, DispatchedTree
  <1>8. l0' = m BY <1>2, <1>4 DEF l0
  <1>9. Charts(l0) \subseteq Charts(m) BY <1>1, ChartsStay
  <1> QED BY <1>7, <1>8, <1>9 DEF EditKeeps

\* The ids of new components are new.
LEMMA FreshIds ==
    ASSUME Spare, NEW id, NEW other, id = FreshId, other = OtherId
    PROVE  /\ id \in Ids /\ other \in Ids /\ id # other
           /\ id \notin DOMAIN l0 /\ other \notin DOMAIN l0
  <1> DEFINE K == Known
  <1>1. PICK a \in Ids \ K, b \in Ids \ K : a # b BY DEF Spare
  <1>2. id \in Ids \ K BY <1>1 DEF FreshId
  <1>3. a \in Ids \ (K \cup {id}) \/ b \in Ids \ (K \cup {id}) BY <1>1
  <1>4. other \in Ids \ (K \cup {id}) BY <1>3 DEF OtherId
  <1>5. DOMAIN l0 \subseteq K BY DEF Known
  <1> HIDE DEF K
  <1> QED BY <1>2, <1>4, <1>5

\* What is shown, and what can be dragged.
LEMMA ShownFacts ==
    ASSUME NEW l, Forest(l), NEW x \in Shown(l)
    PROVE  x \in DOMAIN l /\ (x = Grid => Children(l, Root) = {Grid})
           /\ Lists(l[x].children, Children(l, x)) /\ Len(l[x].children) \in Nat
  <1>1. x \in DOMAIN l BY ForestWellFormed, UnderClosed DEF Shown
  <1>2. Lists(l[x].children, Children(l, x)) BY <1>1 DEF Forest, Proper
  <1> QED BY <1>1, <1>2, ShownGrid, ListsFacts

LEMMA MovableFacts ==
    ASSUME Forest(l0), NEW c \in Movable, NEW p, p = findParentId(l0, c)
    PROVE  /\ c \in Under(l0, Root) /\ c \in DOMAIN l0 \ {Root, Grid} /\ c \notin Under(l0, c)
           /\ p \in DOMAIN l0 \ {Root} /\ p \in Under(l0, Root) /\ c \in Children(l0, p)
           /\ \A q \in DOMAIN l0 : c \in Children(l0, q) => q = p
           /\ c # p
  <1> DEFINE l == l0
  <1> HIDE DEF l
  <1>1. c \in Under(l0, Root) /\ c \notin {Root, Grid, TopLevel(l0)} BY DEF Movable, Shown
  <1>2. c \in DOMAIN l0 /\ c \notin Under(l0, c) BY <1>1, Acyclic
  <1>3. p \in DOMAIN l0 /\ p \in Shown(l0) /\ c \in Children(l0, p)
        /\ \A q \in DOMAIN l0 : c \in Children(l0, q) => q = p
    BY <1>1, ShownParent
  <1>4. p # Root BY <1>1, <1>3, TopLevelIs
  <1>5. Children(l0, c) \subseteq Under(l0, c) BY <1>2, ForestWellFormed, UnderClosed
  <1> QED BY <1>1, <1>2, <1>3, <1>4, <1>5 DEF Shown

-----------------------------------------------------------------------------
\* The edits, one by one.

LEMMA DropNewKeeps ==
    ASSUME UNDO_LIMIT \in Nat, TreeInv, Editing, edits' \in 0 .. MaxEdits,
           NEW dest \in Shown(l0), NEW i \in 1 .. Len(l0[dest].children) + 1, NEW type \in Types,
           DropNew(type, dest, i)
    PROVE  EditKeeps
  <1>1. Forest(l0) BY EditableFits
  <1> DEFINE id == FreshId
             other == OtherId
  <1>2. Dispatched(Recorded(layout,
            IF dest = Root THEN CreateTopLevelTabs(l0, id, other)
            ELSE CreateComponent(l0, type, dest, i, id, other)))
    BY DEF DropNew
  <1>3. id \in Ids /\ other \in Ids /\ id # other /\ id \notin DOMAIN l0 /\ other \notin DOMAIN l0
    BY FreshIds DEF DropNew
  <1> HIDE DEF id, other
  <1>4. MaxDepth(l0[dest].type, type) >= 0 /\ (dest = Root => ~HasTopLevelTabs(l0)) /\ mishaps' = mishaps
    BY DEF DropNew, isValidChild
  <1>5. ASSUME NEW m, Grown(l0, m), Dispatched(Recorded(layout, m)) PROVE EditKeeps
    <2>1. Forest(m) /\ Reaches(l0, m) /\ KeepsCharts(l0, m)
      BY <1>5 DEF Grown, KeepsCharts
    <2> QED BY <1>4, <1>5, <2>1, RecordedTree
  <1>6. CASE dest = Root
    <2>1. Grown(l0, CreateTopLevelTabs(l0, id, other))
      BY <1>1, <1>3, <1>4, <1>6, TopLevelTabsCreated
    <2> QED BY <1>2, <1>5, <1>6, <2>1
  <1>7. CASE dest # Root
    <2>1. dest \in DOMAIN l0 \ {Root} /\ (dest = Grid => Children(l0, Root) = {Grid})
      BY <1>1, <1>7, ShownFacts
    <2>2. Grown(l0, CreateComponent(l0, type, dest, i, id, other))
      BY <1>1, <1>3, <1>4, <2>1, ComponentCreated
    <2> QED BY <1>2, <1>5, <1>7, <2>2
  <1> QED BY <1>6, <1>7

LEMMA AddTabKeeps ==
    ASSUME UNDO_LIMIT \in Nat, TreeInv, Editing, edits' \in 0 .. MaxEdits,
           NEW tabs \in Shown(l0), AddTab(tabs)
    PROVE  EditKeeps
  <1>1. Forest(l0) BY EditableFits
  <1> DEFINE i == Len(l0[tabs].children) + 1
  <1> DEFINE id == FreshId
             other == OtherId
  <1>2. Dispatched(Recorded(layout, CreateComponent(l0, "TAB", tabs, i, id, other)))
    BY DEF AddTab
  <1>3. id \in Ids /\ other \in Ids /\ id # other /\ id \notin DOMAIN l0 /\ other \notin DOMAIN l0
    BY FreshIds DEF AddTab
  <1> HIDE DEF id, other
  <1>4. l0[tabs].type = "TABS" /\ mishaps' = mishaps /\ "TAB" \in Types BY DEF AddTab, Types
  <1>5. i \in 1 .. Len(l0[tabs].children) + 1 BY <1>1, ShownFacts
  <1>6. MaxDepth(l0[tabs].type, "TAB") >= 0 BY <1>4, MayHaveTypes
  <1>7. tabs \in DOMAIN l0 \ {Root} /\ (tabs = Grid => Children(l0, Root) = {Grid})
    <2>1. l0[Root].type = "ROOT" BY <1>1 DEF Forest, Topped
    <2> QED BY <1>1, <1>4, <2>1, ShownFacts
  <1> DEFINE m == CreateComponent(l0, "TAB", tabs, i, id, other)
  <1> HIDE DEF i
  <1>8. Grown(l0, m) BY <1>1, <1>3, <1>4, <1>5, <1>6, <1>7, ComponentCreated
  <1>9. Dispatched(Recorded(layout, m)) BY <1>2
  <1> HIDE DEF m
  <1>10. Forest(m) /\ Reaches(l0, m) /\ KeepsCharts(l0, m)
    BY <1>8 DEF Grown, KeepsCharts
  <1> QED BY <1>4, <1>9, <1>10, RecordedTree

\* Deleting takes charts away: only the invariant is kept.
LEMMA DeleteKeeps ==
    ASSUME UNDO_LIMIT \in Nat, TreeInv, Editing, edits' \in 0 .. MaxEdits, NEW c \in Movable, Delete(c)
    PROVE  TreeInv'
  <1> DEFINE p == findParentId(l0, c)
             m == DeleteComponent(l0, c, p)
             h == Recorded(layout, m)
  <1>1. "elsewhere" \notin mishaps /\ Fit(l0, mishaps) /\ Forest(l0) /\ FitHistory(layout, mishaps)
    BY EditableFits
  <1>2. Dispatched(h) /\ mishaps' = mishaps BY DEF Delete
  <1> HIDE DEF p
  <1>3. /\ c \in DOMAIN l0 \ {Root, Grid} /\ c \notin Under(l0, c)
        /\ p \in DOMAIN l0 \ {Root} /\ p \in Under(l0, Root) /\ c \in Children(l0, p)
    BY <1>1, MovableFacts DEF p
  <1>4. \E q \in DOMAIN l0 : p \in Children(l0, q) BY <1>1, <1>3, ShownParent
  <1>5. Deleted(l0, c, p, m) BY <1>1, <1>3, <1>4, ComponentDeleted
  <1> HIDE DEF m
  <1>6. FitHistory(h, mishaps) /\ h.present = m BY <1>1, RecordedFits DEF l0
  <1>7. Fit(m, mishaps) BY <1>1, <1>5 DEF Deleted, Fit, Reaches
  <1> HIDE DEF h
  <1>8. mishaps' \subseteq Mishaps BY <1>2 DEF TreeInv, Mishaps
  <1> QED BY <1>1, <1>2, <1>6, <1>7, <1>8, DispatchedTree

LEMMA CollapseTabsKeeps ==
    ASSUME UNDO_LIMIT \in Nat, TreeInv, Editing, edits' \in 0 .. MaxEdits, CollapseTabs
    PROVE  EditKeeps
  <1> DEFINE m == DeleteTopLevelTabs(l0)
  <1>1. Forest(l0) /\ HasTopLevelTabs(l0) /\ Dispatched(Recorded(layout, m)) /\ mishaps' = mishaps
    BY EditableFits DEF CollapseTabs
  <1>2. Collapsed(l0, m) BY <1>1, TopLevelTabsDeleted
  <1> HIDE DEF m
  <1>3. Forest(m) /\ Reaches(l0, m) /\ KeepsCharts(l0, m)
    BY <1>2 DEF Collapsed, KeepsCharts
  <1> QED BY <1>1, <1>3, RecordedTree

LEMMA DropOnRootKeeps ==
    ASSUME UNDO_LIMIT \in Nat, TreeInv, Editing, edits' \in 0 .. MaxEdits,
           NEW c \in Movable, DropOnRoot(c)
    PROVE  EditKeeps
  <1> DEFINE m == MakeTopLevel(l0, c)
             h == Recorded(layout, m)
             p == findParentId(l0, c)
  <1>1. "elsewhere" \notin mishaps /\ Fit(l0, mishaps) /\ Forest(l0) /\ FitHistory(layout, mishaps)
    BY EditableFits
  <1>2. /\ l0[c].type = "TABS" /\ ~HasTopLevelTabs(l0) /\ l0[c].children # <<>> /\ Dispatched(h)
        /\ mishaps' = mishaps \cup (IF p = Grid THEN {} ELSE {"elsewhere"})
    BY DEF DropOnRoot
  <1> HIDE DEF p
  <1>3. /\ c \in Under(l0, Root) /\ c \in DOMAIN l0 /\ p \in DOMAIN l0 /\ c \in Children(l0, p)
        /\ \A q \in DOMAIN l0 : c \in Children(l0, q) => q = p
    BY <1>1, MovableFacts DEF p
  <1>4. PICK first : WithTopLevel(l0, c, first, m)
    <2>1. m = MakeTopLevel(l0, c) OBVIOUS
    <2> HIDE DEF m
    <2> QED BY <1>1, <1>2, <1>3, <2>1, TopLevelMade
  <1> HIDE DEF m
  <1>5. FitHistory(h, mishaps) /\ h.present = m BY <1>1, RecordedFits DEF l0
  <1> HIDE DEF h
  <1>6. layout' = h /\ l0' = m BY <1>2, <1>5 DEF Dispatched, l0
  <1>7. mishaps' \subseteq Mishaps BY <1>2 DEF TreeInv, Mishaps
  <1>8. FitHistory(h, mishaps')
    <2>1. "inside" \in mishaps => "inside" \in mishaps' BY <1>2
    <2> QED BY <1>5, <2>1, FitHistoryIgnores
  <1>9. "inside" \notin mishaps' => Connected(m) BY <1>1, <1>2, <1>4 DEF Fit, WithTopLevel, Reaches
  <1>10. TreeInv'
    <2>1. CASE p = Grid
      <3>1. Forest(m) BY <1>1, <1>2, <1>3, <1>4, <2>1, TopLevelFromGrid
      <3>2. "elsewhere" \notin mishaps' BY <1>1, <1>2, <2>1
      <3>3. Fit(h.present, mishaps') BY <1>5, <1>9, <3>1 DEF Fit
      <3> QED BY <1>2, <1>7, <1>8, <3>2, <3>3, DispatchedTree
    <2>2. CASE p # Grid
      <3>1. c \notin Children(l0, Grid) BY <1>1, <1>3, <2>2, ForestWellFormed
      <3>2. c \in Under(m, c) BY <1>1, <1>2, <1>3, <1>4, <3>1, TopLevelFromElsewhere
      <3>3. TopLevel(m) = c /\ IsLayout(m) BY <1>4, ForestIsLayout DEF WithTopLevel, IsLayout
      <3>4. "elsewhere" \in mishaps' BY <1>2, <2>2
      <3> QED BY <1>2, <1>5, <1>7, <1>8, <3>2, <3>3, <3>4, DispatchedTree
    <2> QED BY <2>1, <2>2
  <1>11. KeepsCharts(l0, m) BY <1>4 DEF WithTopLevel, KeepsCharts
  <1>12. Charts(l0) \subseteq Charts(m) BY <1>1, <1>4, <1>11, ChartsStay DEF WithTopLevel
  <1> QED BY <1>6, <1>10, <1>12 DEF EditKeeps

\* After a move, the row or tabs that c left may be empty: they are deleted, and the row
\* that they were in if that leaves it empty.
LEMMA EmptiedDeleted ==
    ASSUME Forest(l0), NEW c \in Movable, NEW src, src = findParentId(l0, c),
           NEW dest, MaxDepth(l0[dest].type, l0[c].type) >= 0,
           ~(src = TopLevel(l0) /\ l0[src].type = "TABS" /\ l0[dest].type = "TABS" /\ dest # src),
           NEW m, Forest(m), DOMAIN l0 \subseteq DOMAIN m,
           \A x \in DOMAIN l0 : /\ m[x].type = l0[x].type
                                /\ Children(l0, x) \ {c} \subseteq Children(m, x),
           dest = src => Children(m, src) # {},
           m[src].type \in {"TABS", "ROW"}, m[src].children = <<>>
    PROVE  \E q : /\ findParentId(m, src) = q /\ q \in DOMAIN m
                  /\ Deleted(m, src, q, DeleteComponent(m, src, q))
                  /\ Under(m, src) = {}
  <1> DEFINE q == findParentId(l0, src)
             r == findParentId(l0, q)
  <1>1. /\ c \in DOMAIN l0 /\ c \notin Under(l0, c) /\ c # src
        /\ src \in DOMAIN l0 \ {Root} /\ src \in Under(l0, Root) /\ c \in Children(l0, src)
    BY MovableFacts
  <1>2. q \in DOMAIN l0 /\ q \in Shown(l0) /\ src \in Children(l0, q) BY <1>1, ShownParent
  <1> HIDE DEF q
  <1>3. src \in Children(m, q) /\ q \in DOMAIN m /\ src \in DOMAIN m BY <1>1, <1>2
  <1>4. findParentId(m, src) = q
    <2>1. \A x \in DOMAIN m : src \in Children(m, x) => x = q
      BY <1>3 DEF Forest, OneParent
    <2>2. Parents(m, src) = {q} BY <1>3, <2>1 DEF Parents
    <2>3. findParentId(m, src) \in {q} BY <2>2 DEF findParentId
    <2> QED BY <2>3
  <1>5. Children(m, src) = {}
    <2>1. Lists(<<>>, Children(m, src)) BY <1>3 DEF Forest, Proper
    <2> QED BY <2>1, EmptyList
  <1>6. src # Grid
    <2>1. m[Grid].type = "GRID" BY DEF Forest, Topped
    <2> QED BY <2>1
  <1>7. q # Root
    <2> SUFFICES ASSUME q = Root PROVE FALSE OBVIOUS
    <2>1. l0[Root].type = "ROOT" /\ src = TopLevel(l0) BY <1>2, TopLevelIs DEF Forest, Topped
    <2>2. MaxDepth("ROOT", l0[src].type) >= 0 BY <1>1, <1>2, <1>6, <2>1 DEF Forest, Allowed, MayHave
    <2>3. l0[src].type = "TABS" BY <2>2, MayHaveTypes
    <2>4. c # Grid BY DEF Movable
    <2>5. MaxDepth("TABS", l0[c].type) >= 0 BY <1>1, <2>3, <2>4 DEF Forest, Allowed, MayHave
    <2>6. l0[c].type = "TAB" BY <2>5, MayHaveTypes
    <2>7. l0[dest].type = "TABS" BY <2>6, MayHaveTypes
    <2> QED BY <1>5, <2>1, <2>3, <2>7
  <1>8. \E x \in DOMAIN m : q \in Children(m, x)
    <2>1. q \in Under(l0, Root) BY <1>2, <1>7 DEF Shown
    <2>2. r \in DOMAIN l0 /\ q \in Children(l0, r) BY <2>1, ShownParent
    <2> HIDE DEF r
    <2>3. q # c
      <3>1. Closed(l0, Under(l0, c)) /\ Children(l0, c) \subseteq Under(l0, c)
        BY <1>1, ForestWellFormed, UnderClosed
      <3> QED BY <1>1, <1>2, <3>1 DEF Closed
    <2> QED BY <2>2, <2>3
  <1>9. Under(m, src) = {}
    <2>1. Closed(m, {}) BY DEF Closed
    <2>2. Under(m, src) \subseteq {} BY <1>3, <1>5, <2>1, ForestWellFormed, UnderClosed
    <2> QED BY <2>2
  <1>10. Deleted(m, src, q, DeleteComponent(m, src, q))
    <2> DEFINE d == DeleteComponent(m, src, q)
    <2>1. src \in DOMAIN m \ {Root, Grid} /\ q \in DOMAIN m \ {Root} /\ src \notin Under(m, src)
      BY <1>1, <1>3, <1>6, <1>7, <1>9
    <2>2. d = DeleteComponent(m, src, q) OBVIOUS
    <2> HIDE DEF d
    <2>3. Deleted(m, src, q, d) BY ONLY <1>3, <1>8, <2>1, <2>2, Forest(m), ComponentDeleted
    <2> QED BY <2>2, <2>3
  <1> QED BY <1>3, <1>4, <1>9, <1>10

LEMMA DropOldKeeps ==
    ASSUME UNDO_LIMIT \in Nat, TreeInv, Editing, edits' \in 0 .. MaxEdits,
           NEW dest \in Shown(l0), NEW i \in 1 .. Len(l0[dest].children) + 1,
           NEW c \in Movable, DropOld(c, dest, i)
    PROVE  TreeInv' /\ (dest \in Under(l0, c) \/ Charts(l0) \subseteq Charts(l0'))
  <1> DEFINE src == findParentId(l0, c)
             si == Place(c)
             row == FreshId
  <1>1. "elsewhere" \notin mishaps /\ Fit(l0, mishaps) /\ Forest(l0) /\ FitHistory(layout, mishaps)
    BY EditableFits
  <1>2. Dispatched(Emptied(Recorded(layout, MoveComponent(l0, src, si, dest, i, row)), src))
    BY DEF DropOld
  <1> DEFINE m == MoveComponent(l0, src, si, dest, i, row)
             g == Recorded(layout, m)
             h == Emptied(g, src)
  <1>3. /\ dest # Root /\ MaxDepth(l0[dest].type, l0[c].type) >= 0
        /\ i <= Len(l0[dest].children) + (IF dest = src THEN 0 ELSE 1)
        /\ ~(src = TopLevel(l0) /\ l0[src].type = "TABS" /\ l0[dest].type = "TABS" /\ dest # src)
        /\ mishaps' = mishaps \cup (IF dest \in Under(l0, c) THEN {"inside"} ELSE {})
    BY DEF DropOld, isValidChild
  <1>4. row \in Ids /\ row \notin DOMAIN l0
    <2>1. Spare BY DEF DropOld
    <2> QED BY <2>1, FreshIds
  <1>5. si \in 1 .. Len(l0[src].children) /\ l0[src].children[si] = c
    <2>1. c \in Children(l0, src) /\ src \in DOMAIN l0 BY <1>1, MovableFacts
    <2>2. Lists(l0[src].children, Children(l0, src)) BY <1>1, <2>1 DEF Forest, Proper
    <2>3. DOMAIN l0[src].children = 1 .. Len(l0[src].children) BY <2>2, ListsFacts
    <2>4. \E k \in DOMAIN l0[src].children : l0[src].children[k] = c BY <2>1, <2>2, <2>3, ListsDef
    <2>5. si \in DOMAIN l0[src].children /\ l0[src].children[si] = c BY <2>4 DEF Place
    <2> QED BY <2>3, <2>5
  <1>6. dest \in DOMAIN l0 \ {Root} /\ (dest = Grid => Children(l0, Root) = {Grid})
        /\ Len(l0[dest].children) \in Nat
    BY <1>1, <1>3, ShownFacts
  <1>7. i \in 1 .. Len(l0[dest].children) + (IF dest = src THEN 0 ELSE 1)
    <2> HIDE DEF src
    <2>1. CASE dest = src BY <1>3, <1>6, <2>1
    <2>2. CASE dest # src BY <1>3, <1>6, <2>2
    <2> QED BY <2>1, <2>2
  <1>8. src \in DOMAIN l0 \ {Root} /\ c \in DOMAIN l0 BY <1>1, MovableFacts
  <1> HIDE DEF src, si, row, m
  <1>9. /\ Forest(m) /\ DOMAIN l0 \subseteq DOMAIN m
        /\ \A x \in DOMAIN l0 : /\ m[x].type = l0[x].type
                                /\ Children(l0, x) \ {c} \subseteq Children(m, x)
        /\ dest = src => Children(m, src) # {}
        /\ dest \notin Under(l0, c) => Reaches(l0, m)
    <2>1. m = MoveComponent(l0, src, si, dest, i, row) BY DEF m
    <2>2. c = l0[src].children[si] BY <1>5
    <2>3. IsMove(l0, src, c, dest, m)
      BY ONLY <1>1, <1>3, <1>4, <1>5, <1>6, <1>7, <1>8, <2>1, <2>2, Moved
    <2> QED BY <2>3 DEF IsMove
  <1>10. "inside" \notin mishaps' => Connected(m) BY <1>1, <1>3, <1>9 DEF Fit, Reaches
  <1>11. KeepsCharts(l0, m) BY <1>9 DEF KeepsCharts
  <1>12. FitHistory(g, mishaps') /\ g.present = m /\ Fit(m, mishaps')
    <2>1. FitHistory(g, mishaps) /\ g.present = m BY <1>1, RecordedFits DEF l0
    <2>2. "inside" \in mishaps => "inside" \in mishaps' BY <1>3
    <2> HIDE DEF g
    <2> QED BY <1>9, <1>10, <2>1, <2>2, FitHistoryIgnores DEF Fit
  <1> HIDE DEF g
  <1>13. /\ FitHistory(h, mishaps') /\ Fit(h.present, mishaps')
         /\ KeepsCharts(l0, h.present)
         /\ dest \notin Under(l0, c) => Reaches(l0, h.present)
    <2>1. CASE m[src].type \in {"TABS", "ROW"} /\ m[src].children = <<>>
      <3> DEFINE q == findParentId(m, src)
                 d == DeleteComponent(m, src, q)
      <3>1. h = Recorded(g, d) BY <1>12, <2>1 DEF Emptied
      <3>2. q \in DOMAIN m /\ Deleted(m, src, q, d) /\ Under(m, src) = {}
        <4>1. src = findParentId(l0, c) BY DEF src
        <4> QED BY <1>1, <1>3, <1>9, <2>1, <4>1, EmptiedDeleted
      <3> HIDE DEF d, h, q
      <3>3. FitHistory(h, mishaps') /\ h.present = d BY <1>12, <3>1, RecordedFits
      <3>4. Fit(d, mishaps') BY <1>12, <3>2 DEF Deleted, Fit, Reaches
      <3>5. KeepsCharts(l0, d)
        <4> SUFFICES ASSUME NEW x \in DOMAIN l0, l0[x].type \in {"CHART", "HEADER"}
                     PROVE  x \in DOMAIN d /\ d[x].type = l0[x].type
          BY DEF KeepsCharts
        <4>1. x \in DOMAIN m /\ m[x].type = l0[x].type BY <1>9
        <4>2. x \notin {src} \cup Under(m, src) BY <2>1, <3>2, <4>1
        <4>3. ~(x = q /\ m[q].type = "ROW") BY <4>1
        <4> QED BY <3>2, <4>1, <4>2, <4>3 DEF Deleted
      <3>6. ASSUME dest \notin Under(l0, c) PROVE Reaches(l0, d)
        <4>1. Reaches(l0, m) /\ Reaches(m, d) /\ DOMAIN d \subseteq DOMAIN m
          BY <1>9, <3>2, <3>6 DEF Deleted
        <4> QED BY <4>1 DEF Reaches
      <3> QED BY <3>3, <3>4, <3>5, <3>6
    <2>2. CASE ~(m[src].type \in {"TABS", "ROW"} /\ m[src].children = <<>>)
      <3>1. h = g BY <1>12, <2>2 DEF Emptied
      <3> QED BY <1>9, <1>11, <1>12, <3>1
    <2> QED BY <2>1, <2>2
  <1>14. Dispatched(h) BY <1>2 DEF m, g
  <1> HIDE DEF h
  <1>15. l0' = h.present BY <1>14 DEF Dispatched, l0
  <1>16. mishaps' \subseteq Mishaps
         /\ "elsewhere" \notin mishaps'
    BY <1>1, <1>3 DEF TreeInv, Mishaps
  <1>17. TreeInv' BY <1>13, <1>14, <1>16, DispatchedTree
  <1>18. ASSUME dest \notin Under(l0, c) PROVE Charts(l0) \subseteq Charts(h.present)
    BY <1>1, <1>13, <1>18, ChartsStay
  <1> QED BY <1>15, <1>17, <1>18

-----------------------------------------------------------------------------
\* Every step.


LEMMA ChangeKeeps ==
    ASSUME TreeInv, edits' \in 0 .. MaxEdits, NEW s \in Settings, Change(s)
    PROVE  TreeInv' /\ l0' = l0
  <1>1. /\ settings' = settings \cup {s} /\ UNCHANGED <<layout, put, saved, mishaps>>
        /\ flags' = flags \cup {"unsaved"} \cup (IF s = "colour" THEN {"recoloured"} ELSE {})
    BY DEF Change
  <1>2. settings' \subseteq Settings BY <1>1 DEF TreeInv
  <1>3. flags' \subseteq Flags BY <1>1 DEF TreeInv, Flags
  <1>4. l0' = l0 /\ (Renders' <=> Renders) BY <1>1 DEF l0, Renders
  <1> QED BY <1>1, <1>2, <1>3, <1>4 DEF TreeInv

\* A component is dropped inside itself.
DropInside ==
    \E c \in Movable, dest \in DOMAIN l0 : \E i \in 1 .. Len(l0[dest].children) + 1 :
        DropOld(c, dest, i) /\ dest \in Under(l0, c)

\* What any edit does: only a deletion or a drop inside itself may take charts away.
Edited ==
    /\ TreeInv'
    /\ \/ Charts(l0) \subseteq Charts(l0')
       \/ \E c \in Movable : Delete(c)
       \/ DropInside

LEMMA EditStepTree == ASSUME TreeInv, EditStep PROVE Edited
  <1>1. UNDO_LIMIT \in Nat /\ MaxEdits \in Nat /\ NewTypes \subseteq Types
    BY EditorAssumption DEF Types
  <1>2. Editing /\ edits' \in 0 .. MaxEdits
    <2>1. Editing /\ edits < MaxEdits /\ edits' = edits + 1 BY DEF EditStep
    <2>2. edits \in 0 .. MaxEdits BY DEF TreeInv
    <2> QED BY <1>1, <2>1, <2>2
  <1>3. EditKeeps => Edited BY DEF EditKeeps, Edited
  <1>4. ASSUME NEW s \in Settings, Change(s) PROVE Edited
    <2>1. TreeInv' /\ l0' = l0 BY <1>2, <1>4, ChangeKeeps
    <2>2. Charts(l0') = Charts(l0) BY <2>1
    <2> QED BY <2>1, <2>2 DEF Edited
  <1>5. ASSUME NEW dest \in Shown(l0), NEW i \in 1 .. Len(l0[dest].children) + 1,
               NEW type \in NewTypes, DropNew(type, dest, i)
        PROVE  EditKeeps
    BY <1>1, <1>2, <1>5, DropNewKeeps
  <1>6. ASSUME NEW dest \in Shown(l0), NEW i \in 1 .. Len(l0[dest].children) + 1,
               NEW c \in Movable, DropOld(c, dest, i)
        PROVE  Edited
    <2>1. TreeInv' /\ (dest \in Under(l0, c) \/ Charts(l0) \subseteq Charts(l0'))
      BY <1>1, <1>2, <1>6, DropOldKeeps
    <2>2. dest \in DOMAIN l0
      <3>1. Forest(l0) BY <1>2, EditableFits
      <3> QED BY <3>1, ShownFacts
    <2>3. dest \in Under(l0, c) => DropInside BY <1>6, <2>2 DEF DropInside
    <2> QED BY <2>1, <2>3 DEF Edited
  <1>7. ASSUME NEW c \in Movable, DropOnRoot(c) PROVE EditKeeps
    BY <1>1, <1>2, <1>7, DropOnRootKeeps
  <1>8. ASSUME NEW c \in Movable, Delete(c) PROVE Edited
    <2>1. TreeInv' BY <1>1, <1>2, <1>8, DeleteKeeps
    <2> QED BY <1>8, <2>1 DEF Edited
  <1>9. ASSUME NEW tabs \in Shown(l0), AddTab(tabs) PROVE EditKeeps
    BY <1>1, <1>2, <1>9, AddTabKeeps
  <1>10. CASE CollapseTabs
    <2>1. EditKeeps BY <1>1, <1>2, <1>10, CollapseTabsKeeps
    <2> QED BY <1>3, <2>1
  <1>11. \/ \E s \in Settings : Change(s)
         \/ \E dest \in Shown(l0) : \E i \in 1 .. Len(l0[dest].children) + 1 :
              \E type \in NewTypes : DropNew(type, dest, i)
         \/ \E c \in Movable :
              \/ \E dest \in Shown(l0) : \E i \in 1 .. Len(l0[dest].children) + 1 : DropOld(c, dest, i)
              \/ DropOnRoot(c) \/ Delete(c)
         \/ \E tabs \in Shown(l0) : AddTab(tabs)
         \/ CollapseTabs
    BY DEF EditStep
  <1>12. CASE \E s \in Settings : Change(s) BY <1>4, <1>12
  <1>13. CASE \E dest \in Shown(l0) : \E i \in 1 .. Len(l0[dest].children) + 1 :
                  \E type \in NewTypes : DropNew(type, dest, i)
    <2>1. EditKeeps BY <1>5, <1>13
    <2> QED BY <1>3, <2>1
  <1>14. CASE \E c \in Movable :
                  \/ \E dest \in Shown(l0) : \E i \in 1 .. Len(l0[dest].children) + 1 : DropOld(c, dest, i)
                  \/ DropOnRoot(c) \/ Delete(c)
    BY <1>3, <1>6, <1>7, <1>8, <1>14
  <1>15. CASE \E tabs \in Shown(l0) : AddTab(tabs) BY <1>3, <1>9, <1>15
  <1> QED BY <1>10, <1>11, <1>12, <1>13, <1>14, <1>15

LEMMA UndoRedoTree ==
    ASSUME TreeInv, Editing, Undo \/ Redo, UNCHANGED edits
    PROVE  TreeInv'
  <1>1. "elsewhere" \notin mishaps /\ Fit(layout.present, mishaps) /\ FitHistory(layout, mishaps)
    BY EditableFits DEF l0
  <1>2. UNDO_LIMIT \in Nat BY EditorAssumption
  <1>3. edits' \in 0 .. MaxEdits BY DEF TreeInv
  <1>4. CASE Redo
    <2> DEFINE h == Redone(layout)
    <2>1. FitHistory(h, mishaps) /\ Fit(h.present, mishaps) BY <1>1, <1>2, RedoneFits
    <2>2. Dispatched(h) /\ mishaps' = mishaps BY <1>4 DEF Redo, Redone, l0
    <2> HIDE DEF h
    <2>3. mishaps' \subseteq Mishaps BY <2>2 DEF TreeInv
    <2> QED BY <1>1, <1>3, <2>1, <2>2, <2>3, DispatchedTree
  <1>5. CASE Undo
    <2> DEFINE h == Undone(layout)
    <2>1. FitHistory(h, mishaps) /\ Fit(h.present, mishaps) BY <1>1, <1>2, UndoneFits
    <2>2. /\ layout' = h /\ UNCHANGED <<settings, put, saved>>
          /\ flags' = flags \/ flags' = flags \ {"unsaved"}
          /\ mishaps' = mishaps \cup Unseen /\ Unseen \subseteq {"css", "undone"}
      <3> DEFINE clears == h.past = <<>> /\ flags \cap {"exceeded", "recoloured"} = {}
      <3>1. /\ layout' = h /\ UNCHANGED <<settings, put, saved>>
            /\ flags' = (IF clears THEN flags \ {"unsaved"} ELSE flags)
            /\ mishaps' = mishaps \cup Unseen
        BY <1>5 DEF Undo
      <3>2. Unseen \subseteq {"css", "undone"} BY DEF Unseen
      <3> HIDE DEF h, clears
      <3>3. flags' = flags \/ flags' = flags \ {"unsaved"} BY <3>1
      <3> QED BY <3>1, <3>2, <3>3
    <2> HIDE DEF h
    <2>3. "elsewhere" \notin mishaps' /\ ("inside" \in mishaps => "inside" \in mishaps')
      BY <1>1, <2>2
    <2>4. FitHistory(h, mishaps') /\ Fit(h.present, mishaps')
      BY <2>1, <2>3, FitHistoryIgnores, FitIgnores
    <2>5. l0' = h.present BY <2>2 DEF l0
    <2>6. flags' \subseteq Flags /\ mishaps' \subseteq Mishaps
      BY <2>2 DEF TreeInv, Mishaps, Excused
    <2> QED BY <1>3, <2>2, <2>3, <2>4, <2>5, <2>6 DEF TreeInv
  <1> QED BY <1>4, <1>5

\* A layout that is shown, or can be undone or redone to, has its type.
LEMMA FitIsLayout == ASSUME NEW l, NEW m, Fit(l, m) PROVE IsLayout(l)
  BY ForestIsLayout DEF Fit, Forest, IsLayout

LEMMA ShownIsLayout == ASSUME TreeInv PROVE IsLayout(l0)
  BY FitIsLayout DEF TreeInv

LEMMA SavingTree ==
    ASSUME TreeInv, Save \/ Store \/ Answer \/ Fail \/ Edit
    PROVE  TreeInv' /\ l0' = l0
  <1>1. CASE Save
    <2>1. /\ put' = [stage |-> "sent", content |-> Showing]
          /\ UNCHANGED <<layout, settings, flags, saved, edits, mishaps>>
      BY <1>1 DEF Save
    <2>2. IsLayout(Showing.layout) BY ShownIsLayout DEF Showing, Content, l0
    <2>3. /\ put' = [stage |-> put'.stage, content |-> put'.content]
          /\ put'.stage \in {"sent", "stored"} /\ IsLayout(put'.content.layout)
      BY <2>1, <2>2
    <2>4. l0' = l0 /\ (Renders' <=> Renders) BY <2>1 DEF l0, Renders
    <2> QED BY <2>1, <2>3, <2>4 DEF TreeInv
  <1>2. CASE Store
    <2>1. /\ put.stage = "sent" /\ put' = [put EXCEPT !.stage = "stored"] /\ saved' = put.content
          /\ UNCHANGED <<layout, settings, flags, edits, mishaps>>
      BY <1>2 DEF Store
    <2>2. put = [stage |-> "sent", content |-> put.content] /\ IsLayout(put.content.layout)
      BY <2>1 DEF TreeInv, Nothing, Foreign
    <2>3. put' = [stage |-> "stored", content |-> put.content] BY <2>1, <2>2
    <2>4. l0' = l0 /\ (Renders' <=> Renders) BY <2>1 DEF l0, Renders
    <2> QED BY <2>1, <2>2, <2>3, <2>4 DEF TreeInv
  <1>3. CASE Answer
    <2>1. /\ put' = Nothing /\ flags' = {}
          /\ layout' = [layout EXCEPT !.past = <<>>, !.future = <<>>, !.latest = FALSE]
          /\ mishaps' = {"adrift"} \cup (mishaps \ Excused)
             \/ mishaps' = {"adrift"} \cup (mishaps \cup {"overtaken"})
          /\ UNCHANGED <<settings, saved, edits>>
      BY <1>3 DEF Answer
    <2>2. layout = [past |-> layout.past, present |-> layout.present, future |-> layout.future,
                    latest |-> layout.latest]
      BY DEF TreeInv, FitHistory, IsHistory
    <2>3. layout' = [past |-> <<>>, present |-> layout.present, future |-> <<>>, latest |-> FALSE]
      BY <2>1, <2>2
    <2>4. l0' = l0 /\ (Renders' <=> Renders) BY <2>3 DEF l0, Renders
    <2>5. ("inside" \in mishaps' <=> "inside" \in mishaps)
          /\ ("elsewhere" \in mishaps' <=> "elsewhere" \in mishaps)
      BY <2>1 DEF Excused
    <2>6. "elsewhere" \notin mishaps' => Fit(l0, mishaps') BY <2>5, FitIgnores DEF TreeInv
    <2>7. FitHistory(layout', mishaps')
      <3>1. UNDO_LIMIT \in Nat BY EditorAssumption
      <3>2. IsHistory(layout') /\ IsSeq(layout'.future) BY <2>3, NoElements DEF IsHistory
      <3>3. \A l \in ToSet(layout'.past) \cup ToSet(layout'.future) : Fit(l, mishaps')
        BY <2>3, NoElements
      <3>4. Len(layout'.past) + Len(layout'.future) <= UNDO_LIMIT + 1
        BY <2>3, <3>1, NoElements
      <3> QED BY <3>2, <3>3, <3>4 DEF FitHistory
    <2>8. flags' \subseteq Flags /\ mishaps' \subseteq Mishaps
      BY <2>1 DEF TreeInv, Mishaps, Excused
    <2> QED BY <2>1, <2>4, <2>5, <2>6, <2>7, <2>8 DEF TreeInv
  <1>4. CASE Fail
    <2>1. /\ put' = Nothing /\ UNCHANGED <<layout, settings, flags, saved, edits>>
          /\ mishaps' = mishaps \/ mishaps' = mishaps \cup {"lost"}
      BY <1>4 DEF Fail
    <2>2. l0' = l0 /\ (Renders' <=> Renders) BY <2>1 DEF l0, Renders
    <2>3. ("inside" \in mishaps' <=> "inside" \in mishaps)
          /\ ("elsewhere" \in mishaps' <=> "elsewhere" \in mishaps)
      BY <2>1
    <2>4. "elsewhere" \notin mishaps' => Fit(l0, mishaps') BY <2>3, FitIgnores DEF TreeInv
    <2>5. FitHistory(layout', mishaps') BY <2>1, <2>3, FitHistoryIgnores DEF TreeInv
    <2>6. mishaps' \subseteq Mishaps BY <2>1 DEF TreeInv, Mishaps, Excused
    <2> QED BY <2>1, <2>2, <2>3, <2>4, <2>5, <2>6 DEF TreeInv
  <1>5. CASE Edit
    <2>1. flags' = flags \cup {"editing"} \cup Noticed(layout)
          /\ UNCHANGED <<layout, settings, put, saved, edits, mishaps>>
      BY <1>5 DEF Edit
    <2>2. l0' = l0 /\ (Renders' <=> Renders) BY <2>1 DEF l0, Renders
    <2>3. flags' \subseteq Flags BY <2>1 DEF TreeInv, Flags, Noticed
    <2> QED BY <2>1, <2>2, <2>3 DEF TreeInv
  <1> QED BY <1>1, <1>2, <1>3, <1>4, <1>5

\* Another dashboard is opened with a layout that is a tree.
LEMMA OpenTree == ASSUME TreeInv, NEW l \in Begin, Open(l) PROVE TreeInv'
  <1>1. UNDO_LIMIT \in Nat /\ MaxEdits \in Nat BY EditorAssumption
  <1>2. /\ edits < MaxEdits /\ edits' = edits + 1 /\ Renders
        /\ layout' = Recorded(layout, l) /\ saved' = Content(l, {})
        /\ settings' = {} /\ flags' = flags \cap {"recoloured"}
        /\ put' = (IF put = Nothing THEN Nothing ELSE Foreign)
        /\ mishaps' = (mishaps \ Excused) \cup {"adrift"}
    BY DEF Open
  <1>3. "elsewhere" \notin mishaps /\ Fit(layout.present, mishaps) /\ FitHistory(layout, mishaps)
    BY <1>2 DEF TreeInv, l0
  <1>4. FitHistory(layout', mishaps) /\ layout'.present = l BY <1>1, <1>2, <1>3, RecordedFits
  <1>5. ("inside" \in mishaps' <=> "inside" \in mishaps) /\ "elsewhere" \notin mishaps'
        /\ mishaps' \subseteq Mishaps
    BY <1>2, <1>3 DEF Excused, Mishaps, TreeInv
  <1>6. FitHistory(layout', mishaps') BY <1>4, <1>5, FitHistoryIgnores
  <1>7. IsLayout(l) /\ IsFiniteSet(DOMAIN l) /\ IsTree(l) BY BeginAssumption
  <1>8. Forest(l) /\ Connected(l) BY <1>7, TreeIsForest DEF IsLayout
  <1>9. l0' = l BY <1>4 DEF l0
  <1>10. Fit(l0', mishaps') BY <1>8, <1>9 DEF Fit
  <1>11. IsLayout(saved'.layout) BY <1>2, <1>7 DEF Content
  <1>12. edits' \in 0 .. MaxEdits
    <2>1. edits \in 0 .. MaxEdits BY DEF TreeInv
    <2> QED BY <1>1, <1>2, <2>1
  <1>13. flags' \subseteq Flags BY <1>2 DEF Flags
  <1>14. put' \in {Nothing, Foreign} BY <1>2
  <1> QED BY <1>2, <1>5, <1>6, <1>10, <1>11, <1>12, <1>13, <1>14 DEF TreeInv

LEMMA TreeInit == ASSUME Init PROVE TreeInv
  <1>1. UNDO_LIMIT \in Nat /\ MaxEdits \in Nat BY EditorAssumption
  <1>2. PICK l \in Begin : layout = [past |-> <<>>, present |-> l, future |-> <<>>, latest |-> TRUE]
                           /\ saved = Content(l, {})
    BY DEF Init
  <1>3. /\ settings = {} /\ flags = {"editing"} /\ put = Nothing /\ edits = 0 /\ mishaps = {}
    BY DEF Init
  <1>4. IsLayout(l) /\ IsFiniteSet(DOMAIN l) /\ IsTree(l) BY BeginAssumption
  <1>5. Forest(l) /\ Connected(l) BY <1>4, TreeIsForest DEF IsLayout
  <1>6. l0 = l /\ saved.layout = l BY <1>2 DEF l0, Content
  <1>7. FitHistory(layout, mishaps)
    <2>1. IsHistory(layout) /\ IsSeq(layout.future) BY <1>2, NoElements DEF IsHistory
    <2>2. \A x \in ToSet(layout.past) \cup ToSet(layout.future) : Fit(x, mishaps)
      BY <1>2, NoElements
    <2>3. Len(layout.past) + Len(layout.future) <= UNDO_LIMIT + 1 BY <1>1, <1>2, NoElements
    <2> QED BY <2>1, <2>2, <2>3 DEF FitHistory
  <1>8. Fit(l0, mishaps) BY <1>5, <1>6 DEF Fit
  <1> QED BY <1>1, <1>3, <1>4, <1>6, <1>7, <1>8 DEF TreeInv, Settings, Flags

LEMMA TreeNext ==
    ASSUME TreeInv, [Next]_vars
    PROVE  /\ TreeInv'
           /\ \/ Charts(l0) \subseteq Charts(l0')
              \/ Undo \/ Redo \/ \E l \in Begin : Open(l)
              \/ \E c \in Movable : Delete(c)
              \/ DropInside
  <1>1. CASE EditStep BY <1>1, EditStepTree DEF Edited
  <1>2. CASE Editing /\ (Undo \/ Redo) /\ UNCHANGED edits BY <1>2, UndoRedoTree
  <1>3. CASE Save \/ Store \/ Answer \/ Fail \/ Edit
    <2>1. TreeInv' /\ l0' = l0 BY <1>3, SavingTree
    <2>2. Charts(l0') = Charts(l0) BY <2>1
    <2> QED BY <2>1, <2>2
  <1>4. CASE UNCHANGED vars
    <2>1. UNCHANGED <<layout, settings, flags, put, saved, edits, mishaps>> BY <1>4 DEF vars
    <2>2. l0' = l0 /\ (Renders' <=> Renders) BY <2>1 DEF l0, Renders
    <2>3. TreeInv' BY <2>1, <2>2 DEF TreeInv
    <2>4. Charts(l0') = Charts(l0) BY <2>2
    <2> QED BY <2>3, <2>4
  <1>5. CASE \E l \in Begin : Open(l) BY <1>5, OpenTree
  <1> QED BY <1>1, <1>2, <1>3, <1>4, <1>5 DEF Next

LEMMA TreeType == ASSUME TreeInv PROVE TypeOK
  <1>1. /\ layout = [past |-> layout.past, present |-> layout.present, future |-> layout.future,
                     latest |-> layout.latest]
        /\ layout.latest \in BOOLEAN /\ IsSeq(layout.past) /\ IsSeq(layout.future)
        /\ Len(layout.past) + Len(layout.future) <= UNDO_LIMIT + 1
        /\ \A l \in ToSet(layout.past) \cup ToSet(layout.future) : Fit(l, mishaps)
    BY DEF TreeInv, FitHistory, IsHistory
  <1>2. DOMAIN layout = {"past", "present", "future", "latest"} BY <1>1
  <1>3. IsLayout(layout.present) BY ShownIsLayout DEF l0
  <1>4. \A k \in DOMAIN layout.past : IsLayout(layout.past[k])
    <2>1. \A k \in DOMAIN layout.past : layout.past[k] \in ToSet(layout.past) BY DEF ToSet
    <2> QED BY <1>1, <2>1, FitIsLayout
  <1>5. \A k \in DOMAIN layout.future : IsLayout(layout.future[k])
    <2>1. \A k \in DOMAIN layout.future : layout.future[k] \in ToSet(layout.future) BY DEF ToSet
    <2> QED BY <1>1, <2>1, FitIsLayout
  <1>6. Len(layout.past) <= UNDO_LIMIT + 1
    <2>1. Len(layout.past) \in Nat /\ Len(layout.future) \in Nat /\ UNDO_LIMIT \in Nat
      BY <1>1, SeqParts, EditorAssumption
    <2>2. \A a, b, n \in Nat : a + b <= n + 1 => a <= n + 1 OBVIOUS
    <2> QED BY <1>1, <2>1, <2>2
  <1> QED BY <1>1, <1>2, <1>3, <1>4, <1>5, <1>6 DEF TreeInv, TypeOK

LEMMA TreeTree == ASSUME TreeInv PROVE LayoutIsTree
  <1> SUFFICES ASSUME mishaps \cap {"inside", "elsewhere"} = {} PROVE IsTree(l0)
    BY DEF LayoutIsTree
  <1>1. Forest(l0) /\ Connected(l0) BY DEF TreeInv, Fit
  <1> QED BY <1>1, ForestIsTree

\* The layout shown, every layout that can be undone or redone to, what the request to
\* save carries and what the server has are layouts of known components, and no more than
\* UNDO_LIMIT + 1 layouts are kept (the limit of undoableDashboardLayout).
THEOREM DashboardTypeOK == Spec => []TypeOK
  <1>1. Init => TreeInv BY TreeInit
  <1>2. TreeInv /\ [Next]_vars => TreeInv' BY TreeNext
  <1>3. TreeInv => TypeOK BY TreeType
  <1> QED BY <1>1, <1>2, <1>3, PTL DEF Spec

\* Whatever is dropped, moved, deleted, undone and redone, for every set of ids and every
\* layout to begin with: the reducer (dashboardLayout.js) leaves a tree, in which every
\* component is shown once, under a parent that may have it - unless a component was
\* dropped inside itself or tabs from inside a row or tab made top-level.
THEOREM DashboardLayoutIsTree == Spec => []LayoutIsTree
  <1>1. Init => TreeInv BY TreeInit
  <1>2. TreeInv /\ [Next]_vars => TreeInv' BY TreeNext
  <1>3. TreeInv => LayoutIsTree BY TreeTree
  <1> QED BY <1>1, <1>2, <1>3, PTL DEF Spec

\* Creating, moving, collapsing tabs and saving never take a chart from what is shown,
\* whatever was done before: only deleting, undoing, redoing and opening another dashboard
\* do, and the step itself that drops a component inside itself.
THEOREM DashboardChartsKept == Spec => ChartsKept
  <1>1. Init => TreeInv BY TreeInit
  <1>2. TreeInv /\ [Next]_vars
        => TreeInv' /\ [\/ Charts(l0) \subseteq Charts(l0')
                        \/ Undo \/ Redo \/ \E l \in Begin : Open(l)
                        \/ \E c \in Movable : Delete(c)
                        \/ \E c \in Movable, dest \in DOMAIN l0 :
                             \E i \in 1 .. Len(l0[dest].children) + 1 :
                               DropOld(c, dest, i) /\ dest \in Under(l0, c)]_vars
    BY TreeNext DEF DropInside
  <1> QED BY <1>1, <1>2, PTL DEF Spec, ChartsKept
=============================================================================
