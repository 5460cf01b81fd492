--------------------------- MODULE SenderKeysProofs ---------------------------
(***************************************************************************)
(* TLAPS proofs about SenderKeys, for any receivers, any limits of the     *)
(* record and of its states, and any bounds.                               *)
(***************************************************************************)
EXTENDS SenderKeys, FiniteSetTheorems, FunctionTheorems, WellFoundedInduction, TLAPS

-----------------------------------------------------------------------------
(* Facts about natural numbers and finite sets in the form used here:       *)
(* induction with sets in the place of predicates, and cardinalities        *)
(* compared by means of a function.                                         *)

\* A non-empty set of natural numbers has a least element.
LEMMA LeastNatural ==
  ASSUME NEW U, U \subseteq Nat, U # {}
  PROVE  \E x \in U : \A y \in U : x <= y
<1> DEFINE R == OpToRel(<, Nat)
<1>1. PICK x \in U : \A y \in U : ~(<<y, x>> \in R)
  BY WFMin, NatLessThanWellFounded, Zenon
<1>2. ASSUME NEW y \in U
      PROVE  x <= y
  <2>1. SUFFICES ASSUME y < x
                 PROVE  FALSE
    OBVIOUS
  <2>2. <<y, x>> \in Nat \X Nat /\ <<y, x>>[1] < <<y, x>>[2]
    BY <2>1
  <2>3. <<y, x>> \in R
    BY <2>2, Zenon DEF OpToRel
  <2> HIDE DEF R
  <2> QED
    BY <1>1, <2>3
<1> QED
  BY <1>2

\* Induction: a set that has 0, and n + 1 with every n, has all natural numbers.
LEMMA NatInduct ==
  ASSUME NEW T, 0 \in T, \A n \in Nat : n \in T => n + 1 \in T
  PROVE  \A n \in Nat : n \in T
<1> SUFFICES ASSUME NEW z \in Nat, z \notin T
             PROVE  FALSE
  OBVIOUS
<1> DEFINE U == {n \in Nat : n \notin T}
<1>1. PICK x \in U : \A y \in U : x <= y
  <2>1. U \subseteq Nat /\ U # {}
    OBVIOUS
  <2> HIDE DEF U
  <2> QED
    BY <2>1, LeastNatural
<1>2. x # 0 /\ x - 1 \in Nat /\ x = (x - 1) + 1 /\ ~(x <= x - 1)
  OBVIOUS
<1>3. x - 1 \in T
  BY <1>1, <1>2
<1> QED
  BY <1>2, <1>3

\* A bounded set of natural numbers is finite, and no larger than its bounds.
LEMMA IntervalBound ==
  ASSUME NEW a \in Int, NEW b \in Int, NEW S, S \subseteq a .. b
  PROVE  /\ IsFiniteSet(S)
         /\ Cardinality(S) \in Nat
         /\ Cardinality(S) <= IF a > b THEN 0 ELSE b - a + 1
<1>1. IsFiniteSet(a .. b) /\ Cardinality(a .. b) = IF a > b THEN 0 ELSE b - a + 1
  BY FS_Interval
<1>2. IsFiniteSet(S) /\ Cardinality(S) <= Cardinality(a .. b)
  BY <1>1, FS_Subset
<1> QED
  BY <1>1, <1>2, FS_CardinalityType

\* A set that injects into a finite one is finite and no larger.
LEMMA InjectionBound ==
  ASSUME NEW S, NEW T, IsFiniteSet(T), NEW f \in [S -> T],
         \A a, b \in S : f[a] = f[b] => a = b
  PROVE  /\ IsFiniteSet(S)
         /\ Cardinality(S) \in Nat /\ Cardinality(T) \in Nat
         /\ Cardinality(S) <= Cardinality(T)
<1>1. f \in Injection(S, T)
  BY Fun_IsInj
<1> QED
  BY <1>1, FS_Injection, FS_CardinalityType

\* The image of a finite set is finite and no larger.
LEMMA SurjectionBound ==
  ASSUME NEW S, NEW T, IsFiniteSet(S), NEW f \in [S -> T],
         \A t \in T : \E a \in S : f[a] = t
  PROVE  /\ IsFiniteSet(T)
         /\ Cardinality(S) \in Nat /\ Cardinality(T) \in Nat
         /\ Cardinality(T) <= Cardinality(S)
<1>1. f \in Surjection(S, T)
  BY Fun_IsSurj
<1> QED
  BY <1>1, FS_Surjection, FS_CardinalityType

-----------------------------------------------------------------------------
(* The inductive invariant. *)

\* A state: its chain and its stored keys are those of its own id, and the
\* stored ones lie behind the chain.
WfState(s) ==
  /\ s.chainSeed = <<s.id, s.chainIteration>>
  /\ s.chainIteration <= MaxIteration
  /\ IsFiniteSet(s.messageKeys)
  /\ Cardinality(s.messageKeys) <= MaxMessageKeys
  /\ \A k \in s.messageKeys :
       k.iteration < s.chainIteration /\ k.seed = <<s.id, k.iteration>>

OneStatePerId(states) ==
  \A i, j \in 1 .. Len(states) : states[i].id = states[j].id => i = j

WfRecord(states) ==
  /\ states \in Seq(SenderKeyState)
  /\ Len(states) <= MaxStates
  /\ OneStatePerId(states)
  /\ \A i \in 1 .. Len(states) : WfState(states[i])

RecordsInv == WfRecord(own) /\ \A r \in Receivers : WfRecord(rec[r])

\* Ids are generated in order, and name the keys of what is sent.
NamesInv ==
  /\ IsFiniteSet(net)
  /\ \A i \in 1 .. Len(own) : own[i].id < ids
  /\ \A r \in Receivers : \A i \in 1 .. Len(rec[r]) : rec[r][i].id < ids
  /\ \A d \in dists : d.id < ids /\ d.chainKey = <<d.id, d.iteration>> /\ d.iteration <= MaxIteration
  /\ \A m \in net : m.id < ids /\ m.key = <<m.id, m.iteration>> /\ m.iteration < MaxIteration /\ m.signed

\* A state that the sender can send with has never been set back: nobody is
\* ahead of it, and it has used no key from its chain on.
SendingInv ==
  \A i \in 1 .. Len(own) : own[i].hasPrivate =>
    /\ own[i].messageKeys = {}
    /\ \A m \in net : m.id = own[i].id => m.iteration < own[i].chainIteration
    /\ \A d \in dists : d.id = own[i].id => d.iteration <= own[i].chainIteration
    /\ \A r \in Receivers : \A j \in 1 .. Len(rec[r]) :
         rec[r][j].id = own[i].id => rec[r][j].chainIteration <= own[i].chainIteration

\* What a member has decrypted since it installed a state lies behind it.
DeliveredInv ==
  \A r \in Receivers : \A m \in delivered[r] :
    /\ m \in net
    /\ \A i \in 1 .. Len(rec[r]) : rec[r][i].id = m.id =>
         /\ m.iteration < rec[r][i].chainIteration
         /\ \A k \in rec[r][i].messageKeys : k.iteration # m.iteration

\* What a member has not decrypted, and is not too far behind, has its key stored.
PendingInv ==
  \A r \in Receivers : \A i \in 1 .. Len(rec[r]) : \A m \in net \ delivered[r] :
    /\ m.id = rec[r][i].id
    /\ installed[r][m.id] <= m.iteration
    /\ m.iteration < rec[r][i].chainIteration
    /\ rec[r][i].chainIteration - 1 - MaxMessageKeys <= m.iteration
    => \E k \in rec[r][i].messageKeys : k.iteration = m.iteration

IInv ==
  TypeOK /\ RecordsInv /\ NamesInv /\ SendingInv /\ DeliveredInv /\ PendingInv /\ UniqueMessageKeys

-----------------------------------------------------------------------------
(* The record. *)

\* The loop of setState, unfolded.
LEMMA FilteredUnfold ==
  ASSUME NEW states, NEW id, Len(states) \in Nat
  PROVE  \E F :
           F = [i \in 0 .. Len(states) |->
                  IF i = 0 THEN << >>
                  ELSE IF states[i].id = id THEN F[i - 1] ELSE Append(F[i - 1], states[i])]
           /\ filtered(states, id) = F[Len(states)]
<1> DEFINE D(F, n) ==
      [i \in 0 .. n |->
         IF i = 0 THEN << >>
         ELSE IF states[i].id = id THEN F[i - 1] ELSE Append(F[i - 1], states[i])]
           G == CHOOSE F : F = D(F, Len(states))
<1>1. \E F : F = D(F, Len(states))
  <2> DEFINE T == {n \in Nat : \E F : F = D(F, n)}
  <2>1. 0 \in T
    <3>1. [i \in 0 .. 0 |-> << >>] = D([i \in 0 .. 0 |-> << >>], 0)
      OBVIOUS
    <3> QED
      BY <3>1
  <2>2. ASSUME NEW n \in Nat, n \in T
        PROVE  n + 1 \in T
    <3>0. PICK F : F = D(F, n)
      BY <2>2
    <3> DEFINE E == [i \in 0 .. (n + 1) |->
                       IF i <= n THEN F[i]
                       ELSE IF states[i].id = id THEN F[i - 1] ELSE Append(F[i - 1], states[i])]
    <3>1. \A i \in 0 .. n : E[i] = F[i]
      OBVIOUS
    <3>2. ASSUME NEW i \in 0 .. (n + 1)
          PROVE  E[i] = D(E, n + 1)[i]
      <4>1. CASE i = 0
        <5>1. E[0] = D(F, n)[0]
          BY <3>0, <3>1
        <5> QED
          BY <4>1, <5>1
      <4>2. CASE i \in 1 .. n
        <5>1. i - 1 \in 0 .. n /\ i \in 0 .. n /\ i # 0
          BY <4>2
        <5>2. E[i - 1] = F[i - 1] /\ E[i] = F[i]
          BY <5>1, <3>1
        <5>3. F[i] = D(F, n)[i]
          BY <3>0
        <5> HIDE DEF E
        <5> QED
          BY <5>1, <5>2, <5>3
      <4>3. CASE i = n + 1
        <5>1. E[n] = F[n] /\ i - 1 = n
          BY <4>3
        <5> QED
          BY <4>3, <5>1
      <4> QED
        BY <4>1, <4>2, <4>3
    <3>3. E = D(E, n + 1)
      <4>1. E = [i \in 0 .. (n + 1) |-> E[i]] /\ D(E, n + 1) = [i \in 0 .. (n + 1) |-> D(E, n + 1)[i]]
        OBVIOUS
      <4> HIDE DEF E, D
      <4> QED
        BY <4>1, <3>2, Zenon
    <3> HIDE DEF E, D
    <3> QED
      BY <3>3
  <2> HIDE DEF T
  <2>3. Len(states) \in T
    BY <2>1, <2>2, NatInduct
  <2> HIDE DEF D
  <2> QED
    BY <2>3 DEF T
<1>2. G = D(G, Len(states))
  <2> HIDE DEF D
  <2> QED
    BY <1>1
<1>3. filtered(states, id) = G[Len(states)]
  BY Zenon DEF filtered
<1> QED
  BY <1>2, <1>3

\* What the loop leaves: states of other ids, each of them once.
LEMMA FilteredFacts ==
  ASSUME NEW states \in Seq(SenderKeyState), OneStatePerId(states), NEW id
  PROVE  LET f == filtered(states, id) IN
         /\ f \in Seq(SenderKeyState)
         /\ Len(f) <= Len(states)
         /\ OneStatePerId(f)
         /\ \A j \in 1 .. Len(f) : \E k \in 1 .. Len(states) : f[j] = states[k] /\ states[k].id # id
<1> DEFINE n == Len(states)
<1>0. PICK F : F = [i \in 0 .. n |->
                      IF i = 0 THEN << >>
                      ELSE IF states[i].id = id THEN F[i - 1] ELSE Append(F[i - 1], states[i])]
               /\ filtered(states, id) = F[n]
  BY FilteredUnfold
<1> DEFINE From(i, e) == \E k \in 1 .. i : e = states[k] /\ states[k].id # id
           P(i) == /\ F[i] \in Seq(SenderKeyState)
                   /\ Len(F[i]) <= i
                   /\ OneStatePerId(F[i])
                   /\ \A j \in 1 .. Len(F[i]) : From(i, F[i][j])
           T == {i \in Nat : i <= n => P(i)}
<1>1. 0 \in T
  <2>1. F[0] = << >>
    BY <1>0
  <2>2. F[0] \in Seq(SenderKeyState) /\ Len(F[0]) = 0
    BY <2>1
  <2> QED
    BY <2>2 DEF OneStatePerId
<1>2. ASSUME NEW i \in Nat, i \in T
      PROVE  i + 1 \in T
  <2> SUFFICES ASSUME i + 1 <= n
               PROVE  P(i + 1)
    OBVIOUS
  <2>1. P(i)
    BY <1>2
  <2>2. i + 1 \in 1 .. n /\ states[i + 1] \in SenderKeyState
    OBVIOUS
  <2>3. \A e : From(i, e) => From(i + 1, e)
    OBVIOUS
  <2>4. F[i + 1] = IF states[i + 1].id = id THEN F[i] ELSE Append(F[i], states[i + 1])
    <3>1. i + 1 \in 0 .. n /\ i + 1 # 0 /\ (i + 1) - 1 = i
      OBVIOUS
    <3>2. F[i + 1] = IF i + 1 = 0 THEN << >>
                     ELSE IF states[i + 1].id = id THEN F[(i + 1) - 1]
                     ELSE Append(F[(i + 1) - 1], states[i + 1])
      BY <1>0, <3>1, Zenon
    <3> QED
      BY <3>1, <3>2
  <2>5. CASE states[i + 1].id = id
    <3>1. F[i + 1] = F[i]
      BY <2>4, <2>5
    <3> HIDE DEF From
    <3> QED
      BY <2>1, <2>3, <3>1
  <2>6. CASE states[i + 1].id # id
    <3> DEFINE old == F[i]
               new == Append(old, states[i + 1])
    <3>1. F[i + 1] = new
      BY <2>4, <2>6
    <3>2. old \in Seq(SenderKeyState) /\ Len(old) \in Nat /\ Len(old) <= i
      BY <2>1
    <3> HIDE DEF old
    <3>3. /\ new \in Seq(SenderKeyState)
          /\ Len(new) = Len(old) + 1
          /\ \A j \in 1 .. Len(old) : new[j] = old[j]
          /\ new[Len(old) + 1] = states[i + 1]
      BY <3>2, <2>2
    <3> HIDE DEF new
    <3>4. From(i + 1, states[i + 1])
      BY <2>2, <2>6
    <3>5. ASSUME NEW j \in 1 .. Len(new)
          PROVE  From(i + 1, new[j])
      <4>1. CASE j \in 1 .. Len(old)
        <5>1. From(i, old[j])
          BY <4>1, <2>1 DEF old
        <5> HIDE DEF From
        <5> QED
          BY <5>1, <4>1, <3>3, <2>3
      <4>2. CASE j = Len(old) + 1
        <5> HIDE DEF From
        <5> QED
          BY <4>2, <3>3, <3>4
      <4> QED
        BY <4>1, <4>2, <3>2, <3>3
    <3>6. \A j \in 1 .. Len(old) : old[j].id # states[i + 1].id
      <4> SUFFICES ASSUME NEW j \in 1 .. Len(old)
                   PROVE  old[j].id # states[i + 1].id
        OBVIOUS
      <4>1. PICK k \in 1 .. i : old[j] = states[k]
        BY <2>1 DEF old
      <4>2. k \in 1 .. n /\ k # i + 1
        BY <3>2
      <4> QED
        BY <4>1, <4>2, <2>2 DEF OneStatePerId
    <3>7. OneStatePerId(old)
      BY <2>1 DEF old
    <3>8. OneStatePerId(new)
      <4> SUFFICES ASSUME NEW a \in 1 .. Len(new), NEW b \in 1 .. Len(new), new[a].id = new[b].id
                   PROVE  a = b
        BY DEF OneStatePerId
      <4>1. (a \in 1 .. Len(old) \/ a = Len(old) + 1) /\ (b \in 1 .. Len(old) \/ b = Len(old) + 1)
        BY <3>2, <3>3
      <4> QED
        BY <4>1, <3>3, <3>6, <3>7 DEF OneStatePerId
    <3> HIDE DEF From
    <3> QED
      BY <3>1, <3>2, <3>3, <3>5, <3>8
  <2> QED
    BY <2>5, <2>6
<1> HIDE DEF T
<1>3. n \in Nat /\ n \in T
  BY <1>1, <1>2, NatInduct
<1>4. P(n)
  BY <1>3 DEF T
<1>5. filtered(states, id) = F[n]
  BY <1>0
<1> QED
  BY <1>4, <1>5

-----------------------------------------------------------------------------
(* Stored keys. *)

Entry == [iteration : Nat, seed : Seed]
OnePerIteration(mks) == \A j, k \in mks : j.iteration = k.iteration => j = k
Later(mks, k) == {j \in mks : j.iteration > k.iteration}

\* The limit on stored keys does what it is for.
LEMMA NewestFacts ==
  ASSUME NEW mks \in SUBSET Entry, IsFiniteSet(mks), OnePerIteration(mks)
  PROVE  /\ Newest(mks) \subseteq mks
         /\ IsFiniteSet(Newest(mks))
         /\ Cardinality(Newest(mks)) \in Nat
         /\ Cardinality(Newest(mks)) <= MaxMessageKeys
<1> DEFINE N == Newest(mks)
<1>1. N = {k \in mks : Cardinality(Later(mks, k)) < MaxMessageKeys}
  BY DEF Newest, Later
<1>2. N \subseteq mks
  BY <1>1
<1> HIDE DEF N
<1>3. IsFiniteSet(N) /\ Cardinality(N) \in Nat
  BY <1>2, FS_Subset, FS_CardinalityType
<1>4. Cardinality(N) <= MaxMessageKeys
  <2>1. CASE N = {}
    BY <2>1, FS_EmptySet, SenderKeysAssumption
  <2>2. CASE N # {}
    <3> DEFINE its == {k.iteration : k \in N}
    <3>1. its \subseteq Nat /\ its # {}
      BY <1>2, <2>2 DEF Entry
    <3> HIDE DEF its
    <3>2. PICK x \in its : \A y \in its : x <= y
      BY <3>1, LeastNatural
    <3>3. PICK k \in N : x = k.iteration
      BY DEF its
    <3>4. \A j \in N : k.iteration <= j.iteration
      BY <3>2, <3>3 DEF its
    <3>5. N \ {k} \subseteq Later(mks, k)
      <4> SUFFICES ASSUME NEW j \in N, j # k
                   PROVE  j \in mks /\ j.iteration > k.iteration
        BY DEF Later
      <4>1. j \in Entry /\ k \in Entry /\ j.iteration # k.iteration
        BY <1>2 DEF OnePerIteration
      <4> QED
        BY <4>1, <3>4, <1>2 DEF Entry
    <3>6. IsFiniteSet(Later(mks, k)) /\ Later(mks, k) \subseteq mks
      BY FS_Subset DEF Later
    <3>7. Cardinality(N \ {k}) <= Cardinality(Later(mks, k))
      BY <3>5, <3>6, FS_Subset
    <3>8. Cardinality(N \ {k}) = Cardinality(N) - 1
      BY <1>3, FS_RemoveElement
    <3>9. Cardinality(Later(mks, k)) < MaxMessageKeys
      BY <1>1
    <3>10. Cardinality(Later(mks, k)) \in Nat
      BY <3>6, FS_CardinalityType
    <3> QED
      BY <1>3, <3>7, <3>8, <3>9, <3>10, SenderKeysAssumption
  <2> QED
    BY <2>1, <2>2
<1> QED
  BY <1>2, <1>3, <1>4 DEF N

\* Below the limit nothing is dropped.
LEMMA NewestSame ==
  ASSUME NEW mks \in SUBSET Entry, IsFiniteSet(mks), Cardinality(mks) <= MaxMessageKeys
  PROVE  Newest(mks) = mks
<1> SUFFICES ASSUME NEW k \in mks
             PROVE  Cardinality(Later(mks, k)) < MaxMessageKeys
  BY DEF Newest, Later
<1>1. k \notin Later(mks, k) /\ Later(mks, k) \subseteq mks \ {k}
  BY DEF Later, Entry
<1>2. IsFiniteSet(mks \ {k}) /\ Cardinality(mks \ {k}) = Cardinality(mks) - 1
  BY FS_RemoveElement
<1>3. Cardinality(Later(mks, k)) <= Cardinality(mks \ {k}) /\ IsFiniteSet(Later(mks, k))
  BY <1>1, <1>2, FS_Subset
<1>4. Cardinality(mks) \in Nat /\ Cardinality(Later(mks, k)) \in Nat
  BY <1>3, FS_CardinalityType
<1> QED
  BY <1>2, <1>3, <1>4, SenderKeysAssumption

\* A key that fewer than MaxMessageKeys numbers follow stays.
LEMMA NewestKeeps ==
  ASSUME NEW mks \in SUBSET Entry, OnePerIteration(mks), NEW k \in mks,
         NEW last \in Nat, \A j \in mks : j.iteration <= last,
         last - k.iteration < MaxMessageKeys
  PROVE  k \in Newest(mks)
<1> DEFINE L == Later(mks, k)
           I == (k.iteration + 1) .. last
           f == [j \in L |-> j.iteration]
<1>1. k.iteration \in Nat /\ k.iteration <= last
  BY DEF Entry
<1>2. f \in [L -> I]
  <2> SUFFICES ASSUME NEW j \in L
               PROVE  j.iteration \in I
    OBVIOUS
  <2>1. j \in mks /\ j.iteration \in Nat /\ j.iteration > k.iteration
    BY DEF Later, Entry
  <2> QED
    BY <2>1, <1>1
<1>3. \A a, b \in L : f[a] = f[b] => a = b
  BY DEF Later, OnePerIteration
<1>4. IsFiniteSet(I) /\ Cardinality(I) = last - k.iteration
  <2>1. k.iteration + 1 \in Int /\ last \in Int
    BY <1>1
  <2>2. /\ IsFiniteSet(I)
        /\ Cardinality(I) = IF k.iteration + 1 > last THEN 0 ELSE last - (k.iteration + 1) + 1
    BY <2>1, FS_Interval, Zenon
  <2> HIDE DEF I
  <2> QED
    BY <1>1, <2>2
<1> HIDE DEF f, I
<1>5. Cardinality(L) <= Cardinality(I) /\ Cardinality(L) \in Nat
  BY <1>2, <1>3, <1>4, InjectionBound
<1>6. Cardinality(L) < MaxMessageKeys
  BY <1>1, <1>4, <1>5, SenderKeysAssumption
<1> QED
  BY <1>6 DEF Newest, Later

\* The keys of the numbers passed over.
LEMMA PassedFacts ==
  ASSUME NEW s \in SenderKeyState, WfState(s), NEW until \in Nat, s.chainIteration <= until
  PROVE  /\ Passed(s, until) = {[iteration |-> i, seed |-> <<s.id, i>>] : i \in s.chainIteration .. (until - 1)}
         /\ Passed(s, until) \subseteq Entry
         /\ IsFiniteSet(Passed(s, until))
<1> DEFINE I == s.chainIteration .. (until - 1)
           P == {[iteration |-> i, seed |-> <<s.id, i>>] : i \in I}
           f == [i \in I |-> [iteration |-> i, seed |-> <<s.id, i>>]]
<1>1. s.chainIteration \in Nat /\ s.id \in Id /\ I \subseteq Nat
  BY DEF SenderKeyState
<1>2. Passed(s, until) = P
  <2>1. ASSUME NEW i \in I
        PROVE  Derive(s.chainSeed, i - s.chainIteration) = <<s.id, i>>
    BY <1>1 DEF Derive, WfState
  <2> QED
    BY <2>1 DEF Passed
<1>3. P \subseteq Entry
  BY <1>1 DEF Entry, Seed
<1>4. IsFiniteSet(I)
  BY <1>1, FS_Interval
<1>5. f \in [I -> P] /\ \A t \in P : \E a \in I : f[a] = t
  OBVIOUS
<1> HIDE DEF f, I, P
<1>6. IsFiniteSet(P)
  BY <1>4, <1>5, SurjectionBound
<1> QED
  BY <1>2, <1>3, <1>6 DEF P, I

-----------------------------------------------------------------------------
(* Records that are stored. *)

\* Storing and loading a record within its limits does not change it.
LEMMA PersistedSame ==
  ASSUME NEW states, WfRecord(states)
  PROVE  Persisted(states) = states
<1> DEFINE n == Len(states)
           data == Serialize(states)
<1>1. states \in Seq(SenderKeyState) /\ n \in Nat /\ n <= MaxStates
  BY DEF WfRecord
<1>2. Len(Prefix(states, MaxStates)) = n
  BY <1>1, SenderKeysAssumption DEF Prefix
<1>3. data = [i \in 1 .. n |->
                <<states[i].id, states[i].chainIteration, states[i].chainSeed, states[i].hasPrivate,
                  Newest(states[i].messageKeys)>>]
  BY <1>2 DEF Serialize
<1>4. Len(data) = n
  BY <1>3, <1>1
<1>5. ASSUME NEW i \in 1 .. n
      PROVE  [id |-> data[i][1], chainIteration |-> data[i][2], chainSeed |-> data[i][3],
              hasPrivate |-> data[i][4], messageKeys |-> data[i][5]] = states[i]
  <2>1. states[i] \in SenderKeyState /\ WfState(states[i])
    BY <1>1 DEF WfRecord
  <2>2. states[i].messageKeys \in SUBSET Entry
    BY <2>1 DEF SenderKeyState, MessageKeys, Entry
  <2>3. Newest(states[i].messageKeys) = states[i].messageKeys
    BY <2>1, <2>2, NewestSame DEF WfState
  <2>4. data[i] = <<states[i].id, states[i].chainIteration, states[i].chainSeed, states[i].hasPrivate,
                    states[i].messageKeys>>
    BY <1>3, <2>3
  <2> QED
    BY <2>1, <2>4 DEF SenderKeyState
<1>6. Persisted(states) = [i \in 1 .. n |-> states[i]]
  <2> HIDE DEF data
  <2>1. DeserializeRecord(data) = [i \in 1 .. n |-> states[i]]
    BY <1>4, <1>5 DEF DeserializeRecord
  <2> QED
    BY <2>1 DEF Persisted, data
<1> QED
  BY <1>1, <1>6

\* setState: the new state in front, states of other ids behind it.
LEMMA SetStateFacts ==
  ASSUME NEW states, WfRecord(states), NEW next \in SenderKeyState, WfState(next),
         NEW res, res = Persisted(setState(states, next))
  PROVE  /\ WfRecord(res)
         /\ Len(res) \in Nat /\ Len(res) >= 1
         /\ res[1] = next
         /\ \A j \in 1 .. Len(res) : j # 1 =>
              \E k \in 1 .. Len(states) : res[j] = states[k] /\ states[k].id # next.id
<1> DEFINE f == filtered(states, next.id)
           all == <<next>> \o f
           n == IF Len(all) < MaxStates THEN Len(all) ELSE MaxStates
           new == SubSeq(all, 1, n)
<1>1. /\ f \in Seq(SenderKeyState)
      /\ OneStatePerId(f)
      /\ \A j \in 1 .. Len(f) : \E k \in 1 .. Len(states) : f[j] = states[k] /\ states[k].id # next.id
  BY FilteredFacts DEF WfRecord
<1>2. setState(states, next) = new
  BY DEF setState, Prefix
<1> HIDE DEF f
<1>3. /\ all \in Seq(SenderKeyState)
      /\ Len(all) = Len(f) + 1
      /\ all[1] = next
      /\ \A j \in 1 .. Len(all) : j # 1 => j - 1 \in 1 .. Len(f) /\ all[j] = f[j - 1]
  BY <1>1
<1> HIDE DEF all
<1>4. n \in Nat /\ n >= 1 /\ n <= Len(all) /\ n <= MaxStates
  BY <1>1, <1>3, SenderKeysAssumption
<1> HIDE DEF n
<1>5. /\ new \in Seq(SenderKeyState)
      /\ Len(new) = n
      /\ \A j \in 1 .. n : new[j] = all[j]
  BY <1>3, <1>4
<1> HIDE DEF new
<1>6. new[1] = next
  BY <1>3, <1>4, <1>5
<1>7. ASSUME NEW j \in 1 .. n, j # 1
      PROVE  /\ j - 1 \in 1 .. Len(f) /\ new[j] = f[j - 1]
             /\ \E k \in 1 .. Len(states) : new[j] = states[k] /\ states[k].id # next.id
  <2>1. j \in 1 .. Len(all)
    BY <1>4
  <2>2. j - 1 \in 1 .. Len(f) /\ new[j] = f[j - 1]
    BY <2>1, <1>3, <1>5, <1>7
  <2> QED
    BY <2>2, <1>1
<1>8. OneStatePerId(new)
  <2> SUFFICES ASSUME NEW a \in 1 .. n, NEW b \in 1 .. n, new[a].id = new[b].id
               PROVE  a = b
    BY <1>5 DEF OneStatePerId
  <2>1. CASE a = 1
    BY <2>1, <1>6, <1>7
  <2>2. CASE b = 1
    BY <2>2, <1>6, <1>7
  <2>3. CASE a # 1 /\ b # 1
    <3>1. /\ a - 1 \in 1 .. Len(f) /\ b - 1 \in 1 .. Len(f)
          /\ f[a - 1].id = f[b - 1].id
      BY <2>3, <1>7
    <3>2. a - 1 = b - 1
      BY <3>1, <1>1 DEF OneStatePerId
    <3> QED
      BY <3>2
  <2> QED
    BY <2>1, <2>2, <2>3
<1>9. \A j \in 1 .. n : WfState(new[j])
  BY <1>6, <1>7 DEF WfRecord
<1>10. WfRecord(new)
  BY <1>4, <1>5, <1>8, <1>9 DEF WfRecord
<1>11. Persisted(setState(states, next)) = new
  BY <1>2, <1>10, PersistedSame
<1>12. /\ Len(new) \in Nat /\ Len(new) >= 1
       /\ \A j \in 1 .. Len(new) : j # 1 =>
            \E k \in 1 .. Len(states) : new[j] = states[k] /\ states[k].id # next.id
  BY <1>4, <1>5, <1>7
<1> QED
  BY <1>6, <1>10, <1>11, <1>12

\* The state of an id.
LEMMA StateOfFacts ==
  ASSUME NEW states, WfRecord(states), NEW id \in StateIds(states)
  PROVE  \E i \in 1 .. Len(states) : states[i].id = id /\ StateOf(states, id) = states[i]
<1>1. \E i \in 1 .. Len(states) : states[i].id = id
  BY DEF StateIds
<1> DEFINE c == CHOOSE i \in 1 .. Len(states) : states[i].id = id
<1>2. c \in 1 .. Len(states) /\ states[c].id = id
  BY <1>1
<1>3. StateOf(states, id) = states[c]
  BY DEF StateOf
<1> QED
  BY <1>2, <1>3

\* A state changed in place, and the record stored.
LEMMA UpdateFacts ==
  ASSUME NEW states, WfRecord(states), NEW i \in 1 .. Len(states),
         NEW t \in SenderKeyState, WfState(t), t.id = states[i].id
  PROVE  /\ Persisted(UpdateState(states, t)) = [states EXCEPT ![i] = t]
         /\ WfRecord([states EXCEPT ![i] = t])
<1> DEFINE new == [states EXCEPT ![i] = t]
<1>1. states \in Seq(SenderKeyState) /\ Len(states) \in Nat
  BY DEF WfRecord
<1>2. /\ new \in Seq(SenderKeyState) /\ Len(new) = Len(states)
      /\ \A j \in 1 .. Len(states) : new[j] = IF j = i THEN t ELSE states[j]
  BY <1>1
<1>3. UpdateState(states, t) = new
  <2>1. \A j \in 1 .. Len(states) : (states[j].id = t.id) <=> j = i
    BY DEF WfRecord, OneStatePerId
  <2>2. UpdateState(states, t) = [j \in 1 .. Len(states) |-> IF j = i THEN t ELSE states[j]]
    BY <2>1 DEF UpdateState
  <2> QED
    BY <2>2, <1>1
<1> HIDE DEF new
<1>4. OneStatePerId(new)
  BY <1>2 DEF OneStatePerId, WfRecord
<1>5. WfRecord(new)
  BY <1>2, <1>4 DEF WfRecord
<1> QED
  BY <1>3, <1>5, PersistedSame DEF new

-----------------------------------------------------------------------------
(* Decrypt. *)

\* A stored key is used up.
StoredStep(s, t, m) ==
  /\ m.iteration < s.chainIteration
  /\ \E k \in s.messageKeys : k.iteration = m.iteration
  /\ t = [s EXCEPT !.messageKeys = {k \in @ : k.iteration # m.iteration}]

\* The chain advances beyond the message.
AdvanceStep(s, t, m) ==
  /\ s.chainIteration <= m.iteration
  /\ m.iteration - s.chainIteration <= MaxMessageKeys
  /\ m.iteration < MaxIteration
  /\ t = Advance(s, m.iteration)

\* The chain and the stored keys after an advance.
LEMMA AdvanceFacts ==
  ASSUME NEW s \in SenderKeyState, WfState(s), NEW n \in Nat,
         s.chainIteration <= n, n < MaxIteration
  PROVE  LET t == Advance(s, n)
             mks == s.messageKeys \cup Passed(s, n)
         IN  /\ t \in SenderKeyState /\ WfState(t)
             /\ t.id = s.id /\ t.chainIteration = n + 1 /\ t.hasPrivate = s.hasPrivate
             /\ mks \in SUBSET Entry /\ OnePerIteration(mks)
             /\ \A k \in mks : k.iteration < n
             /\ t.messageKeys = Newest(mks) /\ t.messageKeys \subseteq mks
<1> DEFINE mks == s.messageKeys \cup Passed(s, n)
           t == Advance(s, n)
<1>1. /\ s.chainIteration \in Nat /\ s.id \in Id /\ s.hasPrivate \in BOOLEAN
      /\ s.messageKeys \in SUBSET Entry
  BY DEF SenderKeyState, MessageKeys, Entry
<1>2. /\ Passed(s, n) = {[iteration |-> i, seed |-> <<s.id, i>>] : i \in s.chainIteration .. (n - 1)}
      /\ Passed(s, n) \subseteq Entry /\ IsFiniteSet(Passed(s, n))
  BY PassedFacts
<1>3. mks \in SUBSET Entry /\ IsFiniteSet(mks)
  BY <1>1, <1>2, FS_Union DEF WfState
<1>4. \A k \in mks : k.iteration \in Nat /\ k.iteration < n /\ k.seed = <<s.id, k.iteration>>
  <2> SUFFICES ASSUME NEW k \in mks
               PROVE  k.iteration \in Nat /\ k.iteration < n /\ k.seed = <<s.id, k.iteration>>
    OBVIOUS
  <2>1. CASE k \in s.messageKeys
    BY <2>1, <1>1 DEF WfState, Entry
  <2>2. CASE k \in Passed(s, n)
    BY <2>2, <1>1, <1>2
  <2> QED
    BY <2>1, <2>2
<1>5. OnePerIteration(mks)
  <2> SUFFICES ASSUME NEW j \in mks, NEW k \in mks, j.iteration = k.iteration
               PROVE  j = k
    BY DEF OnePerIteration
  <2>1. j.seed = k.seed /\ j \in Entry /\ k \in Entry
    BY <1>3, <1>4
  <2> QED
    BY <2>1 DEF Entry
<1> HIDE DEF mks
<1>6. /\ Newest(mks) \subseteq mks /\ IsFiniteSet(Newest(mks))
      /\ Cardinality(Newest(mks)) <= MaxMessageKeys
  BY <1>3, <1>5, NewestFacts
<1>7. Derive(s.chainSeed, n + 1 - s.chainIteration) = <<s.id, n + 1>>
  BY <1>1 DEF Derive, WfState
<1>8. /\ t = [s EXCEPT !.chainIteration = n + 1, !.chainSeed = <<s.id, n + 1>>, !.messageKeys = Newest(mks)]
      /\ s \in [id : Id, chainIteration : Nat, chainSeed : Seed, hasPrivate : BOOLEAN,
                messageKeys : MessageKeys]
  BY <1>7 DEF Advance, mks, SenderKeyState
<1>9. /\ t.id = s.id /\ t.chainIteration = n + 1 /\ t.hasPrivate = s.hasPrivate
      /\ t.chainSeed = <<s.id, n + 1>> /\ t.messageKeys = Newest(mks)
  BY <1>8
<1>10. <<s.id, n + 1>> \in Seed /\ Newest(mks) \in MessageKeys /\ n + 1 \in Nat
  BY <1>1, <1>3, <1>6 DEF Seed, MessageKeys, Entry
<1>11. t \in SenderKeyState
  BY <1>8, <1>10 DEF SenderKeyState
<1> HIDE DEF t
<1>12. WfState(t)
  <2>1. n + 1 <= MaxIteration
    BY SenderKeysAssumption
  <2>2. \A k \in Newest(mks) : k.iteration < n + 1 /\ k.seed = <<s.id, k.iteration>>
    BY <1>4, <1>6 DEF mks
  <2> QED
    BY <1>6, <1>9, <2>1, <2>2 DEF WfState
<1>13. \A k \in mks : k.iteration < n
  BY <1>4 DEF mks
<1> QED
  BY <1>3, <1>5, <1>6, <1>9, <1>11, <1>12, <1>13 DEF mks, t

\* What is left when a stored key is used up.
LEMMA RemoveFacts ==
  ASSUME NEW s \in SenderKeyState, WfState(s), NEW n, NEW k \in s.messageKeys, k.iteration = n
  PROVE  LET t == [s EXCEPT !.messageKeys = {j \in @ : j.iteration # n}]
         IN  removeMessageKey(s, k) = t /\ t \in SenderKeyState /\ WfState(t)
<1> DEFINE rest == {j \in s.messageKeys : j.iteration # n}
           t == [s EXCEPT !.messageKeys = rest]
<1>1. s.messageKeys \in SUBSET Entry
  BY DEF SenderKeyState, MessageKeys, Entry
<1>2. s.messageKeys \ {k} = rest
  <2> SUFFICES ASSUME NEW j \in s.messageKeys, j.iteration = n
               PROVE  j = k
    OBVIOUS
  <2>1. j.seed = k.seed /\ j \in Entry /\ k \in Entry
    BY <1>1 DEF WfState
  <2> QED
    BY <2>1 DEF Entry
<1>3. removeMessageKey(s, k) = t
  BY <1>2 DEF removeMessageKey
<1>4. t \in SenderKeyState
  BY DEF SenderKeyState, MessageKeys
<1>5. IsFiniteSet(rest) /\ Cardinality(rest) <= Cardinality(s.messageKeys) /\ rest \subseteq s.messageKeys
      /\ Cardinality(rest) \in Nat /\ Cardinality(s.messageKeys) \in Nat
  <2>1. rest \subseteq s.messageKeys /\ IsFiniteSet(s.messageKeys)
    BY DEF WfState
  <2> QED
    BY <2>1, FS_Subset, FS_CardinalityType
<1>6. /\ t.id = s.id /\ t.chainIteration = s.chainIteration /\ t.chainSeed = s.chainSeed
      /\ t.messageKeys = rest
  BY DEF SenderKeyState
<1> HIDE DEF t, rest
<1>7. WfState(t)
  BY <1>5, <1>6, SenderKeysAssumption DEF WfState
<1> QED
  BY <1>3, <1>4, <1>7 DEF t, rest

\* Decrypt either leaves the record alone or changes the state of the message;
\* a message of the sender is never refused for a wrong key.
LEMMA OutcomeCases ==
  ASSUME NEW states, WfRecord(states), NEW m \in Message, m.key = <<m.id, m.iteration>>,
         m.iteration <= MaxIteration
  PROVE  /\ Outcome(states, m).err # "invalid"
         /\ \/ Outcome(states, m).err # "none" /\ Outcome(states, m).states = states
            \/ /\ Outcome(states, m).err = "none" /\ m.signed
               /\ \E i \in 1 .. Len(states) : \E t \in SenderKeyState :
                    /\ states[i].id = m.id /\ t.id = m.id /\ t.hasPrivate = states[i].hasPrivate
                    /\ WfState(t)
                    /\ StoredStep(states[i], t, m) \/ AdvanceStep(states[i], t, m)
                    /\ Outcome(states, m).states = [states EXCEPT ![i] = t]
                    /\ WfRecord([states EXCEPT ![i] = t])
<1> DEFINE out == getSenderMessageKey(StateOf(states, m.id), m.iteration)
           res == Outcome(states, m)
<1>1. CASE m.id \notin StateIds(states)
  BY <1>1 DEF Outcome
<1>2. CASE m.id \in StateIds(states) /\ ~m.signed
  BY <1>2 DEF Outcome
<1>3. CASE m.id \in StateIds(states) /\ m.signed
  <2>1. PICK i \in 1 .. Len(states) : states[i].id = m.id /\ StateOf(states, m.id) = states[i]
    BY <1>3, StateOfFacts
  <2> DEFINE s == states[i]
             n == m.iteration
             stored == {k \in s.messageKeys : k.iteration = n}
  <2>2. s \in SenderKeyState /\ WfState(s) /\ n \in Nat /\ s.chainIteration \in Nat /\ m.id = s.id
    <3>1. s \in SenderKeyState /\ WfState(s)
      BY <2>1 DEF WfRecord
    <3>2. s.chainIteration \in Nat
      BY <3>1 DEF SenderKeyState
    <3>3. n \in Nat
      BY DEF Message
    <3> QED
      BY <3>1, <3>2, <3>3, <2>1
  <2>3. out = getSenderMessageKey(s, n)
    BY <2>1
  <2>4. res = [err |-> IF out.err = "none" /\ out.key # m.key THEN "invalid" ELSE out.err,
               states |-> IF (IF out.err = "none" /\ out.key # m.key THEN "invalid" ELSE out.err) = "none"
                          THEN Persisted(UpdateState(states, out.state)) ELSE states]
    BY <1>3 DEF Outcome
  <2> HIDE DEF out, res, s
  <2>5. ASSUME NEW e, out = Failure(s, e), e # "none", e # "invalid"
        PROVE  res.err = e /\ res.states = states
    BY <2>4, <2>5 DEF Failure
  <2>6. ASSUME NEW t \in SenderKeyState, WfState(t), t.id = s.id, t.hasPrivate = s.hasPrivate,
               out = Success(t, <<s.id, n>>)
        PROVE  /\ res.err = "none"
               /\ res.states = [states EXCEPT ![i] = t]
               /\ WfRecord([states EXCEPT ![i] = t])
    <3>1. out.err = "none" /\ out.key = m.key /\ out.state = t
      BY <2>6, <2>2 DEF Success
    <3>2. res.err = "none" /\ res.states = Persisted(UpdateState(states, t))
      BY <2>4, <3>1
    <3> QED
      BY <3>2, <2>6, UpdateFacts DEF s
  <2>7. CASE s.chainIteration > n /\ stored = {}
    <3>1. out = Failure(s, "duplicate")
      BY <2>3, <2>7 DEF getSenderMessageKey
    <3> QED
      BY <3>1, <2>5 DEF res
  <2>8. CASE s.chainIteration > n /\ stored # {}
    <3> DEFINE k == CHOOSE k \in stored : TRUE
               t == [s EXCEPT !.messageKeys = {j \in @ : j.iteration # n}]
    <3>1. k \in s.messageKeys /\ k.iteration = n
      BY <2>8
    <3>2. out = Success(removeMessageKey(s, k), k.seed)
      BY <2>3, <2>8 DEF getSenderMessageKey
    <3> HIDE DEF k
    <3>3. removeMessageKey(s, k) = t /\ t \in SenderKeyState /\ WfState(t)
      BY <3>1, <2>2, RemoveFacts
    <3>4. k.seed = <<s.id, n>>
      BY <3>1, <2>2 DEF WfState
    <3>5. t.id = s.id /\ t.hasPrivate = s.hasPrivate
      BY <2>2 DEF SenderKeyState
    <3>6. StoredStep(s, t, m)
      BY <2>2, <2>8, <3>1 DEF StoredStep
    <3> HIDE DEF t
    <3>7. /\ res.err = "none"
          /\ res.states = [states EXCEPT ![i] = t]
          /\ WfRecord([states EXCEPT ![i] = t])
      BY <3>2, <3>3, <3>4, <3>5, <2>6
    <3> QED
      BY <1>3, <2>1, <2>2, <3>3, <3>5, <3>6, <3>7 DEF res, s
  <2>9. CASE s.chainIteration <= n /\ n - s.chainIteration > MaxMessageKeys
    <3>1. out = Failure(s, "maxskip")
      BY <2>2, <2>3, <2>9 DEF getSenderMessageKey
    <3> QED
      BY <3>1, <2>5 DEF res
  <2>10. CASE s.chainIteration <= n /\ n - s.chainIteration <= MaxMessageKeys /\ n >= MaxIteration
    <3>1. n = MaxIteration
      BY <2>2, <2>10, SenderKeysAssumption
    <3>2. out = Failure(s, "overflow")
      BY <2>2, <2>3, <2>10, <3>1, SenderKeysAssumption DEF getSenderMessageKey
    <3> QED
      BY <3>2, <2>5 DEF res
  <2>11. CASE s.chainIteration <= n /\ n - s.chainIteration <= MaxMessageKeys /\ n < MaxIteration
    <3> DEFINE t == Advance(s, n)
    <3>1. out = Success(t, Derive(s.chainSeed, n - s.chainIteration))
      BY <2>2, <2>3, <2>11, SenderKeysAssumption DEF getSenderMessageKey
    <3>2. Derive(s.chainSeed, n - s.chainIteration) = <<s.id, n>>
      BY <2>2 DEF Derive, WfState, SenderKeyState
    <3>3. t \in SenderKeyState /\ WfState(t) /\ t.id = s.id /\ t.hasPrivate = s.hasPrivate
      BY <2>2, <2>11, AdvanceFacts
    <3>4. AdvanceStep(s, t, m)
      BY <2>11 DEF AdvanceStep
    <3> HIDE DEF t
    <3>5. /\ res.err = "none"
          /\ res.states = [states EXCEPT ![i] = t]
          /\ WfRecord([states EXCEPT ![i] = t])
      BY <3>1, <3>2, <3>3, <2>6
    <3> QED
      BY <1>3, <2>1, <2>2, <3>3, <3>4, <3>5 DEF res, s
  <2>12. \/ s.chainIteration > n
         \/ s.chainIteration <= n /\ n - s.chainIteration > MaxMessageKeys
         \/ s.chainIteration <= n /\ n - s.chainIteration <= MaxMessageKeys /\ n >= MaxIteration
         \/ s.chainIteration <= n /\ n - s.chainIteration <= MaxMessageKeys /\ n < MaxIteration
    BY <2>2, SenderKeysAssumption
  <2> QED
    BY <2>7, <2>8, <2>9, <2>10, <2>11, <2>12
<1> QED
  BY <1>1, <1>2, <1>3

-----------------------------------------------------------------------------
(* Every step preserves the invariant. *)

LEMMA StateTypes ==
  ASSUME NEW states, WfRecord(states), NEW i \in 1 .. Len(states)
  PROVE  /\ states[i] \in SenderKeyState /\ WfState(states[i])
         /\ states[i].id \in Id /\ states[i].id \in Int
         /\ states[i].chainIteration \in Nat /\ states[i].hasPrivate \in BOOLEAN
         /\ states[i].messageKeys \in SUBSET Entry
<1>1. states[i] \in SenderKeyState /\ WfState(states[i])
  BY DEF WfRecord
<1> QED
  BY <1>1, SenderKeysAssumption DEF SenderKeyState, MessageKeys, Entry, Id

LEMMA InitIInv == Init => IInv
<1> SUFFICES ASSUME Init
             PROVE  IInv
  OBVIOUS
<1> USE DEF Init
<1>1. WfRecord(<< >>)
  BY SenderKeysAssumption DEF WfRecord, OneStatePerId
<1>2. RecordsInv
  BY <1>1 DEF RecordsInv
<1>3. TypeOK
  <2>1. own \in Seq(SenderKeyState) /\ Len(own) = 0
    OBVIOUS
  <2>2. rec \in [Receivers -> Seq(SenderKeyState)]
    OBVIOUS
  <2>3. /\ ids \in 0 .. MaxIds /\ echoes \in 0 .. MaxEchoes
        /\ installed \in [Receivers -> [Id -> Nat]]
    BY SenderKeysAssumption
  <2> QED
    BY <2>1, <2>2, <2>3 DEF TypeOK
<1>4. NamesInv /\ SendingInv /\ DeliveredInv /\ PendingInv /\ UniqueMessageKeys
  BY FS_EmptySet DEF NamesInv, SendingInv, DeliveredInv, PendingInv, UniqueMessageKeys
<1> QED
  BY <1>2, <1>3, <1>4 DEF IInv

\* The records of the receivers, and what is said of them, stay.
LEMMA ReceiversSame ==
  ASSUME IInv, UNCHANGED <<rec, net, installed, delivered>>
  PROVE  /\ \A r \in Receivers : WfRecord(rec'[r])
         /\ DeliveredInv' /\ PendingInv' /\ UniqueMessageKeys'
BY DEF IInv, RecordsInv, DeliveredInv, PendingInv, UniqueMessageKeys

\* A sending state with a new id.
LEMMA NewStateIInv ==
  ASSUME IInv, ids < MaxIds,
         own' = Persisted(setState(own, newSendingState)),
         ids' = ids + 1,
         dists' = dists \cup {DistributionOf(newSendingState)},
         UNCHANGED <<rec, net, echoes, installed, delivered, accepted>>
  PROVE  IInv'
<1> DEFINE s == newSendingState
<1>1. ids \in Nat /\ MaxIds \in Nat /\ ids \in Id
  BY SenderKeysAssumption DEF IInv, TypeOK, Id
<1>2. s \in SenderKeyState
  BY <1>1 DEF newSendingState, SenderKeyState, MessageKeys, Seed
<1>3. s.id = ids /\ s.chainIteration = 0 /\ s.chainSeed = <<ids, 0>> /\ s.messageKeys = {}
  BY DEF newSendingState
<1>4. WfState(s)
  BY <1>3, FS_EmptySet, SenderKeysAssumption DEF WfState
<1>5. WfRecord(own)
  BY DEF IInv, RecordsInv
<1> HIDE DEF s
<1>6. /\ WfRecord(own')
      /\ own'[1] = s
      /\ \A j \in 1 .. Len(own') : j # 1 =>
           \E k \in 1 .. Len(own) : own'[j] = own[k] /\ own[k].id # ids
  <2> DEFINE new == Persisted(setState(own, s))
  <2>1. own' = new
    BY DEF s
  <2>2. /\ WfRecord(new)
        /\ new[1] = s
        /\ \A j \in 1 .. Len(new) : j # 1 =>
             \E k \in 1 .. Len(own) : new[j] = own[k] /\ own[k].id # s.id
    BY <1>2, <1>4, <1>5, SetStateFacts
  <2> HIDE DEF new
  <2> QED
    BY <2>1, <2>2, <1>3
<1>7. DistributionOf(s) = [id |-> ids, iteration |-> 0, chainKey |-> <<ids, 0>>]
  BY <1>3 DEF DistributionOf
<1>8. dists' = dists \cup {[id |-> ids, iteration |-> 0, chainKey |-> <<ids, 0>>]}
  BY <1>7 DEF s
<1>9. ASSUME NEW j \in 1 .. Len(own')
      PROVE  \/ own'[j] = s
             \/ \E k \in 1 .. Len(own) : own'[j] = own[k] /\ own[k].id # ids
  BY <1>6
<1>10. RecordsInv'
  BY <1>6, ReceiversSame DEF RecordsInv
<1>11. TypeOK'
  <2>1. own' \in Seq(SenderKeyState) /\ \A i \in 1 .. Len(own') : own'[i].chainIteration <= MaxIteration
    BY <1>6 DEF WfRecord, WfState
  <2>2. dists' \subseteq Distribution
    BY <1>1, <1>8 DEF IInv, TypeOK, Distribution, Seed
  <2>3. ids' \in 0 .. MaxIds
    BY <1>1
  <2> QED
    BY <2>1, <2>2, <2>3 DEF IInv, TypeOK
<1>12. NamesInv'
  <2>1. \A j \in 1 .. Len(own') : own'[j].id < ids'
    <3> SUFFICES ASSUME NEW j \in 1 .. Len(own')
                 PROVE  own'[j].id < ids'
      OBVIOUS
    <3>1. CASE own'[j] = s
      BY <3>1, <1>1, <1>3
    <3>2. CASE \E k \in 1 .. Len(own) : own'[j] = own[k]
      <4>1. PICK k \in 1 .. Len(own) : own'[j] = own[k]
        BY <3>2
      <4>2. own[k].id \in Int /\ own[k].id < ids
        BY <1>5, StateTypes DEF IInv, NamesInv
      <4> QED
        BY <1>1, <4>1, <4>2
    <3> QED
      BY <1>9, <3>1, <3>2
  <2>2. \A r \in Receivers : \A i \in 1 .. Len(rec'[r]) : rec'[r][i].id < ids'
    <3> SUFFICES ASSUME NEW r \in Receivers, NEW i \in 1 .. Len(rec[r])
                 PROVE  rec[r][i].id < ids + 1
      OBVIOUS
    <3>1. rec[r][i].id \in Int /\ rec[r][i].id < ids
      BY StateTypes DEF IInv, NamesInv, RecordsInv
    <3> QED
      BY <1>1, <3>1
  <2>3. \A d \in dists' : d.id < ids' /\ d.chainKey = <<d.id, d.iteration>> /\ d.iteration <= MaxIteration
    <3> SUFFICES ASSUME NEW d \in dists'
                 PROVE  d.id < ids + 1 /\ d.chainKey = <<d.id, d.iteration>> /\ d.iteration <= MaxIteration
      OBVIOUS
    <3>1. CASE d \in dists
      <4>1. d.id \in Int /\ d.id < ids /\ d.chainKey = <<d.id, d.iteration>> /\ d.iteration <= MaxIteration
        BY <3>1 DEF IInv, NamesInv, TypeOK, Distribution, Id
      <4> QED
        BY <1>1, <4>1
    <3>2. CASE d = [id |-> ids, iteration |-> 0, chainKey |-> <<ids, 0>>]
      BY <3>2, <1>1, SenderKeysAssumption
    <3> QED
      BY <1>8, <3>1, <3>2
  <2>4. ASSUME NEW m \in net
        PROVE  m.id < ids + 1
    <3>1. m.id \in Int /\ m.id < ids
      BY DEF IInv, NamesInv, TypeOK, Message, Id
    <3> QED
      BY <1>1, <3>1
  <2> QED
    BY <2>1, <2>2, <2>3, <2>4 DEF IInv, NamesInv
<1>13. SendingInv'
  <2> SUFFICES ASSUME NEW j \in 1 .. Len(own'), own'[j].hasPrivate
               PROVE  /\ own'[j].messageKeys = {}
                      /\ \A m \in net : m.id = own'[j].id => m.iteration < own'[j].chainIteration
                      /\ \A d \in dists' : d.id = own'[j].id => d.iteration <= own'[j].chainIteration
                      /\ \A r \in Receivers : \A i \in 1 .. Len(rec[r]) :
                           rec[r][i].id = own'[j].id => rec[r][i].chainIteration <= own'[j].chainIteration
    BY DEF SendingInv
  <2>1. CASE own'[j] = s
    <3>1. \A m \in net : m.id # ids
      BY <1>1 DEF IInv, NamesInv, TypeOK, Message, Id
    <3>2. \A d \in dists : d.id # ids
      BY <1>1 DEF IInv, NamesInv, TypeOK, Distribution, Id
    <3>3. \A r \in Receivers : \A i \in 1 .. Len(rec[r]) : rec[r][i].id # ids
      <4> SUFFICES ASSUME NEW r \in Receivers, NEW i \in 1 .. Len(rec[r])
                   PROVE  rec[r][i].id # ids
        OBVIOUS
      <4>1. rec[r][i].id \in Int /\ rec[r][i].id < ids
        BY StateTypes DEF IInv, NamesInv, RecordsInv
      <4> QED
        BY <1>1, <4>1
    <3> QED
      BY <2>1, <1>3, <1>8, <3>1, <3>2, <3>3
  <2>2. CASE \E k \in 1 .. Len(own) : own'[j] = own[k] /\ own[k].id # ids
    <3>1. PICK k \in 1 .. Len(own) : own'[j] = own[k] /\ own[k].id # ids
      BY <2>2
    <3> QED
      BY <3>1, <1>8 DEF IInv, SendingInv
  <2> QED
    BY <1>9, <2>1, <2>2
<1> QED
  BY <1>10, <1>11, <1>12, <1>13, ReceiversSame DEF IInv

LEMMA RotateIInv ==
  ASSUME IInv, Rotate
  PROVE  IInv'
BY NewStateIInv DEF Rotate

\* Create with a current state that can send.
LEMMA CreateIInv ==
  ASSUME IInv, Create
  PROVE  IInv'
<1>1. CASE own = << >>
  <2>1. own' = Persisted(setState(own, newSendingState))
    BY <1>1 DEF Create
  <2>2. newSendingState \in SenderKeyState /\ WfState(newSendingState)
    <3>1. ids \in Id
      BY <1>1, SenderKeysAssumption DEF Create, IInv, TypeOK, Id
    <3>2. newSendingState \in SenderKeyState
      BY <3>1 DEF newSendingState, SenderKeyState, MessageKeys, Seed
    <3>3. WfState(newSendingState)
      BY FS_EmptySet, SenderKeysAssumption DEF newSendingState, WfState
    <3> QED
      BY <3>2, <3>3
  <2>3. own'[1] = newSendingState
    BY <2>1, <2>2, SetStateFacts DEF IInv, RecordsInv
  <2> QED
    BY <1>1, <2>1, <2>3, NewStateIInv DEF Create
<1>2. CASE own # << >>
  <2> DEFINE s == own[1]
             d == DistributionOf(own[1])
  <2>1. /\ own' = own /\ ids' = ids /\ dists' = dists \cup {d} /\ s.hasPrivate
        /\ UNCHANGED <<rec, net, echoes, installed, delivered, accepted>>
    BY <1>2 DEF Create
  <2>2. WfRecord(own) /\ 1 \in 1 .. Len(own)
    BY <1>2 DEF IInv, RecordsInv, WfRecord
  <2>3. /\ s \in SenderKeyState /\ WfState(s) /\ s.id \in Id /\ s.id \in Int /\ s.chainIteration \in Nat
        /\ s.id < ids
    BY <2>2, StateTypes DEF IInv, NamesInv
  <2>4. d = [id |-> s.id, iteration |-> s.chainIteration, chainKey |-> <<s.id, s.chainIteration>>]
    BY <2>3 DEF DistributionOf, WfState
  <2>5. d \in Distribution
    BY <2>3, <2>4 DEF Distribution, Seed
  <2>6. d.id = s.id /\ d.iteration = s.chainIteration /\ d.chainKey = <<d.id, d.iteration>>
    BY <2>4
  <2> HIDE DEF d, s
  <2>7. TypeOK'
    BY <2>1, <2>5 DEF IInv, TypeOK
  <2>8. RecordsInv'
    BY <2>1 DEF IInv, RecordsInv
  <2>9. NamesInv'
    BY <2>1, <2>3, <2>6 DEF IInv, NamesInv, WfState
  <2>10. SendingInv'
    <3> SUFFICES ASSUME NEW j \in 1 .. Len(own), own[j].hasPrivate, d.id = own[j].id
                 PROVE  d.iteration <= own[j].chainIteration
      BY <2>1 DEF IInv, SendingInv
    <3>1. j = 1
      BY <2>2, <2>6 DEF WfRecord, OneStatePerId, s
    <3> QED
      BY <3>1, <2>3, <2>6 DEF s
  <2> QED
    BY <2>1, <2>7, <2>8, <2>9, <2>10, ReceiversSame DEF IInv
<1> QED
  BY <1>1, <1>2

\* The state that Process builds from a distribution message.
LEMMA ReceivedFacts ==
  ASSUME IInv, NEW d \in dists, NEW states
  PROVE  LET s == Received(states, d) IN
         /\ s \in SenderKeyState /\ WfState(s) /\ s.hasPrivate = FALSE
         /\ s.id = d.id /\ s.chainIteration = d.iteration /\ s.messageKeys = {}
         /\ d.id \in Id /\ d.iteration \in Nat
<1>1. /\ d.id \in Id /\ d.iteration \in Nat /\ d.iteration <= MaxIteration
      /\ d.chainKey = <<d.id, d.iteration>> /\ d.chainKey \in Seed
  BY DEF IInv, TypeOK, NamesInv, Distribution
<1> DEFINE s == Received(states, d)
<1>2. /\ s.hasPrivate = FALSE /\ s.id = d.id /\ s.chainIteration = d.iteration
      /\ s.messageKeys = {} /\ s.chainSeed = d.chainKey
  BY DEF Received
<1>3. s \in SenderKeyState
  BY <1>1 DEF Received, SenderKeyState, MessageKeys
<1> HIDE DEF s
<1>4. WfState(s)
  BY <1>1, <1>2, FS_EmptySet, SenderKeysAssumption DEF WfState
<1> QED
  BY <1>1, <1>2, <1>3, <1>4 DEF s

\* The sender processes its own distribution: the new state cannot send.
LEMMA ProcessOwnIInv ==
  ASSUME IInv, ProcessOwn
  PROVE  IInv'
<1>1. PICK d \in dists :
        /\ own' = Persisted(setState(own, Received(own, d)))
        /\ echoes < MaxEchoes /\ echoes' = echoes + 1
        /\ UNCHANGED <<rec, ids, dists, net, installed, delivered, accepted>>
  BY DEF ProcessOwn
<1> DEFINE s == Received(own, d)
<1>2. s \in SenderKeyState /\ WfState(s) /\ s.hasPrivate = FALSE /\ s.id = d.id
  BY ReceivedFacts
<1> HIDE DEF s
<1>3. /\ WfRecord(own')
      /\ own'[1] = s
      /\ \A j \in 1 .. Len(own') : j # 1 => \E k \in 1 .. Len(own) : own'[j] = own[k]
  <2>1. WfRecord(own) /\ own' = Persisted(setState(own, s))
    BY <1>1 DEF IInv, RecordsInv, s
  <2> QED
    BY <2>1, <1>2, SetStateFacts
<1>4. ASSUME NEW j \in 1 .. Len(own')
      PROVE  own'[j] = s \/ \E k \in 1 .. Len(own) : own'[j] = own[k]
  BY <1>3
<1>5. RecordsInv'
  BY <1>1, <1>3, ReceiversSame DEF RecordsInv
<1>6. TypeOK'
  <2>1. own' \in Seq(SenderKeyState) /\ \A i \in 1 .. Len(own') : own'[i].chainIteration <= MaxIteration
    BY <1>3 DEF WfRecord, WfState
  <2>2. echoes' \in 0 .. MaxEchoes
    BY <1>1, SenderKeysAssumption DEF IInv, TypeOK
  <2> QED
    BY <1>1, <2>1, <2>2 DEF IInv, TypeOK
<1>7. NamesInv'
  <2>1. \A j \in 1 .. Len(own') : own'[j].id < ids
    BY <1>2, <1>4 DEF IInv, NamesInv
  <2> QED
    BY <1>1, <2>1 DEF IInv, NamesInv
<1>8. SendingInv'
  <2> SUFFICES ASSUME NEW j \in 1 .. Len(own'), own'[j].hasPrivate
               PROVE  /\ own'[j].messageKeys = {}
                      /\ \A m \in net : m.id = own'[j].id => m.iteration < own'[j].chainIteration
                      /\ \A e \in dists : e.id = own'[j].id => e.iteration <= own'[j].chainIteration
                      /\ \A r \in Receivers : \A i \in 1 .. Len(rec[r]) :
                           rec[r][i].id = own'[j].id => rec[r][i].chainIteration <= own'[j].chainIteration
    BY <1>1 DEF SendingInv
  <2>1. PICK k \in 1 .. Len(own) : own'[j] = own[k]
    BY <1>2, <1>4
  <2> QED
    BY <2>1 DEF IInv, SendingInv
<1> QED
  BY <1>1, <1>5, <1>6, <1>7, <1>8, ReceiversSame DEF IInv

\* A message of its own comes back to the sender: it is refused where the sender
\* can send, and elsewhere the state remains one that cannot.
LEMMA DecryptOwnIInv ==
  ASSUME IInv, DecryptOwn
  PROVE  IInv'
<1>1. PICK m \in net :
        /\ own' = Outcome(own, m).states
        /\ echoes < MaxEchoes /\ echoes' = echoes + 1
        /\ UNCHANGED <<rec, ids, dists, net, installed, delivered, accepted>>
  BY DEF DecryptOwn
<1>2. WfRecord(own)
  BY DEF IInv, RecordsInv
<1>3. m \in Message /\ m.iteration \in Nat /\ m.key = <<m.id, m.iteration>> /\ m.iteration < MaxIteration
  BY DEF IInv, TypeOK, NamesInv, Message
<1>4. \/ own' = own
      \/ \E i \in 1 .. Len(own) : \E t \in SenderKeyState :
           /\ own[i].id = m.id /\ t.id = m.id /\ t.hasPrivate = own[i].hasPrivate
           /\ WfState(t)
           /\ StoredStep(own[i], t, m) \/ AdvanceStep(own[i], t, m)
           /\ own' = [own EXCEPT ![i] = t]
           /\ WfRecord([own EXCEPT ![i] = t])
  <2>1. m.iteration <= MaxIteration
    BY <1>3, SenderKeysAssumption
  <2> DEFINE new == Outcome(own, m).states
  <2>2. \/ new = own
        \/ \E i \in 1 .. Len(own) : \E t \in SenderKeyState :
             /\ own[i].id = m.id /\ t.id = m.id /\ t.hasPrivate = own[i].hasPrivate
             /\ WfState(t)
             /\ StoredStep(own[i], t, m) \/ AdvanceStep(own[i], t, m)
             /\ new = [own EXCEPT ![i] = t]
             /\ WfRecord([own EXCEPT ![i] = t])
    BY <1>2, <1>3, <2>1, OutcomeCases
  <2> HIDE DEF new
  <2>3. own' = new
    BY <1>1 DEF new
  <2> QED
    BY <2>2, <2>3
<1>5. WfRecord(own')
  BY <1>2, <1>4
<1>6. ASSUME NEW j \in 1 .. Len(own')
      PROVE  /\ j \in 1 .. Len(own)
             /\ \/ own'[j] = own[j]
                \/ own'[j].id = own[j].id /\ ~own'[j].hasPrivate
  <2>1. CASE own' = own
    BY <2>1
  <2>2. ASSUME NEW i \in 1 .. Len(own), NEW t \in SenderKeyState,
               own[i].id = m.id, t.id = m.id, t.hasPrivate = own[i].hasPrivate,
               StoredStep(own[i], t, m) \/ AdvanceStep(own[i], t, m),
               own' = [own EXCEPT ![i] = t]
        PROVE  /\ j \in 1 .. Len(own)
               /\ \/ own'[j] = own[j]
                  \/ own'[j].id = own[j].id /\ ~own'[j].hasPrivate
    <3>1. j \in 1 .. Len(own) /\ own'[j] = IF j = i THEN t ELSE own[j]
      BY <2>2, <1>2 DEF WfRecord
    <3>2. ~own[i].hasPrivate
      <4> SUFFICES ASSUME own[i].hasPrivate
                   PROVE  FALSE
        OBVIOUS
      <4>1. own[i].messageKeys = {} /\ m.iteration < own[i].chainIteration
        BY <2>2 DEF IInv, SendingInv
      <4>2. own[i].chainIteration \in Nat
        BY <1>2, StateTypes
      <4> QED
        BY <2>2, <4>1, <4>2, <1>3 DEF StoredStep, AdvanceStep
    <3> QED
      BY <3>1, <3>2, <2>2
  <2> QED
    BY <1>4, <2>1, <2>2
<1>7. RecordsInv'
  BY <1>1, <1>5, ReceiversSame DEF RecordsInv
<1>8. TypeOK'
  <2>1. own' \in Seq(SenderKeyState) /\ \A i \in 1 .. Len(own') : own'[i].chainIteration <= MaxIteration
    BY <1>5 DEF WfRecord, WfState
  <2>2. echoes' \in 0 .. MaxEchoes
    BY <1>1, SenderKeysAssumption DEF IInv, TypeOK
  <2> QED
    BY <1>1, <2>1, <2>2 DEF IInv, TypeOK
<1>9. NamesInv'
  BY <1>1, <1>6 DEF IInv, NamesInv
<1>10. SendingInv'
  <2> SUFFICES ASSUME NEW j \in 1 .. Len(own'), own'[j].hasPrivate
               PROVE  /\ own'[j].messageKeys = {}
                      /\ \A n \in net : n.id = own'[j].id => n.iteration < own'[j].chainIteration
                      /\ \A d \in dists : d.id = own'[j].id => d.iteration <= own'[j].chainIteration
                      /\ \A r \in Receivers : \A i \in 1 .. Len(rec[r]) :
                           rec[r][i].id = own'[j].id => rec[r][i].chainIteration <= own'[j].chainIteration
    BY <1>1 DEF SendingInv
  <2>1. j \in 1 .. Len(own) /\ own'[j] = own[j]
    BY <1>6
  <2> QED
    BY <2>1 DEF IInv, SendingInv
<1> QED
  BY <1>1, <1>7, <1>8, <1>9, <1>10, ReceiversSame DEF IInv

\* The sender's next message has a key of its own, and nobody is beyond it.
LEMMA EncryptIInv ==
  ASSUME IInv, Encrypt
  PROVE  IInv'
<1> DEFINE s == own[1]
           c == own[1].chainIteration
           t == [own[1] EXCEPT !.chainIteration = @ + 1, !.chainSeed = Derive(@, 1)]
           m == NextMessage(own[1])
           new == [own EXCEPT ![1] = t]
<1>1. /\ s.hasPrivate /\ c < MaxIteration
      /\ net' = net \cup {m}
      /\ own' = Persisted([own EXCEPT ![1].chainIteration = @ + 1, ![1].chainSeed = Derive(@, 1)])
      /\ UNCHANGED <<rec, ids, dists, echoes, installed, delivered, accepted>>
  BY DEF Encrypt
<1>2. WfRecord(own) /\ own \in Seq(SenderKeyState) /\ 1 \in 1 .. Len(own)
  BY DEF IInv, RecordsInv, WfRecord, Encrypt
<1>3. /\ s \in SenderKeyState /\ WfState(s) /\ s.id \in Id /\ s.id \in Int /\ c \in Nat
      /\ s.id < ids
  BY <1>2, StateTypes DEF IInv, NamesInv
<1>4. /\ t.id = s.id /\ t.chainIteration = c + 1 /\ t.chainSeed = <<s.id, c + 1>>
      /\ t.hasPrivate = s.hasPrivate /\ t.messageKeys = s.messageKeys
      /\ t \in SenderKeyState
  <2>1. s.chainSeed = <<s.id, c>>
    BY <1>3 DEF WfState
  <2>2. Derive(s.chainSeed, 1) = <<s.id, c + 1>>
    BY <2>1, <1>3 DEF Derive
  <2>3. t = [s EXCEPT !.chainIteration = c + 1, !.chainSeed = <<s.id, c + 1>>]
    BY <2>2
  <2>4. <<s.id, c + 1>> \in Seed /\ c + 1 \in Nat
    BY <1>3 DEF Seed
  <2> QED
    BY <2>3, <2>4, <1>3 DEF SenderKeyState
<1>5. WfState(t)
  <2>1. /\ IsFiniteSet(s.messageKeys) /\ Cardinality(s.messageKeys) <= MaxMessageKeys
        /\ s.messageKeys = {}
    BY <1>1, <1>2, <1>3 DEF WfState, IInv, SendingInv
  <2> HIDE DEF t
  <2> QED
    BY <2>1, <1>1, <1>3, <1>4, SenderKeysAssumption DEF WfState
<1>6. m = [id |-> s.id, iteration |-> c, key |-> <<s.id, c>>, body |-> Cardinality(net), signed |-> TRUE]
  BY <1>3 DEF NextMessage, WfState
<1>7. m \in Message /\ IsFiniteSet(net')
  <2>1. IsFiniteSet(net) /\ Cardinality(net) \in Nat
    BY FS_CardinalityType DEF IInv, NamesInv
  <2> HIDE DEF m
  <2>2. IsFiniteSet(net')
    BY <1>1, <2>1, FS_AddElement
  <2> QED
    BY <1>3, <1>6, <2>1, <2>2 DEF Message, Seed
<1>8. m.id = s.id /\ m.iteration = c /\ m.key = <<s.id, c>> /\ m.signed
  BY <1>6
<1>9. [own EXCEPT ![1].chainIteration = @ + 1, ![1].chainSeed = Derive(@, 1)] = new
  BY <1>2
<1> HIDE DEF t, m
<1>10. WfRecord(new)
  BY <1>2, <1>4, <1>5, UpdateFacts
<1>11. own' = new
  BY <1>1, <1>9, <1>10, PersistedSame
<1>12. Len(own') = Len(own) /\ \A j \in 1 .. Len(own) : own'[j] = IF j = 1 THEN t ELSE own[j]
  BY <1>2, <1>11
<1>13. WfRecord(own')
  BY <1>10, <1>11
<1> HIDE DEF new
<1>14. /\ \A e \in net : e.id = s.id => e.iteration < c
       /\ \A d \in dists : d.id = s.id => d.iteration <= c
       /\ \A r \in Receivers : \A i \in 1 .. Len(rec[r]) :
            rec[r][i].id = s.id => rec[r][i].chainIteration <= c
  BY <1>1, <1>2 DEF IInv, SendingInv
<1>15. RecordsInv'
  BY <1>1, <1>13 DEF IInv, RecordsInv
<1>16. TypeOK'
  <2>1. own' \in Seq(SenderKeyState) /\ \A i \in 1 .. Len(own') : own'[i].chainIteration <= MaxIteration
    BY <1>13 DEF WfRecord, WfState
  <2> QED
    BY <1>1, <1>7, <2>1 DEF IInv, TypeOK
<1>17. NamesInv'
  <2>1. \A j \in 1 .. Len(own') : own'[j].id < ids
    BY <1>3, <1>4, <1>12 DEF IInv, NamesInv
  <2>2. \A e \in net' : e.id < ids /\ e.key = <<e.id, e.iteration>> /\ e.iteration < MaxIteration /\ e.signed
    BY <1>1, <1>3, <1>8 DEF IInv, NamesInv
  <2> QED
    BY <1>1, <1>7, <2>1, <2>2 DEF IInv, NamesInv
<1>18. SendingInv'
  <2> SUFFICES ASSUME NEW j \in 1 .. Len(own), own'[j].hasPrivate
               PROVE  /\ own'[j].messageKeys = {}
                      /\ \A e \in net' : e.id = own'[j].id => e.iteration < own'[j].chainIteration
                      /\ \A d \in dists : d.id = own'[j].id => d.iteration <= own'[j].chainIteration
                      /\ \A r \in Receivers : \A i \in 1 .. Len(rec[r]) :
                           rec[r][i].id = own'[j].id => rec[r][i].chainIteration <= own'[j].chainIteration
    BY <1>1, <1>12 DEF SendingInv
  <2>1. CASE j = 1
    <3>1. own'[j] = t /\ t.id = s.id /\ t.chainIteration = c + 1
      BY <2>1, <1>4, <1>12
    <3>2. t.messageKeys = {}
      BY <1>1, <1>2, <1>4 DEF IInv, SendingInv
    <3>3. ASSUME NEW e \in net', e.id = s.id
          PROVE  e.iteration < c + 1
      <4>1. e.iteration \in Nat /\ (e.iteration < c \/ e.iteration = c)
        BY <1>1, <1>3, <1>8, <1>14, <3>3 DEF IInv, TypeOK, Message
      <4> QED
        BY <4>1, <1>3
    <3>4. ASSUME NEW d \in dists, d.id = s.id
          PROVE  d.iteration <= c + 1
      <4>1. d.iteration \in Nat /\ d.iteration <= c
        BY <1>14, <3>4 DEF IInv, TypeOK, Distribution
      <4> QED
        BY <4>1, <1>3
    <3>5. ASSUME NEW r \in Receivers, NEW i \in 1 .. Len(rec[r]), rec[r][i].id = s.id
          PROVE  rec[r][i].chainIteration <= c + 1
      <4>1. rec[r][i].chainIteration \in Nat /\ rec[r][i].chainIteration <= c
        BY <1>14, <3>5, StateTypes DEF IInv, RecordsInv
      <4> QED
        BY <4>1, <1>3
    <3> QED
      BY <3>1, <3>2, <3>3, <3>4, <3>5
  <2>2. CASE j # 1
    <3>1. own'[j] = own[j] /\ own[j].id # s.id
      BY <2>2, <1>2, <1>12 DEF WfRecord, OneStatePerId
    <3> QED
      BY <3>1, <1>1, <1>8 DEF IInv, SendingInv
  <2> QED
    BY <2>1, <2>2
<1>19. DeliveredInv'
  BY <1>1 DEF IInv, DeliveredInv
<1>20. PendingInv'
  <2> SUFFICES ASSUME NEW r \in Receivers, NEW i \in 1 .. Len(rec[r]),
                      m.id = rec[r][i].id, m.iteration < rec[r][i].chainIteration
               PROVE  FALSE
    BY <1>1 DEF IInv, PendingInv
  <2>1. rec[r][i].chainIteration \in Nat /\ rec[r][i].chainIteration <= c
    BY <1>8, <1>14, StateTypes DEF IInv, RecordsInv
  <2> QED
    BY <2>1, <1>3, <1>8
<1>21. UniqueMessageKeys'
  <2>1. ASSUME NEW e \in net, e.key = m.key
        PROVE  FALSE
    <3>1. e.iteration \in Nat /\ e.key = <<e.id, e.iteration>>
      BY DEF IInv, TypeOK, NamesInv, Message
    <3>2. e.id = s.id /\ e.iteration = c
      <4>1. <<e.id, e.iteration>> = <<s.id, c>>
        BY <2>1, <3>1, <1>8
      <4> HIDE DEF s, c
      <4> QED
        BY <4>1
    <3> QED
      BY <3>1, <3>2, <1>3, <1>14
  <2> QED
    BY <1>1, <2>1 DEF IInv, UniqueMessageKeys
<1> QED
  BY <1>15, <1>16, <1>17, <1>18, <1>19, <1>20, <1>21 DEF IInv

\* A member processes a distribution: the new state starts afresh, and what was
\* decrypted or pending under the one it replaces no longer counts.
LEMMA ProcessIInv ==
  ASSUME IInv, NEW r \in Receivers, NEW d \in dists, Process(r, d)
  PROVE  IInv'
<1> DEFINE s == Received(rec[r], d)
           new == Persisted(setState(rec[r], s))
<1>1. /\ rec' = [rec EXCEPT ![r] = new]
      /\ installed' = [installed EXCEPT ![r][d.id] = d.iteration]
      /\ delivered' = [delivered EXCEPT ![r] = {m \in @ : m.id # d.id}]
      /\ UNCHANGED <<own, ids, dists, net, echoes, accepted>>
  BY DEF Process
<1>2. /\ s \in SenderKeyState /\ WfState(s) /\ s.id = d.id /\ s.chainIteration = d.iteration
      /\ s.messageKeys = {} /\ d.id \in Id /\ d.iteration \in Nat
  BY ReceivedFacts
<1> HIDE DEF s
<1>3. WfRecord(rec[r])
  BY DEF IInv, RecordsInv
<1>4. /\ WfRecord(new)
      /\ new[1] = s
      /\ \A j \in 1 .. Len(new) : j # 1 =>
           \E k \in 1 .. Len(rec[r]) : new[j] = rec[r][k] /\ rec[r][k].id # s.id
  <2> DEFINE old == rec[r]
             res == Persisted(setState(old, s))
  <2>1. WfRecord(old)
    BY <1>3
  <2> HIDE DEF old
  <2>2. /\ WfRecord(res)
        /\ res[1] = s
        /\ \A j \in 1 .. Len(res) : j # 1 =>
             \E k \in 1 .. Len(old) : res[j] = old[k] /\ old[k].id # s.id
    BY <1>2, <2>1, SetStateFacts
  <2> HIDE DEF res
  <2>3. new = res
    BY DEF res, old
  <2> HIDE DEF new
  <2> QED
    BY <2>2, <2>3 DEF old
<1> HIDE DEF new
<1>5. /\ rec \in [Receivers -> Seq(SenderKeyState)]
      /\ installed \in [Receivers -> [Id -> Nat]]
      /\ delivered \in [Receivers -> SUBSET Message]
  BY DEF IInv, TypeOK
<1>6. /\ rec'[r] = new
      /\ installed'[r] = [installed[r] EXCEPT ![d.id] = d.iteration]
      /\ delivered'[r] = {m \in delivered[r] : m.id # d.id}
      /\ \A q \in Receivers : q # r =>
           rec'[q] = rec[q] /\ installed'[q] = installed[q] /\ delivered'[q] = delivered[q]
  BY <1>1, <1>5
<1>7. ASSUME NEW j \in 1 .. Len(new)
      PROVE  new[j] = s \/ \E k \in 1 .. Len(rec[r]) : new[j] = rec[r][k] /\ rec[r][k].id # d.id
  BY <1>2, <1>4
<1>8. RecordsInv'
  BY <1>1, <1>4, <1>6 DEF IInv, RecordsInv
<1>9. TypeOK'
  <2>1. new \in Seq(SenderKeyState)
    BY <1>4 DEF WfRecord
  <2>2. rec' \in [Receivers -> Seq(SenderKeyState)]
    BY <1>1, <1>5, <2>1
  <2>3. installed' \in [Receivers -> [Id -> Nat]]
    BY <1>1, <1>2, <1>5
  <2>4. delivered' \in [Receivers -> SUBSET Message]
    BY <1>1, <1>5
  <2> QED
    BY <1>1, <2>2, <2>3, <2>4 DEF IInv, TypeOK
<1>10. NamesInv'
  <2>1. ASSUME NEW q \in Receivers, NEW j \in 1 .. Len(rec'[q])
        PROVE  rec'[q][j].id < ids
    <3>1. CASE q = r
      BY <3>1, <1>2, <1>6, <1>7 DEF IInv, NamesInv
    <3>2. CASE q # r
      BY <3>2, <1>6 DEF IInv, NamesInv
    <3> QED
      BY <3>1, <3>2
  <2> QED
    BY <1>1, <2>1 DEF IInv, NamesInv
<1>11. SendingInv'
  <2> SUFFICES ASSUME NEW i \in 1 .. Len(own), own[i].hasPrivate, NEW q \in Receivers,
                      NEW j \in 1 .. Len(rec'[q]), rec'[q][j].id = own[i].id
               PROVE  rec'[q][j].chainIteration <= own[i].chainIteration
    BY <1>1 DEF IInv, SendingInv
  <2>1. CASE q = r
    <3>1. CASE new[j] = s
      BY <2>1, <3>1, <1>2, <1>6 DEF IInv, SendingInv
    <3>2. CASE \E k \in 1 .. Len(rec[r]) : new[j] = rec[r][k]
      BY <2>1, <3>2, <1>6 DEF IInv, SendingInv
    <3> QED
      BY <2>1, <1>6, <1>7, <3>1, <3>2
  <2>2. CASE q # r
    BY <2>2, <1>6 DEF IInv, SendingInv
  <2> QED
    BY <2>1, <2>2
<1>12. DeliveredInv'
  <2> SUFFICES ASSUME NEW q \in Receivers, NEW m \in delivered'[q]
               PROVE  /\ m \in net
                      /\ \A j \in 1 .. Len(rec'[q]) : rec'[q][j].id = m.id =>
                           /\ m.iteration < rec'[q][j].chainIteration
                           /\ \A k \in rec'[q][j].messageKeys : k.iteration # m.iteration
    BY <1>1 DEF DeliveredInv
  <2>1. CASE q = r
    <3>1. m \in delivered[r] /\ m.id # d.id /\ m \in net
      BY <2>1, <1>6 DEF IInv, DeliveredInv
    <3>2. ASSUME NEW j \in 1 .. Len(new), new[j].id = m.id
          PROVE  /\ m.iteration < new[j].chainIteration
                 /\ \A k \in new[j].messageKeys : k.iteration # m.iteration
      <4>1. PICK k \in 1 .. Len(rec[r]) : new[j] = rec[r][k]
        BY <3>1, <3>2, <1>2, <1>7
      <4> QED
        BY <4>1, <3>1, <3>2 DEF IInv, DeliveredInv
    <3> QED
      BY <2>1, <3>1, <3>2, <1>6
  <2>2. CASE q # r
    BY <2>2, <1>6 DEF IInv, DeliveredInv
  <2> QED
    BY <2>1, <2>2
<1>13. PendingInv'
  <2> SUFFICES ASSUME NEW q \in Receivers, NEW j \in 1 .. Len(rec'[q]), NEW m \in net \ delivered'[q],
                      m.id = rec'[q][j].id, installed'[q][m.id] <= m.iteration,
                      m.iteration < rec'[q][j].chainIteration,
                      rec'[q][j].chainIteration - 1 - MaxMessageKeys <= m.iteration
               PROVE  \E k \in rec'[q][j].messageKeys : k.iteration = m.iteration
    BY <1>1 DEF PendingInv
  <2>1. CASE q = r
    <3>1. j \in 1 .. Len(new) /\ rec'[q][j] = new[j] /\ m.iteration \in Nat /\ m.id \in Id
      BY <2>1, <1>6 DEF IInv, TypeOK, Message
    <3>2. CASE new[j] = s
      <4>1. installed'[q][m.id] = d.iteration /\ m.iteration < d.iteration
        BY <2>1, <3>1, <3>2, <1>2, <1>5, <1>6
      <4> QED
        BY <4>1, <3>1, <1>2
    <3>3. CASE \E k \in 1 .. Len(rec[r]) : new[j] = rec[r][k] /\ rec[r][k].id # d.id
      <4>1. PICK k \in 1 .. Len(rec[r]) : new[j] = rec[r][k] /\ rec[r][k].id # d.id
        BY <3>3
      <4>2. m.id # d.id /\ m \in net \ delivered[r] /\ installed'[q][m.id] = installed[r][m.id]
        BY <2>1, <3>1, <4>1, <1>5, <1>6
      <4> QED
        BY <3>1, <4>1, <4>2 DEF IInv, PendingInv
    <3> QED
      BY <3>1, <3>2, <3>3, <1>7
  <2>2. CASE q # r
    BY <2>2, <1>6 DEF IInv, PendingInv
  <2> QED
    BY <2>1, <2>2
<1>14. UniqueMessageKeys'
  BY <1>1 DEF IInv, UniqueMessageKeys
<1> QED
  BY <1>8, <1>9, <1>10, <1>11, <1>12, <1>13, <1>14 DEF IInv

\* What a decryption does to the state of the message: the chain ends up behind
\* the message, its key is gone, and within the limit no other key is lost.
LEMMA DecryptStep ==
  ASSUME NEW s \in SenderKeyState, WfState(s), NEW t, NEW m \in Message,
         StoredStep(s, t, m) \/ AdvanceStep(s, t, m)
  PROVE  /\ t.chainIteration \in Nat /\ m.iteration < t.chainIteration
         /\ \/ t.chainIteration = s.chainIteration
            \/ t.chainIteration = m.iteration + 1 /\ s.chainIteration < t.chainIteration
         /\ \A k \in t.messageKeys :
              /\ k.iteration # m.iteration
              /\ k \in s.messageKeys \/ k.iteration >= s.chainIteration
         /\ \A x \in Nat :
              /\ x # m.iteration
              /\ x < t.chainIteration
              /\ t.chainIteration - 1 - MaxMessageKeys <= x
              /\ (x < s.chainIteration /\ s.chainIteration - 1 - MaxMessageKeys <= x
                    => \E k \in s.messageKeys : k.iteration = x)
              => \E k \in t.messageKeys : k.iteration = x
<1> DEFINE n == m.iteration
           c == s.chainIteration
<1>1. c \in Nat /\ n \in Nat /\ s.messageKeys \in SUBSET Entry /\ MaxMessageKeys \in Nat
  BY SenderKeysAssumption DEF SenderKeyState, MessageKeys, Entry, Message
<1>2. CASE StoredStep(s, t, m)
  <2>1. n < c /\ t = [s EXCEPT !.messageKeys = {k \in @ : k.iteration # n}]
    BY <1>2 DEF StoredStep
  <2>2. t.chainIteration = c /\ t.messageKeys = {k \in s.messageKeys : k.iteration # n}
    BY <2>1 DEF SenderKeyState
  <2>3. ASSUME NEW x \in Nat, x # n, x < c, c - 1 - MaxMessageKeys <= x,
               x < c /\ c - 1 - MaxMessageKeys <= x => \E k \in s.messageKeys : k.iteration = x
        PROVE  \E k \in t.messageKeys : k.iteration = x
    BY <2>2, <2>3
  <2> QED
    BY <1>1, <2>1, <2>2, <2>3
<1>3. CASE AdvanceStep(s, t, m)
  <2> DEFINE mks == s.messageKeys \cup Passed(s, n)
  <2>1. c <= n /\ n < MaxIteration /\ t = Advance(s, n)
    BY <1>3 DEF AdvanceStep
  <2>2. /\ t.chainIteration = n + 1
        /\ mks \in SUBSET Entry /\ OnePerIteration(mks)
        /\ \A k \in mks : k.iteration < n
        /\ t.messageKeys = Newest(mks) /\ t.messageKeys \subseteq mks
    BY <1>1, <2>1, AdvanceFacts
  <2>3. Passed(s, n) = {[iteration |-> i, seed |-> <<s.id, i>>] : i \in c .. (n - 1)}
    BY <1>1, <2>1, PassedFacts
  <2>4. \A k \in t.messageKeys : k.iteration # n /\ (k \in s.messageKeys \/ k.iteration >= c)
    <3> SUFFICES ASSUME NEW k \in t.messageKeys
                 PROVE  k.iteration # n /\ (k \in s.messageKeys \/ k.iteration >= c)
      OBVIOUS
    <3>1. k \in mks /\ k.iteration \in Nat /\ k.iteration < n
      BY <2>2 DEF Entry
    <3>2. CASE k \in Passed(s, n)
      BY <1>1, <2>3, <3>1, <3>2
    <3> QED
      BY <1>1, <3>1, <3>2
  <2>5. ASSUME NEW x \in Nat, x # n, x < n + 1, n - MaxMessageKeys <= x,
               x < c /\ c - 1 - MaxMessageKeys <= x => \E k \in s.messageKeys : k.iteration = x
        PROVE  \E k \in t.messageKeys : k.iteration = x
    <3>1. x < n /\ n - 1 \in Nat
      BY <1>1, <2>5
    <3>2. PICK k \in mks : k.iteration = x
      <4>1. CASE x < c
        BY <1>1, <2>1, <2>5, <4>1
      <4>2. CASE ~(x < c)
        <5>1. x \in c .. (n - 1)
          BY <1>1, <3>1, <4>2
        <5>2. [iteration |-> x, seed |-> <<s.id, x>>] \in Passed(s, n)
          BY <2>3, <5>1
        <5> QED
          BY <5>2
      <4> QED
        BY <4>1, <4>2
    <3>3. \A j \in mks : j.iteration <= n - 1
      BY <1>1, <2>2 DEF Entry
    <3>4. (n - 1) - k.iteration < MaxMessageKeys
      BY <1>1, <2>5, <3>2
    <3> HIDE DEF mks
    <3>5. k \in Newest(mks)
      BY <2>2, <3>1, <3>3, <3>4, NewestKeeps
    <3> QED
      BY <2>2, <3>2, <3>5
  <2>6. n + 1 - 1 - MaxMessageKeys = n - MaxMessageKeys /\ n < n + 1 /\ n + 1 \in Nat /\ c < n + 1
    BY <1>1, <2>1
  <2>7. t.chainIteration = n + 1
    BY <2>2
  <2>8. \A x \in Nat :
          /\ x # n
          /\ x < t.chainIteration
          /\ t.chainIteration - 1 - MaxMessageKeys <= x
          /\ (x < c /\ c - 1 - MaxMessageKeys <= x => \E k \in s.messageKeys : k.iteration = x)
          => \E k \in t.messageKeys : k.iteration = x
    <3> SUFFICES ASSUME NEW x \in Nat, x # n, x < t.chainIteration,
                        t.chainIteration - 1 - MaxMessageKeys <= x,
                        x < c /\ c - 1 - MaxMessageKeys <= x => \E k \in s.messageKeys : k.iteration = x
                 PROVE  \E k \in t.messageKeys : k.iteration = x
      OBVIOUS
    <3>1. x < n + 1 /\ (n + 1) - 1 - MaxMessageKeys <= x
      BY <2>7
    <3>2. n - MaxMessageKeys <= x
      BY <1>1, <3>1
    <3> QED
      BY <2>5, <3>1, <3>2
  <2>9. /\ t.chainIteration \in Nat /\ n < t.chainIteration
        /\ t.chainIteration = n + 1 /\ c < t.chainIteration
    BY <2>6, <2>7
  <2> HIDE DEF mks
  <2> QED
    BY <2>4, <2>8, <2>9
<1> QED
  BY <1>2, <1>3

\* A member decrypts, or refuses, a message of the sender or a forged one.
LEMMA ReceiveIInv ==
  ASSUME IInv, NEW r \in Receivers, NEW m \in Message, m.key = <<m.id, m.iteration>>,
         m.iteration <= MaxIteration, m \in net \/ ~m.signed, Receive(r, m)
  PROVE  IInv'
<1> DEFINE out == Outcome(rec[r], m)
           old == rec[r]
<1>1. /\ rec' = [rec EXCEPT ![r] = out.states]
      /\ delivered' = [delivered EXCEPT ![r] = IF out.err = "none" THEN @ \cup {m} ELSE @]
      /\ accepted' = [accepted EXCEPT ![r] = IF out.err = "none" THEN @ \cup {m} ELSE @]
      /\ UNCHANGED <<own, ids, dists, net, echoes, installed>>
  BY DEF Receive
<1>2. /\ rec \in [Receivers -> Seq(SenderKeyState)]
      /\ delivered \in [Receivers -> SUBSET Message]
      /\ accepted \in [Receivers -> SUBSET Message]
  BY DEF IInv, TypeOK
<1>3. WfRecord(old)
  BY DEF IInv, RecordsInv
<1>4. \/ out.err # "none" /\ out.states = old
      \/ /\ out.err = "none" /\ m.signed
         /\ \E i \in 1 .. Len(old) : \E t \in SenderKeyState :
              /\ old[i].id = m.id /\ t.id = m.id /\ t.hasPrivate = old[i].hasPrivate
              /\ WfState(t)
              /\ StoredStep(old[i], t, m) \/ AdvanceStep(old[i], t, m)
              /\ out.states = [old EXCEPT ![i] = t]
              /\ WfRecord([old EXCEPT ![i] = t])
  BY <1>3, OutcomeCases
<1> HIDE DEF out
<1>5. CASE out.err # "none" /\ out.states = old
  <2>1. UNCHANGED vars
    BY <1>1, <1>2, <1>5 DEF vars
  <2> QED
    BY <2>1 DEF vars, IInv, TypeOK, RecordsInv, NamesInv, SendingInv, DeliveredInv, PendingInv,
                UniqueMessageKeys
<1>6. ASSUME out.err = "none", m.signed, NEW i \in 1 .. Len(old), NEW t \in SenderKeyState,
             old[i].id = m.id, t.id = m.id, WfState(t),
             StoredStep(old[i], t, m) \/ AdvanceStep(old[i], t, m),
             out.states = [old EXCEPT ![i] = t],
             WfRecord([old EXCEPT ![i] = t])
      PROVE  IInv'
  <2> DEFINE s == old[i]
             new == [old EXCEPT ![i] = t]
  <2>1. m \in net /\ m.iteration \in Nat /\ MaxMessageKeys \in Nat
    BY <1>6, SenderKeysAssumption DEF Message
  <2>2. s \in SenderKeyState /\ WfState(s) /\ s.id \in Int /\ s.chainIteration \in Nat
    BY <1>3, StateTypes
  <2>3. /\ t.chainIteration \in Nat /\ m.iteration < t.chainIteration
        /\ \/ t.chainIteration = s.chainIteration
           \/ t.chainIteration = m.iteration + 1 /\ s.chainIteration < t.chainIteration
        /\ \A k \in t.messageKeys :
             /\ k.iteration # m.iteration
             /\ k \in s.messageKeys \/ k.iteration >= s.chainIteration
    BY <1>6, <2>2, DecryptStep
  <2>4. \A x \in Nat :
          /\ x # m.iteration
          /\ x < t.chainIteration
          /\ t.chainIteration - 1 - MaxMessageKeys <= x
          /\ (x < s.chainIteration /\ s.chainIteration - 1 - MaxMessageKeys <= x
                => \E k \in s.messageKeys : k.iteration = x)
          => \E k \in t.messageKeys : k.iteration = x
    BY <1>6, <2>2, DecryptStep
  <2>5. /\ rec'[r] = new /\ delivered'[r] = delivered[r] \cup {m}
        /\ \A q \in Receivers : q # r => rec'[q] = rec[q] /\ delivered'[q] = delivered[q]
        /\ UNCHANGED <<own, ids, dists, net, echoes, installed>>
    BY <1>1, <1>2, <1>6
  <2>6. /\ WfRecord(new) /\ Len(new) = Len(old)
        /\ \A j \in 1 .. Len(old) : new[j] = IF j = i THEN t ELSE old[j]
        /\ \A j \in 1 .. Len(old) : j # i => old[j].id # m.id
    BY <1>3, <1>6 DEF WfRecord, OneStatePerId
  <2>7. TypeOK'
    <3>1. out.states \in Seq(SenderKeyState)
      BY <1>6, <2>6 DEF WfRecord
    <3>2. rec' \in [Receivers -> Seq(SenderKeyState)]
      BY <1>1, <1>2, <3>1
    <3>3. delivered' \in [Receivers -> SUBSET Message] /\ accepted' \in [Receivers -> SUBSET Message]
      BY <1>1, <1>2, <1>6
    <3> QED
      BY <1>1, <3>2, <3>3 DEF IInv, TypeOK
  <2> HIDE DEF new
  <2>8. RecordsInv'
    BY <2>5, <2>6 DEF IInv, RecordsInv
  <2>9. NamesInv'
    <3>1. ASSUME NEW q \in Receivers, NEW j \in 1 .. Len(rec'[q])
          PROVE  rec'[q][j].id < ids
      <4>1. CASE q = r
        BY <4>1, <1>6, <2>1, <2>5, <2>6 DEF IInv, NamesInv
      <4>2. CASE q # r
        BY <4>2, <2>5 DEF IInv, NamesInv
      <4> QED
        BY <4>1, <4>2
    <3> QED
      BY <2>5, <3>1 DEF IInv, NamesInv
  <2>10. SendingInv'
    <3> SUFFICES ASSUME NEW a \in 1 .. Len(own), own[a].hasPrivate, NEW q \in Receivers,
                        NEW j \in 1 .. Len(rec'[q]), rec'[q][j].id = own[a].id
                 PROVE  rec'[q][j].chainIteration <= own[a].chainIteration
      BY <2>5 DEF IInv, SendingInv
    <3>1. CASE q = r /\ j = i
      <4>1. rec'[q][j] = t /\ own[a].id = m.id
        BY <3>1, <1>6, <2>5, <2>6
      <4>2. own[a].chainIteration \in Nat
        BY StateTypes DEF IInv, RecordsInv
      <4>3. m.iteration < own[a].chainIteration /\ s.chainIteration <= own[a].chainIteration
        BY <4>1, <1>6, <2>1 DEF IInv, SendingInv
      <4> QED
        BY <4>1, <4>2, <4>3, <2>1, <2>2, <2>3
    <3>2. CASE q = r /\ j # i
      BY <3>2, <2>5, <2>6 DEF IInv, SendingInv
    <3>3. CASE q # r
      BY <3>3, <2>5 DEF IInv, SendingInv
    <3> QED
      BY <3>1, <3>2, <3>3
  <2>11. DeliveredInv'
    <3> SUFFICES ASSUME NEW q \in Receivers, NEW e \in delivered'[q]
                 PROVE  /\ e \in net
                        /\ \A j \in 1 .. Len(rec'[q]) : rec'[q][j].id = e.id =>
                             /\ e.iteration < rec'[q][j].chainIteration
                             /\ \A k \in rec'[q][j].messageKeys : k.iteration # e.iteration
      BY <2>5 DEF DeliveredInv
    <3>1. CASE q # r
      BY <3>1, <2>5 DEF IInv, DeliveredInv
    <3>2. CASE q = r
      <4>1. e \in net
        BY <3>2, <2>1, <2>5 DEF IInv, DeliveredInv
      <4>2. ASSUME NEW j \in 1 .. Len(new), new[j].id = e.id
            PROVE  /\ e.iteration < new[j].chainIteration
                   /\ \A k \in new[j].messageKeys : k.iteration # e.iteration
        <5>1. CASE e = m
          <6>1. new[j] = t
            BY <4>2, <5>1, <2>6
          <6> QED
            BY <5>1, <6>1, <2>3
        <5>2. CASE e \in delivered[r] /\ j # i
          BY <4>2, <5>2, <2>6 DEF IInv, DeliveredInv
        <5>3. CASE e \in delivered[r] /\ j = i
          <6>1. new[j] = t /\ e.id = m.id /\ e.iteration \in Nat
            BY <4>1, <4>2, <5>3, <1>6, <2>6 DEF IInv, TypeOK, Message
          <6>2. e.iteration < s.chainIteration /\ \A k \in s.messageKeys : k.iteration # e.iteration
            BY <5>3, <6>1, <1>6 DEF IInv, DeliveredInv
          <6>3. e.iteration < t.chainIteration
            BY <6>1, <6>2, <2>2, <2>3
          <6>4. ASSUME NEW k \in t.messageKeys, k.iteration = e.iteration
                PROVE  FALSE
            BY <6>1, <6>2, <6>4, <2>2, <2>3
          <6> QED
            BY <6>1, <6>3, <6>4
        <5> QED
          BY <3>2, <2>5, <5>1, <5>2, <5>3
      <4> QED
        BY <3>2, <4>1, <4>2, <2>5
    <3> QED
      BY <3>1, <3>2
  <2>12. PendingInv'
    <3> SUFFICES ASSUME NEW q \in Receivers, NEW j \in 1 .. Len(rec'[q]), NEW e \in net \ delivered'[q],
                        e.id = rec'[q][j].id, installed[q][e.id] <= e.iteration,
                        e.iteration < rec'[q][j].chainIteration,
                        rec'[q][j].chainIteration - 1 - MaxMessageKeys <= e.iteration
                 PROVE  \E k \in rec'[q][j].messageKeys : k.iteration = e.iteration
      BY <2>5 DEF PendingInv
    <3>1. CASE q # r
      BY <3>1, <2>5 DEF IInv, PendingInv
    <3>2. CASE q = r /\ j # i
      BY <3>2, <2>5, <2>6 DEF IInv, PendingInv
    <3>3. CASE q = r /\ j = i
      <4>1. rec'[q][j] = t /\ e.id = m.id /\ e \in net \ delivered[r] /\ e # m /\ e.iteration \in Nat
        BY <3>3, <1>6, <2>5, <2>6 DEF IInv, TypeOK, Message
      <4>2. e.iteration # m.iteration
        BY <4>1, <2>1 DEF IInv, UniqueMessageKeys, NamesInv
      <4>3. e.iteration < s.chainIteration /\ s.chainIteration - 1 - MaxMessageKeys <= e.iteration
              => \E k \in s.messageKeys : k.iteration = e.iteration
        BY <3>3, <4>1, <1>6 DEF IInv, PendingInv
      <4> QED
        BY <4>1, <4>2, <4>3, <2>4
    <3> QED
      BY <3>1, <3>2, <3>3
  <2>13. UniqueMessageKeys'
    BY <2>5 DEF IInv, UniqueMessageKeys
  <2> QED
    BY <2>7, <2>8, <2>9, <2>10, <2>11, <2>12, <2>13 DEF IInv
<1> QED
  BY <1>4, <1>5, <1>6

LEMMA StutterIInv ==
  ASSUME IInv, UNCHANGED vars
  PROVE  IInv'
<1>1. TypeOK' /\ RecordsInv' /\ NamesInv' /\ SendingInv'
  BY DEF vars, IInv, TypeOK, RecordsInv, NamesInv, SendingInv
<1> QED
  BY <1>1, ReceiversSame DEF vars, IInv

LEMMA NextIInv ==
  ASSUME IInv, Next
  PROVE  IInv'
<1>1. ASSUME NEW r \in Receivers, Decrypt(r)
      PROVE  IInv'
  <2>1. PICK m \in net : Receive(r, m)
    BY <1>1 DEF Decrypt
  <2>2. m \in Message /\ m.key = <<m.id, m.iteration>> /\ m.iteration < MaxIteration /\ m.iteration \in Nat
    BY DEF IInv, TypeOK, NamesInv, Message
  <2>3. m.iteration <= MaxIteration
    BY <2>2, SenderKeysAssumption
  <2> QED
    BY <2>1, <2>2, <2>3, ReceiveIInv
<1>2. ASSUME NEW r \in Receivers, DecryptForged(r)
      PROVE  IInv'
  <2> DEFINE F(id, n) == [id |-> id, iteration |-> n, key |-> <<id, n>>, body |-> 0, signed |-> FALSE]
  <2>1. PICK id \in Id, n \in 0 .. MaxIteration : Receive(r, F(id, n))
    BY <1>2 DEF DecryptForged
  <2> DEFINE m == F(id, n)
  <2>2. n \in Nat /\ n <= MaxIteration
    BY SenderKeysAssumption
  <2>3. m \in Message /\ m.key = <<m.id, m.iteration>> /\ m.iteration <= MaxIteration /\ ~m.signed
    BY <2>2 DEF Message, Seed
  <2>4. Receive(r, m)
    BY <2>1
  <2> HIDE DEF m
  <2> QED
    BY <2>3, <2>4, ReceiveIInv
<1>3. ASSUME NEW r \in Receivers, ProcessAny(r)
      PROVE  IInv'
  BY <1>3, ProcessIInv DEF ProcessAny
<1> QED
  BY <1>1, <1>2, <1>3, CreateIInv, RotateIInv, EncryptIInv, ProcessOwnIInv, DecryptOwnIInv DEF Next

\* The inductive invariant holds in every state of every behaviour.
THEOREM Invariance == Spec => []IInv
<1>1. IInv /\ [Next]_vars => IInv'
  BY NextIInv, StutterIInv
<1> QED
  BY InitIInv, <1>1, PTL DEF Spec

-----------------------------------------------------------------------------
(* The properties. *)

\* Every variable keeps its type and no chain iteration wraps around, however
\* the sender's and the members' operations interleave.
THEOREM TypeCorrect == Spec => []TypeOK
BY Invariance, PTL DEF IInv

\* Encrypt never uses a message key twice, not even after the sender has
\* processed a distribution of its own that sets its chain back.
THEOREM KeysAreUnique == Spec => []UniqueMessageKeys
BY Invariance, PTL DEF IInv

\* Decrypt never derives another key than the one Encrypt used.
THEOREM KeysAgree == Spec => []KeyAgreement
<1>1. ASSUME IInv
      PROVE  KeyAgreement
  <2> SUFFICES ASSUME NEW r \in Receivers, NEW m \in net
               PROVE  Outcome(rec[r], m).err # "invalid"
    BY DEF KeyAgreement
  <2>1. m \in Message /\ m.key = <<m.id, m.iteration>> /\ m.iteration < MaxIteration /\ m.iteration \in Nat
    BY <1>1 DEF IInv, TypeOK, NamesInv, Message
  <2>2. m.iteration <= MaxIteration /\ WfRecord(rec[r])
    BY <1>1, <2>1, SenderKeysAssumption DEF IInv, RecordsInv
  <2> QED
    BY <2>1, <2>2, OutcomeCases
<1> QED
  BY Invariance, <1>1, PTL

\* Decrypt refuses a message it has decrypted under the state now installed.
THEOREM ReplaysRefused == Spec => []NoReplaySinceInstalled
<1>1. ASSUME IInv
      PROVE  NoReplaySinceInstalled
  <2> SUFFICES ASSUME NEW r \in Receivers, NEW m \in delivered[r], Outcome(rec[r], m).err = "none"
               PROVE  FALSE
    BY DEF NoReplaySinceInstalled
  <2>1. m \in Message /\ m.key = <<m.id, m.iteration>> /\ m.iteration < MaxIteration /\ m.iteration \in Nat
    BY <1>1 DEF IInv, TypeOK, NamesInv, Message, DeliveredInv
  <2>2. m.iteration <= MaxIteration /\ WfRecord(rec[r])
    BY <1>1, <2>1, SenderKeysAssumption DEF IInv, RecordsInv
  <2>3. PICK i \in 1 .. Len(rec[r]) :
          /\ rec[r][i].id = m.id
          /\ \E t : StoredStep(rec[r][i], t, m) \/ AdvanceStep(rec[r][i], t, m)
    BY <2>1, <2>2, OutcomeCases
  <2>4. m.iteration < rec[r][i].chainIteration /\ \A k \in rec[r][i].messageKeys : k.iteration # m.iteration
    BY <1>1, <2>3 DEF IInv, DeliveredInv
  <2>5. rec[r][i].chainIteration \in Nat
    BY <2>2, StateTypes
  <2> QED
    BY <2>1, <2>3, <2>4, <2>5 DEF StoredStep, AdvanceStep
<1> QED
  BY Invariance, <1>1, PTL

\* A record has as many ids as states.
LEMMA AsManyIdsAsStates ==
  ASSUME NEW states, WfRecord(states)
  PROVE  Cardinality(StateIds(states)) = Len(states)
<1> DEFINE n == Len(states)
           S == 1 .. n
           T == StateIds(states)
           f == [i \in S |-> states[i].id]
<1>1. n \in Nat
  BY DEF WfRecord
<1>2. IsFiniteSet(S) /\ Cardinality(S) = n
  <2>1. 1 \in Int /\ n \in Int
    BY <1>1
  <2>2. IsFiniteSet(S) /\ Cardinality(S) = IF 1 > n THEN 0 ELSE n - 1 + 1
    BY <2>1, FS_Interval, Zenon
  <2> HIDE DEF S, n
  <2> QED
    BY <1>1, <2>2
<1>3. f \in [S -> T] /\ \A t \in T : \E a \in S : f[a] = t
  BY DEF StateIds
<1>4. \A a, b \in S : f[a] = f[b] => a = b
  BY DEF WfRecord, OneStatePerId
<1> HIDE DEF f, S, T, n
<1>5. IsFiniteSet(T) /\ Cardinality(T) <= Cardinality(S)
  BY <1>2, <1>3, SurjectionBound
<1>6. Cardinality(S) <= Cardinality(T)
  BY <1>3, <1>4, <1>5, InjectionBound
<1>7. Cardinality(T) \in Nat
  BY <1>5, FS_CardinalityType
<1> QED
  BY <1>1, <1>2, <1>5, <1>6, <1>7 DEF n, T

\* setState and addMessageKey keep every record within its limits, with one
\* state per id and stored keys behind the chain only.
THEOREM RecordsBounded == Spec => []RecordBounded
<1>1. ASSUME IInv
      PROVE  RecordBounded
  <2> SUFFICES ASSUME NEW states \in {own} \cup {rec[r] : r \in Receivers}
               PROVE  /\ Len(states) <= MaxStates
                      /\ Cardinality(StateIds(states)) = Len(states)
                      /\ \A i \in 1 .. Len(states) :
                           /\ Cardinality(states[i].messageKeys) <= MaxMessageKeys
                           /\ \A k \in states[i].messageKeys : k.iteration < states[i].chainIteration
    BY DEF RecordBounded
  <2>1. WfRecord(states)
    BY <1>1 DEF IInv, RecordsInv
  <2>2. Cardinality(StateIds(states)) = Len(states)
    BY <2>1, AsManyIdsAsStates
  <2> QED
    BY <2>1, <2>2 DEF WfRecord, WfState
<1> QED
  BY Invariance, <1>1, PTL

\* Messages of a state, in any order: those within the limit decrypt.
THEOREM OutOfOrderDecrypts == Spec => []OutOfOrderWithinLimit
<1>1. ASSUME IInv
      PROVE  OutOfOrderWithinLimit
  <2> SUFFICES ASSUME NEW r \in Receivers, NEW m \in net \ delivered[r],
                      m.id \in StateIds(rec[r]), m.iteration >= installed[r][m.id],
                      -MaxMessageKeys - 1 <= m.iteration - StateOf(rec[r], m.id).chainIteration,
                      m.iteration - StateOf(rec[r], m.id).chainIteration <= MaxMessageKeys
               PROVE  Outcome(rec[r], m).err = "none"
    BY DEF OutOfOrderWithinLimit
  <2> DEFINE s == StateOf(rec[r], m.id)
             n == m.iteration
             c == s.chainIteration
             out == getSenderMessageKey(s, n)
  <2>1. /\ m \in Message /\ m.key = <<m.id, n>> /\ n < MaxIteration /\ n \in Nat /\ m.signed
        /\ m.id \in Id /\ installed[r][m.id] \in Nat
    BY <1>1 DEF IInv, TypeOK, NamesInv, Message
  <2>2. n <= MaxIteration /\ WfRecord(rec[r]) /\ MaxMessageKeys \in Nat
    BY <1>1, <2>1, SenderKeysAssumption DEF IInv, RecordsInv
  <2>3. PICK i \in 1 .. Len(rec[r]) : rec[r][i].id = m.id /\ s = rec[r][i]
    BY <2>2, StateOfFacts
  <2>4. c \in Nat
    BY <2>2, <2>3, StateTypes
  <2>5. out.err = "none"
    <3>1. CASE n < c
      <4>1. c - 1 - MaxMessageKeys <= n /\ installed[r][m.id] <= n
        BY <2>1, <2>2, <2>4
      <4>2. \E k \in s.messageKeys : k.iteration = n
        BY <1>1, <2>3, <3>1, <4>1 DEF IInv, PendingInv
      <4> DEFINE stored == {k \in s.messageKeys : k.iteration = n}
      <4>3. stored # {} /\ c > n
        BY <3>1, <4>2, <2>1, <2>4
      <4>4. out = Success(removeMessageKey(s, CHOOSE k \in stored : TRUE), (CHOOSE k \in stored : TRUE).seed)
        BY <4>3 DEF getSenderMessageKey
      <4> HIDE DEF out
      <4> QED
        BY <4>4 DEF Success
    <3>2. CASE ~(n < c)
      <4>1. ~(c > n) /\ ~(n - c > MaxMessageKeys) /\ n # MaxIteration
        BY <3>2, <2>1, <2>2, <2>4
      <4>2. out = Success(Advance(s, n), Derive(s.chainSeed, n - c))
        BY <4>1 DEF getSenderMessageKey
      <4> HIDE DEF out
      <4> QED
        BY <4>2 DEF Success
    <3> QED
      BY <3>1, <3>2
  <2>6. Outcome(rec[r], m).err = IF out.err = "none" /\ out.key # m.key THEN "invalid" ELSE out.err
    BY <2>1 DEF Outcome
  <2>7. Outcome(rec[r], m).err # "invalid"
    BY <2>1, <2>2, OutcomeCases
  <2> HIDE DEF out
  <2> QED
    BY <2>5, <2>6, <2>7
<1> QED
  BY Invariance, <1>1, PTL

\* Encrypt and Decrypt move the chain on and drop the key: no state yields the
\* key of what was processed with it.
THEOREM ForwardSecret == Spec => []ForwardSecrecy
<1>1. ASSUME IInv
      PROVE  ForwardSecrecy
  <2>1. ASSUME NEW s \in SenderKeyState, WfState(s), NEW m \in net,
               s.id = m.id => /\ m.iteration < s.chainIteration
                              /\ \A k \in s.messageKeys : k.iteration # m.iteration
        PROVE  ~Derivable(s, m.key)
    <3>1. m.key = <<m.id, m.iteration>> /\ m.iteration \in Nat /\ m.key[1] = m.id /\ m.key[2] = m.iteration
      BY <1>1 DEF IInv, TypeOK, NamesInv, Message
    <3>2. s.chainSeed = <<s.id, s.chainIteration>> /\ s.chainIteration \in Nat
          /\ s.chainSeed[1] = s.id /\ s.chainSeed[2] = s.chainIteration
      BY <2>1 DEF WfState, SenderKeyState
    <3>3. ~(s.chainSeed[1] = m.key[1] /\ s.chainSeed[2] <= m.key[2])
      BY <2>1, <3>1, <3>2
    <3>4. ASSUME NEW k \in s.messageKeys, k.seed = m.key
          PROVE  FALSE
      <4>1. <<s.id, k.iteration>> = <<m.id, m.iteration>>
        BY <2>1, <3>1, <3>4 DEF WfState
      <4>2. s.id = m.id /\ k.iteration = m.iteration
        BY <4>1
      <4> QED
        BY <2>1, <4>2
    <3> QED
      BY <3>3, <3>4 DEF Derivable
  <2>2. ASSUME NEW i \in 1 .. Len(own), own[i].hasPrivate, NEW m \in net
        PROVE  ~Derivable(own[i], m.key)
    <3>1. own[i] \in SenderKeyState /\ WfState(own[i])
      BY <1>1, StateTypes DEF IInv, RecordsInv
    <3> QED
      BY <1>1, <2>1, <2>2, <3>1 DEF IInv, SendingInv
  <2>3. ASSUME NEW r \in Receivers, NEW i \in 1 .. Len(rec[r]), NEW m \in delivered[r]
        PROVE  ~Derivable(rec[r][i], m.key)
    <3>1. rec[r][i] \in SenderKeyState /\ WfState(rec[r][i])
      BY <1>1, StateTypes DEF IInv, RecordsInv
    <3> QED
      BY <1>1, <2>1, <3>1 DEF IInv, DeliveredInv
  <2> QED
    BY <2>2, <2>3 DEF ForwardSecrecy
<1> QED
  BY Invariance, <1>1, PTL
===============================================================================
