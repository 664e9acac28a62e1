-------------------------- MODULE DataChannelsProofs --------------------------
(***************************************************************************)
(* Theorems about DataChannels, for any data producers and consumers and   *)
(* any number of messages.                                                 *)
(***************************************************************************)
EXTENDS DataChannels, SequenceTheorems, FiniteSetTheorems, TLAPS

-----------------------------------------------------------------------------
(* The place of a position among others.                                   *)
Rank(P, i) == Cardinality({j \in P : j <= i})

(* The positions up to one of them are finitely many, and not none.        *)
LEMMA RankBounds ==
  ASSUME NEW P \in SUBSET Int, IsFiniteSet(P), NEW i \in P
  PROVE  /\ IsFiniteSet({j \in P : j <= i})
         /\ Cardinality(P) \in Nat /\ Rank(P, i) \in 1..Cardinality(P)
<1> DEFINE Q == {j \in P : j <= i}
<1>1. Q \in SUBSET P /\ Q # {}
  OBVIOUS
<1> HIDE DEF Q
<1>2. IsFiniteSet(Q) /\ Cardinality(Q) <= Cardinality(P)
  BY <1>1, FS_Subset
<1>3. Cardinality(Q) \in Nat /\ Cardinality(P) \in Nat
  BY <1>2, FS_CardinalityType
<1>4. Cardinality(Q) # 0
  BY <1>1, <1>2, FS_EmptySet
<1> QED BY <1>2, <1>3, <1>4 DEF Rank, Q

(* A rank is a number.                                                     *)
LEMMA RankIsInt ==
  ASSUME NEW P \in SUBSET Int, IsFiniteSet(P), NEW i \in P
  PROVE  Rank(P, i) \in Int
<1>1. Cardinality(P) \in Nat /\ Rank(P, i) \in 1..Cardinality(P)
  BY RankBounds
<1> QED BY <1>1

(* Ranks are in the order of the positions.                                *)
LEMMA RankOrder ==
  ASSUME NEW P \in SUBSET Int, IsFiniteSet(P), NEW i \in P, NEW j \in P, i < j
  PROVE  Rank(P, i) < Rank(P, j)
<1> DEFINE Q == {k \in P : k <= i}
           R == {k \in P : k <= j}
<1>1. Q \in SUBSET R /\ Q # R
  <2>1. \A k \in P : k \in Int
    OBVIOUS
  <2>2. \A k \in P : k <= i => k <= j
    BY <2>1
  <2>3. j \in R /\ j \notin Q
    BY <2>1
  <2> QED BY <2>2, <2>3
<1>2. IsFiniteSet(R)
  BY RankBounds
<1>3. Rank(P, i) \in Int /\ Rank(P, j) \in Int
  BY RankIsInt
<1> HIDE DEF Q, R
<1>4. Cardinality(Q) <= Cardinality(R) /\ Cardinality(Q) # Cardinality(R)
  BY <1>1, <1>2, FS_Subset
<1>5. Rank(P, i) = Cardinality(Q) /\ Rank(P, j) = Cardinality(R)
  BY DEF Rank, Q, R
<1> QED BY <1>3, <1>4, <1>5

(* Different positions have different ranks.                               *)
LEMMA RankInjective ==
  ASSUME NEW P \in SUBSET Int, IsFiniteSet(P), NEW i \in P, NEW j \in P,
         Rank(P, i) = Rank(P, j)
  PROVE  i = j
<1>1. i \in Int /\ j \in Int /\ Rank(P, i) \in Int /\ Rank(P, j) \in Int
  BY RankIsInt
<1>2. CASE i < j
  BY <1>1, <1>2, RankOrder
<1>3. CASE j < i
  BY <1>1, <1>3, RankOrder
<1> QED BY <1>1, <1>2, <1>3

(* Every rank up to the number of positions is taken.                      *)
LEMMA RankOnto ==
  ASSUME NEW P \in SUBSET Int, IsFiniteSet(P), NEW k \in 1..Cardinality(P)
  PROVE  \E i \in P : Rank(P, i) = k
<1> DEFINE n == Cardinality(P)
           T == 1..n
           F == [i \in P |-> Rank(P, i)]
<1>1. n \in Nat
  BY FS_CardinalityType
<1>2. \A i \in P : Rank(P, i) \in T
  BY RankBounds
<1>3. \A i, j \in P : Rank(P, i) = Rank(P, j) => i = j
  BY RankInjective
<1>4. IsFiniteSet(T) /\ Cardinality(T) = n
  BY <1>1, FS_Interval
<1> HIDE DEF T
<1>5. F \in Injection(P, T)
  BY <1>2, <1>3 DEF Injection, IsInjective
<1>6. F \in Surjection(P, T)
  BY <1>4, <1>5, FS_Injection
<1> QED BY <1>6 DEF Surjection, T

(* An element picked is found at the rank of its position.                 *)
LEMMA PickedAt ==
  ASSUME NEW q, NEW P \in SUBSET Int, IsFiniteSet(P)
  PROVE  /\ DOMAIN Picked(q, P) = 1..Cardinality(P)
         /\ \A i \in P : Picked(q, P)[Rank(P, i)] = q[i]
<1>1. DOMAIN Picked(q, P) = 1..Cardinality(P)
  BY DEF Picked
<1>2. ASSUME NEW i \in P
      PROVE  Picked(q, P)[Rank(P, i)] = q[i]
  <2> DEFINE k == Rank(P, i)
  <2>1. k \in 1..Cardinality(P)
    BY RankBounds
  <2>2. Picked(q, P)[k] = q[CHOOSE j \in P : Rank(P, j) = k]
    BY <2>1 DEF Picked, Rank
  <2>3. \A j \in P : Rank(P, j) = k => j = i
    BY RankInjective
  <2> QED BY <2>2, <2>3
<1> QED BY <1>1, <1>2

(* Sequences of the same length that agree at every rank are the same.     *)
LEMMA PickedIs ==
  ASSUME NEW q, NEW P \in SUBSET Int, IsFiniteSet(P), NEW n \in Nat, n = Cardinality(P),
         NEW E, NEW s \in [1..n -> E], \A i \in P : s[Rank(P, i)] = q[i]
  PROVE  Picked(q, P) = s
<1>1. ASSUME NEW k \in 1..n
      PROVE  Picked(q, P)[k] = s[k]
  <2>1. PICK i \in P : Rank(P, i) = k
    BY RankOnto
  <2> QED BY <2>1, PickedAt
<1>2. Picked(q, P) = [k \in 1..n |-> Picked(q, P)[k]]
  BY DEF Picked
<1> QED BY <1>1, <1>2

(* What is picked is a sequence of the elements there.                     *)
LEMMA PickedType ==
  ASSUME NEW E, NEW q, NEW P \in SUBSET Int, IsFiniteSet(P), \A i \in P : q[i] \in E
  PROVE  Picked(q, P) \in Seq(E) /\ Len(Picked(q, P)) = Cardinality(P)
<1> DEFINE n == Cardinality(P)
<1>1. n \in Nat
  BY FS_CardinalityType
<1>2. ASSUME NEW k \in 1..n
      PROVE  Picked(q, P)[k] \in E
  <2>1. PICK i \in P : Rank(P, i) = k
    BY RankOnto
  <2> QED BY <2>1, PickedAt
<1>3. Picked(q, P) \in [1..n -> E]
  BY <1>2 DEF Picked
<1> HIDE DEF n
<1>4. Picked(q, P) \in Seq(E)
  BY <1>1, <1>3, SeqDef
<1>5. DOMAIN Picked(q, P) = 1..n
  BY <1>3
<1>6. Len(Picked(q, P)) = n
  BY <1>1, <1>4, <1>5, LenProperties
<1> QED BY <1>4, <1>6 DEF n

(* What is picked is determined by the elements there.                     *)
LEMMA PickedSame ==
  ASSUME NEW q, NEW s, NEW P \in SUBSET Int, IsFiniteSet(P), \A i \in P : s[i] = q[i]
  PROVE  Picked(s, P) = Picked(q, P)
<1>1. ASSUME NEW k \in 1..Cardinality(P)
      PROVE  Picked(s, P)[k] = Picked(q, P)[k]
  <2>1. PICK i \in P : Rank(P, i) = k
    BY RankOnto
  <2> QED BY <2>1, PickedAt
<1>2. /\ Picked(q, P) = [k \in 1..Cardinality(P) |-> Picked(q, P)[k]]
      /\ Picked(s, P) = [k \in 1..Cardinality(P) |-> Picked(s, P)[k]]
  BY DEF Picked
<1> QED BY <1>1, <1>2

(* A map that moves the positions without changing their order, and the    *)
(* elements with them.                                                     *)
Moves(g, q, P, s, R) ==
  /\ g \in [P -> R]
  /\ \A r \in R : \E i \in P : g[i] = r
  /\ \A i, j \in P : i < j => g[i] < g[j]
  /\ \A i \in P : s[g[i]] = q[i]

(* Such a map changes nothing of what is picked.                           *)
LEMMA PickedMoved ==
  ASSUME NEW q, NEW s,
         NEW P \in SUBSET Int, IsFiniteSet(P), NEW R \in SUBSET Int, IsFiniteSet(R),
         NEW g, Moves(g, q, P, s, R)
  PROVE  Picked(s, R) = Picked(q, P)
<1> USE DEF Moves
<1>1. \A i, j \in P : g[i] = g[j] => i = j
  <2>1. ASSUME NEW i \in P, NEW j \in P, g[i] = g[j]
        PROVE  i = j
    <3>1. i \in Int /\ j \in Int /\ g[i] \in Int /\ g[j] \in Int
      OBVIOUS
    <3>2. ~(i < j) /\ ~(j < i)
      BY <2>1, <3>1
    <3> QED BY <3>1, <3>2
  <2> QED BY <2>1
<1>2. Cardinality(R) = Cardinality(P)
  <2>1. g \in Bijection(P, R)
    BY <1>1 DEF Bijection, Injection, IsInjective, Surjection
  <2> QED BY <2>1, FS_Bijection DEF ExistsBijection
<1>3. ASSUME NEW i \in P
      PROVE  Rank(R, g[i]) = Rank(P, i)
  <2> DEFINE A == {j \in P : j <= i}
             B == {r \in R : r <= g[i]}
             h == [j \in A |-> g[j]]
  <2>1. \A j \in P : j <= i <=> g[j] <= g[i]
    <3>1. ASSUME NEW j \in P
          PROVE  j <= i <=> g[j] <= g[i]
      <4>1. i \in Int /\ j \in Int /\ g[i] \in Int /\ g[j] \in Int
        OBVIOUS
      <4>2. CASE i < j
        BY <4>1, <4>2
      <4>3. CASE j < i
        BY <4>1, <4>3
      <4>4. CASE i = j
        BY <4>1, <4>4
      <4> QED BY <4>1, <4>2, <4>3, <4>4
    <3> QED BY <3>1
  <2>2. \A j \in A : g[j] \in B
    BY <2>1
  <2>3. \A r \in B : \E j \in A : g[j] = r
    BY <2>1
  <2>4. \A j, k \in A : g[j] = g[k] => j = k
    BY <1>1
  <2>5. IsFiniteSet(A)
    BY RankBounds
  <2> HIDE DEF A, B
  <2>6. h \in Bijection(A, B)
    BY <2>2, <2>3, <2>4 DEF Bijection, Injection, IsInjective, Surjection
  <2>7. Cardinality(B) = Cardinality(A)
    BY <2>5, <2>6, FS_Bijection DEF ExistsBijection
  <2> QED BY <2>7 DEF Rank, A, B
<1>4. ASSUME NEW k \in 1..Cardinality(P)
      PROVE  Picked(s, R)[k] = Picked(q, P)[k]
  <2>1. PICK i \in P : Rank(P, i) = k
    BY RankOnto
  <2>2. Picked(q, P)[k] = q[i]
    BY <2>1, PickedAt
  <2>3. g[i] \in R /\ Rank(R, g[i]) = k
    BY <1>3, <2>1
  <2>4. Picked(s, R)[k] = s[g[i]]
    BY <2>3, PickedAt
  <2> QED BY <2>2, <2>4
<1>5. /\ Picked(q, P) = [k \in 1..Cardinality(P) |-> Picked(q, P)[k]]
      /\ Picked(s, R) = [k \in 1..Cardinality(R) |-> Picked(s, R)[k]]
  BY DEF Picked
<1> QED BY <1>2, <1>4, <1>5

(* Picking a position behind all others appends its element.               *)
LEMMA PickedLast ==
  ASSUME NEW q, NEW s, NEW P \in SUBSET Int, IsFiniteSet(P), NEW m \in Int,
         \A i \in P : i < m /\ s[i] = q[i]
  PROVE  Picked(s, P \cup {m}) = Append(Picked(q, P), s[m])
<1> DEFINE R == P \cup {m}
           n == Cardinality(P)
           E == {q[i] : i \in P} \cup {s[m]}
           t == Append(Picked(q, P), s[m])
<1>1. m \notin P /\ \A i \in P : i \in Int /\ i < m
  OBVIOUS
<1>2. n \in Nat /\ IsFiniteSet(R) /\ Cardinality(R) = n + 1 /\ R \in SUBSET Int
  BY <1>1, FS_AddElement, FS_CardinalityType
<1>3. Picked(q, P) \in Seq(E) /\ Len(Picked(q, P)) = n /\ s[m] \in E
  <2>1. \A i \in P : q[i] \in E
    OBVIOUS
  <2> HIDE DEF E
  <2>2. Picked(q, P) \in Seq(E) /\ Len(Picked(q, P)) = n
    BY <2>1, PickedType
  <2> QED BY <2>2 DEF E
<1> HIDE DEF E
<1>4. /\ t \in Seq(E) /\ Len(t) = n + 1 /\ t[n + 1] = s[m]
      /\ \A k \in 1..n : t[k] = Picked(q, P)[k]
  BY <1>3, AppendProperties
<1> HIDE DEF t
<1>5. t \in [1..(n + 1) -> E]
  BY <1>4, LenProperties
<1>6. ASSUME NEW i \in P
      PROVE  t[Rank(R, i)] = s[i]
  <2>1. {j \in R : j <= i} = {j \in P : j <= i}
    BY <1>1
  <2>2. Rank(R, i) = Rank(P, i)
    BY <2>1 DEF Rank
  <2>3. Rank(P, i) \in 1..n
    BY RankBounds
  <2>4. Picked(q, P)[Rank(P, i)] = q[i]
    BY PickedAt
  <2> QED BY <1>4, <2>2, <2>3, <2>4
<1>7. t[Rank(R, m)] = s[m]
  <2>1. {j \in R : j <= m} = R
    BY <1>1
  <2>2. Rank(R, m) = n + 1
    BY <1>2, <2>1 DEF Rank
  <2> QED BY <1>4, <2>2
<1>8. \A i \in R : t[Rank(R, i)] = s[i]
  BY <1>6, <1>7
<1>9. n + 1 \in Nat /\ n + 1 = Cardinality(R)
  BY <1>2
<1>10. R \in SUBSET Int /\ IsFiniteSet(R)
  BY <1>2
<1> HIDE DEF R, n
<1>11. Picked(s, R) = t
  BY <1>5, <1>8, <1>9, <1>10, PickedIs
<1> QED BY <1>11 DEF R, t

(* Picking a position before all others puts its element in front.         *)
LEMMA PickedFirst ==
  ASSUME NEW q, NEW P \in SUBSET Int, IsFiniteSet(P), NEW m \in Int, \A i \in P : m < i
  PROVE  Picked(q, {m} \cup P) = <<q[m]>> \o Picked(q, P)
<1> DEFINE R == {m} \cup P
           n == Cardinality(P)
           E == {q[i] : i \in P} \cup {q[m]}
           t == <<q[m]>> \o Picked(q, P)
<1>1. m \notin P /\ R = P \cup {m} /\ \A i \in P : i \in Int /\ m < i
  OBVIOUS
<1>2. n \in Nat /\ IsFiniteSet(R) /\ Cardinality(R) = n + 1 /\ R \in SUBSET Int
  <2>1. IsFiniteSet(P \cup {m}) /\ Cardinality(P \cup {m}) = n + 1
    BY <1>1, FS_AddElement
  <2> QED BY <1>1, <2>1, FS_CardinalityType
<1>3. Picked(q, P) \in Seq(E) /\ Len(Picked(q, P)) = n /\ q[m] \in E
  <2>1. \A i \in P : q[i] \in E
    OBVIOUS
  <2> HIDE DEF E
  <2>2. Picked(q, P) \in Seq(E) /\ Len(Picked(q, P)) = n
    BY <2>1, PickedType
  <2> QED BY <2>2 DEF E
<1> HIDE DEF E
<1>4. <<q[m]>> \in Seq(E) /\ Len(<<q[m]>>) = 1 /\ <<q[m]>>[1] = q[m]
  BY <1>3
<1>5. /\ t \in Seq(E) /\ Len(t) = 1 + n /\ t[1] = q[m]
      /\ \A k \in 1..n : t[k + 1] = Picked(q, P)[k]
  <2>1. /\ t \in Seq(E) /\ Len(t) = 1 + n
        /\ \A k \in 1..(1 + n) :
             t[k] = IF k <= 1 THEN <<q[m]>>[k] ELSE Picked(q, P)[k - 1]
    BY <1>3, <1>4, ConcatProperties
  <2> HIDE DEF t, n
  <2>2. t[1] = q[m]
    BY <1>2, <1>4, <2>1
  <2>3. ASSUME NEW k \in 1..n
        PROVE  t[k + 1] = Picked(q, P)[k]
    <3>1. k + 1 \in 1..(1 + n) /\ ~(k + 1 <= 1) /\ (k + 1) - 1 = k
      BY <1>2
    <3> QED BY <2>1, <3>1
  <2> QED BY <2>1, <2>2, <2>3
<1> HIDE DEF t
<1>6. t \in [1..(n + 1) -> E]
  <2>1. 1 + n = n + 1
    BY <1>2
  <2> QED BY <1>5, <2>1, LenProperties
<1>7. ASSUME NEW i \in P
      PROVE  t[Rank(R, i)] = q[i]
  <2> DEFINE A == {j \in P : j <= i}
  <2>1. {j \in R : j <= i} = A \cup {m} /\ m \notin A
    BY <1>1
  <2>2. IsFiniteSet(A)
    BY RankBounds
  <2> HIDE DEF A
  <2>3. Cardinality(A \cup {m}) = Cardinality(A) + 1
    BY <2>1, <2>2, FS_AddElement
  <2>4. Rank(R, i) = Rank(P, i) + 1
    BY <2>1, <2>3 DEF Rank, A
  <2>5. Rank(P, i) \in 1..n
    BY RankBounds
  <2>6. Picked(q, P)[Rank(P, i)] = q[i]
    BY PickedAt
  <2> QED BY <1>5, <2>4, <2>5, <2>6
<1>8. t[Rank(R, m)] = q[m]
  <2>0. m <= m /\ \A j \in P : ~(j <= m)
    BY <1>1
  <2>1. {j \in R : j <= m} = {m}
    BY <2>0
  <2>2. Rank(R, m) = 1
    BY <2>1, FS_Singleton DEF Rank
  <2> QED BY <1>5, <2>2
<1>9. \A i \in R : t[Rank(R, i)] = q[i]
  BY <1>7, <1>8
<1>10. n + 1 \in Nat /\ n + 1 = Cardinality(R)
  BY <1>2
<1> HIDE DEF R, n
<1>11. Picked(q, R) = t
  BY <1>2, <1>6, <1>9, <1>10, PickedIs
<1> QED BY <1>11 DEF R, t

-----------------------------------------------------------------------------
Event == {"open", "message", "closing", "closed"}

Task ==
  [on : Producer, event : {"open", "closed"}]
  \cup [on : Consumer, event : {"open", "message", "closing", "closed"}]

Without(d, queue) == Picked(queue, DOMAIN queue \ TasksOn(d, queue))

(* A task is an event on an object.                                        *)
LEMMA TaskParts ==
  ASSUME NEW task \in Task
  PROVE  task.on \in Object /\ task.event \in Event
  BY DEF Task, Object, Event

(* The positions of a queue, and of the tasks on an object, are finitely   *)
(* many numbers.                                                           *)
LEMMA Positions ==
  ASSUME NEW T, NEW queue \in Seq(T), NEW d
  PROVE  /\ Len(queue) \in Nat /\ DOMAIN queue = 1..Len(queue)
         /\ \A i \in DOMAIN queue : queue[i] \in T
         /\ DOMAIN queue \in SUBSET Int /\ IsFiniteSet(DOMAIN queue)
         /\ TasksOn(d, queue) \in SUBSET Int /\ IsFiniteSet(TasksOn(d, queue))
         /\ DOMAIN queue \ TasksOn(d, queue) \in SUBSET Int
         /\ IsFiniteSet(DOMAIN queue \ TasksOn(d, queue))
<1>1. Len(queue) \in Nat /\ DOMAIN queue = 1..Len(queue) /\ queue \in [1..Len(queue) -> T]
  BY LenProperties
<1>2. IsFiniteSet(1..Len(queue)) /\ 1..Len(queue) \in SUBSET Int
  BY <1>1, FS_Interval
<1>3. TasksOn(d, queue) \in SUBSET DOMAIN queue
  BY DEF TasksOn
<1>4. IsFiniteSet(TasksOn(d, queue)) /\ IsFiniteSet(DOMAIN queue \ TasksOn(d, queue))
  BY <1>1, <1>2, <1>3, FS_Subset
<1> QED BY <1>1, <1>2, <1>3, <1>4

(* The events on an object.                                                *)
LEMMA EventsType ==
  ASSUME NEW queue \in Seq(Task), NEW d
  PROVE  EventsOf(d, queue) \in Seq(Event)
<1> DEFINE q == [i \in DOMAIN queue |-> queue[i].event]
           P == TasksOn(d, queue)
<1>1. P \in SUBSET Int /\ IsFiniteSet(P)
  BY Positions
<1>2. \A i \in P : q[i] \in Event
  BY Positions, TaskParts DEF TasksOn
<1> HIDE DEF q, P
<1>3. Picked(q, P) \in Seq(Event)
  BY <1>1, <1>2, PickedType
<1> QED BY <1>3 DEF EventsOf, q, P

(* An empty queue holds no events.                                         *)
LEMMA EventsOfNone ==
  ASSUME NEW d
  PROVE  EventsOf(d, <<>>) = <<>>
<1>1. <<>> \in Seq(Task)
  BY EmptySeq
<1>2. TasksOn(d, <<>>) = {}
  BY DEF TasksOn
<1> DEFINE q == [i \in DOMAIN <<>> |-> <<>>[i].event]
<1>3. Picked(q, {}) \in Seq(Event) /\ Len(Picked(q, {})) = Cardinality({})
  BY PickedType, FS_EmptySet
<1>4. Picked(q, {}) = <<>>
  BY <1>3, FS_EmptySet, EmptySeq
<1> QED BY <1>2, <1>4 DEF EventsOf

(* A task appended to the queue adds its event to those of its object.     *)
LEMMA EventsAppend ==
  ASSUME NEW queue \in Seq(Task), NEW task \in Task, NEW d
  PROVE  EventsOf(d, Append(queue, task))
           = IF task.on = d THEN Append(EventsOf(d, queue), task.event)
             ELSE EventsOf(d, queue)
<1> DEFINE longer == Append(queue, task)
           m == Len(queue) + 1
           q == [i \in DOMAIN queue |-> queue[i].event]
           s == [i \in DOMAIN longer |-> longer[i].event]
           P == TasksOn(d, queue)
<1>1. /\ longer \in Seq(Task) /\ Len(longer) = m /\ longer[m] = task
      /\ \A i \in 1..Len(queue) : longer[i] = queue[i]
  BY AppendProperties
<1>2. /\ Len(queue) \in Nat /\ DOMAIN queue = 1..Len(queue)
      /\ P \in SUBSET Int /\ IsFiniteSet(P) /\ P \subseteq 1..Len(queue)
  <2>1. Len(queue) \in Nat /\ DOMAIN queue = 1..Len(queue)
    BY Positions
  <2>2. P \in SUBSET Int /\ IsFiniteSet(P)
    BY Positions
  <2>3. P \subseteq DOMAIN queue
    BY DEF TasksOn
  <2> QED BY <2>1, <2>2, <2>3
<1> HIDE DEF longer
<1>3. DOMAIN longer = 1..m
  BY <1>1, LenProperties
<1>4. /\ m \in Int /\ m \in DOMAIN longer /\ DOMAIN longer = DOMAIN queue \cup {m}
      /\ \A i \in P : i < m
  BY <1>2, <1>3
<1>5. s[m] = task.event /\ \A i \in P : s[i] = q[i]
  BY <1>1, <1>2, <1>4
<1>6. TasksOn(d, longer) = IF task.on = d THEN P \cup {m} ELSE P
  BY <1>1, <1>2, <1>4 DEF TasksOn
<1>7. EventsOf(d, longer) = Picked(s, TasksOn(d, longer)) /\ EventsOf(d, queue) = Picked(q, P)
  BY DEF EventsOf
<1> HIDE DEF q, s, P, m
<1>8. CASE task.on = d
  <2>1. Picked(s, P \cup {m}) = Append(Picked(q, P), s[m])
    BY <1>2, <1>4, <1>5, PickedLast
  <2> QED BY <1>5, <1>6, <1>7, <1>8, <2>1 DEF longer
<1>9. CASE task.on # d
  <2>1. P \in SUBSET Int /\ IsFiniteSet(P)
    BY <1>2
  <2>2. Picked(s, P) = Picked(q, P)
    BY <1>5, <2>1, PickedSame
  <2> QED BY <1>6, <1>7, <1>9, <2>2 DEF longer
<1> QED BY <1>8, <1>9

(* The first task of a queue holds the first event of its object.          *)
LEMMA EventsTail ==
  ASSUME NEW queue \in Seq(Task), queue # <<>>, NEW d
  PROVE  EventsOf(d, queue)
           = IF Head(queue).on = d
             THEN <<Head(queue).event>> \o EventsOf(d, Tail(queue))
             ELSE EventsOf(d, Tail(queue))
<1> DEFINE rest == Tail(queue)
           q == [i \in DOMAIN queue |-> queue[i].event]
           s == [i \in DOMAIN rest |-> rest[i].event]
           P == TasksOn(d, queue) \ {1}
           R == TasksOn(d, rest)
           g == [i \in P |-> i - 1]
<1>1. /\ rest \in Seq(Task) /\ Len(rest) = Len(queue) - 1
      /\ \A i \in 1..Len(rest) : rest[i] = queue[i + 1]
  BY HeadTailProperties
<1>2. /\ Len(queue) \in Nat /\ DOMAIN queue = 1..Len(queue)
      /\ TasksOn(d, queue) \in SUBSET Int /\ IsFiniteSet(TasksOn(d, queue))
  BY Positions
<1>3. Len(queue) # 0 /\ queue[1] = Head(queue)
  BY EmptySeq
<1> HIDE DEF rest
<1>4. /\ DOMAIN rest = 1..(Len(queue) - 1)
      /\ R \in SUBSET Int /\ IsFiniteSet(R)
  BY <1>1, Positions
<1>5. P \in SUBSET Int /\ IsFiniteSet(P) /\ P \subseteq 2..Len(queue)
  <2>1. IsFiniteSet(P)
    BY <1>2, FS_RemoveElement
  <2>2. P \subseteq 2..Len(queue)
    BY <1>2 DEF TasksOn
  <2> QED BY <2>1, <2>2
<1>6. \A i \in 2..Len(queue) :
        /\ i - 1 \in DOMAIN rest /\ rest[i - 1] = queue[i]
        /\ i \in DOMAIN queue /\ i - 1 \in R <=> i \in P
  <2>1. ASSUME NEW i \in 2..Len(queue)
        PROVE  i - 1 \in DOMAIN rest /\ rest[i - 1] = queue[i] /\ i \in DOMAIN queue /\ i # 1
    <3>1. i - 1 \in 1..(Len(queue) - 1) /\ (i - 1) + 1 = i /\ i \in 1..Len(queue)
      BY <1>2
    <3> QED BY <1>1, <1>2, <1>4, <3>1
  <2> QED BY <2>1 DEF TasksOn
<1>7. g \in [P -> R] /\ \A i \in P : s[g[i]] = q[i]
  BY <1>5, <1>6
<1>8. \A r \in R : \E i \in P : g[i] = r
  <2>1. ASSUME NEW r \in R
        PROVE  r + 1 \in P /\ g[r + 1] = r
    <3>1. r \in 1..(Len(queue) - 1)
      BY <1>4 DEF TasksOn
    <3>2. r + 1 \in 2..Len(queue) /\ (r + 1) - 1 = r
      BY <1>2, <3>1
    <3> QED BY <1>6, <3>2
  <2> QED BY <2>1
<1>9. \A i, j \in P : i < j => g[i] < g[j]
  BY <1>5
<1>10. Picked(s, R) = Picked(q, P)
  <2> HIDE DEF g, P, R, q, s
  <2>1. Moves(g, q, P, s, R)
    BY <1>7, <1>8, <1>9 DEF Moves
  <2> QED BY <1>4, <1>5, <2>1, PickedMoved
<1>11. EventsOf(d, rest) = Picked(s, R) /\ EventsOf(d, queue) = Picked(q, TasksOn(d, queue))
  BY DEF EventsOf
<1>12. 1 \in DOMAIN queue /\ q[1] = Head(queue).event
  BY <1>2, <1>3
<1>13. CASE Head(queue).on = d
  <2>1. TasksOn(d, queue) = {1} \cup P
    BY <1>3, <1>12, <1>13 DEF TasksOn
  <2>2. \A i \in P : 1 < i
    BY <1>5
  <2>3. Picked(q, {1} \cup P) = <<q[1]>> \o Picked(q, P)
    <3>1. P \in SUBSET Int /\ IsFiniteSet(P) /\ 1 \in Int
      BY <1>5
    <3> HIDE DEF P, q
    <3> QED BY <2>2, <3>1, PickedFirst
  <2> HIDE DEF P, q, s, R
  <2> QED BY <1>10, <1>11, <1>12, <1>13, <2>1, <2>3 DEF rest
<1>14. CASE Head(queue).on # d
  <2>1. TasksOn(d, queue) = P
    BY <1>3, <1>12, <1>14 DEF TasksOn
  <2> HIDE DEF P, q, s, R
  <2> QED BY <1>10, <1>11, <1>14, <2>1 DEF rest
<1> QED BY <1>13, <1>14

(* What is left of a queue are its tasks on the other objects.             *)
LEMMA WithoutType ==
  ASSUME NEW queue \in Seq(Task), NEW d
  PROVE  Without(d, queue) \in Seq(Task)
<1> DEFINE P == DOMAIN queue \ TasksOn(d, queue)
<1>1. P \in SUBSET Int /\ IsFiniteSet(P) /\ \A i \in P : queue[i] \in Task
  BY Positions
<1> HIDE DEF P
<1>2. Picked(queue, P) \in Seq(Task)
  BY <1>1, PickedType
<1> QED BY <1>2 DEF Without, P

(* The events on the other objects stay as they are.                       *)
LEMMA EventsWithout ==
  ASSUME NEW queue \in Seq(Task), NEW c, NEW d, c # d
  PROVE  EventsOf(c, Without(d, queue)) = EventsOf(c, queue)
<1> DEFINE rest == Without(d, queue)
           Q == DOMAIN queue \ TasksOn(d, queue)
           P == TasksOn(c, queue)
           R == TasksOn(c, rest)
           q == [i \in DOMAIN queue |-> queue[i].event]
           s == [k \in DOMAIN rest |-> rest[k].event]
           g == [i \in P |-> Rank(Q, i)]
<1>1. /\ Q \in SUBSET Int /\ IsFiniteSet(Q) /\ P \in SUBSET Int /\ IsFiniteSet(P)
      /\ P \subseteq Q
  <2>1. Q \in SUBSET Int /\ IsFiniteSet(Q)
    BY Positions
  <2>2. P \in SUBSET Int /\ IsFiniteSet(P)
    BY Positions
  <2>3. P \subseteq Q
    BY DEF TasksOn
  <2> QED BY <2>1, <2>2, <2>3
<1>2. R \in SUBSET Int /\ IsFiniteSet(R)
  BY WithoutType, Positions
<1>3. /\ DOMAIN rest = 1..Cardinality(Q)
      /\ \A i \in Q : rest[Rank(Q, i)] = queue[i]
  <2> HIDE DEF Q
  <2>1. rest = Picked(queue, Q)
    BY DEF Without, Q
  <2> QED BY <1>1, <2>1, PickedAt
<1> HIDE DEF rest
<1>4. \A i \in Q : Rank(Q, i) \in DOMAIN rest
  <2> HIDE DEF Q
  <2> QED BY <1>1, <1>3, RankBounds
<1>5. g \in [P -> R] /\ \A i \in P : s[g[i]] = q[i]
  <2>1. ASSUME NEW i \in P
        PROVE  /\ Rank(Q, i) \in R /\ s[Rank(Q, i)] = q[i]
    <3>1. i \in DOMAIN queue /\ queue[i].on = c /\ i \in Q
      BY <1>1 DEF TasksOn
    <3>2. rest[Rank(Q, i)] = queue[i] /\ Rank(Q, i) \in DOMAIN rest
      BY <1>3, <1>4, <3>1
    <3> QED BY <3>1, <3>2 DEF TasksOn
  <2> QED BY <2>1
<1>6. \A r \in R : \E i \in P : g[i] = r
  <2>1. ASSUME NEW r \in R
        PROVE  \E i \in P : g[i] = r
    <3>1. r \in 1..Cardinality(Q) /\ rest[r].on = c
      BY <1>3 DEF TasksOn
    <3>2. PICK i \in Q : Rank(Q, i) = r
      <4> HIDE DEF Q
      <4> QED BY <1>1, <3>1, RankOnto
    <3>3. rest[r] = queue[i] /\ i \in DOMAIN queue
      BY <1>3, <3>2
    <3>4. i \in P
      BY <3>1, <3>3 DEF TasksOn
    <3> QED BY <3>2, <3>4
  <2> QED BY <2>1
<1>7. \A i, j \in P : i < j => g[i] < g[j]
  <2>1. ASSUME NEW i \in P, NEW j \in P, i < j
        PROVE  Rank(Q, i) < Rank(Q, j)
    <3> HIDE DEF P, Q
    <3> QED BY <1>1, <2>1, RankOrder
  <2> QED BY <2>1
<1>8. Picked(s, R) = Picked(q, P)
  <2>1. P \in SUBSET Int /\ IsFiniteSet(P) /\ R \in SUBSET Int /\ IsFiniteSet(R)
    BY <1>1, <1>2
  <2> HIDE DEF g, P, R, q, s
  <2>2. Moves(g, q, P, s, R)
    BY <1>5, <1>6, <1>7 DEF Moves
  <2> QED BY <2>1, <2>2, PickedMoved
<1>9. EventsOf(c, rest) = Picked(s, R) /\ EventsOf(c, queue) = Picked(q, P)
  BY DEF EventsOf
<1> QED BY <1>8, <1>9 DEF rest

(* A queue without tasks on an object is left as it is.                    *)
LEMMA WithoutNone ==
  ASSUME NEW queue \in Seq(Task), NEW d, TasksOn(d, queue) = {}
  PROVE  Without(d, queue) = queue
<1> DEFINE n == Len(queue)
           P == 1..n
<1>1. n \in Nat /\ DOMAIN queue = P /\ queue \in [1..n -> Task]
  BY LenProperties
<1>2. P \in SUBSET Int /\ IsFiniteSet(P) /\ n = Cardinality(P)
  BY <1>1, FS_Interval
<1>3. ASSUME NEW i \in P
      PROVE  Rank(P, i) = i
  <2>1. i \in Nat /\ 1 <= i /\ i <= n
    BY <1>1
  <2>2. {j \in P : j <= i} = 1..i
    BY <1>1, <2>1
  <2>3. Cardinality(1..i) = i
    BY <2>1, FS_Interval
  <2> QED BY <2>2, <2>3 DEF Rank
<1>4. Without(d, queue) = Picked(queue, P)
  BY <1>1 DEF Without
<1> HIDE DEF P, n
<1>5. Picked(queue, P) = queue
  BY <1>1, <1>2, <1>3, PickedIs
<1> QED BY <1>4, <1>5

(* Appending goes through concatenation.                                   *)
LEMMA ConcatAppend ==
  ASSUME NEW E, NEW s \in Seq(E), NEW t \in Seq(E), NEW e \in E
  PROVE  Append(s \o t, e) = s \o Append(t, e)
<1>1. s \o t \in Seq(E) /\ <<e>> \in Seq(E)
  BY ConcatProperties
<1>2. Append(s \o t, e) = (s \o t) \o <<e>> /\ Append(t, e) = t \o <<e>>
  BY <1>1, AppendIsConcat
<1> QED BY <1>1, <1>2, ConcatAssociative

(* The first of what follows may as well be the last of what was.          *)
LEMMA ConcatMoved ==
  ASSUME NEW E, NEW s \in Seq(E), NEW t \in Seq(E), NEW e \in E
  PROVE  s \o (<<e>> \o t) = Append(s, e) \o t
<1>1. <<e>> \in Seq(E) /\ Append(s, e) = s \o <<e>>
  BY AppendIsConcat
<1> QED BY <1>1, ConcatAssociative

(* If no events are queued on an object, no tasks are.                     *)
LEMMA NoEvents ==
  ASSUME NEW queue \in Seq(Task), NEW d, EventsOf(d, queue) = <<>>
  PROVE  TasksOn(d, queue) = {}
<1> DEFINE q == [i \in DOMAIN queue |-> queue[i].event]
           P == TasksOn(d, queue)
<1>1. P \in SUBSET Int /\ IsFiniteSet(P)
  BY Positions
<1>2. DOMAIN Picked(q, P) = 1..Cardinality(P)
  <2> HIDE DEF q, P
  <2> QED BY <1>1, PickedAt
<1>3. EventsOf(d, queue) = Picked(q, P)
  BY DEF EventsOf
<1> HIDE DEF q, P
<1>4. 1..Cardinality(P) = {} /\ Cardinality(P) \in Nat
  BY <1>1, <1>2, <1>3, FS_CardinalityType
<1>5. Cardinality(P) = 0
  BY <1>4
<1>6. P = {}
  BY <1>1, <1>5, FS_EmptySet
<1> QED BY <1>6 DEF P

-----------------------------------------------------------------------------
(* The inductive invariant of any application: an object that is not made  *)
(* yet is known to nobody, one that is freed is held by nobody, nothing is *)
(* heard before the delegate is set, and from then on nothing is lost.     *)
Typed == TypeOK /\ due \in [Object -> Seq(Event)] /\ heard \in [Object -> Seq(Event)]

Accounted(d) == due[d] = heard[d] \o EventsOf(d, posted)

Unmade ==
  \A d \in Object : memory[d] = "none" =>
    /\ d \notin held \cup registered \cup shut \cup seen \cup listening \cup {running, telling}
    /\ channel[d] = "none"

FreedUnheld == \A d \in Object : memory[d] = "freed" => d \notin held \cup {running, telling}

NotYetCalled == \A d \in Object \ listening : heard[d] = <<>>

Inv == Typed /\ Unmade /\ FreedUnheld /\ NotYetCalled /\ NothingLost

(* What it takes besides, of an application that lets an object go only    *)
(* when that is closed and has told it so: closed is the last event of a   *)
(* channel, so that nothing is queued on an object let go, and the loop of *)
(* Close has no reason to visit it any more.                               *)
ClosedIsLast ==
  \A d \in Object : \A i \in DOMAIN EventsOf(d, posted) :
    EventsOf(d, posted)[i] = "closed" => channel[d] = "closed" /\ i = Len(EventsOf(d, posted))

HeardIsLast ==
  \A d \in Object : \A i \in DOMAIN heard[d] :
    heard[d][i] = "closed" => channel[d] = "closed" /\ EventsOf(d, posted) = <<>>

LetGoIsClosed ==
  \A d \in Object : memory[d] # "none" /\ d \notin held =>
    d \in shut /\ channel[d] = "closed" /\ EventsOf(d, posted) = <<>>

ShutIsPassed == \A d \in shut : d \notin registered \ seen

SafeInv == ~ub /\ ClosedIsLast /\ HeardIsLast /\ LetGoIsClosed /\ ShutIsPassed
-----------------------------------------------------------------------------
(* What a step of the network does: the channel goes to a state, and the   *)
(* event is queued for its object if there is a listener for it.           *)
LEMMA ReportIs ==
  ASSUME Typed, NEW d \in Object, NEW state, NEW event \in Event, Report(d, state, event)
  PROVE  /\ channel' = [channel EXCEPT ![d] = state]
         /\ posted' \in Seq(Task) /\ due' \in [Object -> Seq(Event)]
         /\ \A c \in Object : c # d => EventsOf(c, posted') = EventsOf(c, posted) /\ due'[c] = due[c]
         /\ \/ EventsOf(d, posted') = EventsOf(d, posted) /\ due'[d] = due[d]
            \/ /\ EventsOf(d, posted') = Append(EventsOf(d, posted), event)
               /\ due'[d] = IF d \in listening THEN Append(due[d], event) ELSE due[d]
<1>1. posted \in Seq(Task) /\ due \in [Object -> Seq(Event)]
  BY DEF Typed, TypeOK, Task
<1>2. channel' = [channel EXCEPT ![d] = state]
  BY DEF Report
<1>3. CASE event \notin Reported(d)
  BY <1>1, <1>2, <1>3 DEF Report
<1>4. CASE event \in Reported(d)
  <2> DEFINE task == [on |-> d, event |-> event]
  <2>1. task \in Task
    BY <1>4 DEF Reported, Task, Object
  <2>2. task.on = d /\ task.event = event
    OBVIOUS
  <2>3. posted' = Append(posted, task)
    BY <1>4 DEF Report
  <2>4. due' = IF d \in listening THEN [due EXCEPT ![d] = Append(@, event)] ELSE due
    BY <1>4 DEF Report
  <2> HIDE DEF task
  <2>5. posted' \in Seq(Task)
    BY <1>1, <2>1, <2>3, AppendProperties
  <2>6. Append(due[d], event) \in Seq(Event)
    BY <1>1, AppendProperties
  <2>7. due' \in [Object -> Seq(Event)]
    BY <1>1, <2>4, <2>6
  <2>8. ASSUME NEW c \in Object, c # d
        PROVE  EventsOf(c, posted') = EventsOf(c, posted) /\ due'[c] = due[c]
    <3>1. EventsOf(c, Append(posted, task)) = EventsOf(c, posted)
      BY <1>1, <2>1, <2>2, <2>8, EventsAppend
    <3> QED BY <1>1, <2>3, <2>4, <2>8, <3>1
  <2>9. EventsOf(d, Append(posted, task)) = Append(EventsOf(d, posted), event)
    BY <1>1, <2>1, <2>2, EventsAppend
  <2>10. due'[d] = IF d \in listening THEN Append(due[d], event) ELSE due[d]
    BY <1>1, <2>4
  <2> QED BY <1>2, <2>3, <2>5, <2>7, <2>8, <2>9, <2>10
<1> QED BY <1>3, <1>4

(* An event that is queued is accounted for.                               *)
LEMMA ReportAccounts ==
  ASSUME Typed, NEW d \in Object, NEW state, NEW event \in Event, Report(d, state, event),
         heard' = heard, NEW c \in listening, c \in Object, Accounted(c)
  PROVE  Accounted(c)'
<1>1. CASE c # d
  BY <1>1, ReportIs DEF Accounted
<1>2. CASE c = d
  <2>1. due[d] = heard[d] \o EventsOf(d, posted)
    BY <1>2 DEF Accounted
  <2>2. CASE EventsOf(d, posted') = EventsOf(d, posted) /\ due'[d] = due[d]
    BY <1>2, <2>1, <2>2 DEF Accounted
  <2>3. CASE /\ EventsOf(d, posted') = Append(EventsOf(d, posted), event)
             /\ due'[d] = Append(due[d], event)
    <3>1. heard[d] \in Seq(Event) /\ EventsOf(d, posted) \in Seq(Event)
      BY EventsType DEF Typed, TypeOK, Task
    <3>2. \A e \in Event : Append(heard[d] \o EventsOf(d, posted), e)
                             = heard[d] \o Append(EventsOf(d, posted), e)
      <4> DEFINE before == heard[d]
                 queued == EventsOf(d, posted)
      <4> HIDE DEF before, queued
      <4>1. before \in Seq(Event) /\ queued \in Seq(Event)
        BY <3>1 DEF before, queued
      <4>2. \A e \in Event : Append(before \o queued, e) = before \o Append(queued, e)
        BY <4>1, ConcatAppend
      <4> QED BY <4>2 DEF before, queued
    <3> QED BY <1>2, <2>1, <2>3, <3>2 DEF Accounted
  <2>4. \/ EventsOf(d, posted') = EventsOf(d, posted) /\ due'[d] = due[d]
        \/ /\ EventsOf(d, posted') = Append(EventsOf(d, posted), event)
           /\ due'[d] = Append(due[d], event)
    BY <1>2, ReportIs
  <2> QED BY <2>2, <2>3, <2>4
<1> QED BY <1>1, <1>2

(* Closing a channel queues at most an event that is not the last.         *)
LEMMA CloseChannelIs ==
  ASSUME Typed, NEW d \in Object, CloseChannel(d), heard' = heard
  PROVE  /\ posted' \in Seq(Task) /\ due' \in [Object -> Seq(Event)]
         /\ \/ UNCHANGED networkVars
            \/ channel[d] \in {"connecting", "open"} /\ Report(d, "closing", "closing")
         /\ \A c \in listening : c \in Object /\ Accounted(c) => Accounted(c)'
<1>1. CASE UNCHANGED networkVars
  BY <1>1 DEF networkVars, Accounted, Typed, TypeOK, Task
<1>2. CASE channel[d] \in {"connecting", "open"} /\ Report(d, "closing", "closing")
  <2>1. "closing" \in Event
    BY DEF Event
  <2>2. posted' \in Seq(Task) /\ due' \in [Object -> Seq(Event)]
    BY <1>2, <2>1, ReportIs
  <2> QED BY <1>2, <2>1, <2>2, ReportAccounts
<1> QED BY <1>1, <1>2 DEF CloseChannel

(* Deallocating an object frees it, and leaves the events of others.       *)
LEMMA DeallocIs ==
  ASSUME Typed, NEW t, NEW d \in Object, Dealloc(t, d)
  PROVE  /\ memory' = [memory EXCEPT ![d] = "freed"] /\ channel' = channel /\ due' = due
         /\ posted' \in Seq(Task)
         /\ \A c \in Object : c # d => EventsOf(c, posted') = EventsOf(c, posted)
         /\ EventsOf(d, posted) = <<>> => posted' = posted
<1>1. posted \in Seq(Task)
  BY DEF Typed, TypeOK, Task
<1>2. memory' = [memory EXCEPT ![d] = "freed"] /\ channel' = channel /\ due' = due
  BY DEF Dealloc
<1>3. posted' = Without(d, posted) \/ posted' = posted
  BY DEF Dealloc, Without
<1>4. CASE posted' = posted
  BY <1>1, <1>2, <1>4
<1>5. CASE posted' = Without(d, posted)
  <2>1. posted' \in Seq(Task)
    BY <1>1, <1>5, WithoutType
  <2>2. \A c \in Object : c # d => EventsOf(c, posted') = EventsOf(c, posted)
    BY <1>1, <1>5, EventsWithout
  <2>3. ASSUME EventsOf(d, posted) = <<>>
        PROVE  posted' = posted
    BY <1>1, <1>5, <2>3, NoEvents, WithoutNone
  <2> QED BY <1>2, <2>1, <2>2, <2>3
<1> QED BY <1>3, <1>4, <1>5
-----------------------------------------------------------------------------
(* Initially nothing is made, queued or told.                              *)
LEMMA InvInit ==
  ASSUME Init
  PROVE  Inv
<1> USE DEF Init
<1>1. TypeOK
  <2>1. posted \in Seq(Task)
    BY EmptySeq
  <2>2. given \in [Object -> 0..MaxMessages] /\ sent \in [Object -> 0..MaxMessages]
    BY ChannelsAssumption
  <2> QED BY <2>1, <2>2 DEF TypeOK, Task
<1>2. Typed
  <2>1. <<>> \in Seq(Event)
    BY EmptySeq
  <2> QED BY <1>1, <2>1 DEF Typed
<1>3. Unmade
  <2>1. \A d \in Object : d # None
    BY ChannelsAssumption
  <2> QED BY <2>1 DEF Unmade
<1>4. FreedUnheld /\ NotYetCalled /\ NothingLost
  BY DEF FreedUnheld, NotYetCalled, NothingLost
<1> QED BY <1>2, <1>3, <1>4 DEF Inv

(* An object being made is new to the application, the transport and the   *)
(* network.                                                                *)
LEMMA CreateKeeps ==
  ASSUME Inv, NEW d \in Object, NEW state \in {"connecting", "open"}, Create(d, state)
  PROVE  Inv'
<1> USE DEF Inv, Create, closeVars, sendVars
<1>1. Typed'
  BY DEF Typed, TypeOK
<1>2. Unmade' /\ FreedUnheld'
  BY DEF Unmade, FreedUnheld, Typed, TypeOK
<1>3. NotYetCalled'
  BY DEF NotYetCalled
<1>4. NothingLost'
  BY DEF NothingLost, Unmade
<1> QED BY <1>1, <1>2, <1>3, <1>4

(* What the delegate finds in the queue is all that is due to it yet.      *)
LEMMA ListenKeeps ==
  ASSUME Inv, NEW d \in Object, Listen(d)
  PROVE  Inv'
<1> USE DEF Inv, Listen, closeVars, sendVars, nativeVars
<1>1. EventsOf(d, posted) \in Seq(Event)
  BY EventsType DEF Typed, TypeOK, Task
<1>2. Typed'
  BY <1>1 DEF Typed, TypeOK
<1>3. Unmade' /\ FreedUnheld'
  BY DEF Unmade, FreedUnheld
<1>4. NotYetCalled'
  BY DEF NotYetCalled
<1>5. NothingLost'
  <2>1. heard[d] \o EventsOf(d, posted) = EventsOf(d, posted)
    <3>1. heard[d] = <<>>
      BY DEF NotYetCalled
    <3> QED BY <1>1, <3>1, ConcatEmptySeq
  <2>2. due'[d] = EventsOf(d, posted) /\ \A c \in Object : c # d => due'[c] = due[c]
    BY DEF Typed
  <2> QED BY <2>1, <2>2 DEF NothingLost, Typed, TypeOK
<1> QED BY <1>2, <1>3, <1>4, <1>5

(* Every event of the network is accounted for.                            *)
LEMMA NetworkKeeps ==
  ASSUME Inv, NEW d \in Object, Network(d)
  PROVE  Inv'
<1> USE DEF Inv, closeVars, sendVars, nativeVars
<1>1. /\ UNCHANGED <<memory, held, shut, registered, transport, closer, telling, seen, given,
                     sent, listening, running, heard, ub>>
      /\ channel[d] # "none"
  BY DEF Network
<1>2. PICK state \in {"open", "closing", "closed"}, event \in Event :
        Report(d, state, event)
  BY DEF Network, Event
<1>3. /\ channel' = [channel EXCEPT ![d] = state]
      /\ posted' \in Seq(Task) /\ due' \in [Object -> Seq(Event)]
  BY <1>2, ReportIs
<1>4. Typed'
  BY <1>1, <1>3 DEF Typed, TypeOK, Task
<1>5. Unmade' /\ FreedUnheld' /\ NotYetCalled'
  BY <1>1, <1>3 DEF Unmade, FreedUnheld, NotYetCalled, Typed, TypeOK
<1>6. NothingLost'
  <2>1. \A c \in held \cap listening : c \in Object /\ Accounted(c)
    BY DEF NothingLost, Accounted, Typed, TypeOK
  <2>2. \A c \in held \cap listening : Accounted(c)'
    BY <1>1, <1>2, <2>1, ReportAccounts
  <2> QED BY <1>1, <2>2 DEF NothingLost, Accounted
<1> QED BY <1>4, <1>5, <1>6

(* The next event leaves the queue as it is passed on.                     *)
LEMMA RunEventKeeps ==
  ASSUME Inv, RunEvent
  PROVE  Inv'
<1> USE DEF Inv, closeVars, sendVars, nativeVars
<1> DEFINE d == Head(posted).on
           e == Head(posted).event
<1>1. /\ UNCHANGED <<memory, held, shut, registered, transport, closer, telling, seen, given,
                     sent, listening, channel, due>>
      /\ posted # <<>> /\ posted' = Tail(posted)
  BY DEF RunEvent
<1>2. \/ /\ memory[d] # "freed" /\ d \in listening /\ d \in held \cup {running, telling}
         /\ running' = d /\ heard' = [heard EXCEPT ![d] = Append(@, e)]
      \/ (memory[d] = "freed" \/ d \notin listening \/ d \notin held) /\ UNCHANGED <<running, heard>>
  BY DEF RunEvent, Retained
<1>3. ub' \in BOOLEAN
  BY DEF RunEvent, Typed, TypeOK
<1>4. posted \in Seq(Task) /\ Tail(posted) \in Seq(Task) /\ Head(posted) \in Task
  BY <1>1, HeadTailProperties DEF Typed, TypeOK, Task
<1>5. d \in Object /\ e \in Event
  BY <1>4, TaskParts
<1>6. /\ EventsOf(d, posted) = <<e>> \o EventsOf(d, posted')
      /\ \A c \in Object : c # d => EventsOf(c, posted) = EventsOf(c, posted')
  BY <1>1, <1>4, EventsTail
<1> HIDE DEF d, e
<1>7. Append(heard[d], e) \in Seq(Event)
  BY <1>5, AppendProperties DEF Typed
<1>8. Typed'
  <2>1. heard' \in [Object -> Seq(Event)] /\ running' \in Object \cup {None}
    BY <1>2, <1>5, <1>7 DEF Typed, TypeOK
  <2> QED BY <1>1, <1>3, <1>4, <2>1 DEF Typed, TypeOK, Task
<1>9. Unmade' /\ FreedUnheld'
  BY <1>1, <1>2 DEF Unmade, FreedUnheld
<1>10. NotYetCalled'
  BY <1>1, <1>2, <1>5 DEF NotYetCalled, Typed
<1>11. NothingLost'
  <2> SUFFICES ASSUME NEW c \in held \cap listening
               PROVE  due[c] = heard'[c] \o EventsOf(c, posted')
    BY <1>1 DEF NothingLost
  <2>1. c \in Object /\ due[c] = heard[c] \o EventsOf(c, posted)
    BY DEF NothingLost, Typed, TypeOK
  <2>2. CASE c # d
    BY <1>2, <1>5, <1>6, <2>1, <2>2 DEF Typed
  <2>3. CASE c = d
    <3>1. memory[d] # "freed"
      BY <2>3, <1>5 DEF FreedUnheld
    <3>2. heard'[d] = Append(heard[d], e)
      BY <1>2, <1>5, <2>3, <3>1 DEF Typed
    <3>3. heard[d] \in Seq(Event) /\ EventsOf(d, posted') \in Seq(Event)
      BY <1>1, <1>4, <1>5, EventsType DEF Typed
    <3>4. heard[d] \o (<<e>> \o EventsOf(d, posted')) = Append(heard[d], e) \o EventsOf(d, posted')
      BY <1>5, <3>3, ConcatMoved
    <3> QED BY <1>6, <2>1, <2>3, <3>2, <3>4
  <2> QED BY <2>2, <2>3
<1> QED BY <1>8, <1>9, <1>10, <1>11

(* What is deallocated is held by nobody.                                  *)
LEMMA DeallocKeeps ==
  ASSUME Inv, NEW t, NEW d \in Object, Dealloc(t, d), held' = held \ {d},
         running' \in {running, None}, telling' \in {telling, None},
         d # running', d # telling',
         UNCHANGED <<shut, registered, transport, closer, seen, given, sent, listening, heard>>,
         ub' \in BOOLEAN
  PROVE  Inv'
<1> USE DEF Inv
<1>1. /\ memory' = [memory EXCEPT ![d] = "freed"] /\ channel' = channel /\ due' = due
      /\ posted' \in Seq(Task)
      /\ \A c \in Object : c # d => EventsOf(c, posted') = EventsOf(c, posted)
  BY DeallocIs
<1>2. None \notin Object
  BY ChannelsAssumption
<1>3. Typed'
  BY <1>1 DEF Typed, TypeOK, Task
<1>4. Unmade' /\ FreedUnheld'
  BY <1>1, <1>2 DEF Unmade, FreedUnheld, Typed, TypeOK
<1>5. NotYetCalled'
  BY DEF NotYetCalled
<1>6. NothingLost'
  BY <1>1 DEF NothingLost, Typed, TypeOK
<1> QED BY <1>3, <1>4, <1>5, <1>6

(* The application's last reference goes: the object is deallocated, or a  *)
(* callback still retains it.                                              *)
LEMMA DropKeeps ==
  ASSUME Inv, NEW t, NEW d \in Object, Drop(t, d)
  PROVE  Inv'
<1> USE DEF closeVars, sendVars
<1>1. /\ UNCHANGED <<shut, registered, transport, closer, telling, seen, given, sent, listening,
                     running, heard, ub>>
      /\ d \in held /\ held' = held \ {d} /\ ub' \in BOOLEAN
  BY DEF Drop, Inv, Typed, TypeOK
<1>2. CASE d \in {running, telling}
  <2>1. UNCHANGED <<memory, channel, posted, due>>
    BY <1>2 DEF Drop, networkVars
  <2>2. Typed'
    BY <1>1, <2>1 DEF Inv, Typed, TypeOK
  <2>3. Unmade' /\ FreedUnheld' /\ NotYetCalled' /\ NothingLost'
    BY <1>1, <2>1 DEF Inv, Unmade, FreedUnheld, NotYetCalled, NothingLost
  <2> QED BY <2>2, <2>3 DEF Inv
<1>3. CASE d \notin {running, telling}
  <2>1. Dealloc(t, d)
    BY <1>3 DEF Drop
  <2> QED BY <1>1, <1>3, <2>1, DeallocKeeps
<1> QED BY <1>2, <1>3

(* A callback retained its object until it returned.                       *)
LEMMA EventReturnsKeeps ==
  ASSUME Inv, EventReturns
  PROVE  Inv'
<1> USE DEF closeVars, sendVars
<1>1. /\ UNCHANGED <<held, shut, registered, transport, closer, telling, seen, given, sent,
                     listening, heard>>
      /\ running # None /\ running' = None /\ running \in Object
  BY DEF EventReturns, Inv, Typed, TypeOK
<1>2. memory[running] # "freed"
  BY <1>1 DEF Inv, FreedUnheld
<1>3. ub' = ub /\ ub' \in BOOLEAN
  BY <1>2 DEF EventReturns, Inv, Typed, TypeOK
<1>4. CASE running \notin held /\ telling # running
  <2>1. Dealloc("signal", running)
    BY <1>2, <1>4 DEF EventReturns
  <2>2. held' = held \ {running} /\ running # running' /\ running # telling'
    BY <1>1, <1>4
  <2> QED BY <1>1, <1>3, <2>1, <2>2, DeallocKeeps
<1>5. CASE ~(running \notin held /\ telling # running)
  <2>1. UNCHANGED <<memory, channel, posted, due>>
    BY <1>2, <1>5 DEF EventReturns, networkVars
  <2>2. Typed'
    BY <1>1, <1>3, <2>1 DEF Inv, Typed, TypeOK
  <2>3. Unmade' /\ FreedUnheld' /\ NotYetCalled' /\ NothingLost'
    <3>1. None \notin Object
      BY ChannelsAssumption
    <3> QED BY <1>1, <2>1, <3>1 DEF Inv, Unmade, FreedUnheld, NotYetCalled, NothingLost
  <2> QED BY <2>2, <2>3 DEF Inv
<1> QED BY <1>4, <1>5

(* A callback of Close did so too.                                         *)
LEMMA OnTransportCloseReturnsKeeps ==
  ASSUME Inv, OnTransportCloseReturns
  PROVE  Inv'
<1> USE DEF sendVars
<1>1. /\ UNCHANGED <<held, shut, registered, transport, closer, seen, given, sent, listening,
                     running, heard, ub>>
      /\ telling # None /\ telling' = None /\ telling \in Object /\ ub' \in BOOLEAN
  BY DEF OnTransportCloseReturns, Inv, Typed, TypeOK
<1>2. CASE telling \notin held /\ running # telling
  <2>1. Dealloc(closer, telling)
    BY <1>2 DEF OnTransportCloseReturns
  <2>2. held' = held \ {telling} /\ telling # running' /\ telling # telling'
    BY <1>1, <1>2
  <2> QED BY <1>1, <2>1, <2>2, DeallocKeeps
<1>3. CASE ~(telling \notin held /\ running # telling)
  <2>1. UNCHANGED <<memory, channel, posted, due>>
    BY <1>3 DEF OnTransportCloseReturns, networkVars
  <2>2. Typed'
    BY <1>1, <2>1 DEF Inv, Typed, TypeOK
  <2>3. Unmade' /\ FreedUnheld' /\ NotYetCalled' /\ NothingLost'
    <3>1. None \notin Object
      BY ChannelsAssumption
    <3> QED BY <1>1, <2>1, <3>1 DEF Inv, Unmade, FreedUnheld, NotYetCalled, NothingLost
  <2> QED BY <2>2, <2>3 DEF Inv
<1> QED BY <1>2, <1>3

(* The event of a channel being closed is accounted for.                   *)
LEMMA CloseChannelKeeps ==
  ASSUME Inv, NEW d \in Object, memory[d] # "none", CloseChannel(d), shut' = shut \cup {d},
         registered' \in SUBSET registered, seen' \in SUBSET (seen \cup {d}),
         telling' = telling \/ telling' = None \/ (telling' = d /\ memory[d] # "freed"),
         UNCHANGED <<memory, held, transport, closer, given, sent, listening, running, heard, ub>>
  PROVE  Inv'
<1> USE DEF Inv
<1>1. /\ posted' \in Seq(Task) /\ due' \in [Object -> Seq(Event)]
      /\ \A c \in listening : c \in Object /\ Accounted(c) => Accounted(c)'
  BY CloseChannelIs
<1>2. channel' = channel \/ channel' = [channel EXCEPT ![d] = "closing"]
  BY DEF CloseChannel, Report, networkVars
<1>3. Typed'
  BY <1>1, <1>2 DEF Typed, TypeOK, Task
<1>4. Unmade' /\ FreedUnheld'
  <2>1. None \notin Object
    BY ChannelsAssumption
  <2> QED BY <1>2, <2>1 DEF Unmade, FreedUnheld, Typed, TypeOK
<1>5. NotYetCalled'
  BY DEF NotYetCalled
<1>6. NothingLost'
  <2>1. \A c \in held \cap listening : c \in Object /\ Accounted(c)
    BY DEF NothingLost, Accounted, Typed, TypeOK
  <2>2. \A c \in held \cap listening : Accounted(c)'
    BY <1>1, <2>1
  <2> QED BY <2>2 DEF NothingLost, Accounted
<1> QED BY <1>3, <1>4, <1>5, <1>6

(* A step of the application or of Close that leaves the objects alone.    *)
LEMMA QuietKeeps ==
  ASSUME Inv, UNCHANGED <<networkVars, nativeVars, listening, running, heard>>, Typed',
         telling' \in {telling, None},
         seen' = seen \/ \E d \in registered : seen' = seen \cup {d}
  PROVE  Inv'
<1> USE DEF networkVars, nativeVars
<1>1. None \notin Object
  BY ChannelsAssumption
<1>2. Unmade' /\ FreedUnheld' /\ NotYetCalled' /\ NothingLost'
  BY <1>1 DEF Inv, Unmade, FreedUnheld, NotYetCalled, NothingLost
<1> QED BY <1>2 DEF Inv

(* The loop of Close closes the next object, or finds it closed or freed.  *)
LEMMA TransportClosedKeeps ==
  ASSUME Inv, NEW d \in Object, TransportClosed(d)
  PROVE  Inv'
<1> USE DEF sendVars
<1>1. /\ UNCHANGED <<transport, closer, memory, held, registered, given, sent, listening,
                     running, heard>>
      /\ d \in registered /\ seen' = seen \cup {d} /\ ub' \in BOOLEAN
  BY DEF TransportClosed, Inv, Typed, TypeOK
<1>2. CASE memory[d] = "freed" \/ d \in shut
  <2>1. UNCHANGED <<shut, telling, networkVars>>
    BY <1>2 DEF TransportClosed
  <2>2. Typed'
    BY <1>1, <2>1 DEF Inv, Typed, TypeOK, networkVars
  <2> QED BY <1>1, <2>1, <2>2, QuietKeeps DEF nativeVars
<1>3. CASE memory[d] # "freed" /\ d \notin shut
  <2>1. /\ shut' = shut \cup {d} /\ CloseChannel(d) /\ ub' = ub
        /\ telling' = d \/ telling' = None
    BY <1>3 DEF TransportClosed
  <2>2. memory[d] # "none"
    BY <1>1 DEF Inv, Unmade
  <2> QED BY <1>1, <1>3, <2>1, <2>2, CloseChannelKeeps
<1> QED BY <1>2, <1>3

(* Every step keeps the invariant.                                         *)
LEMMA InvStep ==
  ASSUME Inv, Next
  PROVE  Inv'
<1>1. ASSUME NEW d \in Object, NEW state \in {"connecting", "open"}, Create(d, state)
      PROVE  Inv'
  BY <1>1, CreateKeeps
<1>2. ASSUME NEW d \in Object, Listen(d) \/ Network(d)
      PROVE  Inv'
  BY <1>2, ListenKeeps, NetworkKeeps
<1>3. ASSUME NEW d \in Object, NEW t \in {"app", "signal"}, CloseData(t, d)
      PROVE  Inv'
  <2>1. /\ memory[d] # "none" /\ CloseChannel(d) /\ shut' = shut \cup {d}
        /\ registered' \in SUBSET registered /\ seen' = seen /\ telling' = telling
        /\ UNCHANGED <<memory, held, transport, closer, given, sent, listening, running, heard, ub>>
    BY <1>3 DEF CloseData, Inv, Unmade, closeVars, sendVars
  <2> QED BY <2>1, CloseChannelKeeps
<1>4. ASSUME NEW d \in Object, NEW t \in {"app", "signal"}, Send(t, d)
      PROVE  Inv'
  <2> USE DEF closeVars, sendVars, nativeVars, networkVars
  <2>1. /\ UNCHANGED <<sent, networkVars, nativeVars, closeVars, listening, running, heard, ub>>
        /\ given' = [given EXCEPT ![d] = @ + 1] /\ given[d] < MaxMessages
    BY <1>4 DEF Send
  <2>2. given' \in [Object -> 0..MaxMessages]
    <3>1. given[d] \in 0..MaxMessages /\ MaxMessages \in Nat
      BY ChannelsAssumption DEF Inv, Typed, TypeOK
    <3>2. given[d] + 1 \in 0..MaxMessages
      BY <2>1, <3>1
    <3> QED BY <2>1, <3>2 DEF Inv, Typed, TypeOK
  <2>3. Typed'
    BY <2>1, <2>2 DEF Inv, Typed, TypeOK
  <2> QED BY <2>1, <2>3, QuietKeeps
<1>5. ASSUME NEW d \in Object, NEW t \in {"app", "signal"}, Drop(t, d)
      PROVE  Inv'
  BY <1>5, DropKeeps
<1>6. ASSUME NEW t \in {"app", "signal"}, CloseTransport(t)
      PROVE  Inv'
  <2>1. Typed'
    BY <1>6 DEF CloseTransport, Inv, Typed, TypeOK, nativeVars, networkVars, sendVars
  <2> QED BY <1>6, <2>1, QuietKeeps DEF CloseTransport
<1>7. CASE RunEvent \/ EventReturns \/ OnTransportCloseReturns
  BY <1>7, RunEventKeeps, EventReturnsKeeps, OnTransportCloseReturnsKeeps
<1>8. CASE CloseEnds
  <2>1. Typed'
    BY <1>8 DEF CloseEnds, Inv, Typed, TypeOK, nativeVars, networkVars, sendVars
  <2> QED BY <1>8, <2>1, QuietKeeps DEF CloseEnds
<1>9. ASSUME NEW d \in Object, TransportClosed(d)
      PROVE  Inv'
  BY <1>9, TransportClosedKeeps
<1> QED BY <1>1, <1>2, <1>3, <1>4, <1>5, <1>6, <1>7, <1>8, <1>9 DEF Next, Close

(* A step that changes nothing keeps it.                                   *)
LEMMA InvStutter ==
  ASSUME Inv, UNCHANGED vars
  PROVE  Inv'
<1> USE DEF vars, networkVars, nativeVars, closeVars, sendVars
<1>1. Typed'
  BY DEF Inv, Typed, TypeOK
<1> QED BY <1>1, QuietKeeps

LEMMA InvAlways == Spec => []Inv
<1>1. Inv /\ [Next]_vars => Inv'
  BY InvStep, InvStutter
<1> QED BY <1>1, InvInit, PTL DEF Spec
-----------------------------------------------------------------------------
(* The application lets an object go only when it is closed and onClose    *)
(* has been called.                                                        *)
AwaitedClose == "AwaitClose" \in Duties

(* Initially no object is made.                                            *)
LEMMA SafeInit ==
  ASSUME Init
  PROVE  SafeInv
<1> USE DEF Init
<1>1. \A d : EventsOf(d, posted) = <<>>
  BY EventsOfNone
<1>2. DOMAIN <<>> = {}
  OBVIOUS
<1>3. ClosedIsLast /\ HeardIsLast /\ LetGoIsClosed /\ ShutIsPassed
  BY <1>1, <1>2 DEF ClosedIsLast, HeardIsLast, LetGoIsClosed, ShutIsPassed
<1> QED BY <1>3 DEF SafeInv

(* A channel that is not closed yet has queued and told no closure; when   *)
(* it goes to a state and queues the event of it, that is the last one.    *)
LEMMA ReportIsSafe ==
  ASSUME Inv, SafeInv, NEW d \in Object, NEW state, NEW event \in Event,
         Report(d, state, event), channel[d] # "closed", event = "closed" => state = "closed",
         heard' = heard, memory' = memory, held' = held, shut \subseteq shut'
  PROVE  ClosedIsLast' /\ HeardIsLast' /\ LetGoIsClosed'
<1> DEFINE e == EventsOf(d, posted)
           f == EventsOf(d, posted')
<1>1. /\ channel' = [channel EXCEPT ![d] = state]
      /\ \A c \in Object : c # d => EventsOf(c, posted') = EventsOf(c, posted)
      /\ f = e \/ f = Append(e, event)
  BY ReportIs DEF Inv
<1>2. channel'[d] = state /\ \A c \in Object : c # d => channel'[c] = channel[c]
  BY <1>1 DEF Inv, Typed, TypeOK
<1>3. e \in Seq(Event)
  BY EventsType DEF Inv, Typed, TypeOK, Task
<1>4. \A i \in DOMAIN e : e[i] # "closed"
  BY DEF SafeInv, ClosedIsLast
<1>5. \A i \in DOMAIN heard[d] : heard[d][i] # "closed"
  BY DEF SafeInv, HeardIsLast
<1>6. memory[d] = "none" \/ d \in held
  BY DEF SafeInv, LetGoIsClosed
<1>7. \A i \in DOMAIN f : f[i] = "closed" => channel'[d] = "closed" /\ i = Len(f)
  <2> HIDE DEF e, f
  <2>1. CASE f = e
    BY <1>4, <2>1
  <2>2. CASE f = Append(e, event)
    <3>1. /\ f \in Seq(Event) /\ Len(f) = Len(e) + 1 /\ f[Len(e) + 1] = event
          /\ \A i \in 1..Len(e) : f[i] = e[i]
      BY <1>3, <2>2, AppendProperties
    <3>2. DOMAIN f = 1..Len(f) /\ DOMAIN e = 1..Len(e) /\ Len(e) \in Nat
      BY <1>3, <3>1, LenProperties
    <3> QED BY <1>2, <1>4, <3>1, <3>2
  <2> QED BY <1>1, <2>1, <2>2
<1> HIDE DEF e, f
<1>8. ClosedIsLast'
  BY <1>1, <1>2, <1>7 DEF SafeInv, ClosedIsLast, f
<1>9. HeardIsLast' /\ LetGoIsClosed'
  BY <1>1, <1>2, <1>5, <1>6 DEF SafeInv, HeardIsLast, LetGoIsClosed
<1> QED BY <1>8, <1>9

(* Closing a channel likewise.                                             *)
LEMMA CloseChannelIsSafe ==
  ASSUME Inv, SafeInv, NEW d \in Object, CloseChannel(d),
         heard' = heard, memory' = memory, held' = held, shut \subseteq shut'
  PROVE  ClosedIsLast' /\ HeardIsLast' /\ LetGoIsClosed'
<1>1. CASE UNCHANGED networkVars
  BY <1>1 DEF networkVars, SafeInv, ClosedIsLast, HeardIsLast, LetGoIsClosed
<1>2. CASE channel[d] \in {"connecting", "open"} /\ Report(d, "closing", "closing")
  <2>1. "closing" \in Event
    BY DEF Event
  <2> QED BY <1>2, <2>1, ReportIsSafe
<1> QED BY <1>1, <1>2 DEF CloseChannel

(* Nothing is queued on an object deallocated after its closure.           *)
LEMMA DeallocIsSafe ==
  ASSUME Inv, SafeInv, NEW t, NEW d \in Object, Dealloc(t, d), held' = held \ {d},
         d \in shut, channel[d] = "closed", EventsOf(d, posted) = <<>>,
         heard' = heard, shut' = shut, registered' = registered, seen' = seen, ub' = ub
  PROVE  SafeInv'
<1>1. memory' = [memory EXCEPT ![d] = "freed"] /\ channel' = channel /\ posted' = posted
  BY DeallocIs DEF Inv
<1>2. \A c \in Object : c # d => memory'[c] = memory[c] /\ (c \in held' <=> c \in held)
  BY <1>1 DEF Inv, Typed, TypeOK
<1>3. ClosedIsLast' /\ HeardIsLast' /\ LetGoIsClosed' /\ ShutIsPassed'
  BY <1>1, <1>2 DEF SafeInv, ClosedIsLast, HeardIsLast, LetGoIsClosed, ShutIsPassed
<1> QED BY <1>3 DEF SafeInv

(* A step that leaves the network and the objects alone.                   *)
LEMMA QuietIsSafe ==
  ASSUME SafeInv, UNCHANGED <<networkVars, memory, shut, heard, ub>>, held' \subseteq held,
         \A d \in held \ held' : d \in shut /\ channel[d] = "closed" /\ EventsOf(d, posted) = <<>>,
         registered' = registered, seen \subseteq seen'
  PROVE  SafeInv'
  BY DEF networkVars, SafeInv, ClosedIsLast, HeardIsLast, LetGoIsClosed, ShutIsPassed

(* The closure passed on is the last event of its channel.                 *)
LEMMA RunEventIsSafe ==
  ASSUME Inv, SafeInv, RunEvent
  PROVE  SafeInv'
<1> USE DEF closeVars, sendVars, nativeVars
<1> DEFINE d == Head(posted).on
           a == Head(posted).event
           e == EventsOf(d, posted)
           f == EventsOf(d, posted')
<1>1. /\ UNCHANGED <<memory, held, shut, registered, seen, channel>>
      /\ posted # <<>> /\ posted' = Tail(posted)
      /\ heard' = heard \/ heard' = [heard EXCEPT ![d] = Append(@, a)]
      /\ memory[d] # "freed" => ub' = ub
  BY DEF RunEvent
<1>2. posted \in Seq(Task) /\ Tail(posted) \in Seq(Task) /\ Head(posted) \in Task
  BY <1>1, HeadTailProperties DEF Inv, Typed, TypeOK, Task
<1>3. d \in Object /\ a \in Event
  BY <1>2, TaskParts
<1>4. e = <<a>> \o f /\ \A c \in Object : c # d => EventsOf(c, posted) = EventsOf(c, posted')
  BY <1>1, <1>2, EventsTail
<1>5. f \in Seq(Event) /\ heard[d] \in Seq(Event)
  BY <1>1, <1>2, <1>3, EventsType DEF Inv, Typed
<1> HIDE DEF d, a, f
<1>6. /\ Len(e) = Len(f) + 1 /\ Len(f) \in Nat /\ DOMAIN f = 1..Len(f) /\ DOMAIN e = 1..Len(e)
      /\ e[1] = a /\ \A i \in 1..Len(f) : e[i + 1] = f[i]
  <2> HIDE DEF e
  <2>1. <<a>> \in Seq(Event) /\ Len(<<a>>) = 1 /\ <<a>>[1] = a
    BY <1>3
  <2>2. /\ e \in Seq(Event) /\ Len(e) = 1 + Len(f)
        /\ \A k \in 1..(1 + Len(f)) : e[k] = IF k <= 1 THEN <<a>>[k] ELSE f[k - 1]
    BY <1>4, <1>5, <2>1, ConcatProperties
  <2>3. Len(f) \in Nat /\ DOMAIN f = 1..Len(f) /\ DOMAIN e = 1..Len(e)
    BY <1>5, <2>2, LenProperties
  <2>4. ASSUME NEW i \in 1..Len(f)
        PROVE  e[i + 1] = f[i]
    <3>1. i + 1 \in 1..(1 + Len(f)) /\ ~(i + 1 <= 1) /\ (i + 1) - 1 = i
      BY <2>3
    <3> QED BY <2>2, <3>1
  <2>5. e[1] = a
    <3>1. 1 \in 1..(1 + Len(f)) /\ 1 <= 1
      BY <2>3
    <3> QED BY <2>1, <2>2, <3>1
  <2> QED BY <2>2, <2>3, <2>4, <2>5
<1>7. \A i \in DOMAIN e : e[i] = "closed" => channel[d] = "closed" /\ i = Len(e)
  BY <1>3 DEF SafeInv, ClosedIsLast
<1>8. e # <<>>
  <2> HIDE DEF e
  <2> QED BY <1>6
<1>9. \A i \in DOMAIN heard[d] : heard[d][i] # "closed"
  BY <1>3, <1>8 DEF SafeInv, HeardIsLast
<1>10. memory[d] # "freed"
  BY <1>3, <1>8 DEF SafeInv, LetGoIsClosed, Inv, FreedUnheld
<1> HIDE DEF e
<1>11. \A i \in DOMAIN f : f[i] = "closed" => channel[d] = "closed" /\ i = Len(f)
  <2>1. ASSUME NEW i \in 1..Len(f), f[i] = "closed"
        PROVE  channel[d] = "closed" /\ i = Len(f)
    <3>1. i + 1 \in DOMAIN e /\ e[i + 1] = "closed"
      BY <1>6, <2>1
    <3>2. channel[d] = "closed" /\ i + 1 = Len(f) + 1
      BY <1>6, <1>7, <3>1
    <3>3. Len(f) \in Nat
      BY <1>6
    <3> QED BY <3>2, <3>3
  <2> QED BY <1>6, <2>1
<1>12. ClosedIsLast'
  BY <1>1, <1>4, <1>11 DEF SafeInv, ClosedIsLast, f
<1>13. ASSUME NEW i \in DOMAIN heard'[d], heard'[d][i] = "closed"
       PROVE  channel[d] = "closed" /\ f = <<>>
  <2> DEFINE h == heard[d]
  <2>1. heard' = [heard EXCEPT ![d] = Append(@, a)]
    BY <1>1, <1>9, <1>13
  <2>2. heard'[d] = Append(h, a)
    BY <1>3, <2>1 DEF Inv, Typed
  <2>3. /\ Append(h, a) \in Seq(Event) /\ Len(Append(h, a)) = Len(h) + 1
        /\ Append(h, a)[Len(h) + 1] = a /\ \A k \in 1..Len(h) : Append(h, a)[k] = h[k]
    BY <1>3, <1>5, AppendProperties
  <2>4. DOMAIN Append(h, a) = 1..(Len(h) + 1) /\ DOMAIN h = 1..Len(h) /\ Len(h) \in Nat
    BY <1>5, <2>3, LenProperties
  <2>5. a = "closed"
    <3>1. i \in 1..(Len(h) + 1) /\ Append(h, a)[i] = "closed"
      BY <1>13, <2>2, <2>4
    <3>2. i \in 1..Len(h) \/ i = Len(h) + 1
      BY <2>4, <3>1
    <3> QED BY <1>9, <2>3, <2>4, <3>1, <3>2
  <2>6. channel[d] = "closed" /\ 1 = Len(e)
    BY <1>6, <1>7, <2>5
  <2>7. Len(f) = 0
    BY <1>6, <2>6
  <2> QED BY <1>5, <2>6, <2>7, EmptySeq
<1>14. HeardIsLast'
  <2>1. \A c \in Object : c # d => heard'[c] = heard[c]
    BY <1>1 DEF Inv, Typed
  <2> QED BY <1>1, <1>4, <1>13, <2>1 DEF SafeInv, HeardIsLast, f
<1>15. LetGoIsClosed'
  BY <1>1, <1>3, <1>4, <1>8 DEF SafeInv, LetGoIsClosed, e
<1>16. ShutIsPassed' /\ ~ub'
  BY <1>1, <1>10 DEF SafeInv, ShutIsPassed
<1> QED BY <1>12, <1>14, <1>15, <1>16 DEF SafeInv

(* An object let go was awaited.                                           *)
LEMMA AwaitedIsClosed ==
  ASSUME SafeInv, AwaitedClose, NEW d \in Object, AwaitsClose(d)
  PROVE  d \in shut /\ channel[d] = "closed" /\ EventsOf(d, posted) = <<>>
  BY DEF SafeInv, HeardIsLast, AwaitsClose, AwaitedClose

(* Every step keeps this invariant too.                                    *)
LEMMA SafeStep ==
  ASSUME Inv, SafeInv, AwaitedClose, Next
  PROVE  SafeInv'
<1>1. ASSUME NEW d \in Object, NEW state \in {"connecting", "open"}, Create(d, state)
      PROVE  SafeInv'
  <2>1. /\ UNCHANGED <<shut, posted, seen, heard, ub>> /\ memory[d] = "none"
        /\ memory' = [memory EXCEPT ![d] = "live"] /\ held' = held \cup {d}
        /\ registered' = registered \cup {d} /\ channel' = [channel EXCEPT ![d] = state]
    BY <1>1 DEF Create, closeVars
  <2>2. \A c \in Object : c # d => memory'[c] = memory[c] /\ channel'[c] = channel[c]
    BY <2>1 DEF Inv, Typed, TypeOK
  <2>3. channel[d] = "none" /\ d \notin shut
    BY <2>1 DEF Inv, Unmade
  <2>4. ClosedIsLast' /\ HeardIsLast' /\ LetGoIsClosed' /\ ShutIsPassed'
    BY <2>1, <2>2, <2>3 DEF SafeInv, ClosedIsLast, HeardIsLast, LetGoIsClosed, ShutIsPassed
  <2> QED BY <2>1, <2>4 DEF SafeInv
<1>2. ASSUME NEW d \in Object, Listen(d)
      PROVE  SafeInv'
  <2>1. UNCHANGED <<channel, posted, memory, held, shut, registered, seen, heard, ub>>
    BY <1>2 DEF Listen, nativeVars, closeVars
  <2> QED BY <2>1 DEF SafeInv, ClosedIsLast, HeardIsLast, LetGoIsClosed, ShutIsPassed
<1>3. ASSUME NEW d \in Object, Network(d)
      PROVE  SafeInv'
  <2>1. UNCHANGED <<memory, held, shut, registered, seen, heard, ub>>
    BY <1>3 DEF Network, nativeVars, closeVars
  <2>2. PICK state \in {"open", "closing", "closed"}, event \in Event :
          /\ Report(d, state, event) /\ channel[d] # "closed"
          /\ event = "closed" => state = "closed"
    BY <1>3 DEF Network, Event
  <2>3. ClosedIsLast' /\ HeardIsLast' /\ LetGoIsClosed'
    BY <2>1, <2>2, ReportIsSafe
  <2> QED BY <2>1, <2>3 DEF SafeInv, ShutIsPassed
<1>4. ASSUME NEW d \in Object, NEW t \in {"app", "signal"}, CloseData(t, d)
      PROVE  SafeInv'
  <2>1. /\ UNCHANGED <<memory, held, seen, heard, ub>> /\ CloseChannel(d)
        /\ shut' = shut \cup {d} /\ registered' = registered \ {d}
    BY <1>4 DEF CloseData, closeVars
  <2>2. ClosedIsLast' /\ HeardIsLast' /\ LetGoIsClosed'
    BY <2>1, CloseChannelIsSafe
  <2> QED BY <2>1, <2>2 DEF SafeInv, ShutIsPassed
<1>5. ASSUME NEW d \in Object, NEW t \in {"app", "signal"}, Send(t, d)
      PROVE  SafeInv'
  <2>1. UNCHANGED <<networkVars, memory, held, shut, registered, seen, heard, ub>>
    BY <1>5 DEF Send, nativeVars, closeVars
  <2> QED BY <2>1, QuietIsSafe
<1>6. ASSUME NEW d \in Object, NEW t \in {"app", "signal"}, Drop(t, d)
      PROVE  SafeInv'
  <2>1. UNCHANGED <<shut, registered, seen, heard, ub>> /\ held' = held \ {d}
    BY <1>6 DEF Drop, closeVars
  <2>2. d \in shut /\ channel[d] = "closed" /\ EventsOf(d, posted) = <<>>
    BY <1>6, AwaitedIsClosed DEF Drop
  <2>3. CASE d \in {running, telling}
    <3>1. UNCHANGED <<memory, networkVars>>
      BY <1>6, <2>3 DEF Drop
    <3> QED BY <2>1, <2>2, <3>1, QuietIsSafe
  <2>4. CASE d \notin {running, telling}
    <3>1. Dealloc(t, d)
      BY <1>6, <2>4 DEF Drop
    <3> QED BY <2>1, <2>2, <3>1, DeallocIsSafe
  <2> QED BY <2>3, <2>4
<1>7. ASSUME NEW t \in {"app", "signal"}, CloseTransport(t)
      PROVE  SafeInv'
  <2>1. UNCHANGED <<networkVars, memory, held, shut, registered, seen, heard, ub>>
    BY <1>7 DEF CloseTransport, nativeVars
  <2> QED BY <2>1, QuietIsSafe
<1>8. CASE RunEvent
  BY <1>8, RunEventIsSafe
<1>9. CASE EventReturns
  <2>1. UNCHANGED <<held, shut, registered, seen, heard>> /\ running \in Object
    BY <1>9 DEF EventReturns, closeVars, Inv, Typed, TypeOK
  <2>2. memory[running] # "freed" /\ memory[running] # "none"
    BY <2>1 DEF Inv, FreedUnheld, Unmade
  <2>3. CASE running \notin held /\ telling # running
    <3>1. Dealloc("signal", running) /\ ub' = ub /\ held' = held \ {running}
      BY <1>9, <2>1, <2>2, <2>3 DEF EventReturns
    <3>2. running \in shut /\ channel[running] = "closed" /\ EventsOf(running, posted) = <<>>
      BY <2>1, <2>2, <2>3 DEF SafeInv, LetGoIsClosed
    <3> QED BY <2>1, <3>1, <3>2, DeallocIsSafe
  <2>4. CASE ~(running \notin held /\ telling # running)
    <3>1. UNCHANGED <<memory, networkVars, ub>>
      BY <1>9, <2>2, <2>4 DEF EventReturns
    <3> QED BY <2>1, <3>1, QuietIsSafe
  <2> QED BY <2>3, <2>4
<1>10. CASE OnTransportCloseReturns
  <2>1. UNCHANGED <<held, shut, registered, seen, heard, ub>> /\ telling \in Object
    BY <1>10 DEF OnTransportCloseReturns, Inv, Typed, TypeOK
  <2>2. memory[telling] # "none"
    BY <2>1 DEF Inv, Unmade
  <2>3. CASE telling \notin held /\ running # telling
    <3>1. Dealloc(closer, telling) /\ held' = held \ {telling}
      BY <1>10, <2>1, <2>3 DEF OnTransportCloseReturns
    <3>2. telling \in shut /\ channel[telling] = "closed" /\ EventsOf(telling, posted) = <<>>
      BY <2>1, <2>2, <2>3 DEF SafeInv, LetGoIsClosed
    <3> QED BY <2>1, <3>1, <3>2, DeallocIsSafe
  <2>4. CASE ~(telling \notin held /\ running # telling)
    <3>1. UNCHANGED <<memory, networkVars>>
      BY <1>10, <2>4 DEF OnTransportCloseReturns
    <3> QED BY <2>1, <3>1, QuietIsSafe
  <2> QED BY <2>3, <2>4
<1>11. CASE CloseEnds
  <2>1. UNCHANGED <<networkVars, memory, held, shut, registered, seen, heard, ub>>
    BY <1>11 DEF CloseEnds, nativeVars
  <2> QED BY <2>1, QuietIsSafe
<1>12. ASSUME NEW d \in Object, TransportClosed(d)
       PROVE  SafeInv'
  <2>1. /\ UNCHANGED <<memory, held, registered, heard>>
        /\ d \in registered \ seen /\ seen' = seen \cup {d}
    BY <1>12 DEF TransportClosed
  <2>2. d \notin shut
    BY <2>1 DEF SafeInv, ShutIsPassed
  <2>3. memory[d] # "freed"
    BY <2>2 DEF SafeInv, LetGoIsClosed, Inv, FreedUnheld
  <2>4. shut' = shut \cup {d} /\ CloseChannel(d) /\ ub' = ub
    BY <1>12, <2>2, <2>3 DEF TransportClosed
  <2>5. ClosedIsLast' /\ HeardIsLast' /\ LetGoIsClosed'
    BY <2>1, <2>4, CloseChannelIsSafe
  <2> QED BY <2>1, <2>4, <2>5 DEF SafeInv, ShutIsPassed
<1> QED
  BY <1>1, <1>2, <1>3, <1>4, <1>5, <1>6, <1>7, <1>8, <1>9, <1>10, <1>11, <1>12 DEF Next, Close

LEMMA SafeAlways ==
  ASSUME AwaitedClose
  PROVE  Spec => []SafeInv
<1>1. UNCHANGED vars /\ SafeInv => SafeInv'
  BY QuietIsSafe DEF vars, nativeVars, closeVars
<1>2. Inv /\ SafeInv /\ [Next]_vars => SafeInv'
  BY <1>1, SafeStep
<1> QED BY <1>2, SafeInit, InvAlways, PTL DEF Spec

-----------------------------------------------------------------------------
(* The variables have their types: a data producer is never queued an      *)
(* event its listener has no method for, and no bound on messages is       *)
(* passed.                                                                 *)
THEOREM Typing == Spec => []TypeOK
<1>1. Inv => TypeOK
  BY DEF Inv, Typed
<1> QED BY <1>1, InvAlways, PTL

(* From the moment the application sets its delegate, whatever the order   *)
(* of events, callbacks, closes and releases: every event of the channel   *)
(* is still queued or was passed to the application, once and in order.    *)
(* No application has a duty for this.                                     *)
THEOREM EventsAreKept == Spec => []NothingLost
<1>1. Inv => NothingLost
  BY DEF Inv
<1> QED BY <1>1, InvAlways, PTL

(* If the application lets an object go only when that is closed and       *)
(* onClose has been called, no event, callback or Close reaches a native   *)
(* object that is freed.                                                   *)
THEOREM AwaitingIsSafe ==
  ASSUME AwaitedClose
  PROVE  Spec => []MemorySafe
<1>1. SafeInv => MemorySafe
  BY DEF SafeInv, MemorySafe
<1> QED BY <1>1, SafeAlways, PTL
=============================================================================
