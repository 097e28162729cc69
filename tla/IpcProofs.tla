----------------------------- MODULE IpcProofs -----------------------------
(***************************************************************************)
(* IInv is an invariant of Ipc, for any number of tasks, ports, message    *)
(* blocks and sizes, and for any clock: type correctness, the discipline   *)
(* of the task queues and the absence of lost wakeups follow.              *)
(*                                                                         *)
(* First what the list operations of Lists return (their members, and that *)
(* they put no member twice in a list that had each once), then what each  *)
(* queue operation of Scheduler does to the sets of ready, sleeping and    *)
(* exited tasks, then one lemma per action of Ipc.                         *)
(***************************************************************************)
EXTENDS Ipc, SequenceTheorems, FiniteSetTheorems, TLAPS

-----------------------------------------------------------------------------
(* Lists. *)

(* The rank numbers the positions of K from 1 to their number: each rank   *)
(* belongs to exactly one position, so Pick visits each position once.     *)
LEMMA RankIsBijection ==
    ASSUME NEW n \in Nat, NEW K \in SUBSET (1 .. n)
    PROVE  /\ Cardinality(K) \in Nat
           /\ \A i \in K : Rank(K, i) \in 1 .. Cardinality(K)
           /\ \A i, j \in K : Rank(K, i) = Rank(K, j) => i = j
           /\ \A r \in 1 .. Cardinality(K) : \E i \in K : Rank(K, i) = r
<1> DEFINE upto(i) == {j \in K : j <= i}
           f == [i \in K |-> Rank(K, i)]
<1>1. IsFiniteSet(K) /\ Cardinality(K) \in Nat
  <2>1. IsFiniteSet(1 .. n)
    BY FS_Interval
  <2> QED
    BY <2>1, FS_Subset, FS_CardinalityType
<1>2. ASSUME NEW i \in K
      PROVE  IsFiniteSet(upto(i)) /\ Rank(K, i) \in 1 .. Cardinality(K)
  <2>1. upto(i) \in SUBSET K /\ i \in upto(i)
    OBVIOUS
  <2>2. /\ IsFiniteSet(upto(i))
        /\ Cardinality(upto(i)) <= Cardinality(K)
    BY <1>1, <2>1, FS_Subset
  <2>3. Cardinality(upto(i)) \in Nat \ {0}
    <3>1. Cardinality(upto(i)) \in Nat
      BY <2>2, FS_CardinalityType
    <3>2. Cardinality(upto(i)) # 0
      BY <2>1, <2>2, FS_EmptySet
    <3> QED
      BY <3>1, <3>2
  <2>4. Rank(K, i) = Cardinality(upto(i))
    BY DEF Rank
  <2> HIDE DEF upto
  <2> QED
    BY <1>1, <2>2, <2>3, <2>4
<1>3. ASSUME NEW i \in K, NEW j \in K, i < j
      PROVE  Rank(K, i) # Rank(K, j)
  <2>1. upto(i) \in SUBSET upto(j)
    <3>1. ASSUME NEW k \in K, k <= i
          PROVE  k <= j
      <4>1. k \in Int /\ i \in Int /\ j \in Int
        OBVIOUS
      <4> QED
        BY <1>3, <3>1, <4>1
    <3> QED
      BY <3>1
  <2>2. upto(i) # upto(j)
    <3>1. j \in upto(j) /\ j \notin upto(i)
      BY <1>3
    <3> QED
      BY <3>1
  <2>3. IsFiniteSet(upto(j))
    BY <1>2
  <2>4. Cardinality(upto(i)) # Cardinality(upto(j))
    BY <2>1, <2>2, <2>3, FS_Subset
  <2> QED
    BY <2>4 DEF Rank
<1>4. \A i, j \in K : Rank(K, i) = Rank(K, j) => i = j
  <2> SUFFICES ASSUME NEW i \in K, NEW j \in K, i # j
               PROVE  Rank(K, i) # Rank(K, j)
    OBVIOUS
  <2>1. i < j \/ j < i
    OBVIOUS
  <2> QED
    BY <2>1, <1>3
<1>5. f \in Injection(K, 1 .. Cardinality(K))
  BY <1>2, <1>4 DEF Injection, IsInjective
<1>6. f \in Surjection(K, 1 .. Cardinality(K))
  <2>1. /\ IsFiniteSet(1 .. Cardinality(K))
        /\ Cardinality(1 .. Cardinality(K)) = Cardinality(K)
    <3>1. Cardinality(1 .. Cardinality(K)) =
              IF 1 > Cardinality(K) THEN 0 ELSE Cardinality(K) - 1 + 1
      BY <1>1, FS_Interval
    <3> QED
      BY <1>1, <3>1, FS_Interval
  <2> HIDE DEF f
  <2> QED
    BY <1>5, <2>1, FS_Injection
<1>7. \A r \in 1 .. Cardinality(K) : \E i \in K : f[i] = r
  BY <1>6 DEF Surjection
<1> QED
  BY <1>1, <1>2, <1>4, <1>7

(* Pick returns the values at the positions K, and nothing else. *)
LEMMA PickFacts ==
    ASSUME NEW S, NEW q \in Seq(S), NEW K \in SUBSET (DOMAIN q)
    PROVE  /\ Pick(q, K) \in Seq(S)
           /\ Range(Pick(q, K)) = {q[i] : i \in K}
           /\ IsInjective(q) => IsInjective(Pick(q, K))
<1> DEFINE c == Cardinality(K)
           at(r) == CHOOSE i \in K : Rank(K, i) = r
<1>1. /\ q \in [1 .. Len(q) -> S]
      /\ Len(q) \in Nat
      /\ K \in SUBSET (1 .. Len(q))
  BY LenProperties
<1>2. /\ c \in Nat
      /\ \A i \in K : Rank(K, i) \in 1 .. c
      /\ \A i, j \in K : Rank(K, i) = Rank(K, j) => i = j
      /\ \A r \in 1 .. c : \E i \in K : Rank(K, i) = r
  BY <1>1, RankIsBijection
<1>3. \A r \in 1 .. c : at(r) \in K /\ Rank(K, at(r)) = r
  BY <1>2
<1>4. \A i \in K : at(Rank(K, i)) = i
  BY <1>2, <1>3
<1>5. Pick(q, K) = [r \in 1 .. c |-> q[at(r)]]
  BY DEF Pick
<1> HIDE DEF c, at
<1>6. Pick(q, K) \in [1 .. c -> S]
  BY <1>1, <1>3, <1>5
<1>7. Pick(q, K) \in Seq(S)
  BY <1>2, <1>6, SeqDef
<1>8. Range(Pick(q, K)) = {q[i] : i \in K}
  <2>1. ASSUME NEW r \in 1 .. c
        PROVE  Pick(q, K)[r] \in {q[i] : i \in K}
    BY <1>3, <1>5
  <2>2. ASSUME NEW i \in K
        PROVE  Rank(K, i) \in 1 .. c /\ Pick(q, K)[Rank(K, i)] = q[i]
    BY <1>2, <1>4, <1>5
  <2> QED
    BY <1>6, <2>1, <2>2 DEF Range
<1>9. ASSUME IsInjective(q)
      PROVE  IsInjective(Pick(q, K))
  <2> SUFFICES ASSUME NEW r \in 1 .. c, NEW s \in 1 .. c, Pick(q, K)[r] = Pick(q, K)[s]
               PROVE  r = s
    BY <1>6 DEF IsInjective
  <2>1. q[at(r)] = q[at(s)]
    BY <1>5
  <2>2. at(r) = at(s)
    BY <1>1, <1>3, <1>9, <2>1 DEF IsInjective
  <2> QED
    BY <1>3, <2>2
<1> QED
  BY <1>7, <1>8, <1>9

(* A filtered list has the members of the list that are in T, each once if *)
(* it was there once.                                                      *)
LEMMA FilterFacts ==
    ASSUME NEW S, NEW q \in Seq(S), NEW T
    PROVE  /\ Filter(q, T) \in Seq(S)
           /\ Range(Filter(q, T)) = Range(q) \cap T
           /\ IsInjective(q) => IsInjective(Filter(q, T))
<1> DEFINE K == {i \in DOMAIN q : q[i] \in T}
<1>1. K \in SUBSET (DOMAIN q)
  OBVIOUS
<1>2. {q[i] : i \in K} = Range(q) \cap T
  BY DEF Range
<1>3. Filter(q, T) = Pick(q, K)
  BY DEF Filter
<1> HIDE DEF K
<1> QED
  BY <1>1, <1>2, <1>3, PickFacts

(* list_remove takes out one member and leaves the others. *)
LEMMA RemoveFacts ==
    ASSUME NEW S, NEW q \in Seq(S), NEW e
    PROVE  /\ list_remove(q, e) \in Seq(S)
           /\ Range(list_remove(q, e)) = Range(q) \ {e}
           /\ IsInjective(q) => IsInjective(list_remove(q, e))
<1>1. Range(q) \cap (Range(q) \ {e}) = Range(q) \ {e}
  OBVIOUS
<1> QED
  BY <1>1, FilterFacts DEF list_remove

LEMMA EmptyFacts ==
    /\ Range(<< >>) = {}
    /\ IsInjective(<< >>)
    /\ \A S : << >> \in Seq(S)
    /\ \A S : \A q \in Seq(S) : q # << >> <=> Range(q) # {}
<1>1. DOMAIN << >> = {}
  OBVIOUS
<1>2. ASSUME NEW S, NEW q \in Seq(S), q # << >>
      PROVE  Range(q) # {}
  <2>1. 1 \in DOMAIN q
    BY <1>2, EmptySeq, LenProperties
  <2> QED
    BY <2>1 DEF Range
<1>3. Range(<< >>) = {}
  BY <1>1 DEF Range
<1> QED
  BY <1>1, <1>2, <1>3, EmptySeq DEF IsInjective

(* list_append adds one member at the end. *)
LEMMA AppendFacts ==
    ASSUME NEW S, NEW q \in Seq(S), NEW e \in S
    PROVE  /\ list_append(q, e) \in Seq(S)
           /\ Range(list_append(q, e)) = Range(q) \cup {e}
           /\ IsInjective(q) /\ e \notin Range(q) => IsInjective(list_append(q, e))
<1> DEFINE a == Append(q, e)
<1>1. /\ Len(q) \in Nat
      /\ DOMAIN q = 1 .. Len(q)
      /\ a \in Seq(S)
      /\ DOMAIN a = 1 .. (Len(q) + 1)
  BY LenProperties, AppendProperties
<1>2. /\ \A i \in 1 .. Len(q) : a[i] = q[i]
      /\ a[Len(q) + 1] = e
  BY AppendProperties
<1> HIDE DEF a
<1>3. Range(a) = Range(q) \cup {e}
  <2>1. ASSUME NEW i \in 1 .. (Len(q) + 1)
        PROVE  i \in 1 .. Len(q) \/ i = Len(q) + 1
    BY <1>1
  <2>2. Range(a) \subseteq Range(q) \cup {e}
    BY <1>1, <1>2, <2>1 DEF Range
  <2>3. Range(q) \cup {e} \subseteq Range(a)
    <3>1. \A i \in 1 .. Len(q) : i \in 1 .. (Len(q) + 1)
      BY <1>1
    <3>2. Len(q) + 1 \in 1 .. (Len(q) + 1)
      BY <1>1
    <3> QED
      BY <1>1, <1>2, <3>1, <3>2 DEF Range
  <2> QED
    BY <2>2, <2>3
<1>4. ASSUME IsInjective(q), e \notin Range(q)
      PROVE  IsInjective(a)
  <2>1. \A i \in 1 .. Len(q) : q[i] # e
    BY <1>1, <1>4 DEF Range
  <2> QED
    BY <1>1, <1>2, <1>4, <2>1 DEF IsInjective
<1>5. list_append(q, e) = a
  BY DEF a, list_append
<1> QED
  BY <1>1, <1>3, <1>4, <1>5

(* Taking the head off a list takes off one member. *)
LEMMA TailFacts ==
    ASSUME NEW S, NEW q \in Seq(S), q # << >>
    PROVE  /\ Head(q) \in S
           /\ Head(q) \in Range(q)
           /\ Tail(q) \in Seq(S)
           /\ Range(q) = Range(Tail(q)) \cup {Head(q)}
           /\ IsInjective(q) => IsInjective(Tail(q)) /\ Head(q) \notin Range(Tail(q))
<1> DEFINE n == Len(q)
           tl == Tail(q)
<1>1. /\ n \in Nat \ {0}
      /\ DOMAIN q = 1 .. n
  BY EmptySeq, LenProperties
<1>2. /\ Head(q) = q[1]
      /\ Head(q) \in S
      /\ tl \in Seq(S)
      /\ DOMAIN tl = 1 .. n - 1
      /\ \A i \in 1 .. n - 1 : tl[i] = q[i + 1]
  BY HeadTailProperties, LenProperties
<1> HIDE DEF n, tl
<1>3. Range(q) = Range(tl) \cup {Head(q)}
  <2>1. ASSUME NEW i \in 1 .. n, i # 1
        PROVE  i - 1 \in 1 .. n - 1 /\ tl[i - 1] = q[i]
    <3>1. i - 1 \in 1 .. n - 1 /\ (i - 1) + 1 = i
      BY <1>1, <2>1
    <3> QED
      BY <1>2, <3>1
  <2>2. ASSUME NEW i \in 1 .. n
        PROVE  q[i] \in Range(tl) \cup {Head(q)}
    <3>1. CASE i = 1
      BY <1>2, <3>1
    <3>2. CASE i # 1
      BY <1>2, <2>1, <3>2 DEF Range
    <3> QED
      BY <3>1, <3>2
  <2>3. \A i \in 1 .. n - 1 : i + 1 \in 1 .. n
    BY <1>1
  <2>4. Range(tl) \cup {Head(q)} \subseteq Range(q)
    BY <1>1, <1>2, <2>3 DEF Range
  <2>5. Range(q) \subseteq Range(tl) \cup {Head(q)}
    BY <1>1, <2>2 DEF Range
  <2> QED
    BY <2>4, <2>5
<1>4. ASSUME IsInjective(q)
      PROVE  IsInjective(tl) /\ Head(q) \notin Range(tl)
  <2>1. \A i \in 1 .. n - 1 : i + 1 \in 1 .. n /\ i + 1 # 1
    BY <1>1
  <2>2. \A i, j \in 1 .. n - 1 : i + 1 = j + 1 => i = j
    BY <1>1
  <2>3. IsInjective(tl)
    <3> SUFFICES ASSUME NEW i \in 1 .. n - 1, NEW j \in 1 .. n - 1, tl[i] = tl[j]
                 PROVE  i = j
      BY <1>2 DEF IsInjective
    <3>1. q[i + 1] = q[j + 1] /\ i + 1 \in DOMAIN q /\ j + 1 \in DOMAIN q
      BY <1>1, <1>2, <2>1
    <3>2. i + 1 = j + 1
      BY <1>4, <3>1 DEF IsInjective
    <3> QED
      BY <2>2, <3>2
  <2>4. \A i \in 1 .. n - 1 : q[i + 1] # q[1]
    <3>1. 1 \in 1 .. n
      BY <1>1
    <3> QED
      BY <1>1, <1>4, <2>1, <3>1 DEF IsInjective
  <2>5. Head(q) \notin Range(tl)
    BY <1>2, <2>4 DEF Range
  <2> QED
    BY <2>3, <2>5
<1>5. Head(q) \in Range(q)
  BY <1>3
<1> QED
  BY <1>2, <1>3, <1>4, <1>5 DEF tl

(* Two lists joined have the members of both. *)
LEMMA ConcatFacts ==
    ASSUME NEW S, NEW q \in Seq(S), NEW r \in Seq(S)
    PROVE  /\ q \o r \in Seq(S)
           /\ Range(q \o r) = Range(q) \cup Range(r)
           /\ IsInjective(q) /\ IsInjective(r) /\ Range(q) \cap Range(r) = {}
              => IsInjective(q \o r)
<1> DEFINE m == Len(q)
           n == Len(r)
           c == q \o r
<1>1. /\ m \in Nat /\ DOMAIN q = 1 .. m
      /\ n \in Nat /\ DOMAIN r = 1 .. n
  BY LenProperties
<1>2. /\ c \in Seq(S)
      /\ DOMAIN c = 1 .. (m + n)
      /\ \A i \in 1 .. (m + n) : c[i] = IF i <= m THEN q[i] ELSE r[i - m]
  BY ConcatProperties, LenProperties
<1> HIDE DEF m, n, c
<1>3. ASSUME NEW i \in 1 .. (m + n)
      PROVE  \/ i \in 1 .. m /\ c[i] = q[i]
             \/ i - m \in 1 .. n /\ c[i] = r[i - m]
  BY <1>1, <1>2
<1>4. \A i \in 1 .. m : i \in 1 .. (m + n) /\ c[i] = q[i]
  BY <1>1, <1>2
<1>5. \A i \in 1 .. n : m + i \in 1 .. (m + n) /\ c[m + i] = r[i]
  <2> SUFFICES ASSUME NEW i \in 1 .. n
               PROVE  m + i \in 1 .. (m + n) /\ c[m + i] = r[i]
    OBVIOUS
  <2>1. m + i \in 1 .. (m + n) /\ ~(m + i <= m) /\ (m + i) - m = i
    BY <1>1
  <2> QED
    BY <1>2, <2>1
<1>6. Range(c) = Range(q) \cup Range(r)
  <2>1. Range(c) \subseteq Range(q) \cup Range(r)
    BY <1>1, <1>2, <1>3 DEF Range
  <2>2. Range(q) \cup Range(r) \subseteq Range(c)
    <3>1. \A i \in 1 .. m : q[i] \in Range(c)
      BY <1>2, <1>4 DEF Range
    <3>2. \A i \in 1 .. n : r[i] \in Range(c)
      BY <1>2, <1>5 DEF Range
    <3> QED
      BY <1>1, <3>1, <3>2 DEF Range
  <2> QED
    BY <2>1, <2>2
<1>7. ASSUME IsInjective(q), IsInjective(r), Range(q) \cap Range(r) = {}
      PROVE  IsInjective(c)
  <2> SUFFICES ASSUME NEW i \in 1 .. (m + n), NEW j \in 1 .. (m + n), c[i] = c[j]
               PROVE  i = j
    BY <1>2 DEF IsInjective
  <2>1. \A k \in 1 .. m, l \in 1 .. n : q[k] # r[l]
    BY <1>1, <1>7 DEF Range
  <2>2. CASE i \in 1 .. m /\ c[i] = q[i] /\ j \in 1 .. m /\ c[j] = q[j]
    BY <1>1, <1>7, <2>2 DEF IsInjective
  <2>3. CASE i - m \in 1 .. n /\ c[i] = r[i - m] /\ j - m \in 1 .. n /\ c[j] = r[j - m]
    <3>1. i - m = j - m
      BY <1>1, <1>7, <2>3 DEF IsInjective
    <3> QED
      BY <1>1, <3>1
  <2> QED
    BY <1>3, <2>1, <2>2, <2>3
<1> QED
  BY <1>2, <1>6, <1>7 DEF c

-----------------------------------------------------------------------------
(* The scheduler's queues. *)

(* The parts of a well-typed scheduler state. *)
LEMMA SchedParts ==
    ASSUME NEW s \in SchedState
    PROVE  /\ s.ready_queue \in Seq(Pid) /\ Ready(s) \subseteq Pid
           /\ s.sleeping_queue \in Seq(Pid) /\ Sleeping(s) \subseteq Pid
           /\ s.exited_queue \in Seq(Pid) /\ Exited(s) \subseteq Pid
           /\ s.current_task \in Pid
           /\ s.wait_cansend_port \in [Pid -> Int]
           /\ s.sleep_deadline \in [Pid -> Nat]
<1>1. /\ s.ready_queue \in Seq(Pid)
      /\ s.sleeping_queue \in Seq(Pid)
      /\ s.exited_queue \in Seq(Pid)
      /\ s.current_task \in Pid
      /\ s.wait_cansend_port \in [Pid -> Int]
      /\ s.sleep_deadline \in [Pid -> Nat]
  BY DEF SchedState
<1>2. ASSUME NEW q \in Seq(Pid)
      PROVE  Range(q) \subseteq Pid
  BY LenProperties DEF Range
<1> QED
  BY <1>1, <1>2 DEF Ready, Sleeping, Exited

(* task_switch_next picks a ready task, a sleeper or the idle task, takes  *)
(* it off its queue and touches nothing else.                              *)
LEMMA SwitchNextFacts ==
    ASSUME NEW s \in SchedState, NEW n \in 2 .. MaxPid, NEW ts \in Nat, QueuesOK(s, n)
    PROVE  LET u == task_switch_next(s, ts)
           IN  /\ u \in SchedState
               /\ QueuesOK(u, n)
               /\ Placed(u)
               /\ u.current_task \in Ready(s) \cup Sleeping(s) \cup {idle_task}
               /\ Ready(u) = Ready(s) \ {u.current_task}
               /\ Sleeping(u) = Sleeping(s) \ {u.current_task}
               /\ u.exited_queue = s.exited_queue
               /\ u.wait_cansend_port = s.wait_cansend_port
<1> DEFINE u == task_switch_next(s, ts)
<1>0. idle_task \in Pid /\ idle_task \in 0 .. n - 1
  BY SchedulerAssumption DEF idle_task, Pid
<1>1. /\ s.ready_queue \in Seq(Pid) /\ s.sleeping_queue \in Seq(Pid)
      /\ s.exited_queue \in Seq(Pid) /\ s.current_task \in Pid
  BY SchedParts
<1>2. CASE Due(s, ts) # {}
  <2> DEFINE f == Filter(s.sleeping_queue, Due(s, ts))
             next_task == Head(f)
  <2>1. /\ f \in Seq(Pid)
        /\ Range(f) = Due(s, ts)
    BY <1>1, FilterFacts DEF Due, Sleeping
  <2>2. f # << >>
    BY <1>2, <2>1, EmptyFacts
  <2>3. next_task \in Sleeping(s) /\ next_task \in Pid
    BY <2>1, <2>2, TailFacts DEF Due
  <2> HIDE DEF f
  <2>4. u = [s EXCEPT !.sleeping_queue = list_remove(s.sleeping_queue, next_task),
                      !.current_task = next_task]
    BY <1>2 DEF task_switch_next, f
  <2> HIDE DEF next_task, u
  <2>5. /\ list_remove(s.sleeping_queue, next_task) \in Seq(Pid)
        /\ Range(list_remove(s.sleeping_queue, next_task)) = Sleeping(s) \ {next_task}
        /\ IsInjective(list_remove(s.sleeping_queue, next_task))
    BY <1>1, RemoveFacts DEF Sleeping, QueuesOK
  <2>6. /\ u \in SchedState
        /\ u.ready_queue = s.ready_queue
        /\ u.exited_queue = s.exited_queue
        /\ u.sleeping_queue = list_remove(s.sleeping_queue, next_task)
        /\ u.current_task = next_task
        /\ u.wait_cansend_port = s.wait_cansend_port
    BY <2>3, <2>4, <2>5 DEF SchedState
  <2>7. /\ Ready(u) = Ready(s)
        /\ Sleeping(u) = Sleeping(s) \ {next_task}
        /\ Exited(u) = Exited(s)
    BY <2>5, <2>6 DEF Ready, Sleeping, Exited
  <2>8. next_task \notin Ready(s) /\ next_task \notin Exited(s)
    BY <2>3 DEF QueuesOK
  <2>9. QueuesOK(u, n)
    BY <2>3, <2>5, <2>6, <2>7 DEF QueuesOK, Queued
  <2> QED
    BY <2>3, <2>6, <2>7, <2>8, <2>9 DEF Placed, Queued, u
<1>3. CASE Due(s, ts) = {} /\ s.ready_queue # << >>
  <2>1. u = [s EXCEPT !.ready_queue = Tail(s.ready_queue),
                      !.current_task = Head(s.ready_queue)]
    BY <1>3 DEF task_switch_next, list_empty
  <2> HIDE DEF u
  <2>2. /\ Head(s.ready_queue) \in Pid
        /\ Head(s.ready_queue) \in Ready(s)
        /\ Tail(s.ready_queue) \in Seq(Pid)
        /\ Ready(s) = Range(Tail(s.ready_queue)) \cup {Head(s.ready_queue)}
        /\ IsInjective(Tail(s.ready_queue))
        /\ Head(s.ready_queue) \notin Range(Tail(s.ready_queue))
    BY <1>1, <1>3, TailFacts DEF Ready, QueuesOK
  <2>3. /\ u \in SchedState
        /\ u.ready_queue = Tail(s.ready_queue)
        /\ u.exited_queue = s.exited_queue
        /\ u.sleeping_queue = s.sleeping_queue
        /\ u.current_task = Head(s.ready_queue)
        /\ u.wait_cansend_port = s.wait_cansend_port
    BY <2>1, <2>2 DEF SchedState
  <2>4. /\ Ready(u) = Ready(s) \ {u.current_task}
        /\ Sleeping(u) = Sleeping(s)
        /\ Exited(u) = Exited(s)
        /\ u.current_task \in Ready(s)
    BY <2>2, <2>3 DEF Ready, Sleeping, Exited
  <2>5. u.current_task \notin Sleeping(s) /\ u.current_task \notin Exited(s)
    BY <2>4 DEF QueuesOK
  <2>6. QueuesOK(u, n)
    BY <2>2, <2>3, <2>4 DEF QueuesOK, Queued
  <2> QED
    BY <2>3, <2>4, <2>5, <2>6 DEF Placed, Queued, u
<1>4. CASE Due(s, ts) = {} /\ s.ready_queue = << >>
  <2>1. u = [s EXCEPT !.current_task = idle_task]
    BY <1>4 DEF task_switch_next, list_empty
  <2> HIDE DEF u
  <2>2. /\ u \in SchedState
        /\ u.ready_queue = s.ready_queue
        /\ u.exited_queue = s.exited_queue
        /\ u.sleeping_queue = s.sleeping_queue
        /\ u.current_task = idle_task
        /\ u.wait_cansend_port = s.wait_cansend_port
    BY <1>0, <2>1 DEF SchedState
  <2>3. /\ Ready(u) = Ready(s)
        /\ Sleeping(u) = Sleeping(s)
        /\ Exited(u) = Exited(s)
    BY <2>2 DEF Ready, Sleeping, Exited
  <2>4. QueuesOK(u, n)
    BY <1>0, <2>2, <2>3 DEF QueuesOK, Queued
  <2>5. idle_task \notin Queued(s)
    BY DEF QueuesOK
  <2> QED
    BY <2>2, <2>3, <2>4, <2>5 DEF Placed, Queued, u
<1> QED
  BY <1>2, <1>3, <1>4

(* Queueing a task that is on no queue: on the ready queue, ...            *)
LEMMA ReadyAppendFacts ==
    ASSUME NEW s \in SchedState, NEW n \in Nat, QueuesOK(s, n),
           NEW t \in Pid, t \notin Queued(s), t # idle_task, t < n
    PROVE  LET u == [s EXCEPT !.ready_queue = list_append(@, t)]
           IN  /\ u \in SchedState
               /\ QueuesOK(u, n)
               /\ Ready(u) = Ready(s) \cup {t}
               /\ Sleeping(u) = Sleeping(s)
               /\ Exited(u) = Exited(s)
               /\ u.current_task = s.current_task
               /\ u.wait_cansend_port = s.wait_cansend_port
<1> DEFINE u == [s EXCEPT !.ready_queue = list_append(@, t)]
<1>1. /\ list_append(s.ready_queue, t) \in Seq(Pid)
      /\ Range(list_append(s.ready_queue, t)) = Ready(s) \cup {t}
      /\ IsInjective(list_append(s.ready_queue, t))
  BY SchedParts, AppendFacts DEF Ready, QueuesOK, Queued
<1>2. /\ u \in SchedState
      /\ u.ready_queue = list_append(s.ready_queue, t)
      /\ u.sleeping_queue = s.sleeping_queue
      /\ u.exited_queue = s.exited_queue
      /\ u.current_task = s.current_task
      /\ u.wait_cansend_port = s.wait_cansend_port
  BY <1>1 DEF SchedState
<1> HIDE DEF u
<1>3. /\ Ready(u) = Ready(s) \cup {t}
      /\ Sleeping(u) = Sleeping(s)
      /\ Exited(u) = Exited(s)
  BY <1>1, <1>2 DEF Ready, Sleeping, Exited
<1>4. t \in 0 .. n - 1
  BY SchedulerAssumption DEF Pid
<1>5. QueuesOK(u, n)
  BY <1>1, <1>2, <1>3, <1>4 DEF QueuesOK, Queued
<1> QED
  BY <1>2, <1>3, <1>5 DEF u

(* ... on the exited queue, ...                                            *)
LEMMA ExitedAppendFacts ==
    ASSUME NEW s \in SchedState, NEW n \in Nat, QueuesOK(s, n),
           NEW t \in Pid, t \notin Queued(s), t # idle_task, t < n
    PROVE  LET u == [s EXCEPT !.exited_queue = list_append(@, t)]
           IN  /\ u \in SchedState
               /\ QueuesOK(u, n)
               /\ Ready(u) = Ready(s)
               /\ Sleeping(u) = Sleeping(s)
               /\ Exited(u) = Exited(s) \cup {t}
               /\ u.current_task = s.current_task
               /\ u.wait_cansend_port = s.wait_cansend_port
<1> DEFINE u == [s EXCEPT !.exited_queue = list_append(@, t)]
<1>1. /\ list_append(s.exited_queue, t) \in Seq(Pid)
      /\ Range(list_append(s.exited_queue, t)) = Exited(s) \cup {t}
      /\ IsInjective(list_append(s.exited_queue, t))
  BY SchedParts, AppendFacts DEF Exited, QueuesOK, Queued
<1>2. /\ u \in SchedState
      /\ u.ready_queue = s.ready_queue
      /\ u.sleeping_queue = s.sleeping_queue
      /\ u.exited_queue = list_append(s.exited_queue, t)
      /\ u.current_task = s.current_task
      /\ u.wait_cansend_port = s.wait_cansend_port
  BY <1>1 DEF SchedState
<1> HIDE DEF u
<1>3. /\ Ready(u) = Ready(s)
      /\ Sleeping(u) = Sleeping(s)
      /\ Exited(u) = Exited(s) \cup {t}
  BY <1>1, <1>2 DEF Ready, Sleeping, Exited
<1>4. t \in 0 .. n - 1
  BY SchedulerAssumption DEF Pid
<1>5. QueuesOK(u, n)
  BY <1>1, <1>2, <1>3, <1>4 DEF QueuesOK, Queued
<1> QED
  BY <1>2, <1>3, <1>5 DEF u

(* ... and on the sleeping queue, with the wait conditions that task_block *)
(* sets, before a switch: the whole of task_block.                         *)
LEMMA BlockFacts ==
    ASSUME NEW s \in SchedState, NEW n \in 2 .. MaxPid, NEW ts \in Nat,
           QueuesOK(s, n), Placed(s), s.current_task # idle_task,
           NEW port \in Int, NEW timeout \in Nat
    PROVE  LET u == task_block(s, port, timeout, ts)
           IN  /\ u \in SchedState
               /\ QueuesOK(u, n)
               /\ Placed(u)
               /\ Sleeping(u) \subseteq Sleeping(s) \cup {s.current_task}
               /\ Live(s) \subseteq Live(u)
               /\ u.wait_cansend_port = [s.wait_cansend_port EXCEPT ![s.current_task] = port]
<1> DEFINE t == s.current_task
           w == [s.wait_cansend_port EXCEPT ![t] = port]
           d == [s.sleep_deadline EXCEPT ![t] = sleep_deadline(timeout, ts)]
           q == list_append(s.sleeping_queue, t)
           v == [s EXCEPT !.wait_cansend_port[t] = port,
                          !.sleep_deadline[t] = sleep_deadline(timeout, ts),
                          !.sleeping_queue = list_append(@, t)]
           u == task_switch_next(v, ts)
<1>1. /\ t \in Pid /\ t \notin Queued(s) /\ t # idle_task
      /\ s.wait_cansend_port \in [Pid -> Int]
      /\ s.sleep_deadline \in [Pid -> Nat]
      /\ s.sleeping_queue \in Seq(Pid)
  BY SchedParts DEF Placed
<1>2. /\ q \in Seq(Pid)
      /\ Range(q) = Sleeping(s) \cup {t}
      /\ IsInjective(q)
  BY <1>1, AppendFacts DEF Sleeping, QueuesOK, Queued
<1>3. sleep_deadline(timeout, ts) \in Nat
  BY DEF sleep_deadline
<1>4. w \in [Pid -> Int] /\ d \in [Pid -> Nat]
  BY <1>1, <1>3
<1>5. /\ v \in SchedState
      /\ v.ready_queue = s.ready_queue
      /\ v.sleeping_queue = q
      /\ v.exited_queue = s.exited_queue
      /\ v.current_task = t
      /\ v.wait_cansend_port = w
  <2>1. v = [s EXCEPT !.wait_cansend_port = w, !.sleep_deadline = d, !.sleeping_queue = q]
    BY DEF SchedState
  <2> HIDE DEF v, w, d, q
  <2> QED
    BY <1>2, <1>4, <2>1 DEF SchedState
<1> HIDE DEF v, w, d, q
<1>6. /\ Ready(v) = Ready(s)
      /\ Sleeping(v) = Sleeping(s) \cup {t}
      /\ Exited(v) = Exited(s)
  BY <1>2, <1>5 DEF Ready, Sleeping, Exited
<1>7. QueuesOK(v, n)
  BY <1>1, <1>2, <1>5, <1>6 DEF QueuesOK, Queued
<1>8. /\ u \in SchedState /\ QueuesOK(u, n) /\ Placed(u)
      /\ Ready(u) = Ready(v) \ {u.current_task}
      /\ Sleeping(u) = Sleeping(v) \ {u.current_task}
      /\ u.wait_cansend_port = v.wait_cansend_port
  BY <1>5, <1>7, SwitchNextFacts
<1>9. task_block(s, port, timeout, ts) = u
  BY DEF task_block, v
<1> HIDE DEF u
<1>10. Live(s) \subseteq Live(u)
  BY <1>6, <1>8 DEF Live
<1> QED
  BY <1>5, <1>6, <1>8, <1>9, <1>10 DEF w

(* task_wake moves one sleeper to the ready queue. *)
LEMMA WakeFacts ==
    ASSUME NEW s \in SchedState, NEW n \in Nat, QueuesOK(s, n), Placed(s), NEW pid \in Pid
    PROVE  LET u == task_wake(s, pid)
           IN  /\ u \in SchedState
               /\ QueuesOK(u, n)
               /\ Placed(u)
               /\ Sleeping(u) = Sleeping(s) \ {pid}
               /\ Live(u) = Live(s)
               /\ u.current_task = s.current_task
               /\ u.wait_cansend_port = s.wait_cansend_port
<1> DEFINE u == task_wake(s, pid)
<1>1. CASE pid \in Sleeping(s)
  <2> DEFINE q == list_remove(s.sleeping_queue, pid)
             r == list_append(s.ready_queue, pid)
  <2>1. /\ q \in Seq(Pid)
        /\ Range(q) = Sleeping(s) \ {pid}
        /\ IsInjective(q)
    BY SchedParts, RemoveFacts DEF Sleeping, QueuesOK
  <2>2. pid \notin Ready(s) /\ pid \notin Exited(s)
    BY <1>1 DEF QueuesOK
  <2>3. /\ r \in Seq(Pid)
        /\ Range(r) = Ready(s) \cup {pid}
        /\ IsInjective(r)
    BY <2>2, SchedParts, AppendFacts DEF Ready, QueuesOK
  <2>4. u = [s EXCEPT !.sleeping_queue = q, !.ready_queue = r]
    BY <1>1 DEF task_wake
  <2> HIDE DEF q, r, u
  <2>5. /\ u \in SchedState
        /\ u.ready_queue = r
        /\ u.sleeping_queue = q
        /\ u.exited_queue = s.exited_queue
        /\ u.current_task = s.current_task
        /\ u.wait_cansend_port = s.wait_cansend_port
    BY <2>1, <2>3, <2>4 DEF SchedState
  <2>6. /\ Ready(u) = Ready(s) \cup {pid}
        /\ Sleeping(u) = Sleeping(s) \ {pid}
        /\ Exited(u) = Exited(s)
    BY <2>1, <2>3, <2>5 DEF Ready, Sleeping, Exited
  <2>7. Queued(u) = Queued(s)
    BY <1>1, <2>6 DEF Queued
  <2>8. QueuesOK(u, n)
    <3>1. /\ Ready(u) \cap Sleeping(u) = {}
          /\ Ready(u) \cap Exited(u) = {}
          /\ Sleeping(u) \cap Exited(u) = {}
      BY <2>2, <2>6 DEF QueuesOK
    <3> QED
      BY <2>1, <2>3, <2>5, <2>7, <3>1 DEF QueuesOK
  <2>9. Placed(u)
    BY <2>5, <2>7 DEF Placed
  <2>10. Live(u) = Live(s)
    BY <1>1, <2>5, <2>6 DEF Live
  <2> QED
    BY <2>5, <2>6, <2>8, <2>9, <2>10 DEF u
<1>2. CASE pid \notin Sleeping(s)
  BY <1>2 DEF task_wake
<1> QED
  BY <1>1, <1>2

(* wake_tasks_waiting_for_port moves every sleeper that waits to send to   *)
(* the port.                                                               *)
LEMMA WakePortFacts ==
    ASSUME NEW s \in SchedState, NEW n \in Nat, QueuesOK(s, n), Placed(s), NEW port
    PROVE  LET u == wake_tasks_waiting_for_port(s, port)
           IN  /\ u \in SchedState
               /\ QueuesOK(u, n)
               /\ Placed(u)
               /\ Sleeping(u) = {t \in Sleeping(s) : s.wait_cansend_port[t] # port}
               /\ Live(u) = Live(s)
               /\ u.current_task = s.current_task
               /\ u.wait_cansend_port = s.wait_cansend_port
<1> DEFINE u == wake_tasks_waiting_for_port(s, port)
           waiting == {t \in Sleeping(s) : s.wait_cansend_port[t] = port}
           stay == Sleeping(s) \ waiting
           q == Filter(s.sleeping_queue, stay)
           f == Filter(s.sleeping_queue, waiting)
           r == s.ready_queue \o f
<1>1. /\ q \in Seq(Pid) /\ IsInjective(q)
      /\ Range(q) = Sleeping(s) \cap stay
  BY SchedParts, FilterFacts DEF Sleeping, QueuesOK
<1>2. /\ f \in Seq(Pid) /\ IsInjective(f)
      /\ Range(f) = Sleeping(s) \cap waiting
  BY SchedParts, FilterFacts DEF Sleeping, QueuesOK
<1>3. /\ Sleeping(s) \cap stay = stay
      /\ Sleeping(s) \cap waiting = waiting
      /\ waiting \subseteq Sleeping(s)
      /\ stay = {t \in Sleeping(s) : s.wait_cansend_port[t] # port}
  OBVIOUS
<1>4. u = [s EXCEPT !.sleeping_queue = q, !.ready_queue = r]
  BY DEF wake_tasks_waiting_for_port
<1> HIDE DEF u, q, f, waiting, stay
<1>5. /\ r \in Seq(Pid)
      /\ Range(r) = Ready(s) \cup waiting
      /\ IsInjective(r)
  <2>1. Ready(s) \cap Range(f) = {}
    BY <1>2 DEF QueuesOK
  <2> QED
    BY <1>2, <1>3, <2>1, SchedParts, ConcatFacts DEF Ready, QueuesOK
<1> HIDE DEF r
<1>6. /\ u \in SchedState
      /\ u.ready_queue = r
      /\ u.sleeping_queue = q
      /\ u.exited_queue = s.exited_queue
      /\ u.current_task = s.current_task
      /\ u.wait_cansend_port = s.wait_cansend_port
  BY <1>1, <1>4, <1>5 DEF SchedState
<1>7. /\ Ready(u) = Ready(s) \cup waiting
      /\ Sleeping(u) = stay
      /\ Exited(u) = Exited(s)
  BY <1>1, <1>3, <1>5, <1>6 DEF Ready, Sleeping, Exited
<1>8. Queued(u) = Queued(s) /\ Live(u) = Live(s)
  BY <1>3, <1>6, <1>7 DEF Queued, Live, stay
<1>9. QueuesOK(u, n)
  <2>1. /\ Ready(u) \cap Sleeping(u) = {}
        /\ Ready(u) \cap Exited(u) = {}
        /\ Sleeping(u) \cap Exited(u) = {}
    BY <1>3, <1>7 DEF QueuesOK, stay
  <2> QED
    BY <1>1, <1>5, <1>6, <1>8, <2>1 DEF QueuesOK
<1>10. Placed(u)
  BY <1>6, <1>8 DEF Placed
<1> QED
  BY <1>3, <1>6, <1>7, <1>8, <1>9, <1>10 DEF u

(* scheduler_timer puts the interrupted task on the ready queue. *)
LEMMA PreemptedFacts ==
    ASSUME NEW s \in SchedState, NEW n \in Nat, QueuesOK(s, n), Placed(s)
    PROVE  LET u == Preempted(s)
           IN  /\ u \in SchedState
               /\ QueuesOK(u, n)
               /\ Sleeping(u) = Sleeping(s)
               /\ Ready(u) \subseteq Ready(s) \cup {s.current_task}
               /\ Live(s) \subseteq Ready(u) \cup Sleeping(u)
               /\ u.current_task = s.current_task
               /\ s.current_task = idle_task => Ready(u) = Ready(s)
               /\ u.wait_cansend_port = s.wait_cansend_port
<1> DEFINE u == Preempted(s)
           t == s.current_task
           r == IF t # idle_task THEN list_append(s.ready_queue, t) ELSE s.ready_queue
<1>1. /\ s.ready_queue \in Seq(Pid) /\ t \in Pid /\ t \in 0 .. n - 1
      /\ t \notin Ready(s) /\ t \notin Sleeping(s) /\ t \notin Exited(s)
  BY SchedParts DEF QueuesOK, Placed, Queued
<1>2. /\ r \in Seq(Pid)
      /\ Range(r) = Ready(s) \cup ({t} \ {idle_task})
      /\ IsInjective(r)
  <2>1. CASE t # idle_task
    BY <1>1, <2>1, AppendFacts DEF Ready, QueuesOK
  <2>2. CASE t = idle_task
    BY <1>1, <2>2 DEF Ready, QueuesOK
  <2> QED
    BY <2>1, <2>2
<1>3. << >> \in Seq(Pid) /\ Range(<< >>) = {} /\ IsInjective(<< >>)
  BY EmptyFacts
<1>4. u = [s EXCEPT !.ready_queue = r, !.exited_queue = << >>]
  BY DEF Preempted
<1> HIDE DEF u, r
<1>5. /\ u \in SchedState
      /\ u.ready_queue = r
      /\ u.sleeping_queue = s.sleeping_queue
      /\ u.exited_queue = << >>
      /\ u.current_task = t
      /\ u.wait_cansend_port = s.wait_cansend_port
  BY <1>2, <1>3, <1>4 DEF SchedState
<1>6. /\ Ready(u) = Ready(s) \cup ({t} \ {idle_task})
      /\ Sleeping(u) = Sleeping(s)
      /\ Exited(u) = {}
  BY <1>2, <1>3, <1>5 DEF Ready, Sleeping, Exited
<1>7. QueuesOK(u, n)
  BY <1>1, <1>2, <1>3, <1>5, <1>6 DEF QueuesOK, Queued
<1>8. Live(s) \subseteq Ready(u) \cup Sleeping(u)
  BY <1>6 DEF Live
<1> QED
  BY <1>5, <1>6, <1>7, <1>8 DEF u

(* On disciplined queues the assertions of scheduler_perform_checks hold   *)
(* as long as no pid reaches the width of an int.                          *)
LEMMA ChecksHold ==
    ASSUME NEW s \in SchedState, NEW n \in Nat, QueuesOK(s, n), Placed(s), n <= PidBits
    PROVE  scheduler_perform_checks(s)
<1> DEFINE rs == s.ready_queue \o s.sleeping_queue
           all == rs \o s.exited_queue
<1>1. /\ rs \in Seq(Pid)
      /\ Range(rs) = Ready(s) \cup Sleeping(s)
      /\ IsInjective(rs)
  BY SchedParts, ConcatFacts DEF Ready, Sleeping, QueuesOK
<1>2. /\ all \in Seq(Pid)
      /\ Range(all) = Queued(s)
      /\ IsInjective(all)
  <2>1. (Ready(s) \cup Sleeping(s)) \cap Exited(s) = {}
    BY DEF QueuesOK
  <2> HIDE DEF rs
  <2> QED
    BY <1>1, <2>1, SchedParts, ConcatFacts DEF Exited, QueuesOK, Queued
<1> HIDE DEF rs
<1>3. {s.current_task, idle_task} \cap Range(all) = {}
  BY <1>2 DEF QueuesOK, Placed
<1>4. ASSUME NEW i \in 1 .. Len(all), NEW j \in 1 .. Len(all), i # j
      PROVE  all[i] % PidBits # all[j] % PidBits
  <2> HIDE DEF all
  <2>1. DOMAIN all = 1 .. Len(all)
    BY <1>2, LenProperties
  <2>2. all[i] \in 0 .. n - 1 /\ all[j] \in 0 .. n - 1
    BY <1>2, <2>1 DEF Range, QueuesOK
  <2>3. all[i] # all[j]
    BY <1>2, <1>4, <2>1 DEF IsInjective
  <2>4. ASSUME NEW x \in 0 .. n - 1
        PROVE  x % PidBits = x
    BY SchedulerAssumption
  <2> QED
    BY <2>2, <2>3, <2>4
<1> QED
  BY <1>3, <1>4 DEF scheduler_perform_checks, rs

-----------------------------------------------------------------------------
(* Ports. *)

(* What every step proof starts from. *)
LEMMA Basics ==
    ASSUME IInv
    PROVE  /\ sched \in SchedState /\ call \in [Pid -> Calls]
           /\ next_pid_value \in 2 .. MaxPid /\ next_pid_value \in Nat
           /\ now \in 0 .. Horizon /\ now \in Nat /\ halted \in Halts
           /\ Current \in Pid /\ Current \notin Sleeping(sched)
           /\ Sleeping(sched) \subseteq Pid
           /\ QueuesOK(sched, next_pid_value) /\ Placed(sched)
           /\ receiver \in [PortNo -> Pid \cup {INVALID_PID}]
           /\ queue \in [PortNo -> Seq(Messages)]
<1>1. SchedTypeOK /\ OneQueuePerTask
  BY DEF IInv, TypeOK
<1>2. next_pid_value \in Nat /\ now \in Nat
  BY <1>1, SchedulerAssumption DEF SchedTypeOK
<1>3. Current \in Pid /\ Sleeping(sched) \subseteq Pid
  BY <1>1, SchedParts DEF SchedTypeOK, Current
<1> QED
  BY <1>1, <1>2, <1>3 DEF IInv, TypeOK, SchedTypeOK, OneQueuePerTask, Placed, Queued, Current

(* A switch to disciplined queues keeps the scheduler's part: its checks   *)
(* can fail only when two pids share a bit.                                *)
LEMMA SwitchStep ==
    ASSUME IInv, NEW u \in SchedState,
           QueuesOK(u, next_pid_value), Placed(u), Switch(u),
           next_pid_value' = next_pid_value, now' \in 0 .. Horizon,
           call' \in [Pid -> Calls]
    PROVE  SchedTypeOK' /\ OneQueuePerTask' /\ ChecksFailOnlyOnWrap'
<1>1. sched' = u /\ halted' = IF scheduler_perform_checks(u) THEN "no" ELSE "check"
  BY DEF Switch
<1>2. next_pid_value \in 2 .. MaxPid /\ next_pid_value \in Nat /\ PidBits \in Nat
  BY Basics, SchedulerAssumption
<1>3. SchedTypeOK'
  BY <1>1, <1>2 DEF SchedTypeOK, Halts
<1>4. OneQueuePerTask'
  BY <1>1 DEF OneQueuePerTask
<1>5. ChecksFailOnlyOnWrap'
  <2>1. CASE next_pid_value <= PidBits
    <3>1. scheduler_perform_checks(u)
      BY <1>2, <2>1, ChecksHold
    <3> QED
      BY <1>1, <3>1 DEF ChecksFailOnlyOnWrap
  <2>2. CASE next_pid_value > PidBits
    BY <2>2 DEF ChecksFailOnlyOnWrap
  <2> QED
    BY <1>2, <2>1, <2>2
<1> QED
  BY <1>3, <1>4, <1>5

(* A step that leaves the queues alone and does not halt in the checks. *)
LEMMA SameQueuesStep ==
    ASSUME IInv, UNCHANGED <<sched, next_pid_value>>, now' \in 0 .. Horizon,
           call' \in [Pid -> Calls], halted' \in Halts, halted' = "check" => halted = "check"
    PROVE  SchedTypeOK' /\ OneQueuePerTask' /\ ChecksFailOnlyOnWrap'
BY Basics DEF IInv, SchedTypeOK, OneQueuePerTask, ChecksFailOnlyOnWrap

(* A system call that blocks or returns changes the caller's entry only. *)
LEMMA EnterFacts ==
    ASSUME IInv, NEW op \in CallOps, NEW port \in PortNo \cup {INVALID_PORT},
           NEW size \in Amounts, NEW msg \in MsgIds \cup {NoMsg},
           Enter(op, port, size, msg)
    PROVE  /\ call' \in [Pid -> Calls]
           /\ call'[Current].op = op /\ call'[Current].port = port
           /\ call'[Current].msg = msg
           /\ \A t \in Pid \ {Current} : call'[t] = call[t]
BY Basics DEF Enter, Calls

LEMMA ReturnFacts ==
    ASSUME IInv, Return
    PROVE  /\ call' \in [Pid -> Calls]
           /\ call'[Current].op = "user"
           /\ \A t \in Pid \ {Current} : call'[t] = call[t]
<1>1. InUser \in Calls
  BY DEF InUser, Calls, CallOps, Amounts
<1> QED
  BY <1>1, Basics DEF Return, InUser

(* The current task falls asleep, from queues that some wakes may already  *)
(* have changed.                                                           *)
LEMMA CurrentBlocks ==
    ASSUME IInv, Current # idle_task,
           NEW v \in SchedState, QueuesOK(v, next_pid_value), Placed(v),
           v.current_task = Current, v.wait_cansend_port = sched.wait_cansend_port,
           NEW port \in PortNo \cup {INVALID_PORT},
           NEW u, u = task_block(v, port, SLEEP_INFINITE, now)
    PROVE  /\ u \in SchedState /\ QueuesOK(u, next_pid_value) /\ Placed(u)
           /\ Sleeping(u) \subseteq Sleeping(v) \cup {Current}
           /\ Live(v) \subseteq Live(u)
           /\ u.wait_cansend_port[Current] = port
           /\ \A t \in Pid \ {Current} :
                  u.wait_cansend_port[t] = sched.wait_cansend_port[t]
<1>1. port \in Int /\ SLEEP_INFINITE \in Nat
  BY SchedulerAssumption DEF PortNo, INVALID_PORT
<1>2. /\ next_pid_value \in 2 .. MaxPid /\ now \in Nat /\ Current \in Pid
      /\ v.wait_cansend_port \in [Pid -> Int]
  BY Basics, SchedParts
<1>3. /\ u \in SchedState /\ QueuesOK(u, next_pid_value) /\ Placed(u)
      /\ Sleeping(u) \subseteq Sleeping(v) \cup {v.current_task}
      /\ Live(v) \subseteq Live(u)
      /\ u.wait_cansend_port = [v.wait_cansend_port EXCEPT ![v.current_task] = port]
  BY <1>1, <1>2, BlockFacts
<1> QED
  BY <1>2, <1>3

(* The same for a task that waits for no port in particular, with a name   *)
(* for the state it leaves behind.                                         *)
LEMMA CurrentSleeps ==
    ASSUME IInv, Current # idle_task,
           NEW v \in SchedState, QueuesOK(v, next_pid_value), Placed(v),
           v.current_task = Current, v.wait_cansend_port = sched.wait_cansend_port,
           NEW u, u = task_block(v, INVALID_PORT, SLEEP_INFINITE, now)
    PROVE  /\ u \in SchedState /\ QueuesOK(u, next_pid_value) /\ Placed(u)
           /\ Sleeping(u) \subseteq Sleeping(v) \cup {Current}
           /\ \A t \in Pid \ {Current} :
                  u.wait_cansend_port[t] = sched.wait_cansend_port[t]
<1>1. INVALID_PORT \in PortNo \cup {INVALID_PORT}
  OBVIOUS
<1> QED
  BY <1>1, CurrentBlocks

LEMMA CallsStep ==
    ASSUME IInv, receiver' = receiver,
           \A t \in Pid : \/ call'[t] = call[t]
                          \/ call'[t].op \in {"user", "sleep"}
                          \/ call'[t].op \in {"opening", "sent"} /\ call'[t].port \in PortNo
                          \/ call'[t].port \in PortNo /\ receiver[call'[t].port] = t
    PROVE  CallsOK'
BY DEF IInv, CallsOK

(* A step after which no more tasks sleep than before, each in the call it *)
(* was in, on the same ports.                                              *)
LEMMA QuietSleepers ==
    ASSUME IInv, queue' = queue,
           Sleeping(sched') \subseteq Sleeping(sched),
           \A t \in Sleeping(sched) :
               /\ call'[t] = call[t]
               /\ sched'.wait_cansend_port[t] = sched.wait_cansend_port[t]
    PROVE  WaitsOK' /\ NoLostMessageWakeup' /\ BlockedSenderHasMessage' /\ NoSenderLeftWaiting'
<1>1. WaitsOK'
  BY DEF IInv, WaitsOK
<1>2. NoLostMessageWakeup'
  BY DEF IInv, NoLostMessageWakeup, list_empty
<1>3. BlockedSenderHasMessage'
  BY DEF IInv, BlockedSenderHasMessage
<1>4. NoSenderLeftWaiting'
  BY DEF IInv, NoSenderLeftWaiting
<1> QED
  BY <1>1, <1>2, <1>3, <1>4

(* A step on which the current task may fall asleep, not as a sender.      *)
LEMMA BlockingSleepers ==
    ASSUME IInv, UNCHANGED <<receiver, queue>>,
           Sleeping(sched') \subseteq Sleeping(sched) \cup {Current},
           \A t \in Pid \ {Current} :
               /\ call'[t] = call[t]
               /\ sched'.wait_cansend_port[t] = sched.wait_cansend_port[t],
           NEW op, NEW port, call'[Current].op = op, call'[Current].port = port,
           op # "sent",
           op \in {"recv", "wait"} => list_empty(queue[port]),
           op = "opening" => /\ sched'.wait_cansend_port[Current] = port
                             /\ port \in PortNo /\ ~port_get(port),
           op = "recv" => \A t \in Sleeping(sched') \ {Current} :
                              sched.wait_cansend_port[t] # port
    PROVE  WaitsOK' /\ NoLostMessageWakeup' /\ BlockedSenderHasMessage' /\ NoSenderLeftWaiting'
<1>1. \A t \in Sleeping(sched') : t # Current =>
          /\ t \in Sleeping(sched) /\ t \in Pid
          /\ call'[t] = call[t]
          /\ sched'.wait_cansend_port[t] = sched.wait_cansend_port[t]
  BY Basics
<1>2. WaitsOK'
  BY <1>1 DEF IInv, WaitsOK
<1>3. NoLostMessageWakeup'
  BY <1>1 DEF IInv, NoLostMessageWakeup, list_empty
<1>4. BlockedSenderHasMessage'
  BY <1>1 DEF IInv, BlockedSenderHasMessage
<1>5. NoSenderLeftWaiting'
  <2> SUFFICES ASSUME NEW t \in Sleeping(sched'), NEW r \in Sleeping(sched'),
                      call'[t].op = "opening", call'[r].op = "recv",
                      call'[t].port = call'[r].port
               PROVE  FALSE
    BY DEF NoSenderLeftWaiting
  <2>1. CASE t # Current /\ r # Current
    BY <1>1, <2>1 DEF IInv, NoSenderLeftWaiting
  <2>2. CASE t = Current
    <3>1. r # Current /\ r \in Pid /\ call[r].op = "recv" /\ call[r].port = port
      BY <1>1, <2>2
    <3>2. receiver[port] = r
      BY <3>1 DEF IInv, CallsOK
    <3>3. r # INVALID_PID
      BY <3>1, SchedulerAssumption DEF Pid, INVALID_PID
    <3> QED
      BY <2>2, <3>2, <3>3 DEF port_get
  <2>3. CASE r = Current /\ t # Current
    <3>1. t \in Sleeping(sched) /\ call[t].op = "opening" /\ call[t].port = port
      BY <1>1, <2>3
    <3>2. sched.wait_cansend_port[t] = port
      BY <3>1 DEF IInv, WaitsOK
    <3> QED
      BY <2>3, <3>2
  <2> QED
    BY <2>1, <2>2, <2>3
<1> QED
  BY <1>2, <1>3, <1>4, <1>5

(* The parts of IInv that speak of the port table only. *)
LEMMA SamePorts ==
    ASSUME IInv, UNCHANGED portVars, SchedTypeOK'
    PROVE  TypeOK' /\ PortsOK'
BY DEF IInv, TypeOK, PortsOK, portVars, port_get
-----------------------------------------------------------------------------
(* One lemma per action. *)

LEMMA YieldStep ==
    ASSUME IInv, syscall_yield, UNCHANGED portVars
    PROVE  IInv'
<1> DEFINE v == [sched EXCEPT !.ready_queue = list_append(@, Current)]
           u == task_switch_next(v, now)
<1>1. /\ Current \notin Queued(sched) /\ Current # idle_task /\ Current < next_pid_value
      /\ Switch(u) /\ UNCHANGED <<next_pid_value, now, call>>
  BY Basics DEF syscall_yield, Calling, Placed, QueuesOK, Current
<1>2. /\ v \in SchedState /\ QueuesOK(v, next_pid_value)
      /\ Sleeping(v) = Sleeping(sched)
      /\ v.wait_cansend_port = sched.wait_cansend_port
  BY <1>1, Basics, ReadyAppendFacts
<1> HIDE DEF v
<1>3. /\ u \in SchedState /\ QueuesOK(u, next_pid_value) /\ Placed(u)
      /\ Sleeping(u) \subseteq Sleeping(sched)
      /\ u.wait_cansend_port = sched.wait_cansend_port
  <2>1. next_pid_value \in 2 .. MaxPid /\ now \in Nat
    BY Basics
  <2>2. /\ u \in SchedState /\ QueuesOK(u, next_pid_value) /\ Placed(u)
        /\ Sleeping(u) = Sleeping(v) \ {u.current_task}
        /\ u.wait_cansend_port = v.wait_cansend_port
    BY <1>2, <2>1, SwitchNextFacts
  <2> HIDE DEF u
  <2> QED
    BY <1>2, <2>2
<1> HIDE DEF u
<1>4. SchedTypeOK' /\ OneQueuePerTask' /\ ChecksFailOnlyOnWrap'
  BY <1>1, <1>3, Basics, SwitchStep
<1>5. sched' = u /\ UNCHANGED <<receiver, queue>>
  BY <1>1 DEF Switch, portVars
<1>6. CallsOK'
  BY <1>1, <1>5, CallsStep
<1>7. WaitsOK' /\ NoLostMessageWakeup' /\ BlockedSenderHasMessage' /\ NoSenderLeftWaiting'
  BY <1>1, <1>3, <1>5, QuietSleepers
<1> QED
  BY <1>4, <1>6, <1>7, SamePorts DEF IInv

LEMMA ExitStep ==
    ASSUME IInv, syscall_exit, UNCHANGED portVars
    PROVE  IInv'
<1> DEFINE v == [sched EXCEPT !.exited_queue = list_append(@, Current)]
           u == task_switch_next(v, now)
<1>1. /\ Current \notin Queued(sched) /\ Current # idle_task /\ Current < next_pid_value
      /\ Switch(u) /\ UNCHANGED <<next_pid_value, now, call>>
  BY Basics DEF syscall_exit, Calling, Placed, QueuesOK, Current
<1>2. /\ v \in SchedState /\ QueuesOK(v, next_pid_value)
      /\ Sleeping(v) = Sleeping(sched)
      /\ v.wait_cansend_port = sched.wait_cansend_port
  BY <1>1, Basics, ExitedAppendFacts
<1> HIDE DEF v
<1>3. /\ u \in SchedState /\ QueuesOK(u, next_pid_value) /\ Placed(u)
      /\ Sleeping(u) \subseteq Sleeping(sched)
      /\ u.wait_cansend_port = sched.wait_cansend_port
  <2>1. next_pid_value \in 2 .. MaxPid /\ now \in Nat
    BY Basics
  <2>2. /\ u \in SchedState /\ QueuesOK(u, next_pid_value) /\ Placed(u)
        /\ Sleeping(u) = Sleeping(v) \ {u.current_task}
        /\ u.wait_cansend_port = v.wait_cansend_port
    BY <1>2, <2>1, SwitchNextFacts
  <2> HIDE DEF u
  <2> QED
    BY <1>2, <2>2
<1> HIDE DEF u
<1>4. SchedTypeOK' /\ OneQueuePerTask' /\ ChecksFailOnlyOnWrap'
  BY <1>1, <1>3, Basics, SwitchStep
<1>5. sched' = u /\ UNCHANGED <<receiver, queue>>
  BY <1>1 DEF Switch, portVars
<1>6. CallsOK'
  BY <1>1, <1>5, CallsStep
<1>7. WaitsOK' /\ NoLostMessageWakeup' /\ BlockedSenderHasMessage' /\ NoSenderLeftWaiting'
  BY <1>1, <1>3, <1>5, QuietSleepers
<1> QED
  BY <1>4, <1>6, <1>7, SamePorts DEF IInv

(* Steps that touch neither the queues nor the calls: halting, and the     *)
(* clock.                                                                  *)
LEMMA IdleStep ==
    ASSUME IInv, UNCHANGED <<sched, next_pid_value, call, portVars>>,
           now' \in 0 .. Horizon, halted' \in Halts, halted' = "check" => halted = "check"
    PROVE  IInv'
<1>1. call' \in [Pid -> Calls] /\ UNCHANGED <<sched, next_pid_value, call>>
      /\ UNCHANGED <<receiver, queue>> /\ UNCHANGED portVars
  BY Basics DEF portVars
<1>2. SchedTypeOK' /\ OneQueuePerTask' /\ ChecksFailOnlyOnWrap'
  BY <1>1, SameQueuesStep
<1>3. CallsOK'
  BY <1>1, CallsStep
<1>4. WaitsOK' /\ NoLostMessageWakeup' /\ BlockedSenderHasMessage' /\ NoSenderLeftWaiting'
  BY <1>1, QuietSleepers
<1> QED
  BY <1>1, <1>2, <1>3, <1>4, SamePorts DEF IInv

LEMMA ForkStep ==
    ASSUME IInv, syscall_fork, UNCHANGED portVars
    PROVE  IInv'
<1>1. CASE next_pid_value = MaxPid /\ Halt("pid")
  BY <1>1, Basics, IdleStep DEF Halt, Halts
<1>2. CASE /\ next_pid_value < MaxPid
           /\ sched' = [sched EXCEPT !.ready_queue = list_append(@, next_pid_value)]
           /\ next_pid_value' = next_pid_value + 1
           /\ UNCHANGED <<now, call, halted>>
  <2> DEFINE n == next_pid_value + 1
  <2>1. /\ next_pid_value \in Pid /\ n \in 2 .. MaxPid /\ n \in Nat /\ next_pid_value < n
        /\ next_pid_value # idle_task
    BY <1>2, Basics, SchedulerAssumption DEF Pid, idle_task
  <2>2. \A x \in 0 .. next_pid_value - 1 : x \in 0 .. n - 1 /\ x # next_pid_value
    BY Basics
  <2>3. QueuesOK(sched, n) /\ next_pid_value \notin Queued(sched) /\ Current # next_pid_value
    BY <2>2, Basics DEF QueuesOK, Current
  <2> HIDE DEF n
  <2>4. /\ sched' \in SchedState
        /\ QueuesOK(sched', n)
        /\ Ready(sched') = Ready(sched) \cup {next_pid_value}
        /\ Sleeping(sched') = Sleeping(sched)
        /\ Exited(sched') = Exited(sched)
        /\ sched'.current_task = sched.current_task
        /\ sched'.wait_cansend_port = sched.wait_cansend_port
    BY <1>2, <2>1, <2>3, Basics, ReadyAppendFacts
  <2>5. Placed(sched')
    BY <2>3, <2>4, Basics DEF Placed, Queued, Current
  <2>6. SchedTypeOK' /\ OneQueuePerTask'
    BY <1>2, <2>1, <2>4, <2>5, Basics DEF SchedTypeOK, OneQueuePerTask, n
  <2>7. ChecksFailOnlyOnWrap'
    <3>1. halted = "no"
      BY DEF syscall_fork, Calling
    <3> QED
      BY <1>2, <3>1 DEF ChecksFailOnlyOnWrap
  <2>8. UNCHANGED <<receiver, queue>>
    BY DEF portVars
  <2>9. CallsOK'
    BY <1>2, <2>8, CallsStep
  <2>10. WaitsOK' /\ NoLostMessageWakeup' /\ BlockedSenderHasMessage' /\ NoSenderLeftWaiting'
    BY <1>2, <2>4, <2>8, QuietSleepers
  <2> QED
    BY <2>6, <2>7, <2>9, <2>10, SamePorts DEF IInv
<1> QED
  BY <1>1, <1>2 DEF syscall_fork

LEMMA TimerTickStep ==
    ASSUME IInv, timer_tick, UNCHANGED portVars
    PROVE  IInv'
<1>1. now' \in 0 .. Horizon
  BY Basics, SchedulerAssumption DEF timer_tick
<1> QED
  BY <1>1, Basics, IdleStep DEF timer_tick

LEMMA SchedulerTimerStep ==
    ASSUME IInv, scheduler_timer, UNCHANGED portVars
    PROVE  IInv'
<1> DEFINE s == Preempted(sched)
           ts == Tick(now)
           u == task_switch_next(s, ts)
<1>1. /\ ts \in 0 .. Horizon /\ ts \in Nat
      /\ now' = ts /\ UNCHANGED <<next_pid_value, call>>
      /\ UNCHANGED <<receiver, queue>>
      /\ halted = "no"
  BY Basics, SchedulerAssumption DEF scheduler_timer, Tick, Interruptible, portVars
<1>2. /\ s \in SchedState /\ QueuesOK(s, next_pid_value)
      /\ Sleeping(s) = Sleeping(sched)
      /\ s.current_task = Current
      /\ s.wait_cansend_port = sched.wait_cansend_port
      /\ Ready(s) \subseteq Ready(sched) \cup {Current}
      /\ Live(sched) \subseteq Ready(s) \cup Sleeping(s)
  BY Basics, PreemptedFacts DEF Current
<1> HIDE DEF s, ts
<1>3. CallsOK'
  BY <1>1, CallsStep
<1>4. CASE /\ ~scheduler_perform_checks(sched)
           /\ halted' = "check"
           /\ UNCHANGED sched
  <2>1. next_pid_value \in Nat /\ PidBits \in Nat
    BY Basics, SchedulerAssumption
  <2>2. ~(next_pid_value <= PidBits)
    BY <1>4, <2>1, Basics, ChecksHold
  <2>3. ChecksFailOnlyOnWrap'
    BY <1>1, <2>1, <2>2 DEF ChecksFailOnlyOnWrap
  <2>4. SchedTypeOK' /\ OneQueuePerTask'
    BY <1>1, <1>4, Basics DEF SchedTypeOK, OneQueuePerTask, Halts
  <2>5. WaitsOK' /\ NoLostMessageWakeup' /\ BlockedSenderHasMessage' /\ NoSenderLeftWaiting'
    BY <1>1, <1>4, QuietSleepers
  <2> QED
    BY <1>3, <2>3, <2>4, <2>5, SamePorts DEF IInv
<1>5. CASE /\ ~moretasks(s)
           /\ halted' = "reboot"
           /\ sched' = s
  <2>1. Ready(s) = {}
    <3>1. s.ready_queue = << >>
      BY <1>5 DEF moretasks, list_empty
    <3> QED
      BY <3>1, EmptyFacts DEF Ready
  <2>2. Placed(s)
    <3>1. Current = idle_task
      <4>1. Current \notin Sleeping(s)
        BY <1>2, Basics
      <4> QED
        BY <1>2, <2>1, <4>1 DEF Live, Current
    <3> QED
      BY <1>2, <3>1 DEF Placed, QueuesOK
  <2>3. SchedTypeOK' /\ OneQueuePerTask' /\ ChecksFailOnlyOnWrap'
    BY <1>1, <1>2, <1>5, <2>2, Basics
    DEF SchedTypeOK, OneQueuePerTask, ChecksFailOnlyOnWrap, Halts
  <2>4. WaitsOK' /\ NoLostMessageWakeup' /\ BlockedSenderHasMessage' /\ NoSenderLeftWaiting'
    BY <1>1, <1>2, <1>5, QuietSleepers
  <2> QED
    BY <1>3, <2>3, <2>4, SamePorts DEF IInv
<1>6. CASE Switch(u)
  <2>1. /\ u \in SchedState /\ QueuesOK(u, next_pid_value) /\ Placed(u)
        /\ Sleeping(u) \subseteq Sleeping(sched)
        /\ u.wait_cansend_port = sched.wait_cansend_port
    BY <1>1, <1>2, Basics, SwitchNextFacts
  <2> HIDE DEF u
  <2>2. SchedTypeOK' /\ OneQueuePerTask' /\ ChecksFailOnlyOnWrap'
    BY <1>1, <1>6, <2>1, Basics, SwitchStep
  <2>3. sched' = u
    BY <1>6 DEF Switch
  <2>4. WaitsOK' /\ NoLostMessageWakeup' /\ BlockedSenderHasMessage' /\ NoSenderLeftWaiting'
    BY <1>1, <2>1, <2>3, QuietSleepers
  <2> QED
    BY <1>3, <2>2, <2>4, SamePorts DEF IInv
<1> QED
  BY <1>4, <1>5, <1>6 DEF scheduler_timer, s, ts

(* sleep, and the other calls that block without touching a port's queue.  *)
LEMMA SleepStep ==
    ASSUME IInv, NEW millis \in SleepTimes, syscall_sleep(millis), UNCHANGED portVars
    PROVE  IInv'
<1> DEFINE u == task_block(sched, INVALID_PORT, millis, now)
<1>1. /\ Current # idle_task /\ Switch(u) /\ UNCHANGED <<next_pid_value, now>>
      /\ Enter("sleep", INVALID_PORT, millis, NoMsg)
      /\ UNCHANGED <<receiver, queue>>
  BY DEF syscall_sleep, Calling, portVars
<1>2. /\ u \in SchedState /\ QueuesOK(u, next_pid_value) /\ Placed(u)
      /\ Sleeping(u) \subseteq Sleeping(sched) \cup {Current}
      /\ u.wait_cansend_port = [sched.wait_cansend_port EXCEPT ![Current] = INVALID_PORT]
  <2>1. millis \in Nat /\ INVALID_PORT \in Int
    BY SchedulerAssumption DEF INVALID_PORT
  <2> QED
    BY <1>1, <2>1, Basics, BlockFacts DEF Current
<1> HIDE DEF u
<1>3. /\ call' \in [Pid -> Calls]
      /\ call'[Current].op = "sleep"
      /\ \A t \in Pid \ {Current} : call'[t] = call[t]
  <2>1. "sleep" \in CallOps /\ millis \in Amounts
    BY DEF CallOps, Amounts
  <2> QED
    BY <1>1, <2>1, EnterFacts
<1>4. SchedTypeOK' /\ OneQueuePerTask' /\ ChecksFailOnlyOnWrap'
  BY <1>1, <1>2, <1>3, Basics, SwitchStep
<1>5. sched' = u
  BY <1>1 DEF Switch
<1>6. CallsOK'
  BY <1>1, <1>3, CallsStep
<1>7. \A t \in Pid \ {Current} : sched'.wait_cansend_port[t] = sched.wait_cansend_port[t]
  BY <1>2, <1>5, Basics, SchedParts
<1>8. WaitsOK' /\ NoLostMessageWakeup' /\ BlockedSenderHasMessage' /\ NoSenderLeftWaiting'
  BY <1>1, <1>2, <1>3, <1>5, <1>7, BlockingSleepers
<1> QED
  BY <1>4, <1>6, <1>8, SamePorts DEF IInv

(* A call that returns without touching queues or ports. *)
LEMMA ReturnStep ==
    ASSUME IInv, Return, UNCHANGED <<sched, next_pid_value, now, halted, portVars>>
    PROVE  IInv'
<1>1. UNCHANGED portVars /\ UNCHANGED <<receiver, queue>>
      /\ UNCHANGED <<sched, next_pid_value, now, halted>>
  BY DEF portVars
<1>2. /\ call' \in [Pid -> Calls]
      /\ call'[Current].op = "user"
      /\ \A t \in Pid \ {Current} : call'[t] = call[t]
  BY ReturnFacts
<1>3. SchedTypeOK' /\ OneQueuePerTask' /\ ChecksFailOnlyOnWrap'
  BY <1>1, <1>2, Basics, SameQueuesStep
<1>4. CallsOK'
  BY <1>1, <1>2, CallsStep
<1>5. \A t \in Sleeping(sched) : call'[t] = call[t]
  BY <1>2, Basics
<1>6. WaitsOK' /\ NoLostMessageWakeup' /\ BlockedSenderHasMessage' /\ NoSenderLeftWaiting'
  BY <1>1, <1>5, QuietSleepers
<1> QED
  BY <1>1, <1>3, <1>4, <1>6, SamePorts DEF IInv

(* msgsend waits for a port that is not open: nobody can be receiving on   *)
(* it.                                                                     *)
LEMMA AwaitOpenStep ==
    ASSUME IInv, Current # idle_task, NEW p \in PortNo, NEW len \in Amounts,
           await_open(p, len)
    PROVE  IInv'
<1> DEFINE u == task_block(sched, p, SLEEP_INFINITE, now)
<1>1. /\ Switch(u) /\ UNCHANGED <<next_pid_value, now>>
      /\ Enter("opening", p, len, NoMsg) /\ ~port_get(p)
      /\ UNCHANGED <<receiver, queue>> /\ UNCHANGED portVars
  BY DEF await_open, portVars
<1>2. /\ u \in SchedState /\ QueuesOK(u, next_pid_value) /\ Placed(u)
      /\ Sleeping(u) \subseteq Sleeping(sched) \cup {Current}
      /\ \A t \in Pid \ {Current} : u.wait_cansend_port[t] = sched.wait_cansend_port[t]
      /\ u.wait_cansend_port[Current] = p
  <2>1. /\ sched \in SchedState /\ QueuesOK(sched, next_pid_value) /\ Placed(sched)
        /\ p \in PortNo \cup {INVALID_PORT}
    BY Basics, Zenon
  <2>2. sched.current_task = Current
    BY Zenon DEF Current
  <2>3. u = task_block(sched, p, SLEEP_INFINITE, now)
    BY Zenon
  <2> HIDE DEF u
  <2> QED
    BY <2>1, <2>2, <2>3, CurrentBlocks
<1> HIDE DEF u
<1>3. /\ call' \in [Pid -> Calls]
      /\ call'[Current].op = "opening" /\ call'[Current].port = p
      /\ \A t \in Pid \ {Current} : call'[t] = call[t]
  <2>1. "opening" \in CallOps
    BY DEF CallOps
  <2> QED
    BY <1>1, <2>1, EnterFacts
<1>4. SchedTypeOK' /\ OneQueuePerTask' /\ ChecksFailOnlyOnWrap'
  BY <1>1, <1>2, <1>3, Basics, SwitchStep
<1>5. sched' = u
  BY <1>1 DEF Switch
<1>6. CallsOK'
  BY <1>1, <1>3, CallsStep
<1>7. /\ \A t \in Pid \ {Current} : sched'.wait_cansend_port[t] = sched.wait_cansend_port[t]
      /\ sched'.wait_cansend_port[Current] = p
  BY <1>2, <1>5
<1>8. WaitsOK' /\ NoLostMessageWakeup' /\ BlockedSenderHasMessage' /\ NoSenderLeftWaiting'
  BY <1>1, <1>2, <1>3, <1>5, <1>7, BlockingSleepers
<1> QED
  BY <1>1, <1>4, <1>6, <1>8, SamePorts DEF IInv

(* msgrecv finds nothing: after wake_tasks_waiting_for_port nobody is      *)
(* asleep waiting to send to the port.                                     *)
LEMMA AwaitMessageStep ==
    ASSUME IInv, Current # idle_task, NEW p \in PortNo, NEW size \in Amounts,
           receiver[p] = Current, await_message(p, size)
    PROVE  IInv'
<1> DEFINE v == wake_tasks_waiting_for_port(sched, p)
           u == task_block(v, INVALID_PORT, SLEEP_INFINITE, now)
<1>1. /\ Switch(u) /\ UNCHANGED <<next_pid_value, now>>
      /\ Enter("recv", p, size, NoMsg) /\ list_empty(queue[p])
      /\ UNCHANGED <<receiver, queue>> /\ UNCHANGED portVars
  BY DEF await_message, portVars
<1>2. /\ v \in SchedState /\ QueuesOK(v, next_pid_value) /\ Placed(v)
      /\ Sleeping(v) = {t \in Sleeping(sched) : sched.wait_cansend_port[t] # p}
      /\ v.current_task = Current
      /\ v.wait_cansend_port = sched.wait_cansend_port
  BY Basics, WakePortFacts DEF Current
<1>u. u = task_block(v, INVALID_PORT, SLEEP_INFINITE, now)
  OBVIOUS
<1> HIDE DEF v, u
<1>3. /\ u \in SchedState /\ QueuesOK(u, next_pid_value) /\ Placed(u)
      /\ Sleeping(u) \subseteq Sleeping(v) \cup {Current}
      /\ \A t \in Pid \ {Current} : u.wait_cansend_port[t] = sched.wait_cansend_port[t]
  BY <1>2, <1>u, CurrentSleeps
<1>4. /\ call' \in [Pid -> Calls]
      /\ call'[Current].op = "recv" /\ call'[Current].port = p
      /\ \A t \in Pid \ {Current} : call'[t] = call[t]
  <2>1. "recv" \in CallOps
    BY DEF CallOps
  <2> QED
    BY <1>1, <2>1, EnterFacts
<1>5. SchedTypeOK' /\ OneQueuePerTask' /\ ChecksFailOnlyOnWrap'
  BY <1>1, <1>3, <1>4, Basics, SwitchStep
<1>6. sched' = u
  BY <1>1 DEF Switch
<1>7. CallsOK'
  BY <1>1, <1>4, CallsStep
<1>8. \A t \in Pid \ {Current} : sched'.wait_cansend_port[t] = sched.wait_cansend_port[t]
  BY <1>3, <1>6
<1>9. /\ Sleeping(sched') \subseteq Sleeping(sched) \cup {Current}
      /\ \A t \in Sleeping(sched') \ {Current} : sched.wait_cansend_port[t] # p
  BY <1>2, <1>3, <1>6
<1>10. WaitsOK' /\ NoLostMessageWakeup' /\ BlockedSenderHasMessage' /\ NoSenderLeftWaiting'
  BY <1>1, <1>4, <1>8, <1>9, BlockingSleepers
<1> QED
  BY <1>1, <1>5, <1>7, <1>10, SamePorts DEF IInv

LEMMA WaitMessageStep ==
    ASSUME IInv, Current # idle_task, NEW p \in PortNo, receiver[p] = Current, wait_message(p)
    PROVE  IInv'
<1> DEFINE u == task_block(sched, INVALID_PORT, SLEEP_INFINITE, now)
<1>1. CASE /\ list_empty(queue[p])
           /\ Enter("wait", p, 0, NoMsg)
           /\ Switch(u)
           /\ UNCHANGED <<next_pid_value, now, portVars>>
  <2>1. UNCHANGED <<receiver, queue>> /\ UNCHANGED portVars /\ UNCHANGED <<next_pid_value, now>>
    BY <1>1 DEF portVars
  <2>u. u = task_block(sched, INVALID_PORT, SLEEP_INFINITE, now)
    OBVIOUS
  <2> HIDE DEF u
  <2>2. /\ u \in SchedState /\ QueuesOK(u, next_pid_value) /\ Placed(u)
        /\ Sleeping(u) \subseteq Sleeping(sched) \cup {Current}
        /\ \A t \in Pid \ {Current} : u.wait_cansend_port[t] = sched.wait_cansend_port[t]
    BY <2>u, Basics, CurrentSleeps DEF Current
  <2>3. /\ call' \in [Pid -> Calls]
        /\ call'[Current].op = "wait" /\ call'[Current].port = p
        /\ \A t \in Pid \ {Current} : call'[t] = call[t]
    <3>1. "wait" \in CallOps /\ 0 \in Amounts
      BY DEF CallOps, Amounts
    <3> QED
      BY <1>1, <3>1, EnterFacts
  <2>4. SchedTypeOK' /\ OneQueuePerTask' /\ ChecksFailOnlyOnWrap'
    BY <1>1, <2>1, <2>2, <2>3, Basics, SwitchStep
  <2>5. sched' = u
    BY <1>1 DEF Switch
  <2>6. CallsOK'
    BY <2>1, <2>3, CallsStep
  <2>7. \A t \in Pid \ {Current} : sched'.wait_cansend_port[t] = sched.wait_cansend_port[t]
    BY <2>2, <2>5
  <2>8. WaitsOK' /\ NoLostMessageWakeup' /\ BlockedSenderHasMessage' /\ NoSenderLeftWaiting'
    BY <1>1, <2>1, <2>2, <2>3, <2>5, <2>7, BlockingSleepers
  <2> QED
    BY <2>1, <2>4, <2>6, <2>8, SamePorts DEF IInv
<1>2. CASE Return /\ UNCHANGED <<sched, next_pid_value, now, halted, portVars>>
  BY <1>2, ReturnStep
<1> QED
  BY <1>1, <1>2 DEF wait_message

(* A port number that is handed out was not open, so nobody is blocked     *)
(* receiving on it and its queue is empty already.                         *)
LEMMA OpenedStep ==
    ASSUME IInv, NEW p \in PortNo, ~port_get(p), Opened(p), PortsOK',
           reserved_ports' \subseteq ReservedPort,
           next_port_value' \in FirstDynamicPort .. MaxPort
    PROVE  IInv'
<1>1. /\ receiver' = [receiver EXCEPT ![p] = Current]
      /\ UNCHANGED <<sched, next_pid_value, now, call, halted>>
  BY DEF Opened, schedVars
<1>2. queue' = queue
  BY Basics DEF Opened, IInv, PortsOK
<1>3. SchedTypeOK' /\ OneQueuePerTask' /\ ChecksFailOnlyOnWrap'
  BY <1>1, Basics, SameQueuesStep
<1>4. TypeOK'
  BY <1>1, <1>2, <1>3, Basics DEF TypeOK
<1>5. CallsOK'
  <2> SUFFICES ASSUME NEW t \in Pid, call[t].op \in {"recv", "wait"}
               PROVE  receiver'[call[t].port] = t
    BY <1>1 DEF IInv, CallsOK
  <2>1. receiver[call[t].port] = t /\ call[t].port \in PortNo
    BY DEF IInv, CallsOK
  <2>2. t # INVALID_PID
    BY SchedulerAssumption DEF Pid, INVALID_PID
  <2>3. call[t].port # p
    BY <2>1, <2>2 DEF port_get
  <2> QED
    BY <1>1, <2>1, <2>3, Basics
<1>6. WaitsOK' /\ NoLostMessageWakeup' /\ BlockedSenderHasMessage' /\ NoSenderLeftWaiting'
  BY <1>1, <1>2, QuietSleepers
<1> QED
  BY <1>3, <1>4, <1>5, <1>6 DEF IInv

LEMMA PortOpenAnyStep ==
    ASSUME IInv, syscall_portopen_any
    PROVE  IInv'
<1> DEFINE p == next_port_value
<1>1. /\ p < MaxPort /\ Opened(p) /\ next_port_value' = p + 1
      /\ reserved_ports' = reserved_ports
  BY DEF syscall_portopen_any
<1>2. /\ FirstDynamicPort \in 0 .. MaxPort /\ MaxPort \in Nat
      /\ p \in FirstDynamicPort .. MaxPort
      /\ reserved_ports \subseteq ReservedPort
  BY SchedulerAssumption, IpcAssumption DEF IInv, TypeOK
<1>3. p \in PortNo /\ p + 1 \in FirstDynamicPort .. MaxPort
  BY <1>1, <1>2 DEF PortNo
<1>4. p \notin reserved_ports /\ p \notin FirstDynamicPort .. p - 1
  BY <1>2 DEF ReservedPort
<1>5. ~port_get(p)
  BY <1>3, <1>4 DEF IInv, PortsOK
<1>6. /\ receiver' = [receiver EXCEPT ![p] = Current]
      /\ queue' = [queue EXCEPT ![p] = << >>]
  BY <1>1 DEF Opened
<1>7. PortsOK'
  <2>1. Current # INVALID_PID
    BY Basics, SchedulerAssumption DEF Pid, INVALID_PID
  <2>2. ASSUME NEW o \in PortNo, o # p
        PROVE  o \in FirstDynamicPort .. (p + 1) - 1 <=> o \in FirstDynamicPort .. p - 1
    BY <1>2, <2>2 DEF PortNo
  <2>3. p \in FirstDynamicPort .. (p + 1) - 1
    BY <1>2
  <2> HIDE DEF p
  <2> QED
    BY <1>1, <1>3, <1>6, <2>1, <2>2, <2>3, Basics DEF IInv, PortsOK, port_get, p
<1> HIDE DEF p
<1> QED
  BY <1>1, <1>2, <1>3, <1>5, <1>7, OpenedStep

LEMMA PortOpenStep ==
    ASSUME IInv, NEW p \in ReservedPort, syscall_portopen(p)
    PROVE  IInv'
<1>1. /\ p \notin reserved_ports /\ Opened(p) /\ next_port_value' = next_port_value
      /\ reserved_ports' = reserved_ports \cup {p}
  BY DEF syscall_portopen
<1>2. /\ FirstDynamicPort \in 0 .. MaxPort /\ MaxPort \in Nat
      /\ next_port_value \in FirstDynamicPort .. MaxPort
      /\ reserved_ports \subseteq ReservedPort
  BY SchedulerAssumption, IpcAssumption DEF IInv, TypeOK
<1>3. p \in PortNo /\ p \notin FirstDynamicPort .. next_port_value - 1
  BY <1>2 DEF PortNo, ReservedPort
<1>4. ~port_get(p)
  BY <1>1, <1>3 DEF IInv, PortsOK
<1>5. /\ receiver' = [receiver EXCEPT ![p] = Current]
      /\ queue' = [queue EXCEPT ![p] = << >>]
  BY <1>1 DEF Opened
<1>6. PortsOK'
  <2>1. Current # INVALID_PID
    BY Basics, SchedulerAssumption DEF Pid, INVALID_PID
  <2> QED
    BY <1>1, <1>3, <1>5, <2>1, Basics DEF IInv, PortsOK, port_get
<1>7. reserved_ports' \subseteq ReservedPort
  BY <1>1, <1>2
<1> QED
  BY <1>1, <1>2, <1>3, <1>4, <1>6, <1>7, OpenedStep

(* A message appended to an open port's queue keeps the port table, and no *)
(* message that was queued is lost.                                        *)
LEMMA AppendedPorts ==
    ASSUME IInv, NEW p \in PortNo, port_get(p), NEW m \in Messages,
           queue' = [queue EXCEPT ![p] = list_append(@, m)],
           UNCHANGED <<receiver, reserved_ports, next_port_value>>, SchedTypeOK'
    PROVE  /\ TypeOK' /\ PortsOK'
           /\ Range(queue'[p]) = Range(queue[p]) \cup {m}
           /\ \A o \in PortNo \ {p} : queue'[o] = queue[o]
<1>1. queue[p] \in Seq(Messages)
  BY Basics
<1>2. /\ list_append(queue[p], m) \in Seq(Messages)
      /\ Range(list_append(queue[p], m)) = Range(queue[p]) \cup {m}
  BY <1>1, AppendFacts
<1>3. /\ queue'[p] = list_append(queue[p], m)
      /\ \A o \in PortNo \ {p} : queue'[o] = queue[o]
      /\ queue' \in [PortNo -> Seq(Messages)]
  BY <1>2, Basics
<1>4. TypeOK'
  BY <1>3 DEF IInv, TypeOK
<1>5. PortsOK'
  BY <1>3 DEF IInv, PortsOK, port_get
<1> QED
  BY <1>2, <1>3, <1>4, <1>5

(* msgsend queues its message: the receiver does not sleep on, and the     *)
(* sender falls asleep with its message in the queue.                      *)
LEMMA EnqueueStep ==
    ASSUME IInv, Current # idle_task, NEW p \in PortNo, NEW len \in Amounts, enqueue(p, len)
    PROVE  IInv'
<1>1. PICK m \in MsgIds \ Allocated :
          /\ queue' = [queue EXCEPT ![p] =
                          list_append(@, [id |-> m, sender |-> Current, len |-> len])]
          /\ \/ /\ task_get(sched, receiver[p])
                /\ Enter("sent", p, len, m)
                /\ Switch(task_block(task_wake(sched, receiver[p]),
                                     INVALID_PORT, SLEEP_INFINITE, now))
                /\ UNCHANGED <<next_pid_value, now>>
             \/ /\ ~task_get(sched, receiver[p])
                /\ Halt("wake")
  BY DEF enqueue
<1> DEFINE msg == [id |-> m, sender |-> Current, len |-> len]
           r == receiver[p]
<1>2. /\ port_get(p) /\ UNCHANGED <<receiver, reserved_ports, next_port_value>>
      /\ receiver' = receiver
  BY DEF enqueue
<1>3. msg \in Messages /\ msg.sender = Current /\ msg.id = m
  BY Basics DEF Messages
<1>4. r \in Pid
  BY <1>2, Basics DEF port_get
<1>5. queue' = [queue EXCEPT ![p] = list_append(@, msg)]
  BY <1>1
<1> HIDE DEF msg, r
<1>6. ASSUME NEW t \in Sleeping(sched), t # r, call[t].op \in {"recv", "wait"}
      PROVE  call[t].port \in PortNo \ {p}
  BY <1>6, Basics DEF IInv, CallsOK, r
<1>7. CASE /\ Enter("sent", p, len, m)
           /\ Switch(task_block(task_wake(sched, r), INVALID_PORT, SLEEP_INFINITE, now))
           /\ UNCHANGED <<next_pid_value, now>>
  <2> DEFINE v == task_wake(sched, r)
             u == task_block(v, INVALID_PORT, SLEEP_INFINITE, now)
  <2>1. /\ v \in SchedState /\ QueuesOK(v, next_pid_value) /\ Placed(v)
        /\ Sleeping(v) = Sleeping(sched) \ {r}
        /\ v.current_task = Current
        /\ v.wait_cansend_port = sched.wait_cansend_port
    BY <1>4, Basics, WakeFacts DEF Current
  <2>2. Switch(u) /\ Enter("sent", p, len, m) /\ UNCHANGED <<next_pid_value, now>>
    BY <1>7
  <2>u. u = task_block(v, INVALID_PORT, SLEEP_INFINITE, now)
    OBVIOUS
  <2> HIDE DEF v, u
  <2>3. /\ u \in SchedState /\ QueuesOK(u, next_pid_value) /\ Placed(u)
        /\ Sleeping(u) \subseteq Sleeping(v) \cup {Current}
        /\ \A t \in Pid \ {Current} : u.wait_cansend_port[t] = sched.wait_cansend_port[t]
    BY <2>1, <2>u, CurrentSleeps
  <2>4. /\ call' \in [Pid -> Calls]
        /\ call'[Current].op = "sent" /\ call'[Current].port = p /\ call'[Current].msg = m
        /\ \A t \in Pid \ {Current} : call'[t] = call[t]
    <3>1. "sent" \in CallOps
      BY DEF CallOps
    <3> QED
      BY <2>2, <3>1, EnterFacts
  <2>5. SchedTypeOK' /\ OneQueuePerTask' /\ ChecksFailOnlyOnWrap'
    BY <2>2, <2>3, <2>4, Basics, SwitchStep
  <2>6. sched' = u
    BY <2>2 DEF Switch
  <2>7. /\ TypeOK' /\ PortsOK'
        /\ Range(queue'[p]) = Range(queue[p]) \cup {msg}
        /\ \A o \in PortNo \ {p} : queue'[o] = queue[o]
    BY <1>2, <1>3, <1>5, <2>5, AppendedPorts
  <2>8. CallsOK'
    BY <1>2, <2>4, CallsStep
  <2>9. ASSUME NEW t \in Sleeping(sched'), t # Current
        PROVE  /\ t \in Sleeping(sched) /\ t # r /\ t \in Pid /\ call'[t] = call[t]
               /\ sched'.wait_cansend_port[t] = sched.wait_cansend_port[t]
    BY <2>1, <2>3, <2>4, <2>6, <2>9, Basics
  <2>10. WaitsOK'
    BY <2>4, <2>9 DEF IInv, WaitsOK
  <2>11. NoLostMessageWakeup'
    <3> SUFFICES ASSUME NEW t \in Sleeping(sched'), call'[t].op \in {"recv", "wait"}
                 PROVE  list_empty(queue'[call'[t].port])
      BY DEF NoLostMessageWakeup, list_empty
    <3>1. t # Current
      BY <2>4
    <3>2. t \in Sleeping(sched) /\ t # r /\ call'[t] = call[t]
      BY <2>9, <3>1
    <3>3. list_empty(queue[call[t].port])
      BY <3>2 DEF IInv, NoLostMessageWakeup
    <3>4. queue'[call[t].port] = queue[call[t].port]
      BY <1>6, <2>7, <3>2
    <3> QED
      BY <3>2, <3>3, <3>4 DEF list_empty
  <2>12. BlockedSenderHasMessage'
    <3> SUFFICES ASSUME NEW t \in Sleeping(sched'), call'[t].op = "sent"
                 PROVE  \E x \in Range(queue'[call'[t].port]) :
                            x.sender = t /\ x.id = call'[t].msg
      BY DEF BlockedSenderHasMessage
    <3>1. CASE t = Current
      BY <1>3, <2>4, <2>7, <3>1
    <3>2. CASE t # Current
      <4>1. t \in Sleeping(sched) /\ t \in Pid /\ call'[t] = call[t]
        BY <2>9, <3>2
      <4>2. call[t].port \in PortNo
        BY <4>1 DEF IInv, CallsOK
      <4>3. Range(queue[call[t].port]) \subseteq Range(queue'[call[t].port])
        BY <2>7, <4>2
      <4> QED
        BY <4>1, <4>3 DEF IInv, BlockedSenderHasMessage
    <3> QED
      BY <3>1, <3>2
  <2>13. NoSenderLeftWaiting'
    BY <2>4, <2>9 DEF IInv, NoSenderLeftWaiting
  <2> QED
    BY <2>5, <2>7, <2>8, <2>10, <2>11, <2>12, <2>13 DEF IInv
<1>8. CASE ~task_get(sched, r) /\ Halt("wake")
  <2>1. UNCHANGED <<sched, next_pid_value, now, call>> /\ halted' = "wake"
    BY <1>8 DEF Halt
  <2>2. r \notin Sleeping(sched)
    BY <1>8 DEF task_get
  <2>3. SchedTypeOK' /\ OneQueuePerTask' /\ ChecksFailOnlyOnWrap'
    BY <2>1, Basics, SameQueuesStep DEF Halts
  <2>4. /\ TypeOK' /\ PortsOK'
        /\ Range(queue'[p]) = Range(queue[p]) \cup {msg}
        /\ \A o \in PortNo \ {p} : queue'[o] = queue[o]
    BY <1>2, <1>3, <1>5, <2>3, AppendedPorts
  <2>5. CallsOK'
    BY <1>2, <2>1, CallsStep
  <2>6. WaitsOK' /\ NoSenderLeftWaiting'
    BY <2>1 DEF IInv, WaitsOK, NoSenderLeftWaiting
  <2>7. NoLostMessageWakeup'
    BY <1>6, <2>1, <2>2, <2>4 DEF IInv, NoLostMessageWakeup, list_empty
  <2>8. BlockedSenderHasMessage'
    <3>1. \A t \in Sleeping(sched) : call[t].op = "sent" => call[t].port \in PortNo
      BY Basics DEF IInv, CallsOK
    <3>2. \A o \in PortNo : Range(queue[o]) \subseteq Range(queue'[o])
      BY <2>4
    <3> QED
      BY <2>1, <3>1, <3>2 DEF IInv, BlockedSenderHasMessage
  <2> QED
    BY <2>3, <2>4, <2>5, <2>6, <2>7, <2>8 DEF IInv
<1> QED
  BY <1>1, <1>7, <1>8 DEF r

(* msgrecv takes a message: a sender that sleeps on still has its message  *)
(* in the queue, because the one whose message was taken is awake.         *)
LEMMA DequeueStep ==
    ASSUME IInv, NEW p \in PortNo, NEW size, dequeue(p, size)
    PROVE  IInv'
<1> DEFINE hd == Head(queue[p])
<1>1. /\ queue[p] # << >> /\ queue[p] \in Seq(Messages)
      /\ queue' = [queue EXCEPT ![p] = Tail(@)]
      /\ UNCHANGED <<receiver, reserved_ports, next_port_value>>
  BY Basics DEF dequeue, list_empty
<1>2. \/ /\ sched' = task_wake(sched, hd.sender) /\ Return
         /\ UNCHANGED <<next_pid_value, now, halted>>
      \/ ~task_get(sched, hd.sender) /\ Halt("wake")
  BY DEF dequeue
<1>3. /\ hd \in Messages /\ Tail(queue[p]) \in Seq(Messages)
      /\ Range(queue[p]) = Range(Tail(queue[p])) \cup {hd}
  BY <1>1, TailFacts
<1>4. hd.sender \in Pid
  BY <1>3 DEF Messages
<1> HIDE DEF hd
<1>5. /\ queue'[p] = Tail(queue[p])
      /\ \A o \in PortNo \ {p} : queue'[o] = queue[o]
      /\ queue' \in [PortNo -> Seq(Messages)]
  BY <1>1, <1>3, Basics
<1>6. PortsOK'
  <2>1. port_get(p)
    BY <1>1 DEF IInv, PortsOK
  <2> QED
    BY <1>1, <1>5, <2>1 DEF IInv, PortsOK, port_get
<1>7. SUFFICES ASSUME SchedTypeOK', OneQueuePerTask', ChecksFailOnlyOnWrap', CallsOK',
                      Sleeping(sched') \subseteq Sleeping(sched) \ {hd.sender},
                      \A t \in Sleeping(sched') :
                          /\ call'[t] = call[t]
                          /\ sched'.wait_cansend_port[t] = sched.wait_cansend_port[t]
               PROVE  IInv'
  <2>1. CASE /\ sched' = task_wake(sched, hd.sender) /\ Return
             /\ UNCHANGED <<next_pid_value, now, halted>>
    <3> DEFINE u == task_wake(sched, hd.sender)
    <3>1. /\ u \in SchedState /\ QueuesOK(u, next_pid_value) /\ Placed(u)
          /\ Sleeping(u) = Sleeping(sched) \ {hd.sender}
          /\ u.wait_cansend_port = sched.wait_cansend_port
      BY <1>4, Basics, WakeFacts
    <3>2. sched' = u
      BY <2>1
    <3> HIDE DEF u
    <3>3. /\ call' \in [Pid -> Calls]
          /\ call'[Current].op = "user"
          /\ \A t \in Pid \ {Current} : call'[t] = call[t]
      BY <2>1, ReturnFacts
    <3>4. SchedTypeOK' /\ OneQueuePerTask' /\ ChecksFailOnlyOnWrap'
      BY <2>1, <3>1, <3>2, <3>3, Basics
      DEF IInv, SchedTypeOK, OneQueuePerTask, ChecksFailOnlyOnWrap
    <3>5. CallsOK'
      BY <1>1, <3>3, CallsStep
    <3> QED
      BY <1>7, <3>1, <3>2, <3>3, <3>4, <3>5, Basics
  <2>2. CASE ~task_get(sched, hd.sender) /\ Halt("wake")
    <3>1. UNCHANGED <<sched, next_pid_value, now, call>> /\ halted' = "wake"
      BY <2>2 DEF Halt
    <3>2. hd.sender \notin Sleeping(sched)
      BY <2>2 DEF task_get
    <3>3. SchedTypeOK' /\ OneQueuePerTask' /\ ChecksFailOnlyOnWrap'
      BY <3>1, Basics, SameQueuesStep DEF Halts
    <3>4. CallsOK'
      BY <1>1, <3>1, CallsStep
    <3> QED
      BY <1>7, <3>1, <3>2, <3>3, <3>4
  <2> QED
    BY <1>2, <2>1, <2>2
<1>8. TypeOK'
  BY <1>1, <1>5, <1>7 DEF IInv, TypeOK
<1>9. WaitsOK' /\ NoSenderLeftWaiting'
  BY <1>7 DEF IInv, WaitsOK, NoSenderLeftWaiting
<1>10. \A t \in Sleeping(sched') : call[t].op \in {"recv", "wait", "sent"} =>
           call[t].port \in PortNo
  BY <1>7, Basics DEF IInv, CallsOK
<1>11. NoLostMessageWakeup'
  BY <1>1, <1>5, <1>7, <1>10 DEF IInv, NoLostMessageWakeup, list_empty
<1>12. BlockedSenderHasMessage'
  <2> SUFFICES ASSUME NEW t \in Sleeping(sched'), call'[t].op = "sent"
               PROVE  \E x \in Range(queue'[call'[t].port]) :
                          x.sender = t /\ x.id = call'[t].msg
    BY DEF BlockedSenderHasMessage
  <2>1. t \in Sleeping(sched) /\ t # hd.sender /\ call'[t] = call[t]
    BY <1>7
  <2>2. PICK x \in Range(queue[call[t].port]) : x.sender = t /\ x.id = call[t].msg
    BY <2>1 DEF IInv, BlockedSenderHasMessage
  <2>3. x # hd
    BY <2>1, <2>2
  <2>4. x \in Range(queue'[call[t].port])
    BY <1>3, <1>5, <1>10, <2>1, <2>2, <2>3
  <2> QED
    BY <2>1, <2>2, <2>4
<1> QED
  BY <1>6, <1>7, <1>8, <1>9, <1>11, <1>12 DEF IInv
-----------------------------------------------------------------------------
(* The state the machine boots into. *)
LEMMA StartFacts ==
    /\ scheduler_start \in SchedState
    /\ QueuesOK(scheduler_start, 2) /\ Placed(scheduler_start)
    /\ Sleeping(scheduler_start) = {}
    /\ 2 \in 2 .. MaxPid /\ 0 \in 0 .. Horizon
    /\ InUser \in Calls /\ InUser.op = "user"
    /\ FirstDynamicPort \in FirstDynamicPort .. MaxPort
    /\ FirstDynamicPort .. FirstDynamicPort - 1 = {}
<1>1. /\ 2 \in 2 .. MaxPid /\ 0 \in 0 .. Horizon /\ kernel_task \in Pid
      /\ FirstDynamicPort \in FirstDynamicPort .. MaxPort
      /\ FirstDynamicPort .. FirstDynamicPort - 1 = {}
      /\ kernel_task \in 0 .. 2 - 1 /\ kernel_task # idle_task
  BY SchedulerAssumption, IpcAssumption DEF Pid, kernel_task, idle_task
<1>2. Range(<< >>) = {} /\ IsInjective(<< >>) /\ << >> \in Seq(Pid)
  BY DEF Range, IsInjective
<1>3. /\ scheduler_start.ready_queue = << >> /\ scheduler_start.sleeping_queue = << >>
      /\ scheduler_start.exited_queue = << >> /\ scheduler_start.current_task = kernel_task
  BY DEF scheduler_start
<1>4. Ready(scheduler_start) = {} /\ Sleeping(scheduler_start) = {} /\ Exited(scheduler_start) = {}
  BY <1>2, <1>3 DEF Ready, Sleeping, Exited
<1>5. scheduler_start \in SchedState
  BY <1>1, <1>2 DEF scheduler_start, SchedState
<1>6. QueuesOK(scheduler_start, 2) /\ Placed(scheduler_start)
  BY <1>1, <1>2, <1>3, <1>4 DEF QueuesOK, Placed, Queued
<1>7. InUser \in Calls /\ InUser.op = "user"
  BY DEF InUser, Calls, CallOps, Amounts
<1> QED
  BY <1>1, <1>4, <1>5, <1>6, <1>7

LEMMA InitInv == Init => IInv
<1> SUFFICES ASSUME Init PROVE IInv
  OBVIOUS
<1>1. TypeOK
  BY StartFacts DEF Init, SchedInit, TypeOK, SchedTypeOK, Halts
<1>2. OneQueuePerTask /\ ChecksFailOnlyOnWrap
  BY StartFacts DEF Init, SchedInit, OneQueuePerTask, ChecksFailOnlyOnWrap
<1>3. PortsOK
  BY StartFacts DEF Init, PortsOK, port_get
<1>4. CallsOK
  BY StartFacts DEF Init, SchedInit, CallsOK
<1>5. WaitsOK /\ NoLostMessageWakeup /\ BlockedSenderHasMessage /\ NoSenderLeftWaiting
  BY StartFacts DEF Init, SchedInit, WaitsOK, NoLostMessageWakeup, BlockedSenderHasMessage,
                    NoSenderLeftWaiting
<1> QED
  BY <1>1, <1>2, <1>3, <1>4, <1>5 DEF IInv

LEMMA BootStep ==
    ASSUME boot
    PROVE  IInv'
<1>1. TypeOK'
  BY StartFacts DEF boot, TypeOK, SchedTypeOK, Halts
<1>2. OneQueuePerTask' /\ ChecksFailOnlyOnWrap'
  BY StartFacts DEF boot, OneQueuePerTask, ChecksFailOnlyOnWrap
<1>3. PortsOK'
  BY StartFacts DEF boot, PortsOK, port_get
<1>4. CallsOK'
  BY StartFacts DEF boot, CallsOK
<1>5. WaitsOK' /\ NoLostMessageWakeup' /\ BlockedSenderHasMessage' /\ NoSenderLeftWaiting'
  BY StartFacts DEF boot, WaitsOK, NoLostMessageWakeup, BlockedSenderHasMessage,
                    NoSenderLeftWaiting
<1> QED
  BY <1>1, <1>2, <1>3, <1>4, <1>5 DEF IInv

(* The two handlers that start afresh or go on after a block. *)
LEMMA SendStep ==
    ASSUME IInv, Current # idle_task, NEW p \in PortNo, NEW len \in Amounts, send(p, len)
    PROVE  IInv'
<1>1. CASE await_open(p, len)
  BY <1>1, AwaitOpenStep
<1>2. CASE kmalloc_fails
  <2>1. UNCHANGED <<sched, next_pid_value, now, call, portVars>> /\ halted' = "heap"
    BY <1>2 DEF kmalloc_fails, Halt
  <2> QED
    BY <2>1, Basics, IdleStep DEF Halts
<1>3. CASE enqueue(p, len)
  BY <1>3, EnqueueStep
<1> QED
  BY <1>1, <1>2, <1>3 DEF send

LEMMA ReceiveStep ==
    ASSUME IInv, Current # idle_task, NEW p \in PortNo, NEW size \in Amounts,
           receiver[p] = Current, receive(p, size)
    PROVE  IInv'
<1>1. CASE await_message(p, size)
  BY <1>1, AwaitMessageStep
<1>2. CASE dequeue(p, size)
  BY <1>2, DequeueStep
<1>3. CASE insufficient_buffer(p, size)
  BY <1>3, ReturnStep DEF insufficient_buffer
<1> QED
  BY <1>1, <1>2, <1>3 DEF receive

LEMMA NextInv == IInv /\ [Next]_vars => IInv'
<1> SUFFICES ASSUME IInv, [Next]_vars PROVE IInv'
  OBVIOUS
<1>1. CASE UNCHANGED vars
  <2>1. UNCHANGED <<sched, next_pid_value, now, call, halted>> /\ UNCHANGED portVars
    BY <1>1 DEF vars, portVars
  <2> QED
    BY <2>1, Basics, IdleStep
<1>2. CASE SchedulerCalls
  <2> UNCHANGED portVars
    BY <1>2 DEF SchedulerCalls
  <2>1. CASE syscall_yield
    BY <2>1, YieldStep
  <2>2. CASE syscall_fork
    BY <2>2, ForkStep
  <2>3. CASE syscall_exit
    BY <2>3, ExitStep
  <2>4. CASE \E millis \in SleepTimes : syscall_sleep(millis)
    BY <2>4, SleepStep
  <2> QED
    BY <1>2, <2>1, <2>2, <2>3, <2>4 DEF SchedulerCalls
<1>3. CASE PortCalls
  <2>1. CASE syscall_portopen_any
    BY <2>1, PortOpenAnyStep
  <2>2. CASE \E p \in ReservedPort : syscall_portopen(p)
    BY <2>2, PortOpenStep
  <2>3. CASE \E p \in PortNo, len \in Sizes : syscall_msgsend(p, len)
    BY <2>3, SendStep DEF syscall_msgsend, Calling, Amounts
  <2>4. CASE \E p \in PortNo, size \in Sizes : syscall_msgrecv(p, size)
    BY <2>4, ReceiveStep DEF syscall_msgrecv, Calling, Amounts
  <2>5. CASE \E p \in PortNo : syscall_msgwait(p)
    BY <2>5, WaitMessageStep DEF syscall_msgwait, Calling
  <2> QED
    BY <1>3, <2>1, <2>2, <2>3, <2>4, <2>5 DEF PortCalls
<1>4. CASE Resume
  <2>1. /\ call[Current].size \in Amounts
        /\ call[Current].op \in {"opening", "sent", "recv", "wait"} =>
               call[Current].port \in PortNo
        /\ call[Current].op \in {"recv", "wait"} => receiver[call[Current].port] = Current
    BY Basics DEF IInv, CallsOK, Calls
  <2>2. CASE sleep_resumed /\ UNCHANGED portVars
    BY <2>2, ReturnStep DEF sleep_resumed
  <2>3. CASE msgsend_resumed
    BY <2>1, <2>3, SendStep DEF msgsend_resumed, Resuming
  <2>4. CASE msgsend_returns
    BY <2>4, ReturnStep DEF msgsend_returns
  <2>5. CASE msgrecv_resumed
    BY <2>1, <2>5, ReceiveStep DEF msgrecv_resumed, Resuming
  <2>6. CASE msgwait_resumed
    BY <2>1, <2>6, WaitMessageStep DEF msgwait_resumed, Resuming
  <2> QED
    BY <1>4, <2>2, <2>3, <2>4, <2>5, <2>6 DEF Resume
<1>5. CASE Interrupt
  BY <1>5, TimerTickStep, SchedulerTimerStep DEF Interrupt
<1>6. CASE boot
  BY <1>6, BootStep
<1> QED
  BY <1>1, <1>2, <1>3, <1>4, <1>5, <1>6 DEF Next
-----------------------------------------------------------------------------
(* IInv holds in every reachable state of the scheduler with its ports,    *)
(* whatever the tasks call and wherever the timer interrupts them.         *)
THEOREM Invariance == Spec => []IInv
<1>1. Init => IInv
  BY InitInv
<1>2. IInv /\ [Next]_vars => IInv'
  BY NextInv
<1> QED
  BY <1>1, <1>2, PTL DEF Spec

(* Type correctness of the scheduler's and the ports' state. *)
THEOREM TypeCorrect == Spec => []TypeOK
<1>1. IInv => TypeOK
  BY DEF IInv
<1> QED
  BY <1>1, Invariance, PTL

(* Queue discipline: no operation of scheduler.c or ipc.c leaves a task on *)
(* two queues, twice on one, or queued while it runs.                      *)
THEOREM QueueDiscipline == Spec => []OneQueuePerTask
<1>1. IInv => OneQueuePerTask
  BY DEF IInv
<1> QED
  BY <1>1, Invariance, PTL

(* scheduler_perform_checks stops the machine only after as many tasks     *)
(* were created as an int has bits.                                        *)
THEOREM ChecksAreSafe == Spec => []ChecksFailOnlyOnWrap
<1>1. IInv => ChecksFailOnlyOnWrap
  BY DEF IInv
<1> QED
  BY <1>1, Invariance, PTL

(* No wakeup of a receiver is lost: nobody sleeps in msgrecv or msgwait on *)
(* a port with a message, whatever ran between the look and the sleep.     *)
THEOREM ReceiversAreWoken == Spec => []NoLostMessageWakeup
<1>1. IInv => NoLostMessageWakeup
  BY DEF IInv
<1> QED
  BY <1>1, Invariance, PTL

(* No wakeup of a sender is lost: whoever took its message has woken it.   *)
THEOREM SendersAreWoken == Spec => []BlockedSenderHasMessage
<1>1. IInv => BlockedSenderHasMessage
  BY DEF IInv
<1> QED
  BY <1>1, Invariance, PTL

(* A receiver that falls asleep in msgrecv leaves no sender asleep that    *)
(* waits for its port.                                                     *)
THEOREM WaitingSendersAreWoken == Spec => []NoSenderLeftWaiting
<1>1. IInv => NoSenderLeftWaiting
  BY DEF IInv
<1> QED
  BY <1>1, Invariance, PTL
-----------------------------------------------------------------------------
(* No task is lost.  A switch keeps the tasks of the queues it switches    *)
(* from, so each operation has to queue the task it takes the CPU from.    *)
LEMMA SwitchKeeps ==
    ASSUME NEW s \in SchedState, NEW n \in 2 .. MaxPid, NEW ts \in Nat, QueuesOK(s, n)
    PROVE  (Ready(s) \cup Sleeping(s)) \ {idle_task} \subseteq Live(task_switch_next(s, ts))
BY SwitchNextFacts DEF Live

LEMMA SchedulerCallsKeep ==
    ASSUME IInv, SchedulerCalls, NEW t \in Live(sched)
    PROVE  t \in Live(sched') \/ (t = Current /\ t \in Exited(sched'))
<1>0. t = Current \/ t \in Ready(sched) \/ t \in Sleeping(sched)
  BY DEF Live, Current
<1>1. /\ t # idle_task
      /\ Current \notin Queued(sched) /\ Current < next_pid_value
  <2>1. t # idle_task
    BY DEF Live
  <2>2. Current \notin Queued(sched)
    BY Basics DEF Placed, Current
  <2>3. Current \in 0 .. next_pid_value - 1 /\ next_pid_value \in Nat
    BY Basics DEF QueuesOK, Current
  <2> QED
    BY <2>1, <2>2, <2>3
<1>2. CASE syscall_yield
  <2> DEFINE v == [sched EXCEPT !.ready_queue = list_append(@, Current)]
  <2>1. sched' = task_switch_next(v, now) /\ Current # idle_task
    BY <1>2 DEF syscall_yield, Switch, Calling
  <2>2. /\ v \in SchedState /\ QueuesOK(v, next_pid_value)
        /\ Ready(v) = Ready(sched) \cup {Current} /\ Sleeping(v) = Sleeping(sched)
    BY <1>1, <2>1, Basics, ReadyAppendFacts
  <2> HIDE DEF v
  <2> QED
    BY <1>0, <1>1, <2>1, <2>2, Basics, SwitchKeeps
<1>3. CASE syscall_fork
  <2>1. CASE Halt("pid")
    BY <2>1 DEF Halt
  <2>2. CASE /\ next_pid_value < MaxPid
             /\ sched' = [sched EXCEPT !.ready_queue = list_append(@, next_pid_value)]
    <3>1. next_pid_value \in Pid /\ sched.ready_queue \in Seq(Pid)
      BY <2>2, Basics, SchedParts, SchedulerAssumption DEF Pid
    <3>2. Range(list_append(sched.ready_queue, next_pid_value)) = Ready(sched) \cup {next_pid_value}
      BY <3>1, AppendFacts DEF Ready
    <3>3. /\ sched'.ready_queue = list_append(sched.ready_queue, next_pid_value)
          /\ sched'.sleeping_queue = sched.sleeping_queue
          /\ sched'.current_task = sched.current_task
      BY <2>2, Basics DEF SchedState
    <3> QED
      BY <1>0, <1>1, <3>2, <3>3 DEF Live, Ready, Sleeping, Current
  <2> QED
    BY <1>3, <2>1, <2>2 DEF syscall_fork
<1>4. CASE syscall_exit
  <2> DEFINE v == [sched EXCEPT !.exited_queue = list_append(@, Current)]
             u == task_switch_next(v, now)
  <2>1. sched' = u /\ Current # idle_task
    BY <1>4 DEF syscall_exit, Switch, Calling
  <2>2. /\ v \in SchedState /\ QueuesOK(v, next_pid_value)
        /\ Ready(v) = Ready(sched) /\ Sleeping(v) = Sleeping(sched)
        /\ Exited(v) = Exited(sched) \cup {Current}
    BY <1>1, <2>1, Basics, ExitedAppendFacts
  <2> HIDE DEF v
  <2>3. u.exited_queue = v.exited_queue
    BY <2>2, Basics, SwitchNextFacts
  <2>4. (Ready(v) \cup Sleeping(v)) \ {idle_task} \subseteq Live(u)
    BY <2>2, Basics, SwitchKeeps
  <2> QED
    BY <1>0, <1>1, <2>1, <2>2, <2>3, <2>4 DEF Exited
<1>5. CASE \E millis \in SleepTimes : syscall_sleep(millis)
  <2>1. PICK millis \in SleepTimes : syscall_sleep(millis)
    BY <1>5
  <2>2. /\ sched' = task_block(sched, INVALID_PORT, millis, now) /\ Current # idle_task
        /\ millis \in Nat /\ INVALID_PORT \in Int
    BY <2>1, SchedulerAssumption DEF syscall_sleep, Switch, Calling, INVALID_PORT
  <2> QED
    BY <2>2, Basics, BlockFacts DEF Current
<1> QED
  BY <1>2, <1>3, <1>4, <1>5 DEF SchedulerCalls

LEMMA SendKeeps ==
    ASSUME IInv, Current # idle_task, NEW p \in PortNo, NEW len, send(p, len)
    PROVE  Live(sched) \subseteq Live(sched')
<1>1. CASE await_open(p, len)
  <2>1. sched' = task_block(sched, p, SLEEP_INFINITE, now)
    BY <1>1 DEF await_open, Switch
  <2> QED
    BY <2>1, Basics, CurrentBlocks DEF Current
<1>2. CASE kmalloc_fails
  BY <1>2 DEF kmalloc_fails, Halt
<1>3. CASE enqueue(p, len)
  <2> DEFINE v == task_wake(sched, receiver[p])
  <2>1. CASE Halt("wake")
    BY <2>1 DEF Halt
  <2>2. CASE Switch(task_block(v, INVALID_PORT, SLEEP_INFINITE, now))
    <3>1. receiver[p] \in Pid
      BY <1>3, Basics DEF enqueue, port_get
    <3>2. /\ v \in SchedState /\ QueuesOK(v, next_pid_value) /\ Placed(v)
          /\ Live(v) = Live(sched)
          /\ v.current_task = Current
          /\ v.wait_cansend_port = sched.wait_cansend_port
      BY <3>1, Basics, WakeFacts DEF Current
    <3> HIDE DEF v
    <3>3. sched' = task_block(v, INVALID_PORT, SLEEP_INFINITE, now)
      BY <2>2 DEF Switch
    <3> QED
      BY <3>2, <3>3, CurrentBlocks
  <2> QED
    BY <1>3, <2>1, <2>2 DEF enqueue
<1> QED
  BY <1>1, <1>2, <1>3 DEF send

LEMMA ReceiveKeeps ==
    ASSUME IInv, Current # idle_task, NEW p \in PortNo, NEW size, receive(p, size)
    PROVE  Live(sched) \subseteq Live(sched')
<1>1. CASE await_message(p, size)
  <2> DEFINE v == wake_tasks_waiting_for_port(sched, p)
  <2>1. sched' = task_block(v, INVALID_PORT, SLEEP_INFINITE, now)
    BY <1>1 DEF await_message, Switch
  <2>2. /\ v \in SchedState /\ QueuesOK(v, next_pid_value) /\ Placed(v)
        /\ Live(v) = Live(sched)
        /\ v.current_task = Current
        /\ v.wait_cansend_port = sched.wait_cansend_port
    BY Basics, WakePortFacts DEF Current
  <2> HIDE DEF v
  <2> QED
    BY <2>1, <2>2, CurrentBlocks
<1>2. CASE dequeue(p, size)
  <2>1. CASE Halt("wake")
    BY <2>1 DEF Halt
  <2>2. CASE sched' = task_wake(sched, Head(queue[p]).sender)
    <3>1. Head(queue[p]) \in Messages
      BY <1>2, Basics, TailFacts DEF dequeue, list_empty
    <3>2. Head(queue[p]).sender \in Pid
      BY <3>1 DEF Messages
    <3> QED
      BY <2>2, <3>2, Basics, WakeFacts
  <2> QED
    BY <1>2, <2>1, <2>2 DEF dequeue
<1>3. CASE insufficient_buffer(p, size)
  BY <1>3 DEF insufficient_buffer
<1> QED
  BY <1>1, <1>2, <1>3 DEF receive

LEMMA WaitKeeps ==
    ASSUME IInv, Current # idle_task, NEW p \in PortNo, wait_message(p)
    PROVE  Live(sched) \subseteq Live(sched')
<1>1. CASE Switch(task_block(sched, INVALID_PORT, SLEEP_INFINITE, now))
  <2>1. sched' = task_block(sched, INVALID_PORT, SLEEP_INFINITE, now)
    BY <1>1 DEF Switch
  <2> QED
    BY <2>1, Basics, CurrentBlocks DEF Current
<1> QED
  BY <1>1 DEF wait_message

LEMMA TimerKeeps ==
    ASSUME IInv, scheduler_timer
    PROVE  Live(sched) \subseteq Live(sched')
<1> DEFINE s == Preempted(sched)
           ts == Tick(now)
<1>1. ts \in Nat
  BY Basics DEF Tick
<1>2. /\ s \in SchedState /\ QueuesOK(s, next_pid_value)
      /\ Live(sched) \subseteq Ready(s) \cup Sleeping(s)
  BY Basics, PreemptedFacts
<1>3. \/ sched' = sched \/ sched' = s \/ sched' = task_switch_next(s, ts)
  BY DEF scheduler_timer, Switch
<1> HIDE DEF s, ts
<1>4. Live(sched) \subseteq Live(s)
  BY <1>2 DEF Live
<1>5. Live(sched) \subseteq Live(task_switch_next(s, ts))
  <2>1. Live(sched) \subseteq (Ready(s) \cup Sleeping(s)) \ {idle_task}
    BY <1>2 DEF Live
  <2> QED
    BY <1>1, <1>2, <2>1, Basics, SwitchKeeps
<1> QED
  BY <1>3, <1>4, <1>5

LEMMA NextKeeps ==
    ASSUME IInv, [Next]_vars, ~boot, NEW t \in Live(sched)
    PROVE  t \in Live(sched') \/ (t = Current /\ t \in Exited(sched'))
<1>1. CASE UNCHANGED vars
  BY <1>1 DEF vars
<1>2. CASE SchedulerCalls
  BY <1>2, SchedulerCallsKeep
<1>3. CASE PortCalls
  <2>1. CASE syscall_portopen_any \/ \E p \in ReservedPort : syscall_portopen(p)
    BY <2>1 DEF syscall_portopen_any, syscall_portopen, Opened, schedVars
  <2>2. CASE \E p \in PortNo, len \in Sizes : syscall_msgsend(p, len)
    BY <2>2, SendKeeps DEF syscall_msgsend, Calling
  <2>3. CASE \E p \in PortNo, size \in Sizes : syscall_msgrecv(p, size)
    BY <2>3, ReceiveKeeps DEF syscall_msgrecv, Calling
  <2>4. CASE \E p \in PortNo : syscall_msgwait(p)
    BY <2>4, WaitKeeps DEF syscall_msgwait, Calling
  <2> QED
    BY <1>3, <2>1, <2>2, <2>3, <2>4 DEF PortCalls
<1>4. CASE Resume
  <2>1. call[Current].op \in {"opening", "recv", "wait"} => call[Current].port \in PortNo
    BY Basics DEF IInv, CallsOK
  <2>2. CASE sleep_resumed \/ msgsend_returns
    BY <2>2 DEF sleep_resumed, msgsend_returns
  <2>3. CASE msgsend_resumed
    BY <2>1, <2>3, SendKeeps DEF msgsend_resumed, Resuming
  <2>4. CASE msgrecv_resumed
    BY <2>1, <2>4, ReceiveKeeps DEF msgrecv_resumed, Resuming
  <2>5. CASE msgwait_resumed
    BY <2>1, <2>5, WaitKeeps DEF msgwait_resumed, Resuming
  <2> QED
    BY <1>4, <2>2, <2>3, <2>4, <2>5 DEF Resume
<1>5. CASE Interrupt
  BY <1>5, TimerKeeps DEF Interrupt, timer_tick
<1> QED
  BY <1>1, <1>2, <1>3, <1>4, <1>5 DEF Next

(* The only step that reboots is that of scheduler_timer. *)
LEMMA OnlyTimerReboots ==
    ASSUME [Next]_vars, halted = "no", halted' = "reboot"
    PROVE  scheduler_timer
<1>1. ~ UNCHANGED halted
  OBVIOUS
<1>2. \A s : ~ Switch(s)
  BY DEF Switch
<1>3. ~ Halt("heap") /\ ~ Halt("wake") /\ ~ Halt("pid")
  BY DEF Halt
<1>4. ~ SchedulerCalls
  <2>1. ~ syscall_yield /\ ~ syscall_exit
    BY <1>2 DEF syscall_yield, syscall_exit
  <2>2. ~ syscall_fork
    BY <1>1, <1>3 DEF syscall_fork
  <2>3. \A millis : ~ syscall_sleep(millis)
    BY <1>2 DEF syscall_sleep
  <2> QED
    BY <2>1, <2>2, <2>3 DEF SchedulerCalls
<1>5. ASSUME NEW p, NEW n PROVE ~ send(p, n)
  <2>1. ~ await_open(p, n)
    BY <1>2 DEF await_open
  <2>2. ~ kmalloc_fails
    BY <1>3 DEF kmalloc_fails
  <2>3. ~ enqueue(p, n)
    <3>1. enqueue(p, n) =>
            \/ Switch(task_block(task_wake(sched, receiver[p]), INVALID_PORT, SLEEP_INFINITE, now))
            \/ Halt("wake")
      BY Zenon DEF enqueue
    <3> QED
      BY <1>2, <1>3, <3>1
  <2> QED
    BY <2>1, <2>2, <2>3 DEF send
<1>6. \A p, n : ~ receive(p, n)
  BY <1>1, <1>2, <1>3 DEF receive, await_message, dequeue, insufficient_buffer
<1>7. \A p : ~ wait_message(p)
  BY <1>1, <1>2 DEF wait_message
<1>8. ~ PortCalls
  BY <1>1, <1>5, <1>6, <1>7
  DEF PortCalls, syscall_portopen_any, syscall_portopen, Opened, schedVars,
      syscall_msgsend, syscall_msgrecv, syscall_msgwait
<1>9. ~ Resume
  BY <1>1, <1>5, <1>6, <1>7
  DEF Resume, sleep_resumed, msgsend_resumed, msgsend_returns, msgrecv_resumed, msgwait_resumed
<1>10. ~ boot
  BY DEF boot
<1> QED
  BY <1>1, <1>4, <1>8, <1>9, <1>10 DEF Next, Interrupt, timer_tick, vars

(* It reboots with no task left to run. *)
LEMMA RebootsAsleep ==
    ASSUME IInv, [Next]_vars, halted = "no", halted' = "reboot"
    PROVE  Live(sched) \subseteq Sleeping(sched)
<1> DEFINE s == Preempted(sched)
<1>1. list_empty(s.ready_queue)
  BY OnlyTimerReboots DEF scheduler_timer, moretasks, Switch
<1>2. /\ Live(sched) \subseteq Ready(s) \cup Sleeping(s)
      /\ Sleeping(s) = Sleeping(sched)
  BY Basics, PreemptedFacts
<1>3. Ready(s) = {}
  BY <1>1 DEF list_empty, Ready, Range
<1> QED
  BY <1>2, <1>3

(* A task that is current, ready or asleep stays so until it calls exit    *)
(* itself or the machine boots again, and the scheduler reboots only when  *)
(* all of them are asleep.                                                 *)
THEOREM TasksAreKept == Spec => NoTaskLost
<1> DEFINE Kept == boot \/ \A t \in Live(sched) :
                              t \in Live(sched') \/ (t = Current /\ t \in Exited(sched'))
           Idle == halted = "no" /\ halted' = "reboot" => Live(sched) \subseteq Sleeping(sched)
<1>1. IInv /\ [Next]_vars => [Kept /\ Idle]_vars
  BY NextKeeps, RebootsAsleep
<1> QED
  BY <1>1, Invariance, PTL DEF Spec, NoTaskLost

=============================================================================
