--------------------------- MODULE RtosKernelProofs ---------------------------
(***************************************************************************)
(* Theorems about RtosKernel, for any tasks, priorities, semaphores and    *)
(* calls: sleepers are found and woken in time, no give is lost, no call   *)
(* gives up early.                                                         *)
(***************************************************************************)
EXTENDS RtosKernel, FiniteSetTheorems, FunctionTheorems, SequenceTheorems,
        WellFoundedInduction, TLAPS

(* The lists a task is in while it sleeps, all lists, and the tick counts. *)
Asleep == {"delayed", "overflow", "suspended"}
Lists == Asleep \union {"ready", "terminated", "none"}
Ticks == 0..portMAX_DELAY

(* The values of the kernel's record: the lists, numbers and flags of      *)
(* tasks.c.                                                                *)
Kernel ==
    [current : Tasks, list : [Tasks -> Lists], level : [Tasks -> Nat], top : Nat,
     wake : [Tasks -> Ticks], waiting : [Semaphores -> Seq(Tasks)],
     pending : SUBSET Tasks, tick : Ticks, overflows : Nat, next : Ticks,
     stopped : BOOLEAN, pended : Nat, yield : BOOLEAN,
     prio : [Tasks -> Nat], held : [Tasks -> Int]]

-----------------------------------------------------------------------------
(* Numbers, recursive functions and sequences                              *)

(* Induction over the natural numbers, for a set in place of a predicate.  *)
LEMMA Count ==
  ASSUME NEW S, 0 \in S, \A n \in Nat : n \in S => n + 1 \in S
  PROVE  \A n \in Nat : n \in S
<1>1. SUFFICES ASSUME NEW x \in Nat, x \notin S PROVE FALSE
  OBVIOUS
<1> DEFINE T == {m \in Nat : m \notin S}
<1>2. T \subseteq Nat /\ x \in T
  BY <1>1
<1>3. PICK m \in T : \A k \in T : <<k, m>> \notin OpToRel(<, Nat)
  BY <1>2, WFMin, NatLessThanWellFounded, Zenon
<1>4. \A k \in T : ~(k < m)
  BY <1>2, <1>3, Zenon DEF OpToRel
<1>5. m # 0 /\ m \in Nat /\ m \notin S
  OBVIOUS
<1>6. m - 1 \in Nat /\ m - 1 < m /\ (m - 1) + 1 = m
  BY <1>5
<1>7. m - 1 \in S
  BY <1>4, <1>6
<1> QED
  BY <1>5, <1>6, <1>7

(* The values of a recursive function, one after the other.                *)
Follows(f, N, a, G) == f[0] = a /\ \A i \in 1..N : f[i] = G[<<i, f[i - 1]>>]

(* A function that is defined by its value at 0 and by a step from each    *)
(* value to the next exists, and its values stay where the steps stay.     *)
LEMMA Iterates ==
  ASSUME NEW N \in Nat, NEW X, NEW a \in X, NEW G \in [(1..N) \X X -> X]
  PROVE  \E f \in [0..N -> X] : Follows(f, N, a, G)
<1> DEFINE Good(n) == \E f \in [0..n -> X] :
                         f[0] = a /\ \A i \in 1..n : f[i] = G[<<i, f[i - 1]>>]
<1> DEFINE S == {n \in Nat : n <= N => Good(n)}
<1>1. 0 \in S
  <2> DEFINE f == [i \in 0..0 |-> a]
  <2>1. f \in [0..0 -> X] /\ f[0] = a /\ \A i \in 1..0 : f[i] = G[<<i, f[i - 1]>>]
    OBVIOUS
  <2>2. Good(0)
    BY <2>1
  <2> QED
    BY <2>2
<1>2. ASSUME NEW n \in Nat, n \in S PROVE n + 1 \in S
  <2> SUFFICES ASSUME n + 1 <= N PROVE Good(n + 1)
    OBVIOUS
  <2>1. PICK f \in [0..n -> X] : f[0] = a /\ \A i \in 1..n : f[i] = G[<<i, f[i - 1]>>]
    BY <1>2
  <2> DEFINE g == [i \in 0..n + 1 |-> IF i = n + 1 THEN G[<<n + 1, f[n]>>] ELSE f[i]]
  <2>2. <<n + 1, f[n]>> \in (1..N) \X X
    BY <2>1
  <2>3. g \in [0..n + 1 -> X]
    BY <2>1, <2>2
  <2>4. g[0] = a
    BY <2>1
  <2>5. ASSUME NEW i \in 1..n + 1 PROVE g[i] = G[<<i, g[i - 1]>>]
    <3>1. CASE i = n + 1
      BY <3>1, SMTT(20)
    <3>2. CASE i # n + 1
      BY <2>1, <3>2
    <3> QED
      BY <3>1, <3>2
  <2> QED
    BY <2>3, <2>4, <2>5
<1>3. \A n \in Nat : n \in S => n + 1 \in S
  BY <1>2
<1> HIDE DEF S
<1>4. \A n \in Nat : n \in S
  BY <1>1, <1>3, Count
<1>5. N \in S
  BY <1>4
<1> QED
  BY <1>5 DEF S, Follows

(* A set of natural numbers has a least one, a bounded one a greatest.     *)
LEMMA Least ==
  ASSUME NEW S \in SUBSET Nat, S # {}
  PROVE  Min(S) \in S /\ \A x \in S : Min(S) <= x
<1>1. PICK m \in S : \A k \in S : <<k, m>> \notin OpToRel(<, Nat)
  BY WFMin, NatLessThanWellFounded, Zenon
<1>2. \A k \in S : ~(k < m)
  BY <1>1, Zenon DEF OpToRel
<1>3. \A k \in S : m <= k
  BY <1>2
<1> QED
  BY <1>3 DEF Min

(* A bounded set of natural numbers that is not empty has a greatest       *)
(* element.                                                                *)
LEMMA Greatest ==
  ASSUME NEW N \in Nat, NEW S \in SUBSET (0..N), S # {}
  PROVE  Max(S) \in S /\ \A x \in S : x <= Max(S)
<1> DEFINE T == {n \in Nat : \E x \in S : x = N - n}
<1>1. T \subseteq Nat /\ T # {}
  <2>1. PICK x \in S : TRUE
    OBVIOUS
  <2>2. N - x \in T
    OBVIOUS
  <2> QED
    BY <2>2
<1>2. PICK m \in T : \A k \in T : <<k, m>> \notin OpToRel(<, Nat)
  BY <1>1, WFMin, NatLessThanWellFounded, Zenon
<1>3. \A k \in T : ~(k < m)
  BY <1>1, <1>2, Zenon DEF OpToRel
<1>4. N - m \in S
  OBVIOUS
<1>5. \A x \in S : x <= N - m
  <2> SUFFICES ASSUME NEW x \in S, x > N - m PROVE FALSE
    OBVIOUS
  <2>1. N - x \in T /\ N - x < m
    OBVIOUS
  <2> QED
    BY <1>3, <2>1
<1> QED
  BY <1>4, <1>5 DEF Max

(* There are finitely many tasks: their priorities are bounded.            *)
LEMMA Bounded ==
  ASSUME NEW prio \in [Tasks -> Nat]
  PROVE  \E N \in Nat : \A t \in Tasks : prio[t] <= N
<1>1. IsFiniteSet(Tasks)
  BY KernelAssumption
<1>2. PICK n \in Nat : ExistsSurjection(1..n, Tasks)
  BY <1>1, FS_NatSurjection
<1>3. PICK f \in Surjection(1..n, Tasks) : TRUE
  BY <1>2 DEF ExistsSurjection
<1>4. f \in [1..n -> Tasks] /\ \A t \in Tasks : \E i \in 1..n : f[i] = t
  BY <1>3 DEF Surjection
<1> DEFINE S == {k \in Nat : k <= n => \E N \in Nat : \A i \in 1..k : prio[f[i]] <= N}
<1>5. 0 \in S
  <2>1. \A i \in 1..0 : prio[f[i]] <= 0
    OBVIOUS
  <2> QED
    BY <2>1
<1>6. ASSUME NEW k \in Nat, k \in S PROVE k + 1 \in S
  <2> SUFFICES ASSUME k + 1 <= n PROVE \E N \in Nat : \A i \in 1..(k + 1) : prio[f[i]] <= N
    OBVIOUS
  <2>1. PICK N \in Nat : \A i \in 1..k : prio[f[i]] <= N
    BY <1>6
  <2>2. f[k + 1] \in Tasks /\ prio[f[k + 1]] \in Nat
    BY <1>4
  <2> DEFINE M == N + prio[f[k + 1]]
  <2>3. \A i \in 1..(k + 1) : prio[f[i]] <= M
    <3> TAKE i \in 1..(k + 1)
    <3>1. f[i] \in Tasks
      BY <1>4
    <3>2. CASE i = k + 1
      BY <2>2, <3>2
    <3>3. CASE i # k + 1
      BY <2>1, <2>2, <3>1, <3>3
    <3> QED
      BY <3>2, <3>3
  <2>4. M \in Nat
    BY <2>2
  <2> HIDE DEF M
  <2> QED
    BY <2>3, <2>4
<1>7. \A k \in Nat : k \in S => k + 1 \in S
  BY <1>6
<1> HIDE DEF S
<1>8. \A k \in Nat : k \in S
  BY <1>5, <1>7, Count
<1>9. n \in S
  BY <1>8
<1>10. PICK N \in Nat : \A i \in 1..n : prio[f[i]] <= N
  BY <1>9 DEF S
<1> QED
  BY <1>4, <1>10

(* The tasks in a waiting list, and that none is in it twice.              *)
Elements(q) == {q[i] : i \in 1..Len(q)}
Once(q) == \A i, j \in 1..Len(q) : q[i] = q[j] => i = j

(* vListInsert puts the task behind those of its priority or a higher one. *)
LEMMA Inserted ==
  ASSUME NEW K \in Kernel, NEW q \in Seq(Tasks), NEW t \in Tasks
  PROVE  LET r == vListInsert(K, q, t)
         IN  /\ r \in Seq(Tasks) /\ Len(r) = Len(q) + 1
             /\ \E n \in 0..Len(q) :
                   /\ \A j \in 1..n : r[j] = q[j] /\ K.prio[q[j]] >= K.prio[t]
                   /\ r[n + 1] = t
                   /\ \A j \in (n + 1)..Len(q) : r[j + 1] = q[j]
                   /\ n < Len(q) => K.prio[q[n + 1]] < K.prio[t]
             /\ Elements(r) = Elements(q) \union {t}
             /\ Once(q) /\ t \notin Elements(q) => Once(r)
<1> DEFINE B == {m \in 0..Len(q) : \A j \in 1..m : K.prio[q[j]] >= K.prio[t]}
           n == Max(B)
           r == SubSeq(q, 1, n) \o <<t>> \o SubSeq(q, n + 1, Len(q))
<1>1. Len(q) \in Nat /\ \A j \in 1..Len(q) : q[j] \in Tasks
  OBVIOUS
<1>2. 0 \in B /\ B \in SUBSET (0..Len(q))
  BY <1>1
<1>3. n \in B /\ \A x \in B : x <= n
  BY <1>1, <1>2, Greatest
<1>4. n < Len(q) => K.prio[q[n + 1]] < K.prio[t]
  <2> SUFFICES ASSUME n < Len(q), ~(K.prio[q[n + 1]] < K.prio[t]) PROVE FALSE
    OBVIOUS
  <2> HIDE DEF n
  <2>1. K.prio[q[n + 1]] \in Nat /\ K.prio[t] \in Nat /\ n \in Nat
    BY <1>1, <1>3, SMTT(20) DEF Kernel
  <2>2. \A j \in 1..(n + 1) : K.prio[q[j]] >= K.prio[t]
    <3> TAKE j \in 1..(n + 1)
    <3>1. CASE j = n + 1
      BY <2>1, <3>1
    <3>2. CASE j # n + 1
      BY <1>3, <2>1, <3>2
    <3> QED
      BY <3>1, <3>2
  <2>3. n + 1 \in 0..Len(q) /\ ~(n + 1 <= n)
    BY <1>1, <1>3
  <2> QED
    BY <1>3, <2>2, <2>3
<1>5. n \in 0..Len(q) /\ \A j \in 1..n : K.prio[q[j]] >= K.prio[t]
  BY <1>3
<1> HIDE DEF n
<1> DEFINE u == SubSeq(q, 1, n)
           v == SubSeq(q, n + 1, Len(q))
<1>6. u \in Seq(Tasks) /\ Len(u) = n /\ \A i \in 1..n : u[i] = q[i]
  BY <1>1, <1>5, SubSeqProperties
<1>7. v \in Seq(Tasks) /\ Len(v) = Len(q) - n
      /\ \A i \in 1..(Len(q) - n) : v[i] = q[n + i]
  BY <1>1, <1>5, SubSeqProperties
<1> HIDE DEF u, v
<1>8. <<t>> \in Seq(Tasks) /\ Len(<<t>>) = 1 /\ <<t>>[1] = t
  OBVIOUS
<1> DEFINE w == u \o <<t>>
<1>9. w \in Seq(Tasks) /\ Len(w) = n + 1 /\ w[n + 1] = t /\ \A i \in 1..n : w[i] = q[i]
  BY <1>5, <1>6, <1>8, ConcatProperties
<1> HIDE DEF w
<1> DEFINE x == w \o v
<1>16. Len(w) + Len(v) = Len(q) + 1 /\ Len(w) = n + 1
  BY <1>1, <1>5, <1>7, <1>9
<1>17. /\ x \in Seq(Tasks) /\ Len(x) = Len(w) + Len(v)
       /\ \A i \in 1..(Len(w) + Len(v)) : x[i] = IF i <= Len(w) THEN w[i] ELSE v[i - Len(w)]
  BY <1>7, <1>9, ConcatProperties
<1>10. x \in Seq(Tasks) /\ Len(x) = Len(q) + 1
       /\ \A i \in 1..(Len(q) + 1) : x[i] = IF i <= n + 1 THEN w[i] ELSE v[i - (n + 1)]
  BY <1>16, <1>17
<1> HIDE DEF x
<1>11. vListInsert(K, q, t) = x
  BY DEF vListInsert, n, B, x, w, u, v
<1>12. /\ \A j \in 1..n : x[j] = q[j]
       /\ x[n + 1] = t
       /\ \A j \in (n + 1)..Len(q) : x[j + 1] = q[j]
  <2>1. ASSUME NEW j \in (n + 1)..Len(q) PROVE x[j + 1] = q[j]
    <3>1. x[j + 1] = v[j - n]
      BY <1>1, <1>5, <1>10
    <3>2. j - n \in 1..(Len(q) - n) /\ n + (j - n) = j
      BY <1>1, <1>5
    <3> QED
      BY <1>7, <3>1, <3>2
  <2> QED
    BY <1>1, <1>5, <1>9, <1>10, <2>1
<1>13. Elements(x) = Elements(q) \union {t}
  <2>1. ASSUME NEW i \in 1..(Len(q) + 1) PROVE x[i] \in Elements(q) \union {t}
    <3>1. CASE i <= n
      BY <1>1, <1>5, <1>12, <3>1 DEF Elements
    <3>2. CASE i = n + 1
      BY <1>12, <3>2
    <3>3. CASE i > n + 1
      <4>1. i - 1 \in (n + 1)..Len(q) /\ (i - 1) + 1 = i /\ i - 1 \in 1..Len(q)
        BY <1>1, <1>5, <3>3
      <4> QED
        BY <1>12, <4>1 DEF Elements
    <3> QED
      BY <1>5, <3>1, <3>2, <3>3
  <2>2. ASSUME NEW j \in 1..Len(q) PROVE q[j] \in Elements(x)
    <3>1. CASE j <= n
      BY <1>1, <1>5, <1>10, <1>12, <3>1 DEF Elements
    <3>2. CASE j > n
      <4>1. j \in (n + 1)..Len(q) /\ j + 1 \in 1..Len(x)
        BY <1>1, <1>5, <1>10, <3>2
      <4>2. x[j + 1] = q[j]
        BY <1>12, <4>1
      <4> QED
        BY <4>1, <4>2 DEF Elements
    <3> QED
      BY <1>5, <3>1, <3>2
  <2>3. t \in Elements(x)
    BY <1>1, <1>5, <1>10, <1>12 DEF Elements
  <2> QED
    BY <1>10, <2>1, <2>2, <2>3 DEF Elements
<1>14. ASSUME Once(q), t \notin Elements(q) PROVE Once(x)
  <2> DEFINE at(i) == IF i <= n THEN i ELSE i - 1
  <2>1. ASSUME NEW i \in 1..(Len(q) + 1), i # n + 1
        PROVE  at(i) \in 1..Len(q) /\ x[i] = q[at(i)] /\ x[i] # t
    <3>1. at(i) \in 1..Len(q)
      BY <1>1, <1>5, <2>1
    <3>2. x[i] = q[at(i)]
      <4>1. CASE i <= n
        BY <1>1, <1>5, <1>12, <4>1
      <4>2. CASE i > n
        <5>1. i - 1 \in (n + 1)..Len(q) /\ (i - 1) + 1 = i
          BY <1>1, <1>5, <2>1, <4>2
        <5> QED
          BY <1>5, <1>12, <4>2, <5>1
      <4> QED
        BY <1>5, <4>1, <4>2
    <3> QED
      BY <1>14, <3>1, <3>2 DEF Elements
  <2>2. ASSUME NEW i \in 1..Len(x), NEW j \in 1..Len(x), x[i] = x[j] PROVE i = j
    <3>1. CASE i = n + 1 \/ j = n + 1
      BY <1>10, <1>12, <2>1, <2>2, <3>1
    <3>2. CASE i # n + 1 /\ j # n + 1
      <4>1. at(i) = at(j)
        BY <1>10, <1>14, <2>1, <2>2, <3>2 DEF Once
      <4> QED
        BY <1>1, <1>5, <1>10, <3>2, <4>1
    <3> QED
      BY <3>1, <3>2
  <2> QED
    BY <2>2 DEF Once
<1>15. \E k \in 0..Len(q) :
         /\ \A j \in 1..k : x[j] = q[j] /\ K.prio[q[j]] >= K.prio[t]
         /\ x[k + 1] = t
         /\ \A j \in (k + 1)..Len(q) : x[j + 1] = q[j]
         /\ k < Len(q) => K.prio[q[k + 1]] < K.prio[t]
  BY <1>4, <1>5, <1>12
<1> QED
  BY <1>10, <1>11, <1>13, <1>14, <1>15, Zenon

(* The first of the waiting tasks leaves.                                  *)
LEMMA Beheaded ==
  ASSUME NEW q \in Seq(Tasks), q # <<>>
  PROVE  /\ Tail(q) \in Seq(Tasks) /\ Head(q) \in Tasks /\ Head(q) = q[1]
         /\ Len(q) >= 1 /\ Len(Tail(q)) = Len(q) - 1
         /\ \A i \in 1..Len(Tail(q)) : Tail(q)[i] = q[i + 1]
         /\ Elements(q) = Elements(Tail(q)) \union {Head(q)}
         /\ Once(q) => Once(Tail(q)) /\ Head(q) \notin Elements(Tail(q))
<1> DEFINE r == Tail(q)
<1>1. Len(q) \in Nat \ {0} /\ Head(q) = q[1]
  BY EmptySeq
<1>2. /\ r \in Seq(Tasks) /\ Len(r) = Len(q) - 1 /\ Head(q) \in Tasks
      /\ \A i \in 1..Len(r) : r[i] = q[i + 1]
  BY HeadTailProperties
<1> HIDE DEF r
<1>3. Elements(q) = Elements(r) \union {Head(q)}
  <2>1. ASSUME NEW i \in 1..Len(q) PROVE q[i] \in Elements(r) \union {Head(q)}
    <3>1. CASE i = 1
      BY <1>1, <3>1
    <3>2. CASE i # 1
      <4>1. i - 1 \in 1..Len(r) /\ (i - 1) + 1 = i
        BY <1>1, <1>2, <3>2
      <4> QED
        BY <1>2, <4>1 DEF Elements
    <3> QED
      BY <3>1, <3>2
  <2>2. ASSUME NEW i \in 1..Len(r) PROVE r[i] \in Elements(q)
    BY <1>1, <1>2 DEF Elements
  <2>3. Head(q) \in Elements(q)
    BY <1>1 DEF Elements
  <2> QED
    BY <2>1, <2>2, <2>3 DEF Elements
<1>4. ASSUME Once(q) PROVE Once(r) /\ Head(q) \notin Elements(r)
  <2>1. \A i \in 1..Len(r) : i + 1 \in 1..Len(q) /\ i + 1 # 1
    BY <1>1, <1>2
  <2> QED
    BY <1>1, <1>2, <1>4, <2>1 DEF Once, Elements
<1> QED
  BY <1>1, <1>2, <1>3, <1>4 DEF r

(* The tasks of S leave, the others stay in their order.                   *)
LEMMA LeftOver ==
  ASSUME NEW q \in Seq(Tasks), NEW S
  PROVE  LET r == Without(q, S)
         IN  /\ r \in Seq(Tasks)
             /\ Elements(r) = Elements(q) \ S
             /\ Once(q) => Once(r)
             /\ Elements(q) \intersect S = {} => r = q
<1> DEFINE N == Len(q)
           Step(i, r) == IF q[i] \in S THEN r ELSE Append(r, q[i])
           G == [p \in (1..N) \X Seq(Tasks) |-> Step(p[1], p[2])]
<1>1. N \in Nat /\ \A j \in 1..N : q[j] \in Tasks
  OBVIOUS
<1>2. G \in [(1..N) \X Seq(Tasks) -> Seq(Tasks)]
  BY <1>1
<1>3. <<>> \in Seq(Tasks)
  OBVIOUS
<1> HIDE DEF N
<1>4. PICK f \in [0..N -> Seq(Tasks)] :
         f[0] = <<>> /\ \A i \in 1..N : f[i] = G[<<i, f[i - 1]>>]
  <2> DEFINE X == Seq(Tasks)
             a == <<>>
  <2>1. N \in Nat /\ a \in X /\ G \in [(1..N) \X X -> X]
    BY <1>1, <1>2, <1>3
  <2> HIDE DEF G, X, a
  <2>2. \E f \in [0..N -> X] : Follows(f, N, a, G)
    BY <2>1, Iterates
  <2> QED
    BY <2>2 DEF X, a, Follows
<1>5. \A i \in 1..N : f[i] = Step(i, f[i - 1])
  <2> TAKE i \in 1..N
  <2>1. i - 1 \in 0..N
    BY <1>1
  <2>2. <<i, f[i - 1]>> \in (1..N) \X Seq(Tasks)
    BY <2>1
  <2> QED
    BY <1>4, <2>2
<1> DEFINE Rest(h) == h = [i \in 0..N |-> IF i = 0 THEN <<>>
                                          ELSE IF q[i] \in S THEN h[i - 1]
                                          ELSE Append(h[i - 1], q[i])]
<1>6. Rest(f)
  <2>1. f = [i \in 0..N |-> f[i]]
    BY <1>4
  <2>2. \A i \in 0..N : f[i] = IF i = 0 THEN <<>>
                               ELSE IF q[i] \in S THEN f[i - 1]
                               ELSE Append(f[i - 1], q[i])
    <3> TAKE i \in 0..N
    <3>1. CASE i = 0
      BY <1>4, <3>1
    <3>2. CASE i # 0
      <4>1. i \in 1..N
        BY <1>1, <3>2
      <4> QED
        BY <1>5, <3>2, <4>1
    <3> QED
      BY <3>1, <3>2
  <2> QED
    BY <2>1, <2>2, Zenon
<1> DEFINE g == CHOOSE h : Rest(h)
<1>7. Rest(g)
  <2> HIDE DEF Rest
  <2> QED
    BY <1>6
<1>8. Without(q, S) = g[N]
  BY DEF Without, N
<1> HIDE DEF g
<1>9. g[0] = <<>> /\ \A i \in 1..N : g[i] = Step(i, g[i - 1])
  <2>1. \A i \in 0..N : g[i] = IF i = 0 THEN <<>>
                               ELSE IF q[i] \in S THEN g[i - 1]
                               ELSE Append(g[i - 1], q[i])
    BY <1>7, Zenon
  <2>2. 0 \in 0..N /\ \A i \in 1..N : i \in 0..N /\ i # 0
    BY <1>1
  <2> QED
    BY <2>1, <2>2, Zenon
<1> DEFINE Kept(n) == {q[j] : j \in 1..n} \ S
           Good(n) == /\ g[n] \in Seq(Tasks)
                      /\ Elements(g[n]) = Kept(n)
                      /\ Once(q) => Once(g[n])
                      /\ Elements(q) \intersect S = {} =>
                            Len(g[n]) = n /\ \A j \in 1..n : g[n][j] = q[j]
           T == {n \in Nat : n <= N => Good(n)}
<1>10. 0 \in T
  <2>1. Good(0)
    BY <1>9 DEF Elements, Once
  <2> QED
    BY <2>1
<1>11. ASSUME NEW n \in Nat, n \in T PROVE n + 1 \in T
  <2> SUFFICES ASSUME n + 1 <= N PROVE Good(n + 1)
    OBVIOUS
  <2>1. Good(n) /\ n + 1 \in 1..N /\ q[n + 1] \in Tasks
    BY <1>1, <1>11
  <2>2. g[n + 1] = Step(n + 1, g[n])
    BY <1>9, <2>1
  <2>3. {q[j] : j \in 1..(n + 1)} = {q[j] : j \in 1..n} \union {q[n + 1]}
    OBVIOUS
  <2>4. CASE q[n + 1] \in S
    <3>1. Elements(q) \intersect S # {}
      BY <2>1, <2>4 DEF Elements, N
    <3> QED
      BY <2>1, <2>2, <2>3, <2>4, <3>1
  <2>5. CASE q[n + 1] \notin S
    <3> DEFINE r == g[n]
               x == Append(r, q[n + 1])
    <3>1. /\ x \in Seq(Tasks) /\ Len(x) = Len(r) + 1 /\ Len(r) \in Nat
          /\ \A j \in 1..Len(r) : x[j] = r[j]
          /\ x[Len(r) + 1] = q[n + 1]
      BY <2>1
    <3>2. g[n + 1] = x
      BY <2>2, <2>5
    <3> HIDE DEF x
    <3>3. Elements(x) = Elements(r) \union {q[n + 1]}
      <4>1. ASSUME NEW j \in 1..Len(x) PROVE x[j] \in Elements(r) \union {q[n + 1]}
        <5>1. CASE j = Len(r) + 1
          BY <3>1, <5>1
        <5>2. CASE j # Len(r) + 1
          BY <3>1, <5>2, SMTT(20) DEF Elements
        <5> QED
          BY <5>1, <5>2
      <4>2. ASSUME NEW j \in 1..Len(r) PROVE r[j] \in Elements(x)
        <5>1. j \in 1..Len(x) /\ x[j] = r[j]
          BY <3>1
        <5> QED
          BY <5>1 DEF Elements
      <4>3. q[n + 1] \in Elements(x)
        BY <3>1 DEF Elements
      <4> QED
        BY <4>1, <4>2, <4>3 DEF Elements
    <3>4. ASSUME Once(q) PROVE Once(x)
      <4>1. q[n + 1] \notin Elements(r)
        BY <1>1, <2>1, <3>4 DEF Once, N
      <4>2. Once(r)
        BY <2>1, <3>4
      <4>3. \A j \in 1..Len(r) : x[j] # q[n + 1]
        BY <3>1, <4>1 DEF Elements
      <4> SUFFICES ASSUME NEW i \in 1..Len(x), NEW j \in 1..Len(x), x[i] = x[j] PROVE i = j
        BY DEF Once
      <4>4. i \in 1..Len(r) \/ i = Len(r) + 1
        BY <3>1
      <4>5. j \in 1..Len(r) \/ j = Len(r) + 1
        BY <3>1
      <4> QED
        BY <3>1, <4>2, <4>3, <4>4, <4>5 DEF Once
    <3>5. ASSUME Elements(q) \intersect S = {}
          PROVE  Len(x) = n + 1 /\ \A j \in 1..(n + 1) : x[j] = q[j]
      BY <2>1, <3>1, <3>5
    <3>6. Elements(x) = Kept(n + 1)
      BY <2>1, <2>3, <2>5, <3>3
    <3> QED
      BY <3>1, <3>2, <3>4, <3>5, <3>6
  <2> QED
    BY <2>4, <2>5
<1>12. \A n \in Nat : n \in T => n + 1 \in T
  BY <1>11
<1>13. N \in T
  <2> HIDE DEF T
  <2>1. \A n \in Nat : n \in T
    BY <1>10, <1>12, Count
  <2> QED
    BY <1>1, <2>1
<1>14. Good(N)
  BY <1>1, <1>13
<1>15. Kept(N) = Elements(q) \ S
  BY DEF Elements, N
<1>16. ASSUME Elements(q) \intersect S = {} PROVE g[N] = q
  <2>1. Len(g[N]) = Len(q) /\ \A j \in 1..Len(g[N]) : g[N][j] = q[j]
    BY <1>14, <1>16 DEF N
  <2> QED
    BY <1>14, <2>1, SeqEqual
<1> QED
  BY <1>8, <1>14, <1>15, <1>16

-----------------------------------------------------------------------------
(* What the functions of tasks.c do to the kernel's data                   *)

(* uxTopReadyPriority grows to the priority of every task made ready.      *)
LEMMA GrownTop ==
  ASSUME NEW n \in Nat, NEW prio \in [Tasks -> Nat], NEW S \in SUBSET Tasks
  PROVE  LET top == Max({n} \union {prio[t] : t \in S})
         IN  top \in Nat /\ top >= n /\ \A t \in S : prio[t] <= top
<1>1. PICK N \in Nat : \A t \in Tasks : prio[t] <= N
  BY Bounded
<1> DEFINE P == {n} \union {prio[t] : t \in S}
<1>2. P \in SUBSET (0..(n + N)) /\ P # {} /\ n + N \in Nat
  BY <1>1
<1>3. Max(P) \in P /\ \A x \in P : x <= Max(P)
  BY <1>2, Greatest
<1>4. \A x \in P : x \in Nat
  BY <1>2
<1> HIDE DEF P
<1>5. n \in P /\ \A t \in S : prio[t] \in P
  BY DEF P
<1>6. Max(P) \in Nat /\ Max(P) >= n /\ \A t \in S : prio[t] <= Max(P)
  BY <1>3, <1>4, <1>5
<1> QED
  BY <1>6 DEF P

(* What neither the tick nor the ready lists are about.                    *)
Kept(K, R) ==
  /\ R.current = K.current /\ R.prio = K.prio /\ R.held = K.held /\ R.wake = K.wake
  /\ R.stopped = K.stopped /\ R.pending = K.pending /\ R.pended = K.pended

(* prvAddTaskToReadyList puts each task in the list of its priority.       *)
LEMMA MadeReady ==
  ASSUME NEW K \in Kernel, NEW S \in SUBSET Tasks
  PROVE  LET R == prvAddTaskToReadyList(K, S)
         IN  /\ R \in Kernel
             /\ Kept(K, R) /\ R.waiting = K.waiting /\ R.tick = K.tick
             /\ R.overflows = K.overflows /\ R.next = K.next /\ R.yield = K.yield
             /\ \A t \in S : /\ R.list[t] = "ready" /\ R.level[t] = K.prio[t]
                             /\ K.prio[t] <= R.top
             /\ \A t \in Tasks \ S : R.list[t] = K.list[t] /\ R.level[t] = K.level[t]
             /\ R.top >= K.top
<1> DEFINE top == Max({K.top} \union {K.prio[t] : t \in S})
<1>1. top \in Nat /\ top >= K.top /\ \A t \in S : K.prio[t] <= top
  BY GrownTop DEF Kernel
<1> HIDE DEF top
<1> DEFINE R == [K EXCEPT !.list  = [t \in Tasks |-> IF t \in S THEN "ready" ELSE @[t]],
                          !.level = [t \in Tasks |-> IF t \in S THEN K.prio[t] ELSE @[t]],
                          !.top   = top]
<1>2. prvAddTaskToReadyList(K, S) = R
  BY DEF prvAddTaskToReadyList, top, Kernel
<1>3. R \in Kernel
  BY <1>1 DEF Kernel, Lists
<1>4. /\ Kept(K, R) /\ R.waiting = K.waiting /\ R.tick = K.tick
      /\ R.overflows = K.overflows /\ R.next = K.next /\ R.yield = K.yield
  BY DEF Kernel, Kept
<1>5. /\ \A t \in S : R.list[t] = "ready" /\ R.level[t] = K.prio[t] /\ K.prio[t] <= R.top
      /\ \A t \in Tasks \ S : R.list[t] = K.list[t] /\ R.level[t] = K.level[t]
      /\ R.top >= K.top
  BY <1>1 DEF Kernel
<1> QED
  BY <1>2, <1>3, <1>4, <1>5

(* Lowest is a tick count, no later than a wake time of the set, and one   *)
(* of them unless the set is empty.                                        *)
LEMMA LowestWake ==
  ASSUME NEW K \in Kernel, NEW S \in SUBSET Tasks
  PROVE  /\ Lowest(K, S) \in Ticks
         /\ \A t \in S : Lowest(K, S) <= K.wake[t]
         /\ (S = {} /\ Lowest(K, S) = portMAX_DELAY) \/ \E t \in S : Lowest(K, S) = K.wake[t]
<1>1. CASE S = {}
  BY <1>1, KernelAssumption DEF Lowest, Ticks, portMAX_DELAY
<1>2. CASE S # {}
  <2> DEFINE W == {K.wake[t] : t \in S}
  <2>0. Ticks \subseteq Nat
    BY KernelAssumption DEF Ticks, portMAX_DELAY
  <2>5. W # {} /\ W \subseteq Ticks
    BY <1>2 DEF Kernel
  <2>1. W \in SUBSET Nat /\ W # {} /\ W \subseteq Ticks
    BY <2>0, <2>5
  <2>2. Min(W) \in W /\ \A x \in W : Min(W) <= x
    <3> HIDE DEF W
    <3> QED
      BY <2>1, Least
  <2> DEFINE m == Min(W)
  <2>3. m \in W /\ \A t \in S : m <= K.wake[t]
    <3>1. \A t \in S : K.wake[t] \in W
      OBVIOUS
    <3> HIDE DEF W
    <3> QED
      BY <2>2, <3>1
  <2>4. Lowest(K, S) = m
    BY <1>2 DEF Lowest
  <2> HIDE DEF m
  <2> QED
    BY <2>1, <2>3, <2>4
<1> QED
  BY <1>1, <1>2

(* When the tick count wraps, the two delayed lists are exchanged.         *)
Exchanged(l, wraps) ==
  CASE wraps /\ l = "delayed"  -> "overflow"
    [] wraps /\ l = "overflow" -> "delayed"
    [] OTHER                   -> l

(* The tick count is below TickMod.                                        *)
LEMMA Remainder ==
  ASSUME NEW i \in Int, NEW R \in Nat, i >= -R, i < 2 * R
  PROVE  i % R = IF i < 0 THEN i + R ELSE IF i < R THEN i ELSE i - R
<1>1. CASE i < 0
  <2>1. i = (-1) * R + (i + R) /\ 0 <= i + R /\ i + R < R
    BY <1>1
  <2> QED
    BY <1>1, <2>1
<1>2. CASE 0 <= i /\ i < R
  BY <1>2
<1>3. CASE R <= i
  <2>1. i = 1 * R + (i - R) /\ 0 <= i - R /\ i - R < R
    BY <1>3
  <2> QED
    BY <1>3, <2>1
<1> QED
  BY <1>1, <1>2, <1>3

(* The tick count after i, across the wrap of the count.                   *)
LEMMA Following ==
  ASSUME NEW i \in Ticks
  PROVE  /\ (i + 1) % TickMod = IF i = portMAX_DELAY THEN 0 ELSE i + 1
         /\ (i + 1) % TickMod \in Ticks
<1>1. i \in Nat /\ TickMod \in Nat /\ i + 1 <= TickMod /\ TickMod > 2
  BY KernelAssumption DEF Ticks, portMAX_DELAY
<1>2. (i + 1) % TickMod = IF i + 1 < TickMod THEN i + 1 ELSE (i + 1) - TickMod
  <2>1. i + 1 \in Int /\ i + 1 >= -TickMod /\ i + 1 < 2 * TickMod /\ ~(i + 1 < 0)
    BY <1>1
  <2> DEFINE n == i + 1
  <2> HIDE DEF n
  <2>2. n % TickMod = IF n < 0 THEN n + TickMod ELSE IF n < TickMod THEN n ELSE n - TickMod
    BY <1>1, <2>1, Remainder DEF n
  <2> QED
    BY <2>1, <2>2 DEF n
<1> QED
  BY <1>1, <1>2 DEF Ticks, portMAX_DELAY

(* xTaskIncrementTick, its demand for a switch kept in xYieldPending.      *)
AfterTick(K) ==
  [xTaskIncrementTick(K).kernel EXCEPT !.yield = @ \/ xTaskIncrementTick(K).switch]

(* The tick count the next tick sets.                                      *)
NextTick(K) == (K.tick + 1) % TickMod

(* What a tick may change: it wakes tasks whose time has come and takes    *)
(* them out of the lists of waiting tasks, and no task sleeps beyond       *)
(* xNextTaskUnblockTime.                                                   *)
TickDone(K, R) ==
  LET now == NextTick(K)
      Listed(t) == Exchanged(K.list[t], now = 0)
      Woken == {t \in Tasks : Listed(t) = "delayed" /\ R.list[t] = "ready"}
  IN  /\ Kept(K, R) /\ R.tick = now
      /\ R.overflows = IF now = 0 THEN K.overflows + 1 ELSE K.overflows
      /\ R.top >= K.top
      /\ K.yield => R.yield
      /\ \A t \in Tasks :
            \/ t \notin Woken /\ R.list[t] = Listed(t) /\ R.level[t] = K.level[t]
            \/ /\ t \in Woken /\ K.wake[t] <= now
               /\ R.level[t] = K.prio[t] /\ K.prio[t] <= R.top
               /\ R.yield \/ K.prio[t] < K.prio[K.current]
      /\ now <= R.next
      /\ \/ now # 0 /\ R.next = K.next /\ now < K.next
         \/ \A t \in Tasks : R.list[t] = "delayed" =>
                               now < K.wake[t] /\ R.next <= K.wake[t]
      /\ \A s \in Semaphores :
            /\ Elements(R.waiting[s]) = Elements(K.waiting[s]) \ Woken
            /\ Once(K.waiting[s]) => Once(R.waiting[s])
            /\ Elements(K.waiting[s]) \intersect Woken = {} => R.waiting[s] = K.waiting[s]

(* xTaskIncrementTick, while the scheduler is not suspended, does what     *)
(* TickDone says.                                                          *)
LEMMA TickIsDone ==
  ASSUME NEW K \in Kernel, ~K.stopped
  PROVE  /\ AfterTick(K) \in Kernel /\ TickDone(K, AfterTick(K))
         /\ xTaskIncrementTick(K).kernel \in Kernel
         /\ xTaskIncrementTick(K).kernel.yield = K.yield
         /\ xTaskIncrementTick(K).switch \in BOOLEAN
         /\ K.yield => xTaskIncrementTick(K).switch
<1> DEFINE now == NextTick(K)
           T0 == IF now = 0 THEN taskSWITCH_DELAYED_LISTS(K) ELSE K
           T == [T0 EXCEPT !.tick = now]
           due == {t \in Delayed(T) : T.wake[t] <= now}
           A == prvAddTaskToReadyList(T, due)
           W == [A EXCEPT !.waiting = [s \in Semaphores |-> Without(@[s], due)],
                          !.next = Lowest(A, Delayed(A))]
           next == IF now >= T.next THEN W ELSE T
           woken == IF now >= T.next THEN due ELSE {}
           sw == \/ \E t \in woken : K.prio[t] >= K.prio[K.current]
                 \/ Cardinality(Ready(next, K.prio[K.current])) > 1
                 \/ K.yield
           R == [next EXCEPT !.yield = @ \/ sw]
<1>1. now \in Ticks
  BY Following DEF NextTick, Kernel
<1>2. AfterTick(K) = R
  BY DEF AfterTick, xTaskIncrementTick, NextTick
<1>15. xTaskIncrementTick(K).kernel = next /\ xTaskIncrementTick(K).switch = sw
  BY DEF xTaskIncrementTick, NextTick
<1> HIDE DEF now
<1>3. /\ T \in Kernel
      /\ Kept(K, T) /\ T.tick = now /\ T.yield = K.yield
      /\ T.overflows = IF now = 0 THEN K.overflows + 1 ELSE K.overflows
      /\ T.level = K.level /\ T.top = K.top /\ T.waiting = K.waiting
      /\ \A t \in Tasks : T.list[t] = Exchanged(K.list[t], now = 0)
      /\ \/ now # 0 /\ T.next = K.next
         \/ T.next = Lowest(T, Delayed(T))
  <2>1. CASE now # 0
    BY <1>1, <2>1 DEF Kernel, Exchanged, Kept
  <2>2. CASE now = 0
    <3> DEFINE lists == [t \in Tasks |-> CASE K.list[t] = "delayed"  -> "overflow"
                                          [] K.list[t] = "overflow" -> "delayed"
                                          [] OTHER                  -> K.list[t]]
               S == [K EXCEPT !.list = lists, !.overflows = @ + 1]
    <3>11. lists \in [Tasks -> Lists]
      BY DEF Kernel, Lists, Asleep
    <3>12. \A t \in Tasks : lists[t] = Exchanged(K.list[t], now = 0)
      BY <2>2 DEF Exchanged
    <3>13. taskSWITCH_DELAYED_LISTS(K) = prvResetNextTaskUnblockTime(S)
      BY DEF taskSWITCH_DELAYED_LISTS, Kernel
    <3> HIDE DEF lists
    <3>1. S \in Kernel /\ Delayed(S) \subseteq Tasks
      <4>1. S \in Kernel
        <5>1. K.overflows + 1 \in Nat
          BY DEF Kernel
        <5> QED
          BY <3>11, <5>1 DEF Kernel
      <4>2. Delayed(S) \subseteq Tasks
        BY DEF Delayed
      <4> QED
        BY <4>1, <4>2
    <3>2. Lowest(S, Delayed(S)) \in Ticks
      BY <3>1, LowestWake
    <3> DEFINE low == Lowest(S, Delayed(S))
    <3>3. T = [S EXCEPT !.next = low, !.tick = now]
      BY <2>2, <3>13 DEF prvResetNextTaskUnblockTime
    <3>4. T.list = S.list /\ T.wake = S.wake
      BY <3>3 DEF Kernel
    <3>5. Delayed(T) = Delayed(S) /\ Lowest(T, Delayed(T)) = low
      BY <3>4 DEF Delayed, Lowest
    <3> HIDE DEF low, T
    <3>6. T.next = low
      BY <3>3 DEF Kernel
    <3>7. \A t \in Tasks : T.list[t] = Exchanged(K.list[t], now = 0)
      BY <3>4, <3>12 DEF Kernel
    <3>8. low \in Ticks
      BY <3>2 DEF low
    <3>9. T \in Kernel
      BY <1>1, <3>1, <3>3, <3>8 DEF Kernel
    <3>10. /\ Kept(K, T) /\ T.tick = now /\ T.yield = K.yield
           /\ T.overflows = IF now = 0 THEN K.overflows + 1 ELSE K.overflows
           /\ T.level = K.level /\ T.top = K.top /\ T.waiting = K.waiting
      BY <2>2, <3>3 DEF Kernel, Kept
    <3> QED
      BY <3>5, <3>6, <3>7, <3>9, <3>10
  <2> QED
    BY <2>1, <2>2
<1> HIDE DEF T
<1>4. due \subseteq Tasks /\ \A t \in Tasks :
        t \in due <=> T.list[t] = "delayed" /\ T.wake[t] <= now
  BY DEF Delayed
<1> HIDE DEF due
<1>5. /\ A \in Kernel
      /\ Kept(T, A) /\ A.waiting = T.waiting /\ A.tick = T.tick
      /\ A.overflows = T.overflows /\ A.next = T.next /\ A.yield = T.yield
      /\ \A t \in due : A.list[t] = "ready" /\ A.level[t] = T.prio[t] /\ T.prio[t] <= A.top
      /\ \A t \in Tasks \ due : A.list[t] = T.list[t] /\ A.level[t] = T.level[t]
      /\ A.top >= T.top
  BY <1>3, <1>4, MadeReady
<1> HIDE DEF A
<1> DEFINE low == Lowest(A, Delayed(A))
           queues == [s \in Semaphores |-> Without(A.waiting[s], due)]
<1>6. /\ low \in Ticks
      /\ \A t \in Delayed(A) : low <= A.wake[t]
      /\ low = portMAX_DELAY \/ \E t \in Delayed(A) : low = A.wake[t]
  <2> DEFINE D == Delayed(A)
  <2>1. A \in Kernel /\ D \in SUBSET Tasks
    BY <1>5 DEF Delayed
  <2> HIDE DEF D
  <2>2. /\ Lowest(A, D) \in Ticks
        /\ \A t \in D : Lowest(A, D) <= A.wake[t]
        /\ (D = {} /\ Lowest(A, D) = portMAX_DELAY) \/ \E t \in D : Lowest(A, D) = A.wake[t]
    BY <2>1, LowestWake
  <2> QED
    BY <2>2 DEF D
<1>7. \A t \in Tasks : t \in Delayed(A) <=> A.list[t] = "delayed"
  BY DEF Delayed
<1>8. \A s \in Semaphores :
        /\ queues[s] \in Seq(Tasks)
        /\ Elements(queues[s]) = Elements(A.waiting[s]) \ due
        /\ Once(A.waiting[s]) => Once(queues[s])
        /\ Elements(A.waiting[s]) \intersect due = {} => queues[s] = A.waiting[s]
  <2> TAKE s \in Semaphores
  <2>1. A.waiting[s] \in Seq(Tasks)
    BY <1>5 DEF Kernel
  <2> QED
    BY <2>1, LeftOver
<1>9. W = [A EXCEPT !.waiting = queues, !.next = low]
  BY <1>5 DEF Kernel
<1>10. queues \in [Semaphores -> Seq(Tasks)]
  BY <1>8
<1> HIDE DEF low, queues, W
<1>11. W \in Kernel
  BY <1>5, <1>6, <1>9, <1>10 DEF Kernel
<1>12. sw \in BOOLEAN
  <2>1. K.yield \in BOOLEAN
    BY DEF Kernel
  <2> QED
    BY <2>1
<1>17. K.yield => sw
  OBVIOUS
<1>13. ASSUME now >= T.next PROVE AfterTick(K) \in Kernel /\ TickDone(K, AfterTick(K))
  <2>1. R = [W EXCEPT !.yield = @ \/ sw] /\ woken = due
    BY <1>13
  <2>2. ASSUME NEW t \in due PROVE sw \/ K.prio[t] < K.prio[K.current]
    <3>1. K.prio[t] \in Nat /\ K.prio[K.current] \in Nat
      BY <1>4 DEF Kernel
    <3> QED
      BY <2>1, <3>1
  <2>3. K.yield => sw
    OBVIOUS
  <2>4. R \in Kernel
    <3>1. R = [W EXCEPT !.yield = @ \/ sw]
      BY <2>1
    <3> HIDE DEF sw, R
    <3>2. W.yield \in BOOLEAN
      BY <1>11 DEF Kernel
    <3>3. (W.yield \/ sw) \in BOOLEAN
      BY <1>12, <3>2
    <3>4. \A b \in BOOLEAN : [W EXCEPT !.yield = b] \in Kernel
      BY <1>11 DEF Kernel
    <3>5. [W EXCEPT !.yield = W.yield \/ sw] \in Kernel
      BY <3>3, <3>4
    <3> QED
      BY <3>1, <3>5
  <2> HIDE DEF sw, R
  <2>5. /\ R.list = A.list /\ R.level = A.level /\ R.top = A.top
        /\ R.waiting = queues /\ R.next = low
        /\ R.yield = (K.yield \/ sw)
    BY <1>3, <1>5, <1>9, <2>1 DEF Kernel, Kept
  <2>6. /\ Kept(K, R) /\ R.tick = now
        /\ R.overflows = IF now = 0 THEN K.overflows + 1 ELSE K.overflows
    BY <1>3, <1>5, <1>9, <2>1 DEF Kernel, Kept
  <2>7. T.prio = K.prio /\ T.wake = K.wake /\ T.level = K.level
        /\ T.top = K.top /\ T.waiting = K.waiting
    BY <1>3 DEF Kept
  <2>15. A.wake = K.wake /\ A.waiting = K.waiting
    BY <1>5, <2>7 DEF Kept
  <2> DEFINE Listed(t) == Exchanged(K.list[t], now = 0)
             Woken == {t \in Tasks : Listed(t) = "delayed" /\ R.list[t] = "ready"}
  <2>8. Woken = due
    BY <1>3, <1>4, <1>5, <2>5
  <2>9. ASSUME NEW t \in Tasks
        PROVE  \/ t \notin Woken /\ R.list[t] = Listed(t) /\ R.level[t] = K.level[t]
               \/ /\ t \in Woken /\ K.wake[t] <= now
                  /\ R.level[t] = K.prio[t] /\ K.prio[t] <= R.top
                  /\ R.yield \/ K.prio[t] < K.prio[K.current]
    <3>1. CASE t \in due
      <4>1. R.yield \/ K.prio[t] < K.prio[K.current]
        BY <2>2, <2>5, <3>1
      <4>2. t \in Woken /\ K.wake[t] <= now
        BY <1>4, <2>7, <2>8, <3>1
      <4>3. R.level[t] = K.prio[t] /\ K.prio[t] <= R.top
        BY <1>5, <2>5, <2>7, <3>1
      <4> QED
        BY <4>1, <4>2, <4>3
    <3>2. CASE t \notin due
      <4>1. t \notin Woken
        BY <2>8, <3>2
      <4>2. R.list[t] = Listed(t) /\ R.level[t] = K.level[t]
        BY <1>3, <1>5, <2>5, <2>7, <3>2
      <4> QED
        BY <4>1, <4>2
    <3> QED
      BY <3>1, <3>2
  <2>10. \A t \in Tasks : R.list[t] = "delayed" => now < K.wake[t] /\ R.next <= K.wake[t]
    <3> TAKE t \in Tasks
    <3>1. K.wake[t] \in Int /\ now \in Int
      BY <1>1 DEF Kernel, Ticks
    <3>2. SUFFICES ASSUME R.list[t] = "delayed" PROVE now < K.wake[t] /\ R.next <= K.wake[t]
      OBVIOUS
    <3>3. t \notin due /\ T.list[t] = "delayed"
      BY <1>5, <2>5, <3>2
    <3>4. ~(K.wake[t] <= now)
      BY <1>4, <2>7, <3>3
    <3>5. low <= K.wake[t]
      BY <1>6, <1>7, <2>5, <2>15, <3>2
    <3> QED
      BY <2>5, <3>1, <3>4, <3>5
  <2>11. now <= R.next
    <3>1. CASE low = portMAX_DELAY
      BY <1>1, <2>5, <3>1, KernelAssumption DEF Ticks, portMAX_DELAY
    <3>2. CASE \E t \in Delayed(A) : low = A.wake[t]
      <4>1. PICK t \in Tasks : A.list[t] = "delayed" /\ low = K.wake[t]
        BY <2>15, <3>2 DEF Delayed
      <4>2. now < K.wake[t] /\ now \in Int /\ K.wake[t] \in Int
        BY <1>1, <2>5, <2>10, <4>1 DEF Kernel, Ticks
      <4> QED
        BY <2>5, <4>1, <4>2
    <3> QED
      BY <1>6, <3>1, <3>2
  <2>12. ASSUME NEW s \in Semaphores
         PROVE  /\ Elements(R.waiting[s]) = Elements(K.waiting[s]) \ Woken
                /\ Once(K.waiting[s]) => Once(R.waiting[s])
                /\ Elements(K.waiting[s]) \intersect Woken = {} => R.waiting[s] = K.waiting[s]
    BY <1>8, <2>5, <2>15, <2>8
  <2>13. R.top >= K.top
    BY <1>5, <2>5, <2>7
  <2> HIDE DEF Listed, Woken
  <2>14. TickDone(K, R)
    BY <2>3, <2>5, <2>6, <2>9, <2>10, <2>11, <2>12, <2>13 DEF TickDone, Listed, Woken, now
  <2> QED
    BY <1>2, <2>4, <2>14 
<1>14. ASSUME ~(now >= T.next) PROVE AfterTick(K) \in Kernel /\ TickDone(K, AfterTick(K))
  <2>1. R = [T EXCEPT !.yield = @ \/ sw]
    BY <1>14
  <2>2. R \in Kernel
    BY <1>3, <1>12, <2>1 DEF Kernel
  <2>3. K.yield => sw
    OBVIOUS
  <2> HIDE DEF sw, R
  <2>4. /\ R.list = T.list /\ R.level = K.level /\ R.top = K.top
        /\ R.waiting = K.waiting /\ R.next = T.next
        /\ R.yield = (K.yield \/ sw)
    BY <1>3, <2>1 DEF Kernel
  <2>5. T.wake = K.wake /\ K.top \in Nat
    BY <1>3 DEF Kernel, Kept
  <2>6. /\ Kept(K, R) /\ R.tick = now
        /\ R.overflows = IF now = 0 THEN K.overflows + 1 ELSE K.overflows
    BY <1>3, <2>1 DEF Kernel, Kept
  <2> DEFINE Listed(t) == Exchanged(K.list[t], now = 0)
             Woken == {t \in Tasks : Listed(t) = "delayed" /\ R.list[t] = "ready"}
  <2>7. \A t \in Tasks : R.list[t] = Listed(t)
    BY <1>3, <2>4
  <2>8. Woken = {}
    BY <2>7
  <2>9. \A t \in Tasks :
           \/ t \notin Woken /\ R.list[t] = Listed(t) /\ R.level[t] = K.level[t]
           \/ /\ t \in Woken /\ K.wake[t] <= now
              /\ R.level[t] = K.prio[t] /\ K.prio[t] <= R.top
              /\ R.yield \/ K.prio[t] < K.prio[K.current]
    BY <2>4, <2>7, <2>8
  <2>10. now < T.next
    BY <1>1, <1>3, <1>14 DEF Kernel, Ticks
  <2>11. \/ now # 0 /\ R.next = K.next /\ now < K.next
         \/ \A t \in Tasks : R.list[t] = "delayed" => now < K.wake[t] /\ R.next <= K.wake[t]
    <3>1. CASE now # 0 /\ T.next = K.next
      BY <2>4, <2>10, <3>1
    <3>2. CASE T.next = Lowest(T, Delayed(T))
      <4>1. T \in Kernel /\ Delayed(T) \in SUBSET Tasks
        BY <1>3 DEF Delayed
      <4>2. \A t \in Delayed(T) : Lowest(T, Delayed(T)) <= T.wake[t]
        BY <4>1, LowestWake
      <4>3. ASSUME NEW t \in Tasks, R.list[t] = "delayed"
            PROVE  now < K.wake[t] /\ R.next <= K.wake[t]
        <5>1. T.next <= K.wake[t]
          BY <2>4, <2>5, <3>2, <4>2, <4>3 DEF Delayed
        <5>2. now \in Int /\ T.next \in Int /\ K.wake[t] \in Int
          BY <1>1, <1>3 DEF Kernel, Ticks
        <5> QED
          BY <2>4, <2>10, <5>1, <5>2
      <4> QED
        BY <4>3
    <3> QED
      BY <1>3, <3>1, <3>2
  <2>12. now <= R.next
    BY <1>1, <1>3, <2>4, <2>10 DEF Kernel, Ticks
  <2>13. \A s \in Semaphores :
            /\ Elements(R.waiting[s]) = Elements(K.waiting[s]) \ Woken
            /\ Once(K.waiting[s]) => Once(R.waiting[s])
            /\ Elements(K.waiting[s]) \intersect Woken = {} => R.waiting[s] = K.waiting[s]
    BY <2>4, <2>8
  <2>16. R.top >= K.top
    BY <2>4, <2>5
  <2>15. K.yield => R.yield
    BY <2>4, Zenon
  <2> HIDE DEF Listed, Woken
  <2>14. TickDone(K, R)
    BY <2>15, <2>16, <2>6, <2>9, <2>11, <2>12, <2>13 DEF TickDone, Listed, Woken, now
  <2> QED
    BY <1>2, <2>2, <2>14
<1>16. next \in Kernel /\ next.yield = K.yield
  <2>1. W.yield = K.yield
    BY <1>3, <1>5, <1>9 DEF Kernel
  <2> QED
    BY <1>3, <1>11, <2>1
<1> QED
  BY <1>2, <1>12, <1>13, <1>14, <1>15, <1>16, <1>17

(* What any number of ticks may change: a task woken is ready under its    *)
(* priority and is not kept from running by one that runs at a lower one.  *)
Timed == {"delayed", "overflow"}
WokenIn(K, R) == {t \in Tasks : K.list[t] \in Timed /\ R.list[t] = "ready"}
Woke(K, R) ==
  /\ Kept(K, R)
  /\ R.top >= K.top
  /\ K.yield => R.yield
  /\ \A t \in Tasks :
        \/ /\ t \notin WokenIn(K, R) /\ R.level[t] = K.level[t]
           /\ R.list[t] = K.list[t] \/ (K.list[t] \in Timed /\ R.list[t] \in Timed)
        \/ /\ t \in WokenIn(K, R)
           /\ R.level[t] = K.prio[t] /\ K.prio[t] <= R.top
           /\ R.yield \/ K.prio[t] < K.prio[K.current]
  /\ \A s \in Semaphores :
        /\ Elements(R.waiting[s]) = Elements(K.waiting[s]) \ WokenIn(K, R)
        /\ Once(K.waiting[s]) => Once(R.waiting[s])
        /\ Elements(K.waiting[s]) \intersect WokenIn(K, R) = {} =>
              R.waiting[s] = K.waiting[s]

(* Every sleeping task is woken by a tick to come, not later than          *)
(* xNextTaskUnblockTime.                                                   *)
Slumber(K) ==
  /\ K.tick <= K.next
  /\ \A t \in Tasks :
        /\ K.list[t] = "delayed"  => K.tick < K.wake[t] /\ K.next <= K.wake[t]
        /\ K.list[t] = "overflow" => K.wake[t] < K.tick

(* The ticks there have been, and that t is not ready before x of them.    *)
NowIn(K) == K.overflows * TickMod + K.tick
Due(K, t, x) ==
  \/ K.list[t] = "delayed"  /\ K.overflows * TickMod + K.wake[t] >= x
  \/ K.list[t] = "overflow" /\ K.overflows * TickMod + TickMod + K.wake[t] >= x
  \/ K.list[t] = "ready"    /\ NowIn(K) >= x

(* n ticks lead from K to R: the clock of the lists is n ticks later,      *)
(* nobody oversleeps for it, and nobody is woken before its time.          *)
Passed(K, n, R) ==
  /\ R \in Kernel /\ Woke(K, R)
  /\ NowIn(R) = NowIn(K) + n
  /\ Slumber(K) => /\ Slumber(R)
                   /\ \A t \in Tasks, x \in Int : Due(K, t, x) => Due(R, t, x)

(* One more overflow of the tick count is TickMod ticks more.              *)
LEMMA Laps ==
  ASSUME NEW n \in Nat
  PROVE  n * TickMod \in Nat /\ (n + 1) * TickMod = n * TickMod + TickMod
BY KernelAssumption

(* A tick is one tick later, across the wrap of the tick count too, where  *)
(* the two delayed lists are exchanged.                                    *)
LEMMA TickPasses ==
  ASSUME NEW K \in Kernel, NEW R \in Kernel, TickDone(K, R)
  PROVE  Passed(K, 1, R)
<1> DEFINE now == NextTick(K)
           Listed(t) == Exchanged(K.list[t], now = 0)
           Woken == {t \in Tasks : Listed(t) = "delayed" /\ R.list[t] = "ready"}
           P == K.overflows * TickMod
<1>1. now = (IF K.tick = portMAX_DELAY THEN 0 ELSE K.tick + 1) /\ now \in Ticks
  BY Following DEF NextTick, Kernel
<1>2. P \in Nat /\ (K.overflows + 1) * TickMod = P + TickMod /\ TickMod \in Nat
  <2>1. K.overflows \in Nat
    BY DEF Kernel
  <2>2. P \in Nat /\ (K.overflows + 1) * TickMod = P + TickMod
    BY <2>1, Laps, Zenon
  <2> QED
    BY <2>2, KernelAssumption
<1> HIDE DEF now, P
<1>3. TickMod = portMAX_DELAY + 1 /\ portMAX_DELAY \in Nat /\ portMAX_DELAY > 0
  BY KernelAssumption DEF portMAX_DELAY
<1>4. /\ Kept(K, R) /\ R.tick = now
      /\ R.overflows = IF now = 0 THEN K.overflows + 1 ELSE K.overflows
      /\ R.top >= K.top
      /\ K.yield => R.yield
      /\ \A t \in Tasks :
            \/ t \notin Woken /\ R.list[t] = Listed(t) /\ R.level[t] = K.level[t]
            \/ /\ t \in Woken /\ K.wake[t] <= now
               /\ R.level[t] = K.prio[t] /\ K.prio[t] <= R.top
               /\ R.yield \/ K.prio[t] < K.prio[K.current]
      /\ now <= R.next
      /\ \/ now # 0 /\ R.next = K.next /\ now < K.next
         \/ \A t \in Tasks : R.list[t] = "delayed" =>
                               now < K.wake[t] /\ R.next <= K.wake[t]
      /\ \A s \in Semaphores :
            /\ Elements(R.waiting[s]) = Elements(K.waiting[s]) \ Woken
            /\ Once(K.waiting[s]) => Once(R.waiting[s])
            /\ Elements(K.waiting[s]) \intersect Woken = {} => R.waiting[s] = K.waiting[s]
  BY DEF TickDone, now
<1>5. \A t \in Tasks : Listed(t) = "delayed" => K.list[t] \in Timed
  BY DEF Exchanged, Timed
<1>6. Woken = WokenIn(K, R)
  <2>1. ASSUME NEW t \in Tasks, t \in WokenIn(K, R) PROVE t \in Woken
    <3>1. R.list[t] # Listed(t)
      BY <2>1 DEF Exchanged, WokenIn, Timed
    <3> QED
      BY <1>4, <3>1
  <2>2. \A t \in Tasks : t \in Woken => t \in WokenIn(K, R)
    BY <1>5 DEF WokenIn
  <2> QED
    BY <2>1, <2>2 DEF WokenIn
<1>7. \A t \in Tasks : t \notin Woken =>
        R.list[t] = K.list[t] \/ (K.list[t] \in Timed /\ R.list[t] \in Timed)
  <2> TAKE t \in Tasks
  <2> HAVE t \notin Woken
  <2>1. R.list[t] = Listed(t)
    BY <1>4
  <2> QED
    BY <2>1 DEF Exchanged, Timed
<1>8. Woke(K, R)
  <2> HIDE DEF Woken, Listed
  <2> QED
    BY <1>4, <1>6, <1>7 DEF Woke
<1>9. NowIn(R) = NowIn(K) + 1
  <2>1. CASE now = 0
    <3>1. K.tick = portMAX_DELAY
      BY <1>1, <1>3, <2>1 DEF Kernel, Ticks
    <3>2. NowIn(R) = P + TickMod + 0
      BY <1>2, <1>4, <2>1 DEF NowIn
    <3> QED
      BY <1>2, <1>3, <3>1, <3>2 DEF NowIn, P
  <2>2. CASE now # 0
    <3>1. NowIn(R) = P + (K.tick + 1)
      BY <1>1, <1>4, <2>2 DEF NowIn, P
    <3>2. K.tick \in Int
      BY DEF Kernel, Ticks
    <3> QED
      BY <1>2, <3>1, <3>2 DEF NowIn, P
  <2> QED
    BY <2>1, <2>2
<1>10. /\ K.tick \in Ticks /\ \A t \in Tasks : K.wake[t] \in Ticks /\ R.wake[t] = K.wake[t]
       /\ K.next \in Ticks
  BY <1>4 DEF Kernel, Kept
<1>11. ASSUME Slumber(K)
       PROVE  /\ now = 0 => \A t \in Tasks : K.list[t] # "delayed"
              /\ now # 0 => now = K.tick + 1
  BY <1>1, <1>3, <1>10, <1>11 DEF Slumber, Ticks
<1>12. ASSUME Slumber(K) PROVE Slumber(R)
  <2>1. R.tick <= R.next
    BY <1>4
  <2>2. ASSUME NEW t \in Tasks, R.list[t] = "delayed"
        PROVE  R.tick < R.wake[t] /\ R.next <= R.wake[t]
    <3>1. CASE now # 0 /\ R.next = K.next /\ now < K.next
      <4>1. K.list[t] = "delayed"
        BY <1>4, <2>2, <3>1 DEF Exchanged
      <4>2. K.next <= K.wake[t]
        BY <1>12, <4>1 DEF Slumber
      <4> QED
        BY <1>1, <1>4, <1>10, <3>1, <4>2 DEF Ticks
    <3>2. CASE \A u \in Tasks : R.list[u] = "delayed" =>
                                  now < K.wake[u] /\ R.next <= K.wake[u]
      BY <1>4, <1>10, <2>2, <3>2
    <3> QED
      BY <1>4, <3>1, <3>2
  <2>3. ASSUME NEW t \in Tasks, R.list[t] = "overflow"
        PROVE  R.wake[t] < R.tick
    <3>1. t \notin Woken /\ R.list[t] = Listed(t)
      BY <1>4, <2>3
    <3>2. now # 0 /\ K.list[t] = "overflow"
      BY <1>11, <1>12, <2>3, <3>1 DEF Exchanged
    <3>3. K.wake[t] < K.tick
      BY <1>12, <3>2 DEF Slumber
    <3> QED
      BY <1>4, <1>10, <1>11, <1>12, <3>2, <3>3 DEF Ticks
  <2> QED
    BY <2>1, <2>2, <2>3 DEF Slumber
<1>13. ASSUME Slumber(K), NEW t \in Tasks, NEW x \in Int, Due(K, t, x)
       PROVE  Due(R, t, x)
  <2>1. now \in Nat /\ K.tick \in Nat /\ K.wake[t] \in Nat
    BY <1>1, <1>3, <1>10 DEF Ticks
  <2>2. CASE now = 0
    <3>1. R.overflows * TickMod = P + TickMod
      BY <1>2, <1>4, <2>2
    <3>2. CASE K.list[t] = "overflow"
      <4>1. P + TickMod + K.wake[t] >= x
        BY <1>13, <3>2 DEF Due, P
      <4>2. R.list[t] = "delayed" \/ (R.list[t] = "ready" /\ K.wake[t] <= now)
        BY <1>4, <2>2, <3>2 DEF Exchanged
      <4> QED
        BY <1>2, <1>4, <1>10, <2>1, <2>2, <3>1, <4>1, <4>2 DEF Due, NowIn
    <3>3. CASE K.list[t] = "ready"
      <4>1. R.list[t] = "ready"
        BY <1>4, <3>3 DEF Exchanged
      <4>2. NowIn(K) >= x /\ NowIn(K) \in Int
        BY <1>2, <1>13, <2>1, <3>3 DEF Due, NowIn, P
      <4> QED
        BY <1>9, <4>1, <4>2 DEF Due
    <3> QED
      BY <1>11, <1>13, <2>2, <3>2, <3>3 DEF Due
  <2>3. CASE now # 0
    <3>1. R.overflows * TickMod = P
      BY <1>4, <2>3 DEF P
    <3>2. R.list[t] = K.list[t] \/ (K.list[t] = "delayed" /\ R.list[t] = "ready" /\ K.wake[t] <= now)
      BY <1>4, <2>3 DEF Exchanged
    <3>3. CASE R.list[t] = K.list[t] /\ K.list[t] # "ready"
      BY <1>10, <1>13, <3>1, <3>3 DEF Due, P
    <3>4. CASE R.list[t] = "ready" /\ K.list[t] = "ready"
      <4>2. NowIn(K) >= x /\ NowIn(K) \in Int
        BY <1>2, <1>13, <2>1, <3>4 DEF Due, NowIn, P
      <4> QED
        BY <1>9, <3>4, <4>2 DEF Due
    <3>5. CASE K.list[t] = "delayed" /\ R.list[t] = "ready" /\ K.wake[t] <= now
      <4>1. P + K.wake[t] >= x
        BY <1>13, <3>5 DEF Due, P
      <4> QED
        BY <1>2, <1>4, <2>1, <3>1, <3>5, <4>1 DEF Due, NowIn
    <3> QED
      BY <3>2, <3>3, <3>4, <3>5
  <2> QED
    BY <2>2, <2>3
<1> QED
  BY <1>8, <1>9, <1>12, <1>13 DEF Passed

(* No tick, no change.                                                     *)
LEMMA NonePasses ==
  ASSUME NEW K \in Kernel
  PROVE  Passed(K, 0, K)
<1>1. WokenIn(K, K) = {}
  BY DEF WokenIn, Timed
<1>2. Woke(K, K)
  <2>1. K.top >= K.top
    BY DEF Kernel
  <2> QED
    BY <1>1, <2>1 DEF Woke, Kept
<1>3. NowIn(K) = NowIn(K) + 0
  <2>1. K.overflows \in Nat /\ K.tick \in Int
    BY DEF Kernel, Ticks
  <2>2. K.overflows * TickMod \in Nat
    BY <2>1, Laps
  <2> QED
    BY <2>1, <2>2 DEF NowIn
<1> QED
  BY <1>2, <1>3 DEF Passed

(* One more tick after n of them is n + 1 ticks.                           *)
LEMMA MorePasses ==
  ASSUME NEW K \in Kernel, NEW n \in Nat, NEW R, Passed(K, n, R), NEW Q, Passed(R, 1, Q)
  PROVE  Passed(K, n + 1, Q)
<1>1. R \in Kernel /\ Q \in Kernel /\ Woke(K, R) /\ Woke(R, Q)
  BY DEF Passed
<1>2. NowIn(K) \in Int
  <2>1. K.overflows \in Nat /\ K.tick \in Int
    BY DEF Kernel, Ticks
  <2>2. K.overflows * TickMod \in Nat
    BY <2>1, Laps
  <2> QED
    BY <2>1, <2>2 DEF NowIn
<1>3. NowIn(Q) = NowIn(K) + (n + 1)
  BY <1>2 DEF Passed
<1>4. Kept(K, Q)
  BY <1>1 DEF Woke, Kept
<1>5. WokenIn(K, Q) = WokenIn(K, R) \union WokenIn(R, Q)
      /\ WokenIn(K, R) \intersect WokenIn(R, Q) = {}
  BY <1>1 DEF Woke, WokenIn, Timed
<1>6. ASSUME NEW t \in Tasks
      PROVE  \/ /\ t \notin WokenIn(K, Q) /\ Q.level[t] = K.level[t]
                /\ Q.list[t] = K.list[t] \/ (K.list[t] \in Timed /\ Q.list[t] \in Timed)
             \/ /\ t \in WokenIn(K, Q)
                /\ Q.level[t] = K.prio[t] /\ K.prio[t] <= Q.top
                /\ Q.yield \/ K.prio[t] < K.prio[K.current]
  <2>1. CASE t \notin WokenIn(K, Q)
    BY <1>1, <1>5, <2>1 DEF Woke
  <2>2. CASE t \in WokenIn(K, R)
    <3>1. /\ R.level[t] = K.prio[t] /\ K.prio[t] <= R.top
          /\ R.yield \/ K.prio[t] < K.prio[K.current]
      BY <1>1, <2>2 DEF Woke
    <3>2. Q.level[t] = R.level[t] /\ Q.top >= R.top /\ (R.yield => Q.yield)
      BY <1>1, <1>5, <2>2 DEF Woke
    <3>3. K.prio[t] \in Nat /\ R.top \in Nat /\ Q.top \in Nat
      BY <1>1 DEF Kernel
    <3> QED
      BY <1>5, <2>2, <3>1, <3>2, <3>3
  <2>3. CASE t \in WokenIn(R, Q)
    <3>1. R.prio = K.prio /\ R.current = K.current
      BY <1>1 DEF Woke, Kept
    <3>2. /\ Q.level[t] = R.prio[t] /\ R.prio[t] <= Q.top
          /\ Q.yield \/ R.prio[t] < R.prio[R.current]
      BY <1>1, <2>3 DEF Woke
    <3> QED
      BY <1>5, <2>3, <3>1, <3>2
  <2> QED
    BY <1>5, <2>1, <2>2, <2>3
<1>7. ASSUME NEW s \in Semaphores
      PROVE  /\ Elements(Q.waiting[s]) = Elements(K.waiting[s]) \ WokenIn(K, Q)
             /\ Once(K.waiting[s]) => Once(Q.waiting[s])
             /\ Elements(K.waiting[s]) \intersect WokenIn(K, Q) = {} =>
                   Q.waiting[s] = K.waiting[s]
  BY <1>1, <1>5 DEF Woke
<1>8. Q.top >= K.top /\ (K.yield => Q.yield)
  <2>1. Q.top \in Nat /\ R.top \in Nat /\ K.top \in Nat
    BY <1>1 DEF Kernel
  <2> QED
    BY <1>1, <2>1 DEF Woke
<1>9. Woke(K, Q)
  BY <1>4, <1>6, <1>7, <1>8 DEF Woke
<1>10. ASSUME Slumber(K) PROVE Slumber(Q) /\ \A t \in Tasks, x \in Int : Due(K, t, x) => Due(Q, t, x)
  BY <1>10 DEF Passed
<1> QED
  BY <1>1, <1>3, <1>9, <1>10 DEF Passed

(* The ticks that came while the scheduler was suspended are caught up.    *)
LEMMA PendedPass ==
  ASSUME NEW K \in Kernel, ~K.stopped
  PROVE  \E R : Passed(K, K.pended, R) /\ PendedTicks(K) = [R EXCEPT !.pended = 0]
<1> DEFINE N == K.pended
           X == {R \in Kernel : ~R.stopped}
           G == [p \in (1..N) \X X |-> AfterTick(p[2])]
<1>1. N \in Nat
  BY DEF Kernel
<1>2. ASSUME NEW R \in X
      PROVE  AfterTick(R) \in X /\ Passed(R, 1, AfterTick(R))
  <2>1. AfterTick(R) \in Kernel /\ TickDone(R, AfterTick(R))
    BY TickIsDone
  <2>2. AfterTick(R).stopped = R.stopped
    BY <2>1 DEF TickDone, Kept
  <2> QED
    BY <2>1, <2>2, TickPasses
<1> HIDE DEF N
<1>3. G \in [(1..N) \X X -> X]
  BY <1>2
<1>4. K \in X
  OBVIOUS
<1>5. PICK f \in [0..N -> X] : Follows(f, N, K, G)
  <2> HIDE DEF X, G
  <2> QED
    BY <1>1, <1>3, <1>4, Iterates
<1>6. f[0] = K /\ \A i \in 1..N : f[i] = AfterTick(f[i - 1])
  <2>1. ASSUME NEW i \in 1..N PROVE f[i] = AfterTick(f[i - 1])
    <3>1. i - 1 \in 0..N
      BY <1>1
    <3>2. <<i, f[i - 1]>> \in (1..N) \X X
      BY <3>1
    <3> QED
      BY <1>5, <3>2 DEF Follows
  <2> QED
    BY <1>5, <2>1 DEF Follows
<1> DEFINE Unwound(h) == h = [n \in 0..N |->
                               IF n = 0 THEN K
                               ELSE [xTaskIncrementTick(h[n - 1]).kernel EXCEPT
                                       !.yield = @ \/ xTaskIncrementTick(h[n - 1]).switch]]
<1>7. Unwound(f)
  <2>1. \A i \in 0..N : f[i] = IF i = 0 THEN K ELSE AfterTick(f[i - 1])
    <3> TAKE i \in 0..N
    <3>1. CASE i = 0
      BY <1>6, <3>1
    <3>2. CASE i # 0
      <4>1. i \in 1..N
        BY <1>1, <3>2
      <4> QED
        BY <1>6, <3>2, <4>1
    <3> QED
      BY <3>1, <3>2
  <2>2. f = [i \in 0..N |-> f[i]]
    BY <1>5
  <2>3. f = [i \in 0..N |-> IF i = 0 THEN K ELSE AfterTick(f[i - 1])]
    BY <2>1, <2>2, Zenon
  <2> QED
    BY <2>3 DEF AfterTick
<1> DEFINE g == CHOOSE h : Unwound(h)
<1>8. Unwound(g)
  <2> HIDE DEF Unwound
  <2> QED
    BY <1>7
<1>9. PendedTicks(K) = [g[N] EXCEPT !.pended = 0]
  BY DEF PendedTicks, N
<1> HIDE DEF g
<1>10. g[0] = K /\ \A i \in 1..N : g[i] = AfterTick(g[i - 1])
  <2>1. g = [i \in 0..N |-> IF i = 0 THEN K ELSE AfterTick(g[i - 1])]
    BY <1>8 DEF AfterTick
  <2>2. 0 \in 0..N /\ \A i \in 1..N : i \in 0..N /\ i # 0
    BY <1>1
  <2>3. \A i \in 0..N : g[i] = IF i = 0 THEN K ELSE AfterTick(g[i - 1])
    BY <2>1, Zenon
  <2> QED
    BY <2>2, <2>3, Zenon
<1> DEFINE Good(n) == g[n] \in X /\ Passed(K, n, g[n])
           S == {n \in Nat : n <= N => Good(n)}
<1>11. 0 \in S
  <2>1. Good(0)
    BY <1>4, <1>10, NonePasses
  <2> QED
    BY <2>1
<1>12. ASSUME NEW n \in Nat, n \in S PROVE n + 1 \in S
  <2> SUFFICES ASSUME n + 1 <= N PROVE Good(n + 1)
    OBVIOUS
  <2>1. Good(n) /\ n + 1 \in 1..N
    BY <1>1, <1>12
  <2>2. g[n + 1] = AfterTick(g[n])
    BY <1>10, <2>1
  <2>3. g[n + 1] \in X /\ Passed(g[n], 1, g[n + 1])
    BY <1>2, <2>1, <2>2
  <2>4. Passed(K, n + 1, g[n + 1])
    BY <2>1, <2>3, MorePasses
  <2> QED
    BY <2>3, <2>4
<1>13. \A n \in Nat : n \in S => n + 1 \in S
  BY <1>12
<1>14. N \in S
  <2> HIDE DEF S
  <2>1. \A n \in Nat : n \in S
    BY <1>11, <1>13, Count
  <2> QED
    BY <1>1, <2>1
<1>15. Passed(K, N, g[N])
  BY <1>1, <1>14
<1> QED
  BY <1>9, <1>15 DEF N

(* What xTaskResumeAll changes: U are the tasks it makes ready, those of   *)
(* xPendingReadyList and those a pended tick wakes.                        *)
Resumed(K, R, W) ==
  /\ W \in SUBSET Tasks /\ \A t \in W : K.list[t] \in Timed
  /\ R.current = K.current /\ R.prio = K.prio /\ R.held = K.held /\ R.wake = K.wake
  /\ ~R.stopped /\ R.pending = {} /\ R.pended = 0
  /\ R.top >= K.top
  /\ K.yield => R.yield
  /\ \A t \in K.pending \union W :
        /\ R.list[t] = "ready" /\ R.level[t] = K.prio[t] /\ K.prio[t] <= R.top
        /\ R.yield \/ K.prio[t] < K.prio[K.current]
  /\ \A t \in Tasks \ (K.pending \union W) :
        /\ R.level[t] = K.level[t]
        /\ R.list[t] = K.list[t] \/ (K.list[t] \in Timed /\ R.list[t] \in Timed)
  /\ \A s \in Semaphores :
        /\ Elements(R.waiting[s]) = Elements(K.waiting[s]) \ W
        /\ Once(K.waiting[s]) => Once(R.waiting[s])
        /\ Elements(K.waiting[s]) \intersect W = {} => R.waiting[s] = K.waiting[s]
  /\ NowIn(R) = NowIn(K) + K.pended
  /\ Slumber(K) =>
        /\ Slumber(R)
        /\ \A t \in Tasks \ K.pending, x \in Int : Due(K, t, x) => Due(R, t, x)

(* xTaskResumeAll does what Resumed says: it makes the pending tasks ready *)
(* and catches up with the ticks that were pended.                         *)
LEMMA Resumption ==
  ASSUME NEW K \in Kernel
  PROVE  xTaskResumeAll(K) \in Kernel /\ \E W : Resumed(K, xTaskResumeAll(K), W)
<1> DEFINE up == \E t \in K.pending : K.prio[t] >= K.prio[K.current]
           B == [K EXCEPT !.stopped = FALSE, !.pending = {}, !.yield = @ \/ up]
           A == prvAddTaskToReadyList(B, K.pending)
           low == Lowest(A, Delayed(A))
           M == IF K.pending = {} THEN A ELSE [A EXCEPT !.next = low]
           Q == xTaskResumeAll(K)
<1>1. K.pending \in SUBSET Tasks /\ K.yield \in BOOLEAN
  BY DEF Kernel
<1>2. up \in BOOLEAN
  OBVIOUS
<1>3. Q = PendedTicks(M)
  BY DEF xTaskResumeAll, prvResetNextTaskUnblockTime
<1>4. \A t \in K.pending : up \/ K.prio[t] < K.prio[K.current]
  <2> TAKE t \in K.pending
  <2>1. K.prio[t] \in Nat /\ K.prio[K.current] \in Nat
    BY <1>1 DEF Kernel
  <2> QED
    BY <2>1
<1> HIDE DEF up
<1>5. B \in Kernel /\ B.list = K.list /\ B.level = K.level /\ B.top = K.top
      /\ B.current = K.current /\ B.prio = K.prio /\ B.held = K.held /\ B.wake = K.wake
      /\ ~B.stopped /\ B.pending = {} /\ B.pended = K.pended
      /\ B.waiting = K.waiting /\ B.tick = K.tick /\ B.overflows = K.overflows
      /\ B.next = K.next
  BY <1>1, <1>2 DEF Kernel
<1>6. B.yield = (K.yield \/ up)
  BY DEF Kernel
<1> HIDE DEF B
<1>7. /\ A \in Kernel
      /\ Kept(B, A) /\ A.waiting = B.waiting /\ A.tick = B.tick
      /\ A.overflows = B.overflows /\ A.next = B.next /\ A.yield = B.yield
      /\ \A t \in K.pending : /\ A.list[t] = "ready" /\ A.level[t] = B.prio[t]
                              /\ B.prio[t] <= A.top
      /\ \A t \in Tasks \ K.pending : A.list[t] = B.list[t] /\ A.level[t] = B.level[t]
      /\ A.top >= B.top
  BY <1>1, <1>5, MadeReady
<1> HIDE DEF A
<1>8. /\ low \in Ticks
      /\ \A t \in Tasks : A.list[t] = "delayed" => low <= A.wake[t]
      /\ low = portMAX_DELAY \/ \E t \in Tasks : A.list[t] = "delayed" /\ low = A.wake[t]
  <2> DEFINE D == Delayed(A)
  <2>1. D \in SUBSET Tasks /\ \A t \in Tasks : t \in D <=> A.list[t] = "delayed"
    BY DEF Delayed
  <2> HIDE DEF D
  <2>2. /\ Lowest(A, D) \in Ticks
        /\ \A t \in D : Lowest(A, D) <= A.wake[t]
        /\ (D = {} /\ Lowest(A, D) = portMAX_DELAY) \/ \E t \in D : Lowest(A, D) = A.wake[t]
    BY <1>7, <2>1, LowestWake
  <2> DEFINE l == Lowest(A, D)
  <2>3. low = l
    BY DEF D
  <2> HIDE DEF l, low
  <2>4. l \in Ticks /\ (\A t \in D : l <= A.wake[t])
        /\ (l = portMAX_DELAY \/ \E t \in D : l = A.wake[t])
    BY <2>2 DEF l
  <2> QED
    BY <2>1, <2>3, <2>4
<1> HIDE DEF low
<1>9. /\ M \in Kernel
      /\ Kept(B, M) /\ M.waiting = B.waiting /\ M.tick = B.tick
      /\ M.overflows = B.overflows /\ M.yield = B.yield
      /\ M.list = A.list /\ M.level = A.level /\ M.top = A.top
      /\ M.next = K.next \/ M.next = low
  <2>1. CASE K.pending = {}
    BY <1>5, <1>7, <2>1
  <2>2. CASE K.pending # {}
    BY <1>7, <1>8, <2>2 DEF Kernel, Kept
  <2> QED
    BY <2>1, <2>2
<1> HIDE DEF M
<1>10. PICK R : Passed(M, K.pended, R) /\ Q = [R EXCEPT !.pended = 0]
  <2>1. ~M.stopped /\ M.pended = K.pended
    BY <1>5, <1>9 DEF Kept
  <2>2. \E R : Passed(M, M.pended, R) /\ PendedTicks(M) = [R EXCEPT !.pended = 0]
    BY <1>9, <2>1, PendedPass
  <2> QED
    BY <1>3, <2>1, <2>2
<1> HIDE DEF Q
<1>11. R \in Kernel /\ Woke(M, R) /\ NowIn(R) = NowIn(M) + K.pended
  BY <1>10 DEF Passed
<1>12. /\ Q \in Kernel /\ Q.current = R.current /\ Q.prio = R.prio /\ Q.held = R.held
       /\ Q.wake = R.wake /\ Q.stopped = R.stopped /\ Q.pending = R.pending
       /\ Q.pended = 0 /\ Q.top = R.top /\ Q.yield = R.yield /\ Q.list = R.list
       /\ Q.level = R.level /\ Q.waiting = R.waiting /\ Q.tick = R.tick
       /\ Q.overflows = R.overflows /\ Q.next = R.next
  BY <1>10, <1>11 DEF Kernel
<1> DEFINE W == WokenIn(M, R)
<1>13. W \in SUBSET Tasks /\ \A t \in W : K.list[t] \in Timed /\ t \notin K.pending
  <2>1. \A t \in W : t \in Tasks /\ A.list[t] \in Timed
    BY <1>9 DEF WokenIn
  <2> QED
    BY <1>5, <1>7, <2>1 DEF Timed
<1>14. /\ M.current = K.current /\ M.prio = K.prio /\ M.held = K.held /\ M.wake = K.wake
       /\ ~M.stopped /\ M.pending = {}
  BY <1>5, <1>9 DEF Kept
<1>15. /\ Q.current = K.current /\ Q.prio = K.prio /\ Q.held = K.held /\ Q.wake = K.wake
       /\ ~Q.stopped /\ Q.pending = {}
  BY <1>11, <1>12, <1>14 DEF Woke, Kept
<1>16. Q.top >= M.top /\ M.top >= K.top /\ Q.top \in Nat /\ M.top \in Nat /\ K.top \in Nat
       /\ (M.yield => Q.yield) /\ (K.yield => M.yield) /\ (up => M.yield)
  <2>1. Q.top >= M.top /\ M.top >= K.top /\ (M.yield => Q.yield)
    BY <1>5, <1>7, <1>9, <1>11, <1>12 DEF Woke
  <2>2. (K.yield => M.yield) /\ (up => M.yield)
    BY <1>6, <1>9, Zenon
  <2> QED
    BY <1>9, <1>12, <2>1, <2>2 DEF Kernel
<1>17. ASSUME NEW t \in K.pending \union W
       PROVE  /\ Q.list[t] = "ready" /\ Q.level[t] = K.prio[t] /\ K.prio[t] <= Q.top
              /\ Q.yield \/ K.prio[t] < K.prio[K.current]
  <2>1. CASE t \in W
    <3>1. /\ R.level[t] = M.prio[t] /\ M.prio[t] <= R.top
          /\ R.yield \/ M.prio[t] < M.prio[M.current]
      BY <1>11, <1>13, <2>1 DEF Woke
    <3>2. R.list[t] = "ready"
      BY <2>1 DEF WokenIn
    <3> QED
      BY <1>12, <1>14, <3>1, <3>2
  <2>2. CASE t \in K.pending
    <3>1. M.list[t] = "ready" /\ M.level[t] = K.prio[t] /\ K.prio[t] <= M.top
      BY <1>5, <1>7, <1>9, <2>2
    <3>2. t \notin W /\ t \in Tasks
      BY <1>1, <1>13, <2>2
    <3>3. R.level[t] = M.level[t] /\ R.list[t] = M.list[t]
      BY <1>11, <3>1, <3>2 DEF Woke, Timed
    <3>4. K.prio[t] \in Nat
      BY <3>2 DEF Kernel
    <3>5. Q.yield \/ K.prio[t] < K.prio[K.current]
      BY <1>4, <1>16, <2>2, Zenon
    <3>6. K.prio[t] <= Q.top
      BY <1>16, <3>1, <3>4
    <3> QED
      BY <1>12, <3>1, <3>3, <3>5, <3>6
  <2> QED
    BY <2>1, <2>2
<1>18. ASSUME NEW t \in Tasks \ (K.pending \union W)
       PROVE  /\ Q.level[t] = K.level[t]
              /\ Q.list[t] = K.list[t] \/ (K.list[t] \in Timed /\ Q.list[t] \in Timed)
  <2>1. M.list[t] = K.list[t] /\ M.level[t] = K.level[t]
    BY <1>5, <1>7, <1>9
  <2> QED
    BY <1>11, <1>12, <2>1 DEF Woke
<1>19. ASSUME NEW s \in Semaphores
       PROVE  /\ Elements(Q.waiting[s]) = Elements(K.waiting[s]) \ W
              /\ Once(K.waiting[s]) => Once(Q.waiting[s])
              /\ Elements(K.waiting[s]) \intersect W = {} => Q.waiting[s] = K.waiting[s]
  <2>1. M.waiting = K.waiting
    BY <1>5, <1>9
  <2> QED
    BY <1>11, <1>12, <2>1 DEF Woke
<1>20. NowIn(M) = NowIn(K) /\ NowIn(Q) = NowIn(R)
  BY <1>5, <1>9, <1>12 DEF NowIn
<1>21. ASSUME Slumber(K)
       PROVE  /\ Slumber(Q)
              /\ \A t \in Tasks \ K.pending, x \in Int : Due(K, t, x) => Due(Q, t, x)
  <2>1. M.tick = K.tick /\ M.overflows = K.overflows /\ K.tick \in Ticks
    BY <1>5, <1>9 DEF Kernel
  <2>2. \A t \in Tasks : M.list[t] = "delayed" \/ M.list[t] = "overflow" =>
            M.list[t] = K.list[t]
    BY <1>5, <1>7, <1>9
  <2>3. \A t \in Tasks : M.list[t] = "delayed" => M.tick < M.wake[t]
    BY <1>14, <1>21, <2>1, <2>2 DEF Slumber
  <2>4. \A t \in Tasks : M.list[t] = "delayed" => M.next <= M.wake[t]
    <3>1. A.wake = K.wake
      BY <1>5, <1>7 DEF Kept
    <3> QED
      BY <1>8, <1>9, <1>14, <1>21, <2>2, <3>1 DEF Slumber
  <2>5. M.tick <= M.next
    <3>1. CASE M.next = K.next
      BY <1>21, <2>1, <3>1 DEF Slumber
    <3>2. CASE M.next = low /\ low = portMAX_DELAY
      BY <2>1, <3>2, KernelAssumption DEF Ticks, portMAX_DELAY
    <3>3. CASE M.next = low /\ \E t \in Tasks : A.list[t] = "delayed" /\ low = A.wake[t]
      <4>1. PICK t \in Tasks : M.list[t] = "delayed" /\ M.next = M.wake[t]
        BY <1>7, <1>9, <3>3 DEF Kept
      <4>2. M.tick < M.wake[t] /\ M.wake[t] \in Int /\ M.tick \in Int
        <5>1. M.wake[t] \in Ticks /\ M.tick \in Ticks
          BY <1>9, <4>1 DEF Kernel
        <5> QED
          BY <2>3, <4>1, <5>1 DEF Ticks
      <4> QED
        BY <4>1, <4>2
    <3> QED
      BY <1>8, <1>9, <3>1, <3>2, <3>3
  <2>6. \A t \in Tasks : M.list[t] = "overflow" => M.wake[t] < M.tick
    BY <1>14, <1>21, <2>1, <2>2 DEF Slumber
  <2>7. Slumber(M)
    BY <2>3, <2>4, <2>5, <2>6 DEF Slumber
  <2>8. Slumber(R) /\ \A t \in Tasks, x \in Int : Due(M, t, x) => Due(R, t, x)
    BY <1>10, <2>7 DEF Passed
  <2>9. Slumber(Q)
    BY <1>12, <2>8 DEF Slumber
  <2>10. ASSUME NEW t \in Tasks \ K.pending, NEW x \in Int, Due(K, t, x) PROVE Due(Q, t, x)
    <3>1. M.list[t] = K.list[t]
      BY <1>5, <1>7, <1>9
    <3>2. Due(M, t, x)
      BY <1>14, <2>1, <2>10, <3>1 DEF Due, NowIn
    <3>3. Due(R, t, x)
      BY <2>8, <3>2
    <3> QED
      BY <1>12, <3>3 DEF Due, NowIn
  <2> QED
    BY <2>9, <2>10
<1>22. Q.top >= K.top /\ (K.yield => Q.yield) /\ Q.pended = 0
  BY <1>12, <1>16
<1>23. NowIn(Q) = NowIn(K) + K.pended
  BY <1>11, <1>20
<1> HIDE DEF W
<1>24. Resumed(K, Q, W)
  BY <1>13, <1>15, <1>17, <1>18, <1>19, <1>21, <1>22, <1>23 DEF Resumed
<1> QED
  BY <1>12, <1>24 DEF Q

(* A ready task is in the list of its priority, which uxTopReadyPriority   *)
(* does not hide.                                                          *)
Filed(K) == \A t \in Tasks : K.list[t] = "ready" =>
                K.level[t] = K.prio[t] /\ K.prio[t] <= K.top

(* What a change of priorities leaves alone.                               *)
Unmoved(K, R) ==
  /\ R.current = K.current /\ R.list = K.list /\ R.wake = K.wake
  /\ R.waiting = K.waiting /\ R.pending = K.pending /\ R.tick = K.tick
  /\ R.overflows = K.overflows /\ R.next = K.next /\ R.stopped = K.stopped
  /\ R.pended = K.pended /\ R.yield = K.yield

(* A change of priority moves a ready task to the list of its new priority *)
(* and leaves the rest alone.                                              *)
LEMMA Repriced ==
  ASSUME NEW K \in Kernel, Filed(K), NEW t \in Tasks, NEW p \in Nat
  PROVE  LET R == SetPriority(K, t, p)
         IN  /\ R \in Kernel /\ Filed(R) /\ Unmoved(K, R)
             /\ R.prio = [K.prio EXCEPT ![t] = p] /\ R.held = K.held
<1> DEFINE B == [K EXCEPT !.prio[t] = p]
           A == prvAddTaskToReadyList(B, {t})
           R == SetPriority(K, t, p)
<1>1. /\ B \in Kernel /\ Unmoved(K, B) /\ B.held = K.held
      /\ B.prio = [K.prio EXCEPT ![t] = p] /\ B.level = K.level /\ B.top = K.top
  BY DEF Kernel, Unmoved
<1>2. t \in Ready(K, K.prio[t]) <=> K.list[t] = "ready"
  BY DEF Ready, Filed
<1> HIDE DEF B
<1>3. /\ A \in Kernel
      /\ Kept(B, A) /\ A.waiting = B.waiting /\ A.tick = B.tick
      /\ A.overflows = B.overflows /\ A.next = B.next /\ A.yield = B.yield
      /\ A.list[t] = "ready" /\ A.level[t] = B.prio[t] /\ B.prio[t] <= A.top
      /\ \A u \in Tasks \ {t} : A.list[u] = B.list[u] /\ A.level[u] = B.level[u]
      /\ A.top >= B.top
  <2>1. {t} \in SUBSET Tasks
    OBVIOUS
  <2> QED
    BY <1>1, <2>1, MadeReady
<1> HIDE DEF A
<1>4. CASE K.list[t] = "ready"
  <2>1. R = A
    BY <1>2, <1>4 DEF SetPriority, A, B
  <2>2. A.list = K.list
    <3>1. A.list \in [Tasks -> Lists] /\ K.list \in [Tasks -> Lists]
      BY <1>3 DEF Kernel
    <3>2. \A u \in Tasks : A.list[u] = K.list[u]
      BY <1>1, <1>3, <1>4 DEF Unmoved
    <3> QED
      BY <3>1, <3>2
  <2>3. Unmoved(K, A) /\ A.prio = [K.prio EXCEPT ![t] = p] /\ A.held = K.held
    BY <1>1, <1>3, <2>2 DEF Unmoved, Kept
  <2>4. Filed(A)
    <3> SUFFICES ASSUME NEW u \in Tasks, A.list[u] = "ready"
                 PROVE  A.level[u] = A.prio[u] /\ A.prio[u] <= A.top
      BY DEF Filed
    <3>1. CASE u = t
      BY <1>1, <1>3, <2>3, <3>1
    <3>2. CASE u # t
      <4>1. A.level[u] = K.level[u] /\ A.prio[u] = K.prio[u] /\ K.list[u] = "ready"
        BY <1>1, <1>3, <2>2, <2>3, <3>2 DEF Kernel
      <4>2. K.prio[u] <= K.top /\ K.prio[u] \in Nat /\ K.top \in Nat /\ A.top \in Nat
        BY <1>3, <4>1 DEF Filed, Kernel
      <4>3. A.top >= K.top
        BY <1>1, <1>3
      <4> QED
        BY <4>1, <4>2, <4>3 DEF Filed
    <3> QED
      BY <3>1, <3>2
  <2> QED
    BY <1>3, <2>1, <2>3, <2>4
<1>5. CASE K.list[t] # "ready"
  <2>1. R = B
    BY <1>2, <1>5 DEF SetPriority, B
  <2>2. Filed(B)
    BY <1>1, <1>5 DEF Filed, Unmoved, Kernel
  <2> QED
    BY <1>1, <2>1, <2>2
<1> QED
  BY <1>4, <1>5

(* xTaskPriorityInherit raises the holder to the priority of the current   *)
(* task, if that is higher.                                                *)
LEMMA Inheritance ==
  ASSUME NEW K \in Kernel, Filed(K), NEW h \in Tasks \union {NoTask}
  PROVE  LET R == xTaskPriorityInherit(K, h)
         IN  /\ R \in Kernel /\ Filed(R) /\ Unmoved(K, R) /\ R.held = K.held
             /\ \A t \in Tasks : t # h => R.prio[t] = K.prio[t]
             /\ h \in Tasks => \/ R.prio[h] = K.prio[h] /\ K.prio[h] >= K.prio[K.current]
                               \/ R.prio[h] = K.prio[K.current] /\ K.prio[h] < K.prio[K.current]
<1> DEFINE R == xTaskPriorityInherit(K, h)
<1>1. K.current \in Tasks /\ \A t \in Tasks : K.prio[t] \in Nat
  BY DEF Kernel
<1>2. CASE h # NoTask /\ K.prio[h] < K.prio[K.current]
  <2>1. h \in Tasks /\ K.prio[K.current] \in Nat
    BY <1>1, <1>2
  <2>2. R = SetPriority(K, h, K.prio[K.current])
    BY <1>2 DEF xTaskPriorityInherit
  <2>3. /\ R \in Kernel /\ Filed(R) /\ Unmoved(K, R)
        /\ R.prio = [K.prio EXCEPT ![h] = K.prio[K.current]] /\ R.held = K.held
    BY <2>1, <2>2, Repriced
  <2>4. \A t \in Tasks : R.prio[t] = IF t = h THEN K.prio[K.current] ELSE K.prio[t]
    BY <2>3 DEF Kernel
  <2> QED
    BY <1>2, <2>1, <2>3, <2>4
<1>3. CASE ~(h # NoTask /\ K.prio[h] < K.prio[K.current])
  <2>1. R = K
    BY <1>3 DEF xTaskPriorityInherit
  <2>2. Unmoved(K, K)
    BY DEF Unmoved
  <2>3. NoTask \notin Tasks
    BY KernelAssumption
  <2> QED
    BY <1>1, <1>3, <2>1, <2>2, <2>3
<1> QED
  BY <1>2, <1>3

(* xTaskPriorityDisinherit gives a task its own priority back with the     *)
(* last mutex it holds.                                                    *)
LEMMA Disinheritance ==
  ASSUME NEW K \in Kernel, Filed(K), NEW t \in Tasks
  PROVE  LET R == xTaskPriorityDisinherit(K, t)
         IN  /\ R \in Kernel /\ Filed(R) /\ Unmoved(K, R)
             /\ R.held = [K.held EXCEPT ![t] = @ - 1]
             /\ \A u \in Tasks : R.prio[u] = IF u = t /\ Disinherits(K, t) THEN BasePriority[t]
                                             ELSE K.prio[u]
<1> DEFINE B == [K EXCEPT !.held[t] = @ - 1]
           R == xTaskPriorityDisinherit(K, t)
<1>1. /\ B \in Kernel /\ Unmoved(K, B) /\ B.held = [K.held EXCEPT ![t] = @ - 1]
      /\ B.prio = K.prio /\ B.level = K.level /\ B.top = K.top
  <2>1. K.held[t] - 1 \in Int
    BY DEF Kernel
  <2>2. B \in Kernel
    BY <2>1 DEF Kernel
  <2> QED
    BY <2>2 DEF Kernel, Unmoved
<1>2. Filed(B)
  BY <1>1 DEF Filed, Unmoved
<1> HIDE DEF B
<1>3. BasePriority[t] \in Nat
  BY KernelAssumption
<1>4. CASE Disinherits(K, t)
  <2> DEFINE S == SetPriority(B, t, BasePriority[t])
  <2>1. R = S
    BY <1>4 DEF xTaskPriorityDisinherit, B
  <2>2. /\ S \in Kernel /\ Filed(S) /\ Unmoved(B, S)
        /\ S.prio = [B.prio EXCEPT ![t] = BasePriority[t]] /\ S.held = B.held
    BY <1>1, <1>2, <1>3, Repriced
  <2> HIDE DEF S
  <2>3. Unmoved(K, S)
    BY <1>1, <2>2 DEF Unmoved
  <2>4. \A u \in Tasks : S.prio[u] = IF u = t THEN BasePriority[t] ELSE K.prio[u]
    BY <1>1, <2>2 DEF Kernel
  <2> QED
    BY <1>1, <1>4, <2>1, <2>2, <2>3, <2>4
<1>5. CASE ~Disinherits(K, t)
  <2>1. R = B
    BY <1>5 DEF xTaskPriorityDisinherit, B
  <2> QED
    BY <1>1, <1>2, <1>5, <2>1
<1> QED
  BY <1>4, <1>5

(* vTaskPriorityDisinheritAfterTimeout changes the priority of the holder  *)
(* at most.                                                                *)
LEMMA LateDisinheritance ==
  ASSUME NEW K \in Kernel, Filed(K), NEW h \in Tasks \union {NoTask}, NEW n \in Nat
  PROVE  LET R == vTaskPriorityDisinheritAfterTimeout(K, h, n)
         IN  /\ R \in Kernel /\ Filed(R) /\ Unmoved(K, R) /\ R.held = K.held
             /\ h = NoTask => R = K
<1> DEFINE R == vTaskPriorityDisinheritAfterTimeout(K, h, n)
<1>1. CASE h # NoTask /\ K.held[h] = 1
  <2>1. h \in Tasks /\ BasePriority[h] \in Nat
    BY <1>1, KernelAssumption
  <2> DEFINE P == {BasePriority[h], n}
             p == Max(P)
  <2>2. P \in SUBSET (0..(BasePriority[h] + n)) /\ P # {} /\ BasePriority[h] + n \in Nat
    BY <2>1
  <2>3. p \in Nat
    <3>1. Max(P) \in P
      BY <2>2, Greatest
    <3> QED
      BY <2>1, <3>1
  <2> HIDE DEF p
  <2>4. R = SetPriority(K, h, p)
    BY <1>1 DEF vTaskPriorityDisinheritAfterTimeout, p
  <2> DEFINE S == SetPriority(K, h, p)
  <2>5. S \in Kernel /\ Filed(S) /\ Unmoved(K, S) /\ S.held = K.held
    BY <2>1, <2>3, Repriced
  <2> HIDE DEF S
  <2>6. R = S /\ h # NoTask
    BY <1>1, <2>4 DEF S
  <2> QED
    BY <2>5, <2>6
<1>2. CASE ~(h # NoTask /\ K.held[h] = 1)
  <2>1. R = K
    BY <1>2 DEF vTaskPriorityDisinheritAfterTimeout
  <2> QED
    BY <2>1 DEF Unmoved
<1> QED
  BY <1>1, <1>2

(* xTaskRemoveFromEventList: xNextTaskUnblockTime is computed anew.        *)
Recomputed(R) ==
  /\ \A t \in Tasks : R.list[t] = "delayed" => R.next <= R.wake[t]
  /\ R.next = portMAX_DELAY \/ \E t \in Tasks : R.list[t] = "delayed" /\ R.next = R.wake[t]

(* prvResetNextTaskUnblockTime makes xNextTaskUnblockTime the least wake   *)
(* time of the delayed list.                                               *)
LEMMA NextRecomputed ==
  ASSUME NEW K \in Kernel
  PROVE  LET R == prvResetNextTaskUnblockTime(K)
         IN  /\ R \in Kernel /\ Recomputed(R)
             /\ \E n \in Ticks : R = [K EXCEPT !.next = n]
<1> DEFINE D == Delayed(K)
           low == Lowest(K, D)
           R == [K EXCEPT !.next = low]
<1>1. D \in SUBSET Tasks /\ \A t \in Tasks : t \in D <=> K.list[t] = "delayed"
  BY DEF Delayed
<1>2. prvResetNextTaskUnblockTime(K) = R
  BY DEF prvResetNextTaskUnblockTime
<1> HIDE DEF D
<1>3. /\ low \in Ticks /\ \A t \in D : low <= K.wake[t]
      /\ low = portMAX_DELAY \/ \E t \in D : low = K.wake[t]
  BY <1>1, LowestWake
<1> HIDE DEF low
<1>4. R \in Kernel /\ R.list = K.list /\ R.wake = K.wake /\ R.next = low
  BY <1>3 DEF Kernel
<1>5. Recomputed(R)
  BY <1>1, <1>3, <1>4 DEF Recomputed
<1> QED
  BY <1>2, <1>3, <1>4, <1>5

(* What the wake of the first task in the waiting list of s changes; while *)
(* the scheduler is suspended the task becomes a pending one.              *)
Removed(K, s, R) ==
  LET t == Head(K.waiting[s])
  IN  /\ R.current = K.current /\ R.prio = K.prio /\ R.held = K.held
      /\ R.wake = K.wake /\ R.tick = K.tick /\ R.overflows = K.overflows
      /\ R.stopped = K.stopped /\ R.pended = K.pended
      /\ R.waiting = [K.waiting EXCEPT ![s] = Tail(@)]
      /\ R.yield = (K.yield \/ WakesHigher(K, s))
      /\ R.top >= K.top
      /\ \A u \in Tasks : u # t => R.list[u] = K.list[u] /\ R.level[u] = K.level[u]
      /\ K.stopped => /\ R.pending = K.pending \union {t} /\ R.list = K.list
                      /\ R.level = K.level /\ R.top = K.top
      /\ ~K.stopped => /\ R.pending = K.pending /\ R.list[t] = "ready"
                       /\ R.level[t] = K.prio[t] /\ K.prio[t] <= R.top
      /\ Recomputed(R)

(* xTaskRemoveFromEventList does what Removed says.                        *)
LEMMA Removal ==
  ASSUME NEW K \in Kernel, NEW s \in Semaphores, K.waiting[s] # <<>>
  PROVE  /\ xTaskRemoveFromEventList(K, s) \in Kernel
         /\ Removed(K, s, xTaskRemoveFromEventList(K, s))
<1> DEFINE t == Head(K.waiting[s])
           tail == Tail(K.waiting[s])
           higher == WakesHigher(K, s)
           B == [K EXCEPT !.waiting[s] = Tail(@), !.yield = @ \/ higher]
           A == IF K.stopped THEN [B EXCEPT !.pending = @ \union {t}]
                             ELSE prvAddTaskToReadyList(B, {t})
           R == prvResetNextTaskUnblockTime(A)
<1>1. K.waiting[s] \in Seq(Tasks)
  BY DEF Kernel
<1>2. t \in Tasks /\ tail \in Seq(Tasks)
  BY <1>1, Beheaded
<1>3. higher \in BOOLEAN
  BY DEF WakesHigher
<1>4. xTaskRemoveFromEventList(K, s) = R
  BY DEF xTaskRemoveFromEventList
<1> HIDE DEF t, higher
<1>5. /\ B \in Kernel /\ Kept(K, B) /\ B.list = K.list /\ B.level = K.level /\ B.top = K.top
      /\ B.tick = K.tick /\ B.overflows = K.overflows
      /\ B.waiting = [K.waiting EXCEPT ![s] = Tail(@)]
      /\ B.yield = (K.yield \/ higher)
  <2>1. [K.waiting EXCEPT ![s] = tail] \in [Semaphores -> Seq(Tasks)]
    BY <1>2 DEF Kernel
  <2>2. (K.yield \/ higher) \in BOOLEAN
    OBVIOUS
  <2> HIDE DEF tail
  <2> DEFINE C == [K EXCEPT !.waiting = [@ EXCEPT ![s] = tail], !.yield = @ \/ higher]
  <2>3. B = C
    BY DEF tail, Kernel
  <2>4. C \in Kernel
    BY <2>1, <2>2 DEF Kernel
  <2> QED
    BY <2>3, <2>4 DEF Kernel, Kept, tail
<1> HIDE DEF B
<1>6. /\ A \in Kernel /\ A.current = K.current /\ A.prio = K.prio /\ A.held = K.held
      /\ A.wake = K.wake /\ A.tick = K.tick /\ A.overflows = K.overflows
      /\ A.stopped = K.stopped /\ A.pended = K.pended
      /\ A.waiting = [K.waiting EXCEPT ![s] = Tail(@)]
      /\ A.yield = (K.yield \/ higher)
      /\ A.top >= K.top
      /\ \A u \in Tasks : u # t => A.list[u] = K.list[u] /\ A.level[u] = K.level[u]
      /\ K.stopped => /\ A.pending = K.pending \union {t} /\ A.list = K.list
                      /\ A.level = K.level /\ A.top = K.top
      /\ ~K.stopped => /\ A.pending = K.pending /\ A.list[t] = "ready"
                       /\ A.level[t] = K.prio[t] /\ K.prio[t] <= A.top
  <2>1. CASE K.stopped
    <3>1. A = [B EXCEPT !.pending = @ \union {t}]
      BY <2>1
    <3> HIDE DEF A
    <3>4. B.pending \union {t} \in SUBSET Tasks
      BY <1>2, <1>5 DEF Kernel
    <3>2. A \in Kernel
      BY <1>5, <3>1, <3>4 DEF Kernel
    <3>3. K.top \in Nat /\ B.top = K.top
      BY <1>5 DEF Kernel
    <3>5. /\ A.current = B.current /\ A.prio = B.prio /\ A.held = B.held
          /\ A.wake = B.wake /\ A.tick = B.tick /\ A.overflows = B.overflows
          /\ A.stopped = B.stopped /\ A.pended = B.pended /\ A.waiting = B.waiting
          /\ A.yield = B.yield /\ A.top = B.top /\ A.list = B.list /\ A.level = B.level
          /\ A.pending = B.pending \union {t}
      BY <1>5, <3>1 DEF Kernel, Kept
    <3>6. /\ A.current = K.current /\ A.prio = K.prio /\ A.held = K.held
          /\ A.wake = K.wake /\ A.tick = K.tick /\ A.overflows = K.overflows
          /\ A.stopped = K.stopped /\ A.pended = K.pended
          /\ A.waiting = [K.waiting EXCEPT ![s] = Tail(@)]
      BY <1>5, <3>5 DEF Kept
    <3>7. A.yield = (K.yield \/ higher)
      BY <1>5, <3>5
    <3>8. A.top >= K.top /\ A.top = K.top /\ A.list = K.list /\ A.level = K.level
      BY <1>5, <3>3, <3>5
    <3>9. A.pending = K.pending \union {t}
      BY <1>5, <3>5 DEF Kept
    <3> QED
      BY <2>1, <3>2, <3>6, <3>7, <3>8, <3>9
  <2>2. CASE ~K.stopped
    <3>1. A = prvAddTaskToReadyList(B, {t})
      BY <2>2
    <3> HIDE DEF A
    <3>2. {t} \in SUBSET Tasks
      BY <1>2
    <3>3. /\ A \in Kernel
          /\ Kept(B, A) /\ A.waiting = B.waiting /\ A.tick = B.tick
          /\ A.overflows = B.overflows /\ A.next = B.next /\ A.yield = B.yield
          /\ A.list[t] = "ready" /\ A.level[t] = B.prio[t] /\ B.prio[t] <= A.top
          /\ \A u \in Tasks \ {t} : A.list[u] = B.list[u] /\ A.level[u] = B.level[u]
          /\ A.top >= B.top
      BY <1>5, <3>1, <3>2, MadeReady
    <3> QED
      BY <1>5, <2>2, <3>3 DEF Kept
  <2> QED
    BY <2>1, <2>2
<1> HIDE DEF A
<1>7. R \in Kernel /\ Recomputed(R) /\ \E n \in Ticks : R = [A EXCEPT !.next = n]
  BY <1>6, NextRecomputed
<1> HIDE DEF R
<1>8. PICK n \in Ticks : R = [A EXCEPT !.next = n]
  BY <1>7
<1>9. /\ R.current = A.current /\ R.prio = A.prio /\ R.held = A.held
      /\ R.wake = A.wake /\ R.tick = A.tick /\ R.overflows = A.overflows
      /\ R.stopped = A.stopped /\ R.pended = A.pended /\ R.waiting = A.waiting
      /\ R.yield = A.yield /\ R.top = A.top /\ R.list = A.list /\ R.level = A.level
      /\ R.pending = A.pending
  BY <1>6, <1>8 DEF Kernel
<1>10. Removed(K, s, R)
  BY <1>6, <1>7, <1>9 DEF Removed, t, higher
<1> QED
  BY <1>4, <1>7, <1>10

(* Where prvAddCurrentTaskToDelayedList puts the running task.             *)
LEMMA Parked ==
  ASSUME NEW K \in Kernel, NEW ticks \in Ticks, NEW indefinitely \in BOOLEAN
  PROVE  LET R == prvAddCurrentTaskToDelayedList(K, ticks, indefinitely)
             t == K.current
         IN  /\ R \in Kernel
             /\ R.current = K.current /\ R.top = K.top /\ R.waiting = K.waiting
             /\ R.pending = K.pending /\ R.tick = K.tick /\ R.overflows = K.overflows
             /\ R.next = K.next /\ R.stopped = K.stopped /\ R.pended = K.pended
             /\ R.yield = K.yield /\ R.prio = K.prio /\ R.held = K.held
             /\ \A u \in Tasks : u # t => /\ R.list[u] = K.list[u]
                                           /\ R.level[u] = K.level[u]
                                           /\ R.wake[u] = K.wake[u]
             /\ R.list[t] \in Asleep
             /\ R.list[t] = "suspended" <=> ticks = portMAX_DELAY /\ indefinitely
             /\ R.list[t] = "delayed" => R.wake[t] = K.tick + ticks
             /\ R.list[t] = "overflow" => R.wake[t] = K.tick + ticks - TickMod
<1> DEFINE R == prvAddCurrentTaskToDelayedList(K, ticks, indefinitely)
           t == K.current
           wake == (K.tick + ticks) % TickMod
<1>1. t \in Tasks /\ K.tick \in Ticks /\ t = K.current
  BY DEF Kernel
<1>2. TickMod = portMAX_DELAY + 1 /\ portMAX_DELAY \in Nat /\ TickMod \in Nat
  BY KernelAssumption DEF portMAX_DELAY
<1>3. /\ wake \in Ticks
      /\ wake < K.tick => wake = K.tick + ticks - TickMod
      /\ ~(wake < K.tick) => wake = K.tick + ticks
  <2> DEFINE n == K.tick + ticks
  <2>1. n \in Int /\ n >= -TickMod /\ n < 2 * TickMod /\ n >= 0
    BY <1>1, <1>2 DEF Ticks
  <2>2. n = K.tick + ticks
    OBVIOUS
  <2> HIDE DEF n
  <2>3. n % TickMod = IF n < 0 THEN n + TickMod ELSE IF n < TickMod THEN n ELSE n - TickMod
    BY <1>2, <2>1, Remainder
  <2>4. wake = n % TickMod
    BY <2>2
  <2> HIDE DEF wake
  <2> QED
    BY <1>1, <1>2, <2>1, <2>2, <2>3, <2>4 DEF Ticks
<1> HIDE DEF wake, t
<1>4. CASE ticks = portMAX_DELAY /\ indefinitely
  <2>1. R = [K EXCEPT !.list[t] = "suspended", !.level[t] = 0]
    BY <1>4 DEF prvAddCurrentTaskToDelayedList, Unready, t
  <2> HIDE DEF R
  <2>2. R \in Kernel
    BY <1>1, <2>1 DEF Kernel, Lists, Asleep
  <2>3. R.list = [K.list EXCEPT ![t] = "suspended"] /\ R.level = [K.level EXCEPT ![t] = 0]
    BY <2>1 DEF Kernel
  <2>4. /\ R.current = K.current /\ R.top = K.top /\ R.waiting = K.waiting
        /\ R.pending = K.pending /\ R.tick = K.tick /\ R.overflows = K.overflows
        /\ R.next = K.next /\ R.stopped = K.stopped /\ R.pended = K.pended
        /\ R.yield = K.yield /\ R.prio = K.prio /\ R.held = K.held /\ R.wake = K.wake
    BY <2>1 DEF Kernel
  <2>5. R.list[t] = "suspended" /\ \A u \in Tasks : u # t => R.list[u] = K.list[u] /\ R.level[u] = K.level[u]
    BY <1>1, <2>3 DEF Kernel
  <2> QED
    BY <1>4, <2>2, <2>4, <2>5 DEF Asleep, R, t
<1>5. CASE ~(ticks = portMAX_DELAY /\ indefinitely)
  <2> DEFINE to == IF wake < K.tick THEN "overflow" ELSE "delayed"
  <2>1. R = [K EXCEPT !.list[t] = to, !.level[t] = 0, !.wake[t] = wake]
    BY <1>5 DEF prvAddCurrentTaskToDelayedList, Unready, t, wake
  <2> HIDE DEF R
  <2>6. to \in Lists
    BY DEF Lists, Asleep
  <2>7. to \in Timed /\ (to = "overflow" => wake < K.tick) /\ (to = "delayed" => ~(wake < K.tick))
    BY DEF Timed
  <2> HIDE DEF to
  <2>2. R \in Kernel
    BY <1>1, <1>3, <2>1, <2>6 DEF Kernel
  <2>3. R.list = [K.list EXCEPT ![t] = to] /\ R.level = [K.level EXCEPT ![t] = 0]
        /\ R.wake = [K.wake EXCEPT ![t] = wake]
    BY <2>1 DEF Kernel
  <2>4. /\ R.current = K.current /\ R.top = K.top /\ R.waiting = K.waiting
        /\ R.pending = K.pending /\ R.tick = K.tick /\ R.overflows = K.overflows
        /\ R.next = K.next /\ R.stopped = K.stopped /\ R.pended = K.pended
        /\ R.yield = K.yield /\ R.prio = K.prio /\ R.held = K.held
    BY <2>1 DEF Kernel
  <2>5. R.list[t] = to /\ R.wake[t] = wake /\ \A u \in Tasks : u # t =>
            R.list[u] = K.list[u] /\ R.level[u] = K.level[u] /\ R.wake[u] = K.wake[u]
    BY <1>1, <2>3 DEF Kernel
  <2>8. /\ R.list[t] \in Asleep /\ R.list[t] # "suspended"
        /\ R.list[t] = "delayed" => R.wake[t] = K.tick + ticks
        /\ R.list[t] = "overflow" => R.wake[t] = K.tick + ticks - TickMod
    BY <1>3, <2>5, <2>7 DEF Asleep, Timed
  <2> QED
    BY <1>5, <2>2, <2>4, <2>5, <2>8 DEF R, t
<1> QED
  BY <1>4, <1>5

(* What prvUnlockQueue does to the kernel's data: U are the waiting tasks  *)
(* it takes from the list and keeps in xPendingReadyList.                  *)
Released(K, s, n) ==
  LET woken[i \in 0..n] == IF i = 0 THEN K
                           ELSE xTaskRemoveFromEventList(woken[i - 1], s)
  IN  woken[n]

(* What n wakes from the waiting list of s change while the scheduler is   *)
(* suspended: U are the tasks woken.                                       *)
Unlocked(K, s, n, R) ==
  /\ R.current = K.current /\ R.list = K.list /\ R.level = K.level /\ R.top = K.top
  /\ R.prio = K.prio /\ R.held = K.held /\ R.wake = K.wake /\ R.tick = K.tick
  /\ R.overflows = K.overflows /\ R.stopped = K.stopped /\ R.pended = K.pended
  /\ R.next = K.next \/ Recomputed(R)
  /\ Len(R.waiting[s]) = Len(K.waiting[s]) - n
  /\ \A z \in Semaphores : z # s => R.waiting[z] = K.waiting[z]
  /\ n = 0 => R = K
  /\ \E U \in SUBSET Elements(K.waiting[s]) :
        /\ R.pending = K.pending \union U
        /\ Elements(K.waiting[s]) = Elements(R.waiting[s]) \union U
        /\ Once(K.waiting[s]) => /\ Once(R.waiting[s])
                                 /\ U \intersect Elements(R.waiting[s]) = {}
        /\ n > 0 => U # {}

(* The loop of prvUnlockQueue does what Unlocked says.                     *)
LEMMA Release ==
  ASSUME NEW K \in Kernel, K.stopped, NEW s \in Semaphores, NEW n \in 0..Len(K.waiting[s])
  PROVE  Released(K, s, n) \in Kernel /\ Unlocked(K, s, n, Released(K, s, n))
<1> DEFINE Reached(i, R) == R \in Kernel /\ Unlocked(K, s, i, R)
           Y == {p \in (0..n) \X Kernel : Reached(p[1], p[2])}
           Step(p) == IF p[1] < n THEN <<p[1] + 1, xTaskRemoveFromEventList(p[2], s)>> ELSE p
           G == [q \in (1..n) \X Y |-> Step(q[2])]
<1>1. K.waiting[s] \in Seq(Tasks) /\ n \in Nat /\ Len(K.waiting[s]) \in Nat
  BY DEF Kernel
<1>2. Reached(0, K)
  <2>1. \E U \in SUBSET Elements(K.waiting[s]) :
          /\ K.pending = K.pending \union U
          /\ Elements(K.waiting[s]) = Elements(K.waiting[s]) \union U
          /\ Once(K.waiting[s]) => /\ Once(K.waiting[s])
                                   /\ U \intersect Elements(K.waiting[s]) = {}
          /\ 0 > 0 => U # {}
    <3>1. {} \in SUBSET Elements(K.waiting[s])
      OBVIOUS
    <3>2. ~(0 > 0)
      OBVIOUS
    <3> QED
      BY <3>1, <3>2
  <2>2. Len(K.waiting[s]) = Len(K.waiting[s]) - 0
    BY <1>1
  <2> QED
    BY <2>1, <2>2 DEF Unlocked
<1>3. ASSUME NEW i \in 0..n, i < n, NEW R, Reached(i, R)
      PROVE  Reached(i + 1, xTaskRemoveFromEventList(R, s))
  <2> DEFINE Q == xTaskRemoveFromEventList(R, s)
             q == R.waiting[s]
  <2>1. R \in Kernel /\ q \in Seq(Tasks) /\ Len(q) = Len(K.waiting[s]) - i /\ R.stopped
    BY <1>3 DEF Kernel, Unlocked
  <2>2. q # <<>>
    <3>1. Len(q) > 0
      BY <1>1, <1>3, <2>1
    <3> QED
      BY <3>1
  <2>3. Q \in Kernel /\ Removed(R, s, Q)
    BY <2>1, <2>2, Removal
  <2> HIDE DEF Q
  <2>4. Q.waiting = [R.waiting EXCEPT ![s] = Tail(@)] /\ Q.pending = R.pending \union {Head(q)}
        /\ Q.list = R.list /\ Q.level = R.level /\ Q.top = R.top
    BY <2>1, <2>3 DEF Removed
  <2>5. Q.waiting[s] = Tail(q) /\ \A z \in Semaphores : z # s => Q.waiting[z] = R.waiting[z]
    BY <2>1, <2>4 DEF Kernel
  <2>6. /\ Tail(q) \in Seq(Tasks) /\ Len(Tail(q)) = Len(q) - 1
        /\ Elements(q) = Elements(Tail(q)) \union {Head(q)}
        /\ Once(q) => Once(Tail(q)) /\ Head(q) \notin Elements(Tail(q))
    BY <2>1, <2>2, Beheaded
  <2> HIDE DEF q
  <2>7. PICK U \in SUBSET Elements(K.waiting[s]) :
        /\ R.pending = K.pending \union U
        /\ Elements(K.waiting[s]) = Elements(q) \union U
        /\ Once(K.waiting[s]) => /\ Once(q)
                                 /\ U \intersect Elements(q) = {}
    BY <1>3 DEF Unlocked, q
  <2> DEFINE V == U \union {Head(q)}
  <2>8. /\ V \in SUBSET Elements(K.waiting[s])
        /\ Q.pending = K.pending \union V
        /\ Elements(K.waiting[s]) = Elements(Q.waiting[s]) \union V
        /\ Once(K.waiting[s]) => /\ Once(Q.waiting[s])
                                 /\ V \intersect Elements(Q.waiting[s]) = {}
        /\ V # {}
    BY <2>4, <2>5, <2>6, <2>7
  <2>9. Len(Q.waiting[s]) = Len(K.waiting[s]) - (i + 1)
    BY <1>1, <2>1, <2>5, <2>6 DEF q
  <2>10. \A z \in Semaphores : z # s => Q.waiting[z] = K.waiting[z]
    BY <1>3, <2>5 DEF Unlocked
  <2>11. /\ Q.current = K.current /\ Q.list = K.list /\ Q.level = K.level /\ Q.top = K.top
         /\ Q.prio = K.prio /\ Q.held = K.held /\ Q.wake = K.wake /\ Q.tick = K.tick
         /\ Q.overflows = K.overflows /\ Q.stopped = K.stopped /\ Q.pended = K.pended
         /\ Recomputed(Q)
    BY <1>3, <2>3, <2>4 DEF Unlocked, Removed
  <2>12. i + 1 # 0
    BY <1>3
  <2> HIDE DEF V
  <2>13. \E W \in SUBSET Elements(K.waiting[s]) :
          /\ Q.pending = K.pending \union W
          /\ Elements(K.waiting[s]) = Elements(Q.waiting[s]) \union W
          /\ Once(K.waiting[s]) => /\ Once(Q.waiting[s])
                                   /\ W \intersect Elements(Q.waiting[s]) = {}
          /\ i + 1 > 0 => W # {}
    BY <2>8
  <2>14. Unlocked(K, s, i + 1, Q)
    BY <2>9, <2>10, <2>11, <2>12, <2>13 DEF Unlocked
  <2> QED
    BY <2>3, <2>14 DEF Q
<1> HIDE DEF Reached
<1>4. G \in [(1..n) \X Y -> Y]
  <2> SUFFICES ASSUME NEW p \in Y PROVE Step(p) \in Y
    OBVIOUS
  <2>1. p[1] \in 0..n /\ p = <<p[1], p[2]>> /\ Reached(p[1], p[2])
    OBVIOUS
  <2>2. CASE p[1] < n
    <3>1. Reached(p[1] + 1, xTaskRemoveFromEventList(p[2], s))
      BY <1>3, <2>1, <2>2
    <3>2. xTaskRemoveFromEventList(p[2], s) \in Kernel
      BY <3>1 DEF Reached
    <3>3. p[1] + 1 \in 0..n
      BY <1>1, <2>1, <2>2
    <3> QED
      BY <2>2, <3>1, <3>2, <3>3
  <2>3. CASE ~(p[1] < n)
    BY <2>3
  <2> QED
    BY <2>2, <2>3
<1>5. <<0, K>> \in Y
  BY <1>1, <1>2
<1>6. PICK f \in [0..n -> Y] : Follows(f, n, <<0, K>>, G)
  <2> DEFINE a == <<0, K>>
  <2> HIDE DEF a, G, Y
  <2>1. a \in Y
    BY <1>5 DEF a
  <2>2. \E f \in [0..n -> Y] : Follows(f, n, a, G)
    BY <1>1, <1>4, <2>1, Iterates
  <2> QED
    BY <2>2 DEF a
<1>7. f[0] = <<0, K>> /\ \A i \in 1..n : f[i] = Step(f[i - 1])
  <2>1. ASSUME NEW i \in 1..n PROVE f[i] = Step(f[i - 1])
    <3>1. i - 1 \in 0..n
      BY <1>1
    <3> HIDE DEF Y, Step
    <3>2. <<i, f[i - 1]>> \in (1..n) \X Y
      BY <3>1
    <3> QED
      BY <1>6, <3>2 DEF Follows
  <2> QED
    BY <1>6, <2>1 DEF Follows
<1> DEFINE S == {i \in Nat : i <= n => f[i][1] = i}
<1>8. \A i \in Nat : i \in S
  <2>1. 0 \in S
    BY <1>7
  <2>2. ASSUME NEW i \in Nat, i \in S PROVE i + 1 \in S
    <3> SUFFICES ASSUME i + 1 <= n PROVE f[i + 1][1] = i + 1
      OBVIOUS
    <3>1. f[i][1] = i /\ i < n /\ i + 1 \in 1..n /\ (i + 1) - 1 = i
      BY <1>1, <2>2
    <3>2. f[i + 1] = Step(f[i])
      <4> HIDE DEF Step
      <4> QED
        BY <1>7, <3>1
    <3>3. f[i + 1] = <<f[i][1] + 1, xTaskRemoveFromEventList(f[i][2], s)>>
      BY <3>1, <3>2
    <3> QED
      BY <3>1, <3>3
  <2>3. \A i \in Nat : i \in S => i + 1 \in S
    BY <2>2
  <2> HIDE DEF S
  <2> QED
    BY <2>1, <2>3, Count
<1> DEFINE h == [i \in 0..n |-> f[i][2]]
           Unwound(g) == g = [i \in 0..n |-> IF i = 0 THEN K
                                             ELSE xTaskRemoveFromEventList(g[i - 1], s)]
<1>9. h[0] = K /\ \A i \in 1..n : h[i] = xTaskRemoveFromEventList(h[i - 1], s)
  <2>1. ASSUME NEW i \in 1..n PROVE h[i] = xTaskRemoveFromEventList(h[i - 1], s)
    <3>1. i - 1 \in 0..n /\ i - 1 \in Nat /\ i - 1 <= n /\ i - 1 < n /\ i \in 0..n
      BY <1>1
    <3>2. f[i - 1][1] = i - 1
      BY <1>8, <3>1
    <3>3. f[i] = <<(i - 1) + 1, xTaskRemoveFromEventList(f[i - 1][2], s)>>
      BY <1>7, <3>1, <3>2
    <3> QED
      BY <3>1, <3>3
  <2>2. h[0] = K
    BY <1>1, <1>7
  <2> QED
    BY <2>1, <2>2
<1>10. \A i \in 0..n : Reached(i, h[i])
  <2> TAKE i \in 0..n
  <2>1. f[i] \in Y /\ f[i][1] = i
    BY <1>1, <1>6, <1>8
  <2> QED
    BY <2>1
<1>11. Unwound(h)
  <2>1. \A i \in 0..n : h[i] = IF i = 0 THEN K ELSE xTaskRemoveFromEventList(h[i - 1], s)
    <3> TAKE i \in 0..n
    <3> HIDE DEF h
    <3>1. CASE i = 0
      BY <1>9, <3>1
    <3>2. CASE i # 0
      <4>1. i \in 1..n
        BY <1>1, <3>2
      <4> QED
        BY <1>9, <3>2, <4>1
    <3> QED
      BY <3>1, <3>2
  <2>2. h = [i \in 0..n |-> h[i]]
    OBVIOUS
  <2> HIDE DEF h
  <2> QED
    BY <2>1, <2>2, Zenon
<1> DEFINE g == CHOOSE w : Unwound(w)
<1>12. Unwound(g)
  <2> HIDE DEF Unwound
  <2> QED
    BY <1>11
<1>13. Released(K, s, n) = g[n]
  BY DEF Released
<1> HIDE DEF g, h
<1>14. g[0] = K /\ \A i \in 1..n : g[i] = xTaskRemoveFromEventList(g[i - 1], s)
  <2>1. \A i \in 0..n : g[i] = IF i = 0 THEN K ELSE xTaskRemoveFromEventList(g[i - 1], s)
    BY <1>12, Zenon
  <2>2. 0 \in 0..n /\ \A i \in 1..n : i \in 0..n /\ i # 0
    BY <1>1
  <2> QED
    BY <2>1, <2>2, Zenon
<1> DEFINE T == {i \in Nat : i <= n => g[i] = h[i]}
<1>15. \A i \in Nat : i \in T
  <2>1. 0 \in T
    BY <1>9, <1>14
  <2>2. ASSUME NEW i \in Nat, i \in T PROVE i + 1 \in T
    <3> SUFFICES ASSUME i + 1 <= n PROVE g[i + 1] = h[i + 1]
      OBVIOUS
    <3>1. i <= n /\ i + 1 \in 1..n /\ (i + 1) - 1 = i
      <4> HIDE DEF T
      <4>1. n \in Nat
        BY <1>1
      <4> QED
        BY <4>1
    <3>2. g[i] = h[i]
      BY <2>2, <3>1
    <3>3. g[i + 1] = xTaskRemoveFromEventList(g[i], s) /\ h[i + 1] = xTaskRemoveFromEventList(h[i], s)
      BY <1>9, <1>14, <3>1, <3>2
    <3> QED
      BY <3>2, <3>3
  <2>3. \A i \in Nat : i \in T => i + 1 \in T
    BY <2>2
  <2> HIDE DEF T
  <2> QED
    BY <2>1, <2>3, Count
<1>16. Reached(n, g[n])
  BY <1>1, <1>10, <1>15
<1> QED
  BY <1>13, <1>16 DEF Reached

-----------------------------------------------------------------------------
(* The inductive invariant: types and where the tasks are                  *)

(* The places in a call where the scheduler is suspended, those of a take, *)
(* and those of every call.                                                *)
StopPcs == {"lock", "look", "block", "place", "next", "unlock", "resume", "idle"}
TakePcs == {"take", "fatal", "lock", "look", "block", "unlock", "late", "disinherit"}
CallPcs == TakePcs \union {"stop", "place", "next", "resume", "asleep"}

(* The calls that can wait, and where a task can be in one.                *)
WaitCalls == {TakeCall(s, n) : s \in Semaphores, n \in Ticks}
               \union {DelayCall(n) : n \in 1..portMAX_DELAY}
Job == [pc : CallPcs, call : WaitCalls, ticks : Ticks, entered : Ticks, laps : Nat,
        since : Nat, path : {"", "late", "again", "blocked"}, inherited : BOOLEAN]
IdleJob == [pc |-> "idle"]
Semaphore == [count : {0, 1}, holder : Tasks \union {NoTask}, txLock : Int]

(* The type invariant. A ready task is in the ready list of its priority.  *)
Types ==
  /\ kernel \in Kernel /\ Filed(kernel)
  /\ sem \in [Semaphores -> Semaphore]
  /\ switch \in BOOLEAN
  /\ job \in [Tasks -> Job \union {NoJob, IdleJob}]
  /\ clock \in Nat /\ gives \in Nat

InTake(t)  == job[t].pc \in CallPcs /\ job[t].call.op = "take"
InDelay(t) == job[t].pc \in CallPcs /\ job[t].call.op = "delay"

(* Who is between vTaskSuspendAll and xTaskResumeAll runs, with the        *)
(* scheduler suspended, and no other task is there.                        *)
Control ==
  /\ \A t \in Tasks : job[t].pc \in StopPcs => kernel.stopped /\ kernel.current = t
  /\ kernel.stopped => job[kernel.current].pc \in StopPcs
  /\ ~kernel.stopped => kernel.pending = {} /\ kernel.pended = 0
  /\ \A t \in Tasks : job[t].pc = "idle" => t = Idle
  /\ job[Idle].pc \in {"run", "idle"}
  /\ \A t \in Tasks : job[t].pc \in TakePcs => job[t].call.op = "take"
  /\ \A t \in Tasks : job[t].pc \in {"place", "asleep"} => job[t].call.op = "delay"
  /\ \A t \in Tasks : InTake(t) /\ job[t].pc \in {"block", "next"} =>
        job[t].path = "blocked"

(* A queue is locked from prvLockQueue to prvUnlockQueue.                  *)
Locking(t, s) ==
  /\ InTake(t) /\ job[t].pc \in {"look", "block", "next", "unlock"}
  /\ job[t].call.sem = s
Locks ==
  \A s \in Semaphores :
     /\ sem[s].txLock >= -1
     /\ sem[s].txLock # -1 <=> \E t \in Tasks : Locking(t, s)

(* What a call of each kind has, and that the idle task makes none.        *)
LEMMA CallForms ==
  ASSUME NEW t \in Tasks, NEW c \in Calls[t]
  PROVE  /\ t # Idle
         /\ c.op = "take" => /\ c \in WaitCalls /\ c.sem \in Semaphores /\ c.ticks \in Ticks
         /\ c.op = "give" => c.sem \in Semaphores
         /\ c.op = "delay" => c \in WaitCalls /\ c.ticks \in 1..portMAX_DELAY
         /\ c.op = "create" => c.task \in Tasks /\ c.task # Idle
<1>1. c \in {TakeCall(s, n) : s \in Semaphores, n \in 0..portMAX_DELAY}
             \union {GiveCall(s) : s \in Semaphores}
             \union {DelayCall(n) : n \in 1..portMAX_DELAY}
             \union {CreateCall(u) : u \in Tasks \ {Idle}} \union {DeleteCall}
  BY KernelAssumption
<1>2. t # Idle
  BY KernelAssumption
<1>3. CASE c \in {TakeCall(s, n) : s \in Semaphores, n \in 0..portMAX_DELAY}
  BY <1>2, <1>3 DEF TakeCall, WaitCalls, Ticks
<1>4. CASE c \in {DelayCall(n) : n \in 1..portMAX_DELAY}
  BY <1>2, <1>4 DEF DelayCall, WaitCalls
<1>5. CASE c \in {GiveCall(s) : s \in Semaphores} \union {CreateCall(u) : u \in Tasks \ {Idle}}
                   \union {DeleteCall}
  BY <1>2, <1>5 DEF GiveCall, CreateCall, DeleteCall
<1> QED
  BY <1>1, <1>3, <1>4, <1>5

(* What a call that waits has.                                             *)
LEMMA WaitForms ==
  ASSUME NEW c \in WaitCalls
  PROVE  /\ c.op \in {"take", "delay"}
         /\ c.op = "take" => c.sem \in Semaphores /\ c.ticks \in Ticks
         /\ c.op = "delay" => c.ticks \in 1..portMAX_DELAY
BY DEF WaitCalls, TakeCall, DelayCall

(* The tick counts are 0 to portMAX_DELAY.                                 *)
LEMMA TickNumbers ==
  /\ Ticks \subseteq Nat /\ portMAX_DELAY \in Ticks /\ 0 \in Ticks
  /\ 1..portMAX_DELAY \subseteq Ticks /\ portMAX_DELAY >= 2 /\ TickMod = portMAX_DELAY + 1
BY KernelAssumption DEF Ticks, portMAX_DELAY

(* What a task's job is at its program counter.                            *)
LEMMA JobForms ==
  ASSUME Types, NEW t \in Tasks
  PROVE  /\ job[t].pc \in CallPcs => /\ job[t] \in Job /\ job[t].call \in WaitCalls
                                     /\ job[t].ticks \in Ticks
         /\ job[t].pc \notin CallPcs => job[t].pc \in {"run", "idle"}
         /\ job[t].pc = "run" => job[t] = NoJob
         /\ job[t].pc = "idle" => job[t] = IdleJob
<1>1. job[t] \in Job \union {NoJob, IdleJob}
  BY DEF Types
<1>2. CASE job[t] \in Job
  BY <1>2 DEF Job, CallPcs, TakePcs
<1>3. CASE job[t] = NoJob
  BY <1>3 DEF NoJob, CallPcs, TakePcs
<1>4. CASE job[t] = IdleJob
  BY <1>4 DEF IdleJob, CallPcs, TakePcs
<1> QED
  BY <1>1, <1>2, <1>3, <1>4

(* To go on in a call, to return from it and to begin one keeps the type   *)
(* of job.                                                                 *)
LEMMA JobTypes ==
  ASSUME Types, NEW t \in Tasks
  PROVE  /\ \A p \in CallPcs : job[t].pc \in CallPcs /\ Goto(t, p) =>
               job' \in [Tasks -> Job \union {NoJob, IdleJob}]
         /\ Return(t) => job' \in [Tasks -> Job \union {NoJob, IdleJob}]
         /\ \A j \in Job : job' = [job EXCEPT ![t] = j] =>
               job' \in [Tasks -> Job \union {NoJob, IdleJob}]
<1>1. job \in [Tasks -> Job \union {NoJob, IdleJob}]
  BY DEF Types
<1>2. ASSUME NEW p \in CallPcs, job[t].pc \in CallPcs, Goto(t, p)
      PROVE  job' \in [Tasks -> Job \union {NoJob, IdleJob}]
  <2>1. job[t] \in Job
    BY <1>2, JobForms
  <2>2. [job[t] EXCEPT !.pc = p] \in Job
    BY <2>1 DEF Job
  <2> QED
    BY <1>1, <1>2, <2>2 DEF Goto
<1>3. ASSUME Return(t) PROVE job' \in [Tasks -> Job \union {NoJob, IdleJob}]
  BY <1>1, <1>3 DEF Return
<1> QED
  BY <1>1, <1>2, <1>3

(* The first critical section of a take keeps the types.                   *)
LEMMA TryTakeTypes ==
  ASSUME Types, NEW t \in Tasks, NEW j \in Job, j.call.op = "take", TryTake(t, j)
  PROVE  /\ kernel' \in Kernel /\ Filed(kernel') /\ sem' \in [Semaphores -> Semaphore]
         /\ job' \in [Tasks -> Job \union {NoJob, IdleJob}]
<1> DEFINE s == j.call.sem
<1>1. s \in Semaphores
  BY WaitForms DEF Job
<1>2. kernel \in Kernel /\ Filed(kernel) /\ sem \in [Semaphores -> Semaphore]
  BY DEF Types
<1>3. CASE Return(t) /\ UNCHANGED <<kernel, sem>>
  BY <1>2, <1>3, JobTypes
<1>4. CASE /\ sem[s].count > 0
           /\ sem' = [sem EXCEPT ![s].count = @ - 1,
                                 ![s].holder = IF s \in Mutexes THEN t ELSE @]
           /\ kernel' = [kernel EXCEPT !.held[t] = IF s \in Mutexes THEN @ + 1 ELSE @]
           /\ Return(t)
  <2> DEFINE h == IF s \in Mutexes THEN kernel.held[t] + 1 ELSE kernel.held[t]
  <2>1. h \in Int
    BY <1>2 DEF Kernel
  <2>5. kernel' = [kernel EXCEPT !.held[t] = h]
    BY <1>4
  <2> HIDE DEF h
  <2>2. kernel' \in Kernel /\ Filed(kernel')
    BY <1>2, <2>1, <2>5 DEF Kernel, Filed
  <2>3. sem[s] \in Semaphore /\ sem[s].count = 1
    BY <1>1, <1>2, <1>4 DEF Semaphore
  <2>4. sem' \in [Semaphores -> Semaphore]
    BY <1>1, <1>2, <1>4, <2>3 DEF Semaphore
  <2> QED
    BY <1>4, <2>2, <2>4, JobTypes
<1>5. CASE /\ job' = [job EXCEPT ![t] = [j EXCEPT !.pc = "stop"]]
           /\ UNCHANGED <<kernel, sem>>
  <2>1. [j EXCEPT !.pc = "stop"] \in Job
    BY DEF Job, CallPcs
  <2> QED
    BY <1>2, <1>5, <2>1, JobTypes
<1> QED
  BY <1>3, <1>4, <1>5 DEF TryTake

(* A call that starts.                                                     *)
LEMMA StartForms ==
  ASSUME Types, NEW c \in WaitCalls, NEW p \in CallPcs
  PROVE  Started(c, p) \in Job
<1>1. c.ticks \in Ticks
  BY WaitForms, TickNumbers
<1>2. kernel.tick \in Ticks /\ kernel.overflows \in Nat /\ clock \in Nat
  BY DEF Types, Kernel
<1> QED
  BY <1>1, <1>2 DEF Started, Job

(* xTaskCheckForTimeOut keeps the type of a job.                           *)
LEMMA TimeLeft ==
  ASSUME Types, NEW j \in Job
  PROVE  xTaskCheckForTimeOut(j) \in Job
<1>1. kernel.tick \in Nat /\ j.entered \in Nat /\ j.ticks \in Nat /\ kernel.overflows \in Nat
      /\ kernel.tick \in Ticks /\ j.ticks \in Ticks /\ TickMod \in Nat \ {0}
  <2>1. kernel.tick \in Ticks /\ kernel.overflows \in Nat
    BY DEF Types, Kernel
  <2>2. j.entered \in Ticks /\ j.ticks \in Ticks
    BY DEF Job
  <2>3. TickMod \in Nat \ {0}
    BY KernelAssumption
  <2> QED
    BY <2>1, <2>2, <2>3, TickNumbers
<1>2. Elapsed(j) \in Nat
  <2> DEFINE n == kernel.tick - j.entered
  <2>1. n \in Int
    BY <1>1
  <2> HIDE DEF n
  <2>2. n % TickMod \in Nat
    BY <1>1, <2>1
  <2> QED
    BY <2>2 DEF Elapsed, n
<1>3. CASE Elapsed(j) < j.ticks
  <2>1. j.ticks - Elapsed(j) \in Ticks
    BY <1>1, <1>2, <1>3, KernelAssumption DEF Ticks, portMAX_DELAY
  <2>2. [j EXCEPT !.ticks = j.ticks - Elapsed(j), !.entered = kernel.tick,
                  !.laps = kernel.overflows] \in Job
    BY <1>1, <2>1 DEF Job
  <2> QED
    BY <1>3, <2>2 DEF xTaskCheckForTimeOut
<1>4. CASE ~(Elapsed(j) < j.ticks)
  <2>1. [j EXCEPT !.ticks = 0] \in Job
    BY TickNumbers DEF Job
  <2> QED
    BY <1>4, <2>1 DEF xTaskCheckForTimeOut
<1> QED
  BY <1>3, <1>4

(* The lesser of two tick counts is one of them.                           *)
LEMMA SmallerTick ==
  ASSUME NEW a \in Ticks, NEW b \in Ticks
  PROVE  /\ Min({a, b}) \in Ticks /\ Min({a, b}) <= a /\ Min({a, b}) <= b
         /\ Min({a, b}) = a \/ Min({a, b}) = b
<1> DEFINE S == {a, b}
<1>1. S \in SUBSET Nat /\ S # {}
  BY TickNumbers
<1>2. Min(S) \in S /\ \A x \in S : Min(S) <= x
  <2> HIDE DEF S
  <2> QED
    BY <1>1, Least
<1> QED
  BY <1>2

(* The gives counted by the lock, as far as there are tasks to wake.       *)
LEMMA UnlockCount ==
  ASSUME Types, NEW t \in Tasks, prvUnlockQueue(t), Locking(t, job[t].call.sem), Locks,
         job[t].call.sem \in Semaphores
  PROVE  LET s == job[t].call.sem
         IN  \E n \in 0..Len(kernel.waiting[s]) :
               /\ kernel' = Released(kernel, s, n)
               /\ n = 0 <=> sem[s].txLock = 0 \/ Len(kernel.waiting[s]) = 0
<1> DEFINE s == job[t].call.sem
           a == sem[s].txLock
           b == Len(kernel.waiting[s])
           n == Min({a, b})
<1>1. a \in Nat /\ b \in Nat
  <2>1. a \in Int /\ a >= -1 /\ a # -1
    BY DEF Types, Semaphore, Locks
  <2>2. kernel.waiting[s] \in Seq(Tasks)
    BY DEF Types, Kernel
  <2>3. b \in Nat
    BY <2>2
  <2>4. a \in Nat
    <3> HIDE DEF a
    <3> QED
      BY <2>1
  <2> QED
    BY <2>3, <2>4
<1>2. n \in {a, b} /\ n <= a /\ n <= b
  <2> DEFINE S == {a, b}
  <2>1. S \in SUBSET Nat /\ S # {}
    BY <1>1
  <2>2. Min(S) \in S /\ \A x \in S : Min(S) <= x
    <3> HIDE DEF S
    <3> QED
      BY <2>1, Least
  <2> QED
    BY <2>2
<1>3. kernel' = Released(kernel, s, n)
  BY DEF prvUnlockQueue, Released
<1> HIDE DEF n
<1>4. n \in 0..b /\ (n = 0 <=> a = 0 \/ b = 0)
  BY <1>1, <1>2
<1> QED
  BY <1>3, <1>4

(* The priority a holder falls back to after a timeout is a number.        *)
LEMMA WaitingPriority ==
  ASSUME NEW K \in Kernel, NEW s \in Semaphores
  PROVE  prvGetDisinheritPriorityAfterTimeout(K, s) \in Nat
<1>1. K.waiting[s] \in Seq(Tasks)
  BY DEF Kernel
<1>2. K.waiting[s] # <<>> => Head(K.waiting[s]) \in Tasks
  BY <1>1, Beheaded
<1> QED
  BY <1>2 DEF prvGetDisinheritPriorityAfterTimeout, Kernel

(* A task that goes to sleep leaves the ready lists in order.              *)
LEMMA ParkedFiled ==
  ASSUME NEW K \in Kernel, Filed(K), NEW ticks \in Ticks, NEW indefinitely \in BOOLEAN
  PROVE  /\ prvAddCurrentTaskToDelayedList(K, ticks, indefinitely) \in Kernel
         /\ Filed(prvAddCurrentTaskToDelayedList(K, ticks, indefinitely))
<1> DEFINE R == prvAddCurrentTaskToDelayedList(K, ticks, indefinitely)
<1>1. /\ R \in Kernel /\ R.top = K.top /\ R.prio = K.prio
      /\ \A u \in Tasks : u # K.current => R.list[u] = K.list[u] /\ R.level[u] = K.level[u]
      /\ R.list[K.current] \in Asleep
  BY Parked
<1> HIDE DEF R
<1>2. Filed(R)
  BY <1>1 DEF Filed, Asleep
<1> QED
  BY <1>1, <1>2 DEF R

(* So does xTaskResumeAll,                                                 *)
LEMMA ResumedFiled ==
  ASSUME NEW K \in Kernel, Filed(K)
  PROVE  xTaskResumeAll(K) \in Kernel /\ Filed(xTaskResumeAll(K))
<1> DEFINE R == xTaskResumeAll(K)
<1>1. PICK W : R \in Kernel /\ Resumed(K, R, W)
  BY Resumption
<1> HIDE DEF R
<1>2. ASSUME NEW t \in Tasks, R.list[t] = "ready"
      PROVE  R.level[t] = R.prio[t] /\ R.prio[t] <= R.top
  <2>1. R.prio = K.prio /\ R.top >= K.top
    BY <1>1 DEF Resumed
  <2>2. CASE t \in K.pending \union W
    BY <1>1, <2>1, <2>2 DEF Resumed
  <2>3. CASE t \notin K.pending \union W
    <3>1. R.level[t] = K.level[t] /\ K.list[t] = "ready"
      BY <1>1, <1>2, <2>3 DEF Resumed, Timed
    <3>2. K.prio[t] \in Nat /\ K.top \in Nat /\ R.top \in Nat
      BY <1>1 DEF Kernel
    <3> QED
      BY <2>1, <3>1, <3>2 DEF Filed
  <2> QED
    BY <2>2, <2>3
<1> QED
  BY <1>1, <1>2 DEF Filed, R

(* prvAddTaskToReadyList,                                                  *)
LEMMA MadeReadyFiled ==
  ASSUME NEW K \in Kernel, Filed(K), NEW S \in SUBSET Tasks
  PROVE  prvAddTaskToReadyList(K, S) \in Kernel /\ Filed(prvAddTaskToReadyList(K, S))
<1> DEFINE R == prvAddTaskToReadyList(K, S)
<1>1. /\ R \in Kernel /\ R.prio = K.prio /\ R.top >= K.top
      /\ \A t \in S : /\ R.list[t] = "ready" /\ R.level[t] = K.prio[t]
                      /\ K.prio[t] <= R.top
      /\ \A t \in Tasks \ S : R.list[t] = K.list[t] /\ R.level[t] = K.level[t]
  BY MadeReady DEF Kept
<1> HIDE DEF R
<1>2. ASSUME NEW t \in Tasks, R.list[t] = "ready"
      PROVE  R.level[t] = R.prio[t] /\ R.prio[t] <= R.top
  <2>1. K.prio[t] \in Nat /\ K.top \in Nat /\ R.top \in Nat
    BY <1>1 DEF Kernel
  <2> QED
    BY <1>1, <1>2, <2>1 DEF Filed
<1> QED
  BY <1>1, <1>2 DEF Filed, R

(* the wake of a waiting task,                                             *)
LEMMA RemovalFiled ==
  ASSUME NEW K \in Kernel, Filed(K), NEW s \in Semaphores, K.waiting[s] # <<>>
  PROVE  xTaskRemoveFromEventList(K, s) \in Kernel /\ Filed(xTaskRemoveFromEventList(K, s))
<1> DEFINE R == xTaskRemoveFromEventList(K, s)
           t == Head(K.waiting[s])
<1>1. R \in Kernel /\ Removed(K, s, R)
  BY Removal
<1> HIDE DEF R
<1>2. ASSUME NEW u \in Tasks, R.list[u] = "ready"
      PROVE  R.level[u] = R.prio[u] /\ R.prio[u] <= R.top
  <2>1. /\ K.prio[u] \in Nat /\ K.top \in Nat /\ R.top \in Nat
        /\ R.prio = K.prio /\ R.top >= K.top
    BY <1>1 DEF Kernel, Removed
  <2>2. CASE K.stopped \/ u # t
    BY <1>1, <1>2, <2>1, <2>2 DEF Filed, Removed
  <2>3. CASE ~K.stopped /\ u = t
    BY <1>1, <2>1, <2>3 DEF Removed
  <2> QED
    BY <2>2, <2>3
<1> QED
  BY <1>1, <1>2 DEF Filed, R

(* and a tick.                                                             *)
LEMMA TickFiled ==
  ASSUME NEW K \in Kernel, Filed(K)
  PROVE  xTaskIncrementTick(K).kernel \in Kernel /\ Filed(xTaskIncrementTick(K).kernel)
<1> DEFINE R == xTaskIncrementTick(K).kernel
<1>1. CASE K.stopped
  <2>1. R = [K EXCEPT !.pended = @ + 1]
    BY <1>1 DEF xTaskIncrementTick
  <2> HIDE DEF R
  <2>2. K.pended + 1 \in Nat
    BY DEF Kernel
  <2>3. R \in Kernel
    BY <2>1, <2>2 DEF Kernel
  <2>4. R.list = K.list /\ R.level = K.level /\ R.top = K.top /\ R.prio = K.prio
    BY <2>1 DEF Kernel
  <2>5. Filed(R)
    BY <2>4 DEF Filed
  <2> QED
    BY <2>3, <2>5 DEF R
<1>2. CASE ~K.stopped
  <2> DEFINE A == AfterTick(K)
  <2>3. R \in Kernel /\ A \in Kernel /\ Woke(K, A)
    BY <1>2, TickIsDone, TickPasses DEF Passed
  <2>4. A = [R EXCEPT !.yield = @ \/ xTaskIncrementTick(K).switch]
    BY DEF AfterTick
  <2> HIDE DEF A, R
  <2>1. /\ R.list = A.list /\ R.level = A.level /\ R.top = A.top /\ R.prio = A.prio
    BY <2>3, <2>4 DEF Kernel
  <2>2. ASSUME NEW t \in Tasks, R.list[t] = "ready"
        PROVE  R.level[t] = R.prio[t] /\ R.prio[t] <= R.top
    <3>1. K.prio[t] \in Nat /\ K.top \in Nat /\ R.top \in Nat
          /\ R.prio = K.prio /\ R.top >= K.top
      BY <2>1, <2>3 DEF Kernel, Woke, Kept
    <3>2. CASE t \in WokenIn(K, A)
      BY <2>1, <2>2, <2>3, <3>1, <3>2 DEF Woke
    <3>3. CASE t \notin WokenIn(K, A)
      <4>1. R.level[t] = K.level[t] /\ K.list[t] = "ready"
        BY <2>1, <2>2, <2>3, <3>3 DEF Woke, Timed
      <4> QED
        BY <3>1, <4>1 DEF Filed
    <3> QED
      BY <3>2, <3>3
  <2> QED
    BY <2>2, <2>3 DEF R, Filed
<1> QED
  BY <1>1, <1>2

(* No ready task has a priority above the one vTaskSwitchContext finds.    *)
LEMMA HighestIsReady ==
  ASSUME NEW K \in Kernel, Filed(K), NEW t \in Ready(K, HighestReady(K))
  PROVE  /\ t \in Tasks /\ HighestReady(K) \in Nat
         /\ K.list[t] = "ready" /\ K.prio[t] = HighestReady(K)
         /\ \A u \in Tasks : K.list[u] = "ready" => K.prio[u] <= HighestReady(K)
<1> DEFINE P == {p \in 0..K.top : Ready(K, p) # {}}
           h == Max(P)
<1>1. \A u \in Tasks : K.list[u] = "ready" => K.prio[u] \in P
  <2> TAKE u \in Tasks
  <2> HAVE K.list[u] = "ready"
  <2>1. K.level[u] = K.prio[u] /\ K.prio[u] <= K.top /\ K.prio[u] \in Nat /\ K.top \in Nat
    BY DEF Filed, Kernel
  <2>2. u \in Ready(K, K.prio[u])
    BY <2>1 DEF Ready
  <2> QED
    BY <2>1, <2>2
<1>2. HighestReady(K) = h
  BY DEF HighestReady
<1>3. t \in Tasks /\ K.list[t] = "ready" /\ K.level[t] = h
  BY <1>2 DEF Ready
<1>4. P \in SUBSET (0..K.top) /\ P # {} /\ K.top \in Nat
  BY <1>1, <1>3 DEF Kernel
<1> HIDE DEF P
<1>5. h \in P /\ \A x \in P : x <= h
  BY <1>4, Greatest
<1>6. h \in Nat
  <2>1. \A x \in 0..K.top : x \in Nat
    BY <1>4
  <2> HIDE DEF h
  <2> QED
    BY <1>4, <1>5, <2>1
<1> HIDE DEF h
<1>7. K.prio[t] = h
  BY <1>3 DEF Filed
<1> QED
  BY <1>1, <1>2, <1>3, <1>5, <1>6, <1>7

(* Every action keeps the types.                                           *)
LEMMA TypesStep ==
  ASSUME Types, Control, Locks, Next
  PROVE  Types'
<1>1. kernel \in Kernel /\ Filed(kernel) /\ sem \in [Semaphores -> Semaphore] /\ switch \in BOOLEAN
      /\ clock \in Nat /\ gives \in Nat /\ job \in [Tasks -> Job \union {NoJob, IdleJob}]
  BY DEF Types
<1>2. Idle \in Tasks
  BY KernelAssumption
<1>3. ASSUME NEW t \in Tasks, Take(t) PROVE Types'
  <2>1. PICK c \in Calls[t] : c.op = "take" /\ TryTake(t, Started(c, "take"))
    BY <1>3 DEF Take
  <2>2. Started(c, "take") \in Job /\ Started(c, "take").call = c
    BY <2>1, CallForms, StartForms DEF CallPcs, TakePcs, Started
  <2>3. UNCHANGED <<switch, clock, gives>>
    BY <1>3 DEF Take
  <2> QED
    BY <1>1, <2>1, <2>2, <2>3, TryTakeTypes DEF Types
<1>4. ASSUME NEW t \in Tasks, TakeAgain(t) PROVE Types'
  <2>1. job[t].pc \in TakePcs /\ TryTake(t, job[t]) /\ UNCHANGED <<switch, clock, gives>>
    BY <1>4 DEF TakeAgain, At, TakePcs
  <2>2. job[t] \in Job /\ job[t].call.op = "take"
    BY <2>1, JobForms DEF Control, CallPcs
  <2> QED
    BY <1>1, <2>1, <2>2, TryTakeTypes DEF Types
<1>5. ASSUME NEW t \in Tasks,
             AssertionFails(t) \/ vTaskSuspendAll(t) \/ Look(t) \/ Late(t) \/ Awake(t)
      PROVE  Types'
  <2>1. job[t].pc \in CallPcs
    BY <1>5 DEF AssertionFails, vTaskSuspendAll, Look, Late, Awake, At, CallPcs, TakePcs
  <2>2. UNCHANGED <<sem, switch, clock, gives>>
    BY <1>5 DEF AssertionFails, vTaskSuspendAll, Look, Late, Awake
  <2>3. kernel' \in Kernel /\ Filed(kernel')
    <3>1. kernel' = kernel \/ kernel' = [kernel EXCEPT !.stopped = TRUE]
      BY <1>5 DEF AssertionFails, vTaskSuspendAll, Look, Late, Awake
    <3> QED
      BY <1>1, <3>1 DEF Kernel, Filed
  <2>4. job' \in [Tasks -> Job \union {NoJob, IdleJob}]
    <3>1. CASE Look(t)
      <4> DEFINE j == IF prvIsQueueEmpty(job[t].call.sem)
                      THEN [job[t] EXCEPT !.pc = "block", !.path = "blocked"]
                      ELSE [job[t] EXCEPT !.pc = "unlock", !.path = "again"]
      <4>1. job[t] \in Job
        BY <2>1, JobForms
      <4>2. j \in Job
        BY <4>1 DEF Job, CallPcs, TakePcs
      <4>3. job' = [job EXCEPT ![t] = j]
        BY <3>1 DEF Look
      <4> QED
        BY <4>2, <4>3, JobTypes
    <3>2. CASE AssertionFails(t)
      <4>1. "fatal" \in CallPcs /\ Goto(t, "fatal")
        BY <3>2 DEF AssertionFails, CallPcs, TakePcs
      <4> QED
        BY <2>1, <4>1, JobTypes
    <3>3. CASE vTaskSuspendAll(t)
      <4> DEFINE p == IF job[t].call.op = "take" THEN "lock" ELSE "place"
      <4>1. p \in CallPcs /\ Goto(t, p)
        BY <3>3 DEF vTaskSuspendAll, CallPcs, TakePcs
      <4> HIDE DEF p
      <4> QED
        BY <2>1, <4>1, JobTypes
    <3>4. CASE Late(t)
      <4>1. Return(t) \/ Goto(t, "take") \/ Goto(t, "disinherit")
        BY <3>4 DEF Late
      <4>2. "take" \in CallPcs /\ "disinherit" \in CallPcs
        BY DEF CallPcs, TakePcs
      <4> QED
        BY <2>1, <4>1, <4>2, JobTypes
    <3>5. CASE Awake(t)
      BY <3>5, JobTypes DEF Awake
    <3> QED
      BY <1>5, <3>1, <3>2, <3>3, <3>4, <3>5
  <2> QED
    BY <1>1, <2>2, <2>3, <2>4 DEF Types
<1>6. ASSUME NEW t \in Tasks, prvLockQueue(t) PROVE Types'
  <2>1. job[t].pc \in TakePcs /\ job[t].pc \in CallPcs
    BY <1>6 DEF prvLockQueue, At, TakePcs, CallPcs
  <2>2. job[t] \in Job /\ job[t].call.sem \in Semaphores
    BY <2>1, JobForms, WaitForms DEF Control
  <2> DEFINE s == job[t].call.sem
             x == xTaskCheckForTimeOut(job[t])
             j == IF TimedOut(job[t]) THEN [x EXCEPT !.pc = "unlock", !.path = "late"]
                  ELSE [x EXCEPT !.pc = "look"]
  <2>3. x \in Job
    BY <2>2, TimeLeft
  <2>4. job' = [job EXCEPT ![t] = j]
    BY <1>6 DEF prvLockQueue
  <2> HIDE DEF x
  <2>5. j \in Job
    BY <2>3 DEF Job, CallPcs, TakePcs
  <2> HIDE DEF j
  <2>6. sem' = [sem EXCEPT ![s].txLock = IF @ = -1 THEN 0 ELSE @]
    BY <1>6 DEF prvLockQueue
  <2>7. sem[s] \in Semaphore
    BY <1>1, <2>2
  <2>8. sem' \in [Semaphores -> Semaphore]
    BY <1>1, <2>2, <2>6, <2>7 DEF Semaphore
  <2>9. UNCHANGED <<kernel, switch, clock, gives>>
    BY <1>6 DEF prvLockQueue
  <2> QED
    BY <1>1, <2>4, <2>5, <2>8, <2>9, JobTypes DEF Types
<1>7. ASSUME NEW t \in Tasks, vTaskDelay(t) PROVE Types'
  <2>1. PICK c \in Calls[t] : c.op = "delay" /\ job' = [job EXCEPT ![t] = Started(c, "stop")]
    BY <1>7 DEF vTaskDelay
  <2>2. Started(c, "stop") \in Job
    BY <2>1, CallForms, StartForms DEF CallPcs
  <2>3. UNCHANGED <<kernel, sem, switch, clock, gives>>
    BY <1>7 DEF vTaskDelay
  <2> QED
    BY <1>1, <2>1, <2>2, <2>3, JobTypes DEF Types
<1>8. ASSUME NEW t \in Tasks, vTaskPlaceOnEventList(t) PROVE Types'
  <2> DEFINE s == job[t].call.sem
             mutex == s \in Mutexes
             K == IF mutex THEN xTaskPriorityInherit(kernel, sem[s].holder) ELSE kernel
             B == [K EXCEPT !.waiting[s] = vListInsert(K, @, t)]
  <2>1. job[t].pc = "block" /\ job[t].pc \in TakePcs /\ job[t].pc \in CallPcs
    BY <1>8 DEF vTaskPlaceOnEventList, At, TakePcs, CallPcs
  <2>2. job[t] \in Job /\ s \in Semaphores /\ job[t].ticks \in Ticks
    BY <2>1, JobForms, WaitForms DEF Control
  <2>3. K \in Kernel /\ Filed(K) /\ K.current = kernel.current
    <3>1. sem[s].holder \in Tasks \union {NoTask}
      BY <1>1, <2>2 DEF Semaphore
    <3> QED
      BY <1>1, <3>1, Inheritance DEF Unmoved
  <2>4. K.waiting[s] \in Seq(Tasks)
    BY <2>2, <2>3 DEF Kernel
  <2>5. vListInsert(K, K.waiting[s], t) \in Seq(Tasks)
    BY <2>3, <2>4, Inserted
  <2> HIDE DEF K
  <2>6. B \in Kernel /\ Filed(B)
    BY <2>2, <2>3, <2>5 DEF Kernel, Filed
  <2>7. kernel' = prvAddCurrentTaskToDelayedList(B, job[t].ticks, TRUE)
    BY <1>8 DEF vTaskPlaceOnEventList, K
  <2> HIDE DEF B
  <2>8. kernel' \in Kernel /\ Filed(kernel')
    BY <2>2, <2>6, <2>7, ParkedFiled
  <2> DEFINE j == [job[t] EXCEPT !.pc = "next", !.inherited = mutex /\ Inherited(kernel, sem[s].holder)]
  <2>9. job' = [job EXCEPT ![t] = j]
    BY <1>1, <1>8 DEF vTaskPlaceOnEventList
  <2>10. j \in Job
    BY <2>2 DEF Job, CallPcs, Inherited
  <2> HIDE DEF j
  <2>11. UNCHANGED <<sem, switch, clock, gives>>
    BY <1>8 DEF vTaskPlaceOnEventList
  <2> QED
    BY <1>1, <2>8, <2>9, <2>10, <2>11, JobTypes DEF Types
<1>9. ASSUME NEW t \in Tasks, AdjustNext(t) PROVE Types'
  <2>1. job[t].pc \in CallPcs
    BY <1>9 DEF AdjustNext, At, CallPcs
  <2> DEFINE low == Min({kernel.next, kernel.wake[t]})
             p == IF job[t].call.op = "take" THEN "unlock" ELSE "resume"
  <2>2. low \in Ticks
    BY <1>1, SmallerTick DEF Kernel
  <2>3. kernel' = [kernel EXCEPT !.next = low] \/ kernel' = kernel
    BY <1>9 DEF AdjustNext
  <2> HIDE DEF low
  <2>4. kernel' \in Kernel /\ Filed(kernel')
    BY <1>1, <2>2, <2>3 DEF Kernel, Filed
  <2>5. p \in CallPcs /\ Goto(t, p) /\ UNCHANGED <<sem, switch, clock, gives>>
    BY <1>9 DEF AdjustNext, CallPcs, TakePcs
  <2> HIDE DEF p
  <2> QED
    BY <1>1, <2>1, <2>4, <2>5, JobTypes DEF Types
<1>10. ASSUME NEW t \in Tasks, prvUnlockQueue(t) PROVE Types'
  <2> DEFINE s == job[t].call.sem
  <2>1. job[t].pc = "unlock" /\ job[t].pc \in CallPcs /\ job[t].call.op = "take"
    BY <1>10 DEF prvUnlockQueue, At, TakePcs, CallPcs, Control
  <2>2. s \in Semaphores
    BY <2>1, JobForms, WaitForms
  <2>3. PICK n \in 0..Len(kernel.waiting[s]) : kernel' = Released(kernel, s, n)
    <3>1. Locking(t, s)
      BY <2>1 DEF Locking, InTake
    <3> QED
      BY <1>10, <2>2, <3>1, UnlockCount
  <2>4. kernel' \in Kernel /\ Filed(kernel')
    <3>1. kernel.stopped
      BY <2>1 DEF Control, StopPcs
    <3>2. kernel' \in Kernel /\ Unlocked(kernel, s, n, kernel')
      BY <1>1, <2>2, <2>3, <3>1, Release
    <3> QED
      BY <1>1, <3>2 DEF Unlocked, Filed
  <2>5. sem' = [sem EXCEPT ![s].txLock = -1] /\ Goto(t, "resume")
        /\ UNCHANGED <<switch, clock, gives>>
    BY <1>10 DEF prvUnlockQueue
  <2>6. sem' \in [Semaphores -> Semaphore]
    <3>1. [sem[s] EXCEPT !.txLock = -1] \in Semaphore
      BY <1>1, <2>2 DEF Semaphore
    <3> QED
      BY <1>1, <2>2, <2>5, <3>1
  <2>7. "resume" \in CallPcs
    BY DEF CallPcs
  <2> QED
    BY <1>1, <2>1, <2>4, <2>5, <2>6, <2>7, JobTypes DEF Types
<1>11. ASSUME NEW t \in Tasks, Resume(t) PROVE Types'
  <2> DEFINE path == IF job[t].call.op = "delay" THEN "asleep" ELSE job[t].path
             p == IF path \in {"late", "asleep"} THEN path ELSE "take"
  <2>1. job[t].pc \in CallPcs
    BY <1>11 DEF Resume, At, CallPcs
  <2>2. kernel' = xTaskResumeAll(kernel)
        /\ switch' = (kernel'.yield \/ path \in {"blocked", "asleep"})
        /\ Goto(t, p) /\ UNCHANGED <<sem, clock, gives>>
    BY <1>11 DEF Resume
  <2>3. kernel' \in Kernel /\ Filed(kernel')
    BY <1>1, <2>2, ResumedFiled
  <2>4. p \in CallPcs
    BY DEF CallPcs, TakePcs
  <2> HIDE DEF p, path
  <2>5. switch' \in BOOLEAN
    BY <2>2
  <2> QED
    BY <1>1, <2>1, <2>2, <2>3, <2>4, <2>5, JobTypes DEF Types
<1>12. ASSUME NEW t \in Tasks, Disinherit(t) PROVE Types'
  <2> DEFINE s == job[t].call.sem
             n == prvGetDisinheritPriorityAfterTimeout(kernel, s)
  <2>1. job[t].pc \in TakePcs /\ job[t].pc \in CallPcs
    BY <1>12 DEF Disinherit, At, TakePcs, CallPcs
  <2>2. s \in Semaphores
    BY <2>1, JobForms, WaitForms DEF Control
  <2>3. n \in Nat
    BY <1>1, <2>2, WaitingPriority
  <2>4. kernel' = vTaskPriorityDisinheritAfterTimeout(kernel, sem[s].holder, n)
        /\ Return(t) /\ UNCHANGED <<sem, switch, clock, gives>>
    BY <1>12 DEF Disinherit
  <2>5. sem[s].holder \in Tasks \union {NoTask}
    BY <1>1, <2>2 DEF Semaphore
  <2> HIDE DEF n
  <2>6. kernel' \in Kernel /\ Filed(kernel')
    BY <1>1, <2>3, <2>4, <2>5, LateDisinheritance
  <2> QED
    BY <1>1, <2>4, <2>6, JobTypes DEF Types
<1>13. ASSUME NEW t \in Tasks, Give(t) PROVE Types'
  <2>1. PICK c \in Calls[t] :
          LET s == c.sem
              mutex == s \in Mutexes
              K == IF mutex THEN xTaskPriorityDisinherit(kernel, t) ELSE kernel
              waits == K.waiting[s] # <<>>
          IN  /\ c.op = "give" /\ sem[s].count = 0
              /\ mutex => sem[s].holder = t
              /\ sem' = [sem EXCEPT ![s].count = 1, ![s].holder = NoTask]
              /\ kernel' = IF waits THEN xTaskRemoveFromEventList(K, s) ELSE K
              /\ switch' = IF waits THEN WakesHigher(K, s)
                           ELSE mutex /\ Disinherits(kernel, t)
    BY <1>13 DEF Give
  <2> DEFINE s == c.sem
             mutex == s \in Mutexes
             K == IF mutex THEN xTaskPriorityDisinherit(kernel, t) ELSE kernel
             waits == K.waiting[s] # <<>>
  <2>2. s \in Semaphores
    BY <2>1, CallForms
  <2>3. K \in Kernel /\ Filed(K)
    BY <1>1, Disinheritance
  <2>4. switch' \in BOOLEAN
    <3>1. CASE waits
      <4> DEFINE a == K.prio[Head(K.waiting[s])]
                 b == K.prio[K.current]
      <4>1. switch' = (a > b)
        BY <2>1, <3>1 DEF WakesHigher
      <4> HIDE DEF a, b
      <4> QED
        BY <4>1
    <3>2. CASE ~waits
      <4>1. switch' = (mutex /\ Disinherits(kernel, t))
        BY <2>1, <3>2
      <4> QED
        BY <4>1 DEF Disinherits
    <3> QED
      BY <3>1, <3>2
  <2>5. kernel' = IF waits THEN xTaskRemoveFromEventList(K, s) ELSE K
    BY <2>1
  <2> HIDE DEF K
  <2>6. kernel' \in Kernel /\ Filed(kernel')
    BY <2>2, <2>3, <2>5, RemovalFiled
  <2>7. sem' = [sem EXCEPT ![s].count = 1, ![s].holder = NoTask]
    BY <2>1
  <2>8. [[sem[s] EXCEPT !.count = 1] EXCEPT !.holder = NoTask] \in Semaphore
    BY <1>1, <2>2 DEF Semaphore
  <2>9. sem' \in [Semaphores -> Semaphore]
    BY <1>1, <2>2, <2>7, <2>8
  <2>10. UNCHANGED <<job, clock, gives>>
    BY <1>13 DEF Give
  <2> QED
    BY <1>1, <2>4, <2>6, <2>9, <2>10 DEF Types
<1>14. ASSUME NEW s \in Semaphores, xQueueGiveFromISR(s) PROVE Types'
  <2> DEFINE wakes == sem[s].txLock = -1 /\ kernel.waiting[s] # <<>>
  <2>1. /\ gives' = gives + 1
        /\ sem' = [sem EXCEPT ![s].count = 1,
                              ![s].txLock = IF @ = -1 THEN @ ELSE @ + 1]
        /\ kernel' = IF wakes THEN xTaskRemoveFromEventList(kernel, s) ELSE kernel
        /\ switch' = (switch \/ (wakes /\ WakesHigher(kernel, s)))
        /\ UNCHANGED <<job, clock>>
    BY <1>14 DEF xQueueGiveFromISR
  <2>2. kernel' \in Kernel /\ Filed(kernel')
    BY <1>1, <2>1, RemovalFiled
  <2> DEFINE l == IF sem[s].txLock = -1 THEN sem[s].txLock ELSE sem[s].txLock + 1
  <2>3. l \in Int
    BY <1>1 DEF Semaphore
  <2>4. sem' = [sem EXCEPT ![s].count = 1, ![s].txLock = l]
    BY <1>1, <2>1 DEF Semaphore
  <2> HIDE DEF l
  <2>5. sem' \in [Semaphores -> Semaphore]
    BY <1>1, <2>3, <2>4 DEF Semaphore
  <2>6. switch' \in BOOLEAN
    <3> DEFINE x == wakes /\ WakesHigher(kernel, s)
               y == switch \/ x
    <3>1. y = TRUE \/ y = FALSE
      <4> HIDE DEF x
      <4> QED
        OBVIOUS
    <3>2. switch' = y
      BY <2>1
    <3> HIDE DEF y
    <3> QED
      BY <3>1, <3>2
  <2> QED
    BY <1>1, <2>1, <2>2, <2>5, <2>6 DEF Types
<1>15. ASSUME NEW t \in Tasks, Place(t) PROVE Types'
  <2>1. job[t].pc \in CallPcs /\ "next" \in CallPcs
    BY <1>15 DEF Place, At, CallPcs
  <2>2. job[t].ticks \in Ticks
    BY <2>1, JobForms
  <2>3. kernel' = prvAddCurrentTaskToDelayedList(kernel, job[t].ticks, FALSE)
        /\ Goto(t, "next") /\ UNCHANGED <<sem, switch, clock, gives>>
    BY <1>15 DEF Place
  <2>4. kernel' \in Kernel /\ Filed(kernel')
    BY <1>1, <2>2, <2>3, ParkedFiled
  <2> QED
    BY <1>1, <2>1, <2>3, <2>4, JobTypes DEF Types
<1>16. ASSUME NEW t \in Tasks, xTaskCreate(t) PROVE Types'
  <2>1. PICK c \in Calls[t] :
          /\ c.op = "create" /\ kernel.list[c.task] = "none"
          /\ kernel' = prvAddTaskToReadyList(kernel, {c.task})
          /\ switch' = (kernel.prio[t] < kernel.prio[c.task])
    BY <1>16 DEF xTaskCreate
  <2>2. {c.task} \in SUBSET Tasks
    BY <2>1, CallForms
  <2>3. kernel' \in Kernel /\ Filed(kernel')
    BY <1>1, <2>1, <2>2, MadeReadyFiled
  <2>4. switch' \in BOOLEAN /\ UNCHANGED <<sem, job, clock, gives>>
    BY <1>16, <2>1 DEF xTaskCreate
  <2> QED
    BY <1>1, <2>3, <2>4 DEF Types
<1>17. ASSUME NEW t \in Tasks, vTaskDelete(t) PROVE Types'
  <2>1. kernel' = Unready(kernel, t, "terminated") /\ switch' = TRUE
        /\ UNCHANGED <<sem, job, clock, gives>>
    BY <1>17 DEF vTaskDelete
  <2>2. kernel' \in Kernel /\ Filed(kernel')
    BY <1>1, <2>1 DEF Unready, Kernel, Filed, Lists
  <2> QED
    BY <1>1, <2>1, <2>2 DEF Types
<1>18. CASE Reap
  <2>1. PICK t \in Tasks : kernel' = [kernel EXCEPT !.list[t] = "none"]
    BY <1>18 DEF Reap
  <2>2. kernel' \in Kernel /\ Filed(kernel')
    BY <1>1, <2>1 DEF Kernel, Filed, Lists
  <2>3. UNCHANGED <<sem, switch, job, clock, gives>>
    BY <1>18 DEF Reap
  <2> QED
    BY <1>1, <2>2, <2>3 DEF Types
<1>19. CASE IdleSuspend
  <2>1. kernel' = [kernel EXCEPT !.stopped = TRUE] /\ job[Idle].pc = "run"
        /\ job' = [job EXCEPT ![Idle].pc = "idle"] /\ UNCHANGED <<sem, switch, clock, gives>>
    BY <1>19 DEF IdleSuspend, Goto, At
  <2>2. kernel' \in Kernel /\ Filed(kernel')
    BY <1>1, <2>1 DEF Kernel, Filed
  <2>3. job[Idle] = NoJob
    BY <1>2, <2>1, JobForms
  <2>6. [NoJob EXCEPT !.pc = "idle"] = IdleJob
    BY DEF NoJob, IdleJob
  <2>4. job' = [job EXCEPT ![Idle] = IdleJob]
    BY <2>1, <2>3, <2>6
  <2>5. job' \in [Tasks -> Job \union {NoJob, IdleJob}]
    BY <1>1, <1>2, <2>4
  <2> QED
    BY <1>1, <2>1, <2>2, <2>5 DEF Types
<1>20. CASE IdleResume
  <2>1. kernel' = xTaskResumeAll(kernel) /\ switch' = kernel'.yield
        /\ Return(Idle) /\ UNCHANGED <<sem, clock, gives>>
    BY <1>20 DEF IdleResume
  <2>2. kernel' \in Kernel /\ Filed(kernel')
    BY <1>1, <2>1, ResumedFiled
  <2>3. switch' \in BOOLEAN
    BY <2>1, <2>2 DEF Kernel
  <2> QED
    BY <1>1, <1>2, <2>1, <2>2, <2>3, JobTypes DEF Types
<1>21. CASE Tick
  <2> DEFINE T == xTaskIncrementTick(kernel)
  <2>1. /\ clock' = clock + 1 /\ kernel' = T.kernel /\ switch' = (switch \/ T.switch)
        /\ UNCHANGED <<sem, job, gives>>
    BY <1>21 DEF Tick
  <2>2. kernel' \in Kernel /\ Filed(kernel')
    BY <1>1, <2>1, TickFiled
  <2> HIDE DEF T
  <2>3. switch' \in BOOLEAN /\ clock' \in Nat
    BY <1>1, <2>1
  <2> QED
    BY <1>1, <2>1, <2>2, <2>3 DEF Types
<1>22. CASE vTaskSwitchContext
  <2>1. switch' = FALSE /\ UNCHANGED <<sem, job, clock, gives>>
    BY <1>22 DEF vTaskSwitchContext
  <2>2. CASE kernel' = [kernel EXCEPT !.yield = TRUE]
    <3>1. kernel' \in Kernel /\ Filed(kernel')
      BY <1>1, <2>2 DEF Kernel, Filed
    <3> QED
      BY <1>1, <2>1, <3>1 DEF Types
  <2>3. ASSUME NEW t \in Ready(kernel, HighestReady(kernel)),
               kernel' = [kernel EXCEPT !.yield = FALSE, !.current = t,
                                        !.top = HighestReady(kernel)]
        PROVE  Types'
    <3> DEFINE h == HighestReady(kernel)
    <3>1. t \in Tasks /\ h \in Nat
          /\ \A u \in Tasks : kernel.list[u] = "ready" => kernel.prio[u] <= h
      BY <1>1, HighestIsReady
    <3>2. kernel' = [kernel EXCEPT !.yield = FALSE, !.current = t, !.top = h]
      BY <2>3
    <3> HIDE DEF h
    <3>3. kernel' \in Kernel /\ Filed(kernel')
      BY <1>1, <3>1, <3>2 DEF Kernel, Filed
    <3> QED
      BY <1>1, <2>1, <3>3 DEF Types
  <2> QED
    BY <1>22, <2>2, <2>3 DEF vTaskSwitchContext
<1> QED
  BY <1>3, <1>4, <1>5, <1>6, <1>7, <1>8, <1>9, <1>10, <1>11, <1>12, <1>13, <1>14, <1>15,
     <1>16, <1>17, <1>18, <1>19, <1>20, <1>21, <1>22 DEF Next

-----------------------------------------------------------------------------
(* What the actions do to the jobs and to the lists                        *)

(* What a step within a call leaves alone.                                 *)
SameCall(j, k) ==
  /\ k.call = j.call /\ k.ticks = j.ticks /\ k.entered = j.entered /\ k.laps = j.laps
  /\ k.since = j.since /\ k.path = j.path /\ k.inherited = j.inherited

(* What Goto, a new job and Return do to the jobs.                         *)
LEMMA Went ==
  ASSUME Types, NEW t \in Tasks
  PROVE  /\ \A p : Goto(t, p) => /\ \A u \in Tasks \ {t} : job'[u] = job[u]
                                 /\ job'[t].pc = p
                                 /\ job[t].pc \in CallPcs => SameCall(job[t], job'[t])
         /\ \A j : job' = [job EXCEPT ![t] = j] =>
               job'[t] = j /\ \A u \in Tasks \ {t} : job'[u] = job[u]
         /\ Return(t) => job'[t] = NoJob /\ job'[t].pc = "run"
                         /\ \A u \in Tasks \ {t} : job'[u] = job[u]
<1>1. job \in [Tasks -> Job \union {NoJob, IdleJob}]
  BY DEF Types
<1>2. ASSUME NEW p, Goto(t, p)
      PROVE  /\ \A u \in Tasks \ {t} : job'[u] = job[u]
             /\ job'[t].pc = p
             /\ job[t].pc \in CallPcs => SameCall(job[t], job'[t])
  <2>1. job' = [job EXCEPT ![t] = [job[t] EXCEPT !.pc = p]]
    BY <1>2 DEF Goto
  <2>2. job'[t] = [job[t] EXCEPT !.pc = p] /\ \A u \in Tasks \ {t} : job'[u] = job[u]
    BY <1>1, <2>1
  <2>3. job'[t].pc = p
    <3>1. job[t] \in Job \/ job[t] = NoJob \/ job[t] = IdleJob
      BY <1>1
    <3>2. CASE job[t] \in Job
      BY <2>2, <3>2 DEF Job
    <3>3. CASE job[t] = NoJob \/ job[t] = IdleJob
      BY <2>2, <3>3 DEF NoJob, IdleJob
    <3> QED
      BY <3>1, <3>2, <3>3
  <2>4. ASSUME job[t].pc \in CallPcs PROVE SameCall(job[t], job'[t])
    <3>1. job[t] \in Job
      BY <2>4, JobForms
    <3> QED
      BY <2>2, <3>1 DEF Job, SameCall
  <2> QED
    BY <2>2, <2>3, <2>4
<1>3. ASSUME Return(t)
      PROVE  job'[t] = NoJob /\ job'[t].pc = "run" /\ \A u \in Tasks \ {t} : job'[u] = job[u]
  BY <1>1, <1>3 DEF Return, NoJob
<1> QED
  BY <1>1, <1>2, <1>3

(* How a call goes on that cannot take the semaphore, and how it ends.     *)
Tried(t, j) ==
  \E s \in Semaphores :
    /\ j.call.sem = s
    /\ \A z \in Semaphores \ {s} : sem'[z] = sem[z]
    /\ sem'[s].txLock = sem[s].txLock
    /\ \/ /\ sem[s].count = 1 /\ sem'[s].count = 0 /\ job'[t] = NoJob
          /\ s \in Mutexes => /\ sem'[s].holder = t
                              /\ kernel' = [kernel EXCEPT !.held[t] = @ + 1]
          /\ s \notin Mutexes => sem'[s].holder = sem[s].holder /\ kernel' = kernel
       \/ /\ sem[s].count = 0 /\ sem' = sem /\ kernel' = kernel
          /\ job'[t] = NoJob /\ j.ticks = 0 /\ ~j.inherited
       \/ /\ sem[s].count = 0 /\ sem' = sem /\ kernel' = kernel
          /\ job'[t].pc = "stop" /\ j.ticks # 0 /\ SameCall(j, job'[t])

(* The first critical section of a take does what Tried says, and moves no *)
(* task between the lists.                                                 *)
LEMMA Trial ==
  ASSUME Types, NEW t \in Tasks, NEW j \in Job, j.call.op = "take", TryTake(t, j)
  PROVE  /\ Tried(t, j) /\ Unmoved(kernel, kernel')
         /\ \A u \in Tasks \ {t} : job'[u] = job[u]
<1> DEFINE s == j.call.sem
<1>1. s \in Semaphores
  BY WaitForms DEF Job
<1>2. kernel \in Kernel /\ sem \in [Semaphores -> Semaphore]
  BY DEF Types
<1>7. Unmoved(kernel, kernel)
  BY DEF Unmoved
<1>3. CASE /\ sem[s].count = 0 /\ j.ticks = 0 /\ ~j.inherited
           /\ Return(t) /\ UNCHANGED <<kernel, sem>>
  BY <1>1, <1>3, <1>7, Went DEF Tried
<1>4. CASE /\ sem[s].count > 0
           /\ sem' = [sem EXCEPT ![s].count = @ - 1,
                                 ![s].holder = IF s \in Mutexes THEN t ELSE @]
           /\ kernel' = [kernel EXCEPT !.held[t] = IF s \in Mutexes THEN @ + 1 ELSE @]
           /\ Return(t)
  <2>1. sem[s] \in Semaphore /\ sem[s].count = 1
    BY <1>1, <1>2, <1>4 DEF Semaphore
  <2>2. /\ \A z \in Semaphores \ {s} : sem'[z] = sem[z]
        /\ sem'[s].txLock = sem[s].txLock /\ sem'[s].count = 0
        /\ sem'[s].holder = IF s \in Mutexes THEN t ELSE sem[s].holder
    BY <1>1, <1>2, <1>4, <2>1 DEF Semaphore
  <2>3. CASE s \in Mutexes
    <3>1. kernel' = [kernel EXCEPT !.held[t] = @ + 1]
      BY <1>4, <2>3
    <3>2. Unmoved(kernel, kernel')
      BY <1>2, <3>1 DEF Unmoved, Kernel
    <3> QED
      BY <1>1, <1>4, <2>1, <2>2, <2>3, <3>1, <3>2, Went DEF Tried
  <2>4. CASE s \notin Mutexes
    <3>1. kernel' = kernel
      BY <1>2, <1>4, <2>4 DEF Kernel
    <3> QED
      BY <1>1, <1>4, <1>7, <2>1, <2>2, <2>4, <3>1, Went DEF Tried
  <2> QED
    BY <2>3, <2>4
<1>5. CASE /\ sem[s].count = 0 /\ j.ticks # 0
           /\ job' = [job EXCEPT ![t] = [j EXCEPT !.pc = "stop"]]
           /\ UNCHANGED <<kernel, sem>>
  <2>1. job'[t] = [j EXCEPT !.pc = "stop"] /\ \A u \in Tasks \ {t} : job'[u] = job[u]
    BY <1>5, Went
  <2>2. job'[t].pc = "stop" /\ SameCall(j, job'[t])
    BY <2>1 DEF Job, SameCall
  <2> QED
    BY <1>1, <1>5, <1>7, <2>1, <2>2 DEF Tried
<1> QED
  BY <1>3, <1>4, <1>5 DEF TryTake

(* What the actions have in common that touch no list of tasks: the task   *)
(* that executes goes on in its call, the others do not notice.            *)
Calm(t) ==
  /\ t # Idle /\ Running(t)
  /\ Unmoved(kernel, kernel') /\ UNCHANGED <<switch, clock, gives>>
  /\ \A u \in Tasks \ {t} : job'[u] = job[u]
  /\ job[t].pc \in {"run", "take", "lock", "look", "late", "disinherit", "asleep"}
  /\ job'[t].pc \in {"run", "stop", "take", "fatal", "look", "block", "unlock", "disinherit"}
  /\ job[t].pc \in StopPcs <=> job'[t].pc \in StopPcs
  /\ job'[t].pc \in TakePcs => job'[t].call.op = "take"
  /\ job'[t].pc = "unlock" => job'[t].path \in {"late", "again"}
  /\ job'[t].pc = "block" => job'[t].path = "blocked"
  /\ job[t].pc # "run" /\ job'[t].pc # "run" => job'[t].call = job[t].call

(* The actions of a call that leave the lists alone.                       *)
TakesCalmly(t) == Take(t) \/ TakeAgain(t)
StaysCalm(t) == AssertionFails(t) \/ prvLockQueue(t) \/ Look(t) \/ Late(t)
                  \/ Disinherit(t) \/ vTaskDelay(t) \/ Awake(t)

(* Take and TakeAgain leave the lists alone, and do what Tried says.       *)
LEMMA TakenCalmly ==
  ASSUME Types, Control, NEW t \in Tasks, TakesCalmly(t)
  PROVE  /\ Calm(t)
         /\ \E j \in Job :
              /\ j.call.op = "take" /\ Tried(t, j)
              /\ job[t].pc \in {"run", "take"}
              /\ job[t].pc = "take" => j = job[t]
              /\ job[t].pc = "run" => /\ j.call \in Calls[t] /\ j = Started(j.call, "take")
                                      /\ sem[j.call.sem].holder # t
<1>1. CASE Take(t)
  <2>1. PICK c \in Calls[t] : c.op = "take" /\ TryTake(t, Started(c, "take"))
                              /\ sem[c.sem].holder # t
    BY <1>1 DEF Take
  <2> DEFINE j == Started(c, "take")
  <2>2. j \in Job /\ j.call = c /\ t # Idle
    BY <2>1, CallForms, StartForms DEF CallPcs, TakePcs, Started
  <2>3. Running(t) /\ job[t].pc = "run" /\ UNCHANGED <<switch, clock, gives>>
    BY <1>1 DEF Take, At
  <2>4. j.call.op = "take" /\ TryTake(t, j)
    BY <2>1, <2>2
  <2> HIDE DEF j
  <2>5. /\ Tried(t, j) /\ Unmoved(kernel, kernel')
        /\ \A u \in Tasks \ {t} : job'[u] = job[u]
    BY <2>2, <2>4, Trial
  <2>6. job'[t] = NoJob \/ (job'[t].pc = "stop" /\ SameCall(j, job'[t]))
    BY <2>5 DEF Tried
  <2>7. Calm(t)
    BY <2>2, <2>3, <2>5, <2>6 DEF Calm, NoJob, StopPcs, TakePcs
  <2> QED
    BY <2>1, <2>2, <2>3, <2>4, <2>5, <2>7 DEF j
<1>2. CASE TakeAgain(t)
  <2>1. job[t].pc = "take" /\ job[t].pc \in TakePcs /\ Running(t)
        /\ TryTake(t, job[t]) /\ UNCHANGED <<switch, clock, gives>>
    BY <1>2 DEF TakeAgain, At, TakePcs
  <2>2. job[t] \in Job /\ job[t].call.op = "take" /\ t # Idle
    BY <2>1, JobForms DEF Control, CallPcs
  <2>5. /\ Tried(t, job[t]) /\ Unmoved(kernel, kernel')
        /\ \A u \in Tasks \ {t} : job'[u] = job[u]
    BY <2>1, <2>2, Trial
  <2>6. job'[t] = NoJob \/ (job'[t].pc = "stop" /\ SameCall(job[t], job'[t]))
    BY <2>5 DEF Tried
  <2>7. Calm(t)
    BY <2>1, <2>2, <2>5, <2>6 DEF Calm, NoJob, StopPcs, TakePcs, SameCall
  <2> QED
    BY <2>1, <2>2, <2>5, <2>7
<1> QED
  BY <1>1, <1>2 DEF TakesCalmly

(* What xTaskCheckForTimeOut leaves alone in a job.                        *)
LEMMA TimeLeftForms ==
  ASSUME Types, NEW j \in Job
  PROVE  LET x == xTaskCheckForTimeOut(j)
         IN  /\ x \in Job /\ x.call = j.call /\ x.path = j.path /\ x.since = j.since
             /\ x.inherited = j.inherited
<1>1. xTaskCheckForTimeOut(j) \in Job
  BY TimeLeft
<1>2. \/ xTaskCheckForTimeOut(j) = j
      \/ xTaskCheckForTimeOut(j) = [j EXCEPT !.ticks = j.ticks - Elapsed(j), !.entered = kernel.tick,
                                             !.laps = kernel.overflows]
      \/ xTaskCheckForTimeOut(j) = [j EXCEPT !.ticks = 0]
  BY DEF xTaskCheckForTimeOut
<1> QED
  BY <1>1, <1>2 DEF Job

(* prvLockQueue with the check of the time: the queue is locked, and the   *)
(* call is late or looks at the semaphore.                                 *)
LEMMA Locked ==
  ASSUME Types, Control, NEW t \in Tasks, prvLockQueue(t)
  PROVE  LET j == job[t]
             k == job'[t]
             s == j.call.sem
         IN  /\ j \in Job /\ s \in Semaphores /\ j.pc = "lock" /\ j.call.op = "take"
             /\ k \in Job /\ k.call = j.call /\ k.since = j.since /\ k.inherited = j.inherited
             /\ \A u \in Tasks \ {t} : job'[u] = job[u]
             /\ k.ticks = xTaskCheckForTimeOut(j).ticks
             /\ k.entered = xTaskCheckForTimeOut(j).entered
             /\ k.laps = xTaskCheckForTimeOut(j).laps
             /\ \/ TimedOut(j) /\ k.pc = "unlock" /\ k.path = "late"
                \/ ~TimedOut(j) /\ k.pc = "look" /\ k.path = j.path
             /\ \A z \in Semaphores \ {s} : sem'[z] = sem[z]
             /\ sem'[s].count = sem[s].count /\ sem'[s].holder = sem[s].holder
             /\ sem'[s].txLock = IF sem[s].txLock = -1 THEN 0 ELSE sem[s].txLock
<1>1. job[t].pc = "lock" /\ job[t].pc \in TakePcs /\ job[t].pc \in CallPcs
  BY DEF prvLockQueue, At, TakePcs, CallPcs
<1>2. job[t] \in Job /\ job[t].call.op = "take" /\ job[t].call.sem \in Semaphores
  BY <1>1, JobForms, WaitForms DEF Control
<1> DEFINE s == job[t].call.sem
           x == xTaskCheckForTimeOut(job[t])
           k == IF TimedOut(job[t]) THEN [x EXCEPT !.pc = "unlock", !.path = "late"]
                ELSE [x EXCEPT !.pc = "look"]
<1>3. /\ x \in Job /\ x.call = job[t].call /\ x.path = job[t].path /\ x.since = job[t].since
      /\ x.inherited = job[t].inherited
  BY <1>2, TimeLeftForms
<1>4. job' = [job EXCEPT ![t] = k]
  BY DEF prvLockQueue
<1> HIDE DEF x
<1>5. /\ k \in Job /\ k.call = job[t].call /\ k.since = job[t].since
      /\ k.inherited = job[t].inherited
      /\ k.ticks = x.ticks /\ k.entered = x.entered /\ k.laps = x.laps
      /\ \/ TimedOut(job[t]) /\ k.pc = "unlock" /\ k.path = "late"
         \/ ~TimedOut(job[t]) /\ k.pc = "look" /\ k.path = job[t].path
  <2>1. CASE TimedOut(job[t])
    BY <1>3, <2>1 DEF Job, CallPcs, TakePcs
  <2>2. CASE ~TimedOut(job[t])
    BY <1>3, <2>2 DEF Job, CallPcs, TakePcs
  <2> QED
    BY <2>1, <2>2
<1> HIDE DEF k
<1>6. job'[t] = k /\ \A u \in Tasks \ {t} : job'[u] = job[u]
  BY <1>4, Went
<1>7. sem' = [sem EXCEPT ![s].txLock = IF @ = -1 THEN 0 ELSE @]
      /\ sem \in [Semaphores -> Semaphore]
  BY DEF prvLockQueue, Types
<1>8. /\ \A z \in Semaphores \ {s} : sem'[z] = sem[z]
      /\ sem'[s].count = sem[s].count /\ sem'[s].holder = sem[s].holder
      /\ sem'[s].txLock = IF sem[s].txLock = -1 THEN 0 ELSE sem[s].txLock
  BY <1>2, <1>7 DEF Semaphore
<1> QED
  BY <1>1, <1>2, <1>5, <1>6, <1>8 DEF x

(* The look at the semaphore of a locked queue: block, or unlock and try   *)
(* again.                                                                  *)
LEMMA Looked ==
  ASSUME Types, Control, NEW t \in Tasks, Look(t)
  PROVE  LET j == job[t]
             k == job'[t]
             s == j.call.sem
         IN  /\ j \in Job /\ s \in Semaphores /\ j.pc = "look" /\ j.call.op = "take"
             /\ k \in Job /\ k.call = j.call /\ k.since = j.since /\ k.inherited = j.inherited
             /\ k.ticks = j.ticks /\ k.entered = j.entered /\ k.laps = j.laps
             /\ \A u \in Tasks \ {t} : job'[u] = job[u]
             /\ \/ sem[s].count = 0 /\ k.pc = "block" /\ k.path = "blocked"
                \/ sem[s].count # 0 /\ k.pc = "unlock" /\ k.path = "again"
<1>1. job[t].pc = "look" /\ job[t].pc \in TakePcs /\ job[t].pc \in CallPcs
  BY DEF Look, At, TakePcs, CallPcs
<1>2. job[t] \in Job /\ job[t].call.op = "take" /\ job[t].call.sem \in Semaphores
  BY <1>1, JobForms, WaitForms DEF Control
<1> DEFINE s == job[t].call.sem
           k == IF prvIsQueueEmpty(s)
                THEN [job[t] EXCEPT !.pc = "block", !.path = "blocked"]
                ELSE [job[t] EXCEPT !.pc = "unlock", !.path = "again"]
<1>3. job' = [job EXCEPT ![t] = k]
  BY DEF Look
<1>4. /\ k \in Job /\ k.call = job[t].call /\ k.since = job[t].since
      /\ k.inherited = job[t].inherited
      /\ k.ticks = job[t].ticks /\ k.entered = job[t].entered /\ k.laps = job[t].laps
      /\ \/ sem[s].count = 0 /\ k.pc = "block" /\ k.path = "blocked"
         \/ sem[s].count # 0 /\ k.pc = "unlock" /\ k.path = "again"
  BY <1>2 DEF Job, CallPcs, TakePcs, prvIsQueueEmpty
<1> HIDE DEF k
<1>5. job'[t] = k /\ \A u \in Tasks \ {t} : job'[u] = job[u]
  BY <1>3, Went
<1> QED
  BY <1>1, <1>2, <1>4, <1>5

(* The other actions of a call that leave the lists alone.                 *)
LEMMA StayedCalm ==
  ASSUME Types, Control, NEW t \in Tasks, StaysCalm(t)
  PROVE  Calm(t)
<1>1. Unmoved(kernel, kernel) /\ kernel \in Kernel /\ Filed(kernel)
  BY DEF Unmoved, Types
<1>2. ASSUME job[t].pc \in CallPcs PROVE t # Idle
  BY <1>2 DEF Control, CallPcs, TakePcs
<1>3. CASE AssertionFails(t)
  <2>1. /\ Running(t) /\ job[t].pc = "take" /\ Goto(t, "fatal")
        /\ UNCHANGED <<kernel, sem, switch, clock, gives>>
    BY <1>3 DEF AssertionFails, At
  <2>2. job[t].pc \in CallPcs /\ job[t].pc \in TakePcs
    BY <2>1 DEF CallPcs, TakePcs
  <2>3. /\ \A u \in Tasks \ {t} : job'[u] = job[u]
        /\ job'[t].pc = "fatal" /\ job'[t].call = job[t].call /\ job[t].call.op = "take"
    BY <2>1, <2>2, Went DEF SameCall, Control
  <2> QED
    BY <1>1, <1>2, <2>1, <2>2, <2>3 DEF Calm, StopPcs
<1>4. CASE prvLockQueue(t)
  <2>1. Running(t) /\ UNCHANGED <<kernel, switch, clock, gives>>
    BY <1>4 DEF prvLockQueue, At
  <2>2. /\ job[t].pc = "lock" /\ job[t].call.op = "take" /\ job'[t].call = job[t].call
        /\ \A u \in Tasks \ {t} : job'[u] = job[u]
        /\ (job'[t].pc = "unlock" /\ job'[t].path = "late") \/ job'[t].pc = "look"
    BY <1>4, Locked
  <2> QED
    BY <1>1, <1>2, <2>1, <2>2 DEF Calm, StopPcs, CallPcs, TakePcs
<1>5. CASE Look(t)
  <2>1. Running(t) /\ UNCHANGED <<kernel, switch, clock, gives>>
    BY <1>5 DEF Look, At
  <2>2. /\ job[t].pc = "look" /\ job[t].call.op = "take" /\ job'[t].call = job[t].call
        /\ \A u \in Tasks \ {t} : job'[u] = job[u]
        /\ \/ job'[t].pc = "unlock" /\ job'[t].path = "again"
           \/ job'[t].pc = "block" /\ job'[t].path = "blocked"
    BY <1>5, Looked
  <2> QED
    BY <1>1, <1>2, <2>1, <2>2 DEF Calm, StopPcs, CallPcs, TakePcs
<1>6. CASE Late(t)
  <2>1. /\ Running(t) /\ job[t].pc = "late" /\ UNCHANGED <<kernel, switch, clock, gives>>
        /\ Goto(t, "take") \/ Goto(t, "disinherit") \/ Return(t)
    BY <1>6 DEF Late, At
  <2>2. job[t].pc \in CallPcs /\ job[t].pc \in TakePcs
    BY <2>1 DEF CallPcs, TakePcs
  <2>3. job[t].call.op = "take"
    BY <2>2 DEF Control
  <2>4. /\ \A u \in Tasks \ {t} : job'[u] = job[u]
        /\ \/ job'[t].pc \in {"take", "disinherit"} /\ job'[t].call = job[t].call
           \/ job'[t].pc = "run"
    BY <2>1, <2>2, Went DEF SameCall
  <2> QED
    BY <1>1, <1>2, <2>1, <2>2, <2>3, <2>4 DEF Calm, StopPcs, TakePcs
<1>7. CASE Disinherit(t)
  <2> DEFINE s == job[t].call.sem
             n == prvGetDisinheritPriorityAfterTimeout(kernel, s)
  <2>1. job[t].pc = "disinherit" /\ Running(t) /\ Return(t) /\ UNCHANGED <<sem, switch, clock, gives>>
        /\ kernel' = vTaskPriorityDisinheritAfterTimeout(kernel, sem[s].holder, n)
    BY <1>7 DEF Disinherit, At
  <2>2. job[t].pc \in CallPcs /\ job[t].pc \in TakePcs
    BY <2>1 DEF CallPcs, TakePcs
  <2>3. s \in Semaphores
    BY <2>2, JobForms, WaitForms DEF Control
  <2>4. n \in Nat
    BY <1>1, <2>3, WaitingPriority
  <2>5. sem[s].holder \in Tasks \union {NoTask}
    BY <2>3 DEF Types, Semaphore
  <2> HIDE DEF n
  <2>6. Unmoved(kernel, kernel')
    BY <1>1, <2>1, <2>4, <2>5, LateDisinheritance
  <2>7. \A u \in Tasks \ {t} : job'[u] = job[u] 
    BY <2>1, Went
  <2>8. job'[t].pc = "run"
    BY <2>1, Went
  <2> QED
    BY <1>2, <2>1, <2>2, <2>6, <2>7, <2>8 DEF Calm, StopPcs, TakePcs
<1>8. CASE vTaskDelay(t)
  <2>1. PICK c \in Calls[t] : c.op = "delay" /\ job' = [job EXCEPT ![t] = Started(c, "stop")]
    BY <1>8 DEF vTaskDelay
  <2>2. Running(t) /\ job[t].pc = "run" /\ UNCHANGED <<kernel, sem, switch, clock, gives>>
    BY <1>8 DEF vTaskDelay, At
  <2> DEFINE j == Started(c, "stop")
  <2>4. j.pc = "stop" /\ t # Idle
    BY CallForms DEF Started
  <2>5. job' = [job EXCEPT ![t] = j]
    BY <2>1
  <2> HIDE DEF j
  <2>3. job'[t].pc = "stop" /\ t # Idle /\ \A u \in Tasks \ {t} : job'[u] = job[u]
    BY <2>4, <2>5, Went
  <2> QED
    BY <1>1, <2>2, <2>3 DEF Calm, StopPcs, TakePcs
<1>9. CASE Awake(t)
  <2>1. Running(t) /\ job[t].pc = "asleep" /\ Return(t) /\ UNCHANGED <<kernel, sem, switch, clock, gives>>
    BY <1>9 DEF Awake, At
  <2>2. job[t].pc \in CallPcs
    BY <2>1 DEF CallPcs
  <2>3. job'[t].pc = "run" /\ \A u \in Tasks \ {t} : job'[u] = job[u]
    BY <2>1, Went
  <2> QED
    BY <1>1, <1>2, <2>1, <2>2, <2>3 DEF Calm, StopPcs, TakePcs
<1> QED
  BY <1>3, <1>4, <1>5, <1>6, <1>7, <1>8, <1>9 DEF StaysCalm

(* No task is moved, and the time is what it was.                          *)
Still(K, R) ==
  /\ R.list = K.list /\ R.level = K.level /\ R.wake = K.wake /\ R.waiting = K.waiting
  /\ R.pending = K.pending /\ R.tick = K.tick /\ R.overflows = K.overflows
  /\ R.prio = K.prio /\ R.held = K.held

(* vTaskSuspendAll suspends the scheduler and changes no list.             *)
LEMMA Suspended ==
  ASSUME Types, Control, NEW t \in Tasks, vTaskSuspendAll(t)
  PROVE  /\ t # Idle /\ Running(t) /\ job[t] \in Job /\ job[t].pc = "stop" /\ ~kernel.stopped
         /\ \A u \in Tasks \ {t} : job'[u] = job[u]
         /\ SameCall(job[t], job'[t])
         /\ job'[t].pc = IF job[t].call.op = "take" THEN "lock" ELSE "place"
         /\ Still(kernel, kernel') /\ kernel'.current = kernel.current /\ kernel'.top = kernel.top
         /\ kernel'.next = kernel.next /\ kernel'.pended = kernel.pended /\ kernel'.stopped
         /\ UNCHANGED <<sem, switch, clock, gives>>
<1> DEFINE p == IF job[t].call.op = "take" THEN "lock" ELSE "place"
<1>1. /\ Running(t) /\ job[t].pc = "stop" /\ Goto(t, p) /\ kernel' = [kernel EXCEPT !.stopped = TRUE]
      /\ UNCHANGED <<sem, switch, clock, gives>>
  BY DEF vTaskSuspendAll, At
<1>2. job[t].pc \in CallPcs /\ job[t].pc \notin StopPcs /\ kernel.current = t
  BY <1>1 DEF CallPcs, TakePcs, StopPcs, Running
<1>3. t # Idle /\ job[t] \in Job /\ ~kernel.stopped
  BY <1>1, <1>2, JobForms DEF Control
<1> HIDE DEF p
<1>4. /\ \A u \in Tasks \ {t} : job'[u] = job[u]
      /\ job'[t].pc = p /\ SameCall(job[t], job'[t])
  BY <1>1, <1>2, Went
<1>5. /\ Still(kernel, kernel') /\ kernel'.current = kernel.current /\ kernel'.top = kernel.top
      /\ kernel'.next = kernel.next /\ kernel'.pended = kernel.pended /\ kernel'.stopped
  BY <1>1 DEF Types, Kernel, Still
<1> QED
  BY <1>1, <1>3, <1>4, <1>5 DEF p

(* The end of prvAddCurrentTaskToDelayedList lowers xNextTaskUnblockTime   *)
(* to the wake time of the task.                                           *)
LEMMA Adjusted ==
  ASSUME Types, Control, NEW t \in Tasks, AdjustNext(t)
  PROVE  /\ t # Idle /\ Running(t) /\ job[t] \in Job /\ job[t].pc = "next" /\ kernel.stopped
         /\ \A u \in Tasks \ {t} : job'[u] = job[u]
         /\ SameCall(job[t], job'[t])
         /\ job'[t].pc = IF job[t].call.op = "take" THEN "unlock" ELSE "resume"
         /\ Still(kernel, kernel') /\ kernel'.current = kernel.current /\ kernel'.top = kernel.top
         /\ kernel'.pended = kernel.pended /\ kernel'.stopped
         /\ kernel'.next <= kernel.next
         /\ kernel.list[t] = "delayed" => kernel'.next <= kernel.wake[t]
         /\ \/ kernel'.next = kernel.next
            \/ kernel.list[t] = "delayed" /\ kernel'.next = kernel.wake[t]
         /\ UNCHANGED <<sem, switch, clock, gives>>
<1> DEFINE p == IF job[t].call.op = "take" THEN "unlock" ELSE "resume"
           low == Min({kernel.next, kernel.wake[t]})
<1>1. /\ Running(t) /\ job[t].pc = "next" /\ Goto(t, p)
      /\ UNCHANGED <<sem, switch, clock, gives>>
      /\ kernel' = IF kernel.list[t] = "delayed" THEN [kernel EXCEPT !.next = low] ELSE kernel
  BY DEF AdjustNext, At
<1>2. job[t].pc \in CallPcs /\ job[t].pc \in StopPcs
  BY <1>1 DEF CallPcs, TakePcs, StopPcs
<1>3. t # Idle /\ job[t] \in Job /\ kernel.stopped
  BY <1>1, <1>2, JobForms DEF Control
<1>6. kernel.next \in Ticks /\ kernel.wake[t] \in Ticks /\ kernel \in Kernel
  BY DEF Types, Kernel
<1>7. low <= kernel.next /\ low <= kernel.wake[t] /\ (low = kernel.next \/ low = kernel.wake[t])
  BY <1>6, SmallerTick
<1> HIDE DEF p, low
<1>4. /\ \A u \in Tasks \ {t} : job'[u] = job[u]
      /\ job'[t].pc = p /\ SameCall(job[t], job'[t])
  BY <1>1, <1>2, Went
<1>5. /\ Still(kernel, kernel') /\ kernel'.current = kernel.current /\ kernel'.top = kernel.top
      /\ kernel'.pended = kernel.pended /\ kernel'.stopped
  BY <1>1, <1>3, <1>6 DEF Kernel, Still
<1>8. /\ kernel'.next <= kernel.next
      /\ kernel.list[t] = "delayed" => kernel'.next <= kernel.wake[t]
      /\ \/ kernel'.next = kernel.next
         \/ kernel.list[t] = "delayed" /\ kernel'.next = kernel.wake[t]
  <2>1. CASE kernel.list[t] = "delayed"
    <3>1. kernel'.next = low
      BY <1>1, <1>6, <2>1 DEF Kernel
    <3> QED
      BY <1>7, <2>1, <3>1
  <2>2. CASE kernel.list[t] # "delayed"
    <3>1. kernel' = kernel
      BY <1>1, <2>2
    <3>2. kernel.next \in Nat
      BY <1>6, TickNumbers
    <3>3. kernel.next <= kernel.next
      BY <3>2
    <3> QED
      BY <2>2, <3>1, <3>3
  <2> QED
    BY <2>1, <2>2
<1> QED
  BY <1>1, <1>3, <1>4, <1>5, <1>8 DEF p

(* The task that executes is put to sleep.                                 *)
Put(K, R, ticks, indefinitely) ==
  /\ R.current = K.current /\ R.pending = K.pending /\ R.tick = K.tick
  /\ R.overflows = K.overflows /\ R.next = K.next /\ R.stopped = K.stopped
  /\ R.pended = K.pended /\ R.yield = K.yield
  /\ \A u \in Tasks : u # K.current => R.list[u] = K.list[u] /\ R.wake[u] = K.wake[u]
  /\ R.list[K.current] \in Asleep
  /\ R.list[K.current] = "suspended" <=> ticks = portMAX_DELAY /\ indefinitely
  /\ R.list[K.current] = "delayed" => R.wake[K.current] = K.tick + ticks
  /\ R.list[K.current] = "overflow" => R.wake[K.current] = K.tick + ticks - TickMod

(* prvAddCurrentTaskToDelayedList does what Put says.                      *)
LEMMA PutThere ==
  ASSUME NEW K \in Kernel, NEW ticks \in Ticks, NEW indefinitely \in BOOLEAN
  PROVE  LET R == prvAddCurrentTaskToDelayedList(K, ticks, indefinitely)
         IN  /\ Put(K, R, ticks, indefinitely)
             /\ R.prio = K.prio /\ R.held = K.held /\ R.waiting = K.waiting
<1> DEFINE R == prvAddCurrentTaskToDelayedList(K, ticks, indefinitely)
<1>1. /\ R.current = K.current /\ R.top = K.top /\ R.waiting = K.waiting
      /\ R.pending = K.pending /\ R.tick = K.tick /\ R.overflows = K.overflows
      /\ R.next = K.next /\ R.stopped = K.stopped /\ R.pended = K.pended
      /\ R.yield = K.yield /\ R.prio = K.prio /\ R.held = K.held
      /\ \A u \in Tasks : u # K.current => /\ R.list[u] = K.list[u]
                                            /\ R.level[u] = K.level[u]
                                            /\ R.wake[u] = K.wake[u]
      /\ R.list[K.current] \in Asleep
      /\ R.list[K.current] = "suspended" <=> ticks = portMAX_DELAY /\ indefinitely
      /\ R.list[K.current] = "delayed" => R.wake[K.current] = K.tick + ticks
      /\ R.list[K.current] = "overflow" => R.wake[K.current] = K.tick + ticks - TickMod
  BY Parked
<1> HIDE DEF R
<1> QED
  BY <1>1 DEF Put, R

(* K is the kernel after the holder of a mutex has inherited.              *)
Heir(s) == IF s \in Mutexes THEN xTaskPriorityInherit(kernel, sem[s].holder) ELSE kernel

(* vTaskPlaceOnEventList: the holder inherits, the task enters the waiting *)
(* list and goes to sleep.                                                 *)
LEMMA Blocked ==
  ASSUME Types, Control, NEW t \in Tasks, vTaskPlaceOnEventList(t)
  PROVE  LET j == job[t]
             k == job'[t]
             s == j.call.sem
             K == Heir(s)
         IN  /\ t # Idle /\ Running(t) /\ j \in Job /\ j.pc = "block" /\ j.call.op = "take"
             /\ s \in Semaphores /\ kernel.stopped
             /\ \A u \in Tasks \ {t} : job'[u] = job[u]
             /\ k.pc = "next" /\ k.call = j.call /\ k.ticks = j.ticks /\ k.entered = j.entered
             /\ k.laps = j.laps /\ k.since = j.since /\ k.path = j.path
             /\ k.inherited = (s \in Mutexes /\ Inherited(kernel, sem[s].holder))
             /\ Put(kernel, kernel', j.ticks, TRUE)
             /\ K \in Kernel /\ Filed(K) /\ Unmoved(kernel, K)
             /\ kernel'.prio = K.prio /\ kernel'.held = kernel.held
             /\ \A z \in Semaphores \ {s} : kernel'.waiting[z] = kernel.waiting[z]
             /\ kernel'.waiting[s] = vListInsert(K, kernel.waiting[s], t)
             /\ UNCHANGED <<sem, switch, clock, gives>>
<1> DEFINE s == job[t].call.sem
           K == Heir(s)
           queue == vListInsert(K, kernel.waiting[s], t)
           B == [K EXCEPT !.waiting[s] = queue]
           i == s \in Mutexes /\ Inherited(kernel, sem[s].holder)
           k == [job[t] EXCEPT !.pc = "next", !.inherited = i]
<1>1. /\ Running(t) /\ job[t].pc = "block" /\ kernel.current = t
      /\ job[t].pc \in TakePcs /\ job[t].pc \in CallPcs /\ job[t].pc \in StopPcs
      /\ UNCHANGED <<sem, switch, clock, gives>>
  BY DEF vTaskPlaceOnEventList, At, TakePcs, CallPcs, StopPcs, Running
<1>2. /\ job[t] \in Job /\ s \in Semaphores /\ job[t].ticks \in Ticks /\ job[t].call.op = "take"
      /\ t # Idle /\ kernel.stopped
  BY <1>1, JobForms, WaitForms DEF Control
<1>3. kernel \in Kernel /\ Filed(kernel) /\ job \in [Tasks -> Job \union {NoJob, IdleJob}]
  BY DEF Types
<1>4. K \in Kernel /\ Filed(K) /\ Unmoved(kernel, K) /\ K.held = kernel.held
  <2>1. sem[s].holder \in Tasks \union {NoTask}
    BY <1>2 DEF Types, Semaphore
  <2> QED
    BY <1>3, <2>1, Inheritance DEF Unmoved, Heir
<1>5. K.waiting = kernel.waiting /\ kernel.waiting[s] \in Seq(Tasks)
  BY <1>2, <1>3, <1>4 DEF Kernel, Unmoved
<1>6. queue \in Seq(Tasks)
  BY <1>4, <1>5, Inserted
<1>7. kernel' = prvAddCurrentTaskToDelayedList(B, job[t].ticks, TRUE)
  <2>1. kernel' = prvAddCurrentTaskToDelayedList(
                     [K EXCEPT !.waiting[s] = vListInsert(K, K.waiting[s], t)], job[t].ticks, TRUE)
    BY DEF vTaskPlaceOnEventList, Heir
  <2> HIDE DEF K
  <2> QED
    BY <1>5, <2>1
<1>8. job' = [job EXCEPT ![t] = k]
  BY <1>3 DEF vTaskPlaceOnEventList
<1>9. /\ k.pc = "next" /\ k.call = job[t].call /\ k.ticks = job[t].ticks /\ k.entered = job[t].entered
      /\ k.laps = job[t].laps /\ k.since = job[t].since /\ k.path = job[t].path
      /\ k.inherited = i
  <2> HIDE DEF i
  <2> QED
    BY <1>2 DEF Job
<1> HIDE DEF K, queue, k, i
<1>10. job'[t] = k /\ \A u \in Tasks \ {t} : job'[u] = job[u]
  BY <1>8, Went
<1>11. B \in Kernel
  BY <1>2, <1>4, <1>6 DEF Kernel
<1>12. /\ B.current = K.current /\ B.list = K.list /\ B.wake = K.wake /\ B.prio = K.prio /\ B.held = K.held
       /\ B.pending = K.pending /\ B.tick = K.tick /\ B.overflows = K.overflows /\ B.next = K.next
       /\ B.stopped = K.stopped /\ B.pended = K.pended /\ B.yield = K.yield
       /\ B.waiting = [K.waiting EXCEPT ![s] = queue]
  BY <1>4 DEF Kernel
<1> HIDE DEF B
<1>13. /\ Put(B, kernel', job[t].ticks, TRUE)
       /\ kernel'.prio = B.prio /\ kernel'.held = B.held /\ kernel'.waiting = B.waiting
  BY <1>2, <1>7, <1>11, PutThere
<1>14. Put(kernel, kernel', job[t].ticks, TRUE)
  BY <1>4, <1>12, <1>13 DEF Put, Unmoved
<1>15. kernel'.prio = K.prio /\ kernel'.held = kernel.held
  BY <1>4, <1>12, <1>13
<1>16. /\ \A z \in Semaphores \ {s} : kernel'.waiting[z] = kernel.waiting[z]
       /\ kernel'.waiting[s] = queue
  BY <1>2, <1>3, <1>5, <1>12, <1>13 DEF Kernel
<1> QED
  BY <1>1, <1>2, <1>4, <1>9, <1>10, <1>14, <1>15, <1>16 DEF K, queue, i

(* The same for vTaskDelay, which has no waiting list.                     *)
LEMMA Placed ==
  ASSUME Types, Control, NEW t \in Tasks, Place(t)
  PROVE  /\ t # Idle /\ Running(t) /\ job[t] \in Job /\ job[t].pc = "place"
         /\ job[t].call.op = "delay" /\ kernel.stopped
         /\ \A u \in Tasks \ {t} : job'[u] = job[u]
         /\ job'[t].pc = "next" /\ SameCall(job[t], job'[t])
         /\ Put(kernel, kernel', job[t].ticks, FALSE)
         /\ kernel'.prio = kernel.prio /\ kernel'.held = kernel.held
         /\ kernel'.waiting = kernel.waiting
         /\ UNCHANGED <<sem, switch, clock, gives>>
<1>1. /\ Running(t) /\ job[t].pc = "place"
      /\ job[t].pc \in CallPcs /\ job[t].pc \in StopPcs
      /\ kernel' = prvAddCurrentTaskToDelayedList(kernel, job[t].ticks, FALSE)
      /\ Goto(t, "next") /\ UNCHANGED <<sem, switch, clock, gives>>
  BY DEF Place, At, CallPcs, StopPcs
<1>2. /\ job[t] \in Job /\ job[t].ticks \in Ticks /\ job[t].call.op = "delay"
      /\ t # Idle /\ kernel.stopped
  BY <1>1, JobForms DEF Control
<1>3. kernel \in Kernel
  BY DEF Types
<1>4. /\ Put(kernel, kernel', job[t].ticks, FALSE)
      /\ kernel'.prio = kernel.prio /\ kernel'.held = kernel.held
      /\ kernel'.waiting = kernel.waiting
  BY <1>1, <1>2, <1>3, PutThere
<1>5. /\ \A u \in Tasks \ {t} : job'[u] = job[u]
      /\ job'[t].pc = "next" /\ SameCall(job[t], job'[t])
  BY <1>1, Went
<1> QED
  BY <1>1, <1>2, <1>4, <1>5

(* prvUnlockQueue wakes a waiting task if a give came while the queue was  *)
(* locked and a task waits.                                                *)
LEMMA Opened ==
  ASSUME Types, Control, Locks, NEW t \in Tasks, prvUnlockQueue(t)
  PROVE  LET s == job[t].call.sem
         IN  /\ t # Idle /\ Running(t) /\ job[t] \in Job /\ job[t].pc = "unlock"
             /\ job[t].call.op = "take" /\ s \in Semaphores /\ kernel.stopped
             /\ \A u \in Tasks \ {t} : job'[u] = job[u]
             /\ job'[t].pc = "resume" /\ SameCall(job[t], job'[t])
             /\ \A z \in Semaphores \ {s} : sem'[z] = sem[z]
             /\ sem'[s].count = sem[s].count /\ sem'[s].holder = sem[s].holder
             /\ sem'[s].txLock = -1
             /\ \E n \in 0..Len(kernel.waiting[s]) :
                   /\ Unlocked(kernel, s, n, kernel')
                   /\ n = 0 <=> sem[s].txLock = 0 \/ Len(kernel.waiting[s]) = 0
             /\ UNCHANGED <<switch, clock, gives>>
<1> DEFINE s == job[t].call.sem
<1>1. /\ Running(t) /\ job[t].pc = "unlock"
      /\ job[t].pc \in CallPcs /\ job[t].pc \in StopPcs /\ job[t].pc \in TakePcs
      /\ sem' = [sem EXCEPT ![s].txLock = -1]
      /\ Goto(t, "resume") /\ UNCHANGED <<switch, clock, gives>>
  BY DEF prvUnlockQueue, At, CallPcs, TakePcs, StopPcs
<1>2. /\ job[t] \in Job /\ s \in Semaphores /\ job[t].call.op = "take"
      /\ t # Idle /\ kernel.stopped
  BY <1>1, JobForms, WaitForms DEF Control
<1>3. kernel \in Kernel /\ sem \in [Semaphores -> Semaphore]
  BY DEF Types
<1>4. Locking(t, s)
  BY <1>1, <1>2 DEF Locking, InTake
<1>5. PICK n \in 0..Len(kernel.waiting[s]) :
         /\ kernel' = Released(kernel, s, n)
         /\ n = 0 <=> sem[s].txLock = 0 \/ Len(kernel.waiting[s]) = 0
  BY <1>2, <1>4, UnlockCount
<1>6. Unlocked(kernel, s, n, kernel')
  BY <1>2, <1>3, <1>5, Release
<1>7. /\ \A u \in Tasks \ {t} : job'[u] = job[u]
      /\ job'[t].pc = "resume" /\ SameCall(job[t], job'[t])
  BY <1>1, Went
<1>8. /\ \A z \in Semaphores \ {s} : sem'[z] = sem[z]
      /\ sem'[s].count = sem[s].count /\ sem'[s].holder = sem[s].holder
      /\ sem'[s].txLock = -1
  BY <1>1, <1>2, <1>3 DEF Semaphore
<1> HIDE DEF s
<1> QED
  BY <1>1, <1>2, <1>5, <1>6, <1>7, <1>8 DEF s

(* The end of a wait: the scheduler is resumed and the call goes on where  *)
(* its path says.                                                          *)
LEMMA Restarted ==
  ASSUME Types, Control, NEW t \in Tasks, Resume(t)
  PROVE  LET path == IF job[t].call.op = "delay" THEN "asleep" ELSE job[t].path
         IN  /\ t # Idle /\ Running(t) /\ job[t] \in Job /\ job[t].pc = "resume" /\ kernel.stopped
             /\ job[t].call.op \in {"take", "delay"}
             /\ \A u \in Tasks \ {t} : job'[u] = job[u]
             /\ job'[t].pc = IF path \in {"late", "asleep"} THEN path ELSE "take"
             /\ SameCall(job[t], job'[t])
             /\ \E W : Resumed(kernel, kernel', W)
             /\ switch' = (kernel'.yield \/ path \in {"blocked", "asleep"})
             /\ UNCHANGED <<sem, clock, gives>>
<1> DEFINE path == IF job[t].call.op = "delay" THEN "asleep" ELSE job[t].path
           p == IF path \in {"late", "asleep"} THEN path ELSE "take"
<1>1. /\ Running(t) /\ job[t].pc = "resume"
      /\ job[t].pc \in CallPcs /\ job[t].pc \in StopPcs
      /\ kernel' = xTaskResumeAll(kernel)
      /\ switch' = (kernel'.yield \/ path \in {"blocked", "asleep"})
      /\ Goto(t, p) /\ UNCHANGED <<sem, clock, gives>>
  BY DEF Resume, At, CallPcs, StopPcs
<1>2. /\ job[t] \in Job /\ t # Idle /\ kernel.stopped /\ job[t].call.op \in {"take", "delay"}
  BY <1>1, JobForms, WaitForms DEF Control
<1>3. kernel \in Kernel
  BY DEF Types
<1>4. \E W : Resumed(kernel, kernel', W)
  BY <1>1, <1>3, Resumption
<1> HIDE DEF p
<1>5. /\ \A u \in Tasks \ {t} : job'[u] = job[u]
      /\ job'[t].pc = p /\ SameCall(job[t], job'[t])
  BY <1>1, Went
<1> HIDE DEF path
<1> QED
  BY <1>1, <1>2, <1>4, <1>5 DEF p, path

(* K is the kernel after the task that gives a mutex has disinherited.     *)
Quit(t, s) == IF s \in Mutexes THEN xTaskPriorityDisinherit(kernel, t) ELSE kernel

(* What a give by a task changes: the first waiting task is woken, and a   *)
(* mutex gives its priority back.                                          *)
GivenTo(t, s) ==
  /\ sem[s].count = 0 /\ sem'[s].count = 1 /\ sem'[s].holder = NoTask
  /\ sem'[s].txLock = sem[s].txLock
  /\ \A z \in Semaphores \ {s} : sem'[z] = sem[z]
  /\ s \in Mutexes => sem[s].holder = t
  /\ Quit(t, s) \in Kernel /\ Filed(Quit(t, s)) /\ Unmoved(kernel, Quit(t, s))
  /\ \/ /\ kernel.waiting[s] = <<>> /\ kernel' = Quit(t, s)
        /\ switch' = (s \in Mutexes /\ Disinherits(kernel, t))
     \/ /\ kernel.waiting[s] # <<>> /\ Removed(Quit(t, s), s, kernel')
        /\ switch' = WakesHigher(Quit(t, s), s)

(* Give does what GivenTo says, for one of the task's calls.               *)
LEMMA Given ==
  ASSUME Types, Control, NEW t \in Tasks, Give(t)
  PROVE  /\ t # Idle /\ Running(t) /\ job[t].pc = "run" /\ ~kernel.stopped
         /\ \E s \in Semaphores : GivenTo(t, s) /\ \E c \in Calls[t] : c.op = "give" /\ c.sem = s
         /\ UNCHANGED <<job, clock, gives>>
<1>1. PICK c \in Calls[t] :
          LET s == c.sem
              mutex == s \in Mutexes
              K == IF mutex THEN xTaskPriorityDisinherit(kernel, t) ELSE kernel
              waits == K.waiting[s] # <<>>
          IN  /\ c.op = "give" /\ sem[s].count = 0
              /\ mutex => sem[s].holder = t
              /\ sem' = [sem EXCEPT ![s].count = 1, ![s].holder = NoTask]
              /\ kernel' = IF waits THEN xTaskRemoveFromEventList(K, s) ELSE K
              /\ switch' = IF waits THEN WakesHigher(K, s)
                           ELSE mutex /\ Disinherits(kernel, t)
  BY DEF Give
<1>2. Running(t) /\ job[t].pc = "run" /\ UNCHANGED <<job, clock, gives>>
  BY DEF Give, At
<1>3. ~kernel.stopped /\ t # Idle
  BY <1>1, <1>2, CallForms DEF Control, StopPcs, Running
<1> DEFINE s == c.sem
           K == Quit(t, s)
<1>4. s \in Semaphores
  BY <1>1, CallForms
<1>5. kernel \in Kernel /\ Filed(kernel) /\ sem \in [Semaphores -> Semaphore]
  BY DEF Types
<1>6. K \in Kernel /\ Filed(K) /\ Unmoved(kernel, K)
  BY <1>5, Disinheritance DEF Quit, Unmoved
<1>7. /\ kernel' = IF K.waiting[s] # <<>> THEN xTaskRemoveFromEventList(K, s) ELSE K
      /\ switch' = IF K.waiting[s] # <<>> THEN WakesHigher(K, s)
                   ELSE s \in Mutexes /\ Disinherits(kernel, t)
  BY <1>1 DEF Quit
<1>8. /\ sem[s].count = 0 /\ sem'[s].count = 1 /\ sem'[s].holder = NoTask
      /\ sem'[s].txLock = sem[s].txLock
      /\ \A z \in Semaphores \ {s} : sem'[z] = sem[z]
      /\ s \in Mutexes => sem[s].holder = t
  <2>1. /\ sem[s].count = 0
        /\ s \in Mutexes => sem[s].holder = t
        /\ sem' = [sem EXCEPT ![s].count = 1, ![s].holder = NoTask]
    BY <1>1
  <2> QED
    BY <1>4, <1>5, <2>1 DEF Semaphore
<1> HIDE DEF K
<1>9. K.waiting = kernel.waiting
  BY <1>6 DEF Unmoved
<1>10. \/ /\ kernel.waiting[s] = <<>> /\ kernel' = K
          /\ switch' = (s \in Mutexes /\ Disinherits(kernel, t))
       \/ /\ kernel.waiting[s] # <<>> /\ Removed(K, s, kernel')
          /\ switch' = WakesHigher(K, s)
  <2>1. CASE kernel.waiting[s] = <<>>
    BY <1>7, <1>9, <2>1
  <2>2. CASE kernel.waiting[s] # <<>>
    <3>1. kernel' = xTaskRemoveFromEventList(K, s) /\ switch' = WakesHigher(K, s)
          /\ K.waiting[s] # <<>>
      BY <1>7, <1>9, <2>2
    <3>2. Removed(K, s, kernel')
      BY <1>4, <1>6, <3>1, Removal
    <3> QED
      BY <2>2, <3>1, <3>2
  <2> QED
    BY <2>1, <2>2
<1>11. GivenTo(t, s)
  BY <1>6, <1>8, <1>10 DEF GivenTo, K
<1> QED
  BY <1>1, <1>2, <1>3, <1>4, <1>11

(* A give from an interrupt wakes the first waiting task, or is counted by *)
(* the lock of the queue.                                                  *)
LEMMA GivenFromISR ==
  ASSUME Types, NEW s \in Semaphores, xQueueGiveFromISR(s)
  PROVE  /\ s \notin Mutexes /\ sem[s].count = 0 /\ sem'[s].count = 1
         /\ sem'[s].holder = sem[s].holder
         /\ sem'[s].txLock = IF sem[s].txLock = -1 THEN -1 ELSE sem[s].txLock + 1
         /\ \A z \in Semaphores \ {s} : sem'[z] = sem[z]
         /\ \/ /\ sem[s].txLock # -1 \/ kernel.waiting[s] = <<>>
               /\ kernel' = kernel /\ switch' = switch
            \/ /\ sem[s].txLock = -1 /\ kernel.waiting[s] # <<>>
               /\ Removed(kernel, s, kernel')
               /\ switch' = (switch \/ WakesHigher(kernel, s))
         /\ UNCHANGED <<job, clock>>
<1> DEFINE l == IF sem[s].txLock = -1 THEN -1 ELSE sem[s].txLock + 1
<1>1. kernel \in Kernel /\ sem \in [Semaphores -> Semaphore] /\ switch \in BOOLEAN
  BY DEF Types
<1>2. s \notin Mutexes /\ sem[s].count = 0 /\ UNCHANGED <<job, clock>>
      /\ sem' = [sem EXCEPT ![s].count = 1, ![s].txLock = IF @ = -1 THEN @ ELSE @ + 1]
  BY DEF xQueueGiveFromISR
<1>3. /\ sem'[s].count = 1 /\ sem'[s].holder = sem[s].holder /\ sem'[s].txLock = l
      /\ \A z \in Semaphores \ {s} : sem'[z] = sem[z]
  BY <1>1, <1>2 DEF Semaphore
<1>4. CASE sem[s].txLock # -1 \/ kernel.waiting[s] = <<>>
  <2>1. kernel' = kernel
    BY <1>1, <1>4 DEF xQueueGiveFromISR
  <2> DEFINE x == (sem[s].txLock = -1 /\ kernel.waiting[s] # <<>>) /\ WakesHigher(kernel, s)
  <2>3. switch' = (switch \/ x) /\ ~x
    BY <1>4 DEF xQueueGiveFromISR
  <2> HIDE DEF x
  <2>4. switch = TRUE \/ switch = FALSE
    BY <1>1
  <2>2. switch' = switch
    BY <2>3, <2>4
  <2> QED
    BY <1>2, <1>3, <1>4, <2>1, <2>2
<1>5. CASE sem[s].txLock = -1 /\ kernel.waiting[s] # <<>>
  <2> DEFINE w == WakesHigher(kernel, s)
  <2>1. /\ kernel' = xTaskRemoveFromEventList(kernel, s)
        /\ switch' = (switch \/ (TRUE /\ w))
    BY <1>5 DEF xQueueGiveFromISR
  <2> HIDE DEF w
  <2>2. switch' = (switch \/ w)
    BY <1>1, <2>1, Zenon
  <2>3. Removed(kernel, s, kernel')
    BY <1>1, <1>5, <2>1, Removal
  <2> QED
    BY <1>2, <1>3, <1>5, <2>2, <2>3 DEF w
<1> QED
  BY <1>4, <1>5

(* xTaskCreate makes one new task ready.                                   *)
LEMMA Created ==
  ASSUME Types, Control, NEW t \in Tasks, xTaskCreate(t)
  PROVE  /\ t # Idle /\ Running(t) /\ job[t].pc = "run" /\ ~kernel.stopped
         /\ \E u \in Tasks :
              /\ u # Idle /\ kernel.list[u] = "none"
              /\ kernel'.list[u] = "ready" /\ kernel'.level[u] = kernel.prio[u]
              /\ \A x \in Tasks \ {u} : kernel'.list[x] = kernel.list[x]
              /\ switch' = (kernel.prio[t] < kernel.prio[u])
         /\ Kept(kernel, kernel') /\ kernel'.waiting = kernel.waiting
         /\ kernel'.tick = kernel.tick /\ kernel'.overflows = kernel.overflows
         /\ kernel'.next = kernel.next
         /\ UNCHANGED <<sem, job, clock, gives>>
<1>1. PICK c \in Calls[t] :
        /\ c.op = "create" /\ kernel.list[c.task] = "none"
        /\ kernel' = prvAddTaskToReadyList(kernel, {c.task})
        /\ switch' = (kernel.prio[t] < kernel.prio[c.task])
  BY DEF xTaskCreate
<1> DEFINE u == c.task
<1>2. Running(t) /\ job[t].pc = "run" /\ UNCHANGED <<sem, job, clock, gives>>
  BY DEF xTaskCreate, At
<1>3. ~kernel.stopped /\ t # Idle /\ u \in Tasks /\ u # Idle
  BY <1>1, <1>2, CallForms DEF Control, StopPcs, Running
<1>4. kernel \in Kernel /\ {u} \in SUBSET Tasks
  BY <1>3 DEF Types
<1>5. /\ Kept(kernel, kernel') /\ kernel'.waiting = kernel.waiting
      /\ kernel'.tick = kernel.tick /\ kernel'.overflows = kernel.overflows
      /\ kernel'.next = kernel.next
      /\ \A x \in {u} : kernel'.list[x] = "ready" /\ kernel'.level[x] = kernel.prio[x]
      /\ \A x \in Tasks \ {u} : kernel'.list[x] = kernel.list[x]
  BY <1>1, <1>4, MadeReady
<1> QED
  BY <1>1, <1>2, <1>3, <1>5

(* A task that deletes itself is in the list of terminated tasks.          *)
LEMMA Deleted ==
  ASSUME Types, Control, NEW t \in Tasks, vTaskDelete(t)
  PROVE  /\ t # Idle /\ Running(t) /\ job[t].pc = "run" /\ ~kernel.stopped
         /\ kernel.held[t] = 0
         /\ kernel'.list[t] = "terminated"
         /\ \A x \in Tasks \ {t} : kernel'.list[x] = kernel.list[x]
         /\ Kept(kernel, kernel') /\ kernel'.waiting = kernel.waiting
         /\ kernel'.tick = kernel.tick /\ kernel'.overflows = kernel.overflows
         /\ kernel'.next = kernel.next
         /\ switch' = TRUE /\ UNCHANGED <<sem, job, clock, gives>>
<1>1. /\ Running(t) /\ job[t].pc = "run" /\ kernel.held[t] = 0 /\ DeleteCall \in Calls[t]
      /\ kernel' = [kernel EXCEPT !.list[t] = "terminated", !.level[t] = 0]
      /\ switch' = TRUE /\ UNCHANGED <<sem, job, clock, gives>>
  BY DEF vTaskDelete, At, Unready
<1>2. ~kernel.stopped /\ t # Idle
  BY <1>1, CallForms DEF Control, StopPcs, Running
<1>3. kernel \in Kernel
  BY DEF Types
<1>4. /\ kernel'.list[t] = "terminated"
      /\ \A x \in Tasks \ {t} : kernel'.list[x] = kernel.list[x]
      /\ Kept(kernel, kernel') /\ kernel'.waiting = kernel.waiting
      /\ kernel'.tick = kernel.tick /\ kernel'.overflows = kernel.overflows
      /\ kernel'.next = kernel.next
  BY <1>1, <1>3 DEF Kernel, Kept
<1> QED
  BY <1>1, <1>2, <1>4

(* The idle task takes one terminated task out of the lists.               *)
LEMMA Reaped ==
  ASSUME Types, Control, Reap
  PROVE  /\ Running(Idle) /\ job[Idle].pc = "run" /\ ~kernel.stopped
         /\ \E t \in Tasks : /\ kernel.list[t] = "terminated" /\ kernel'.list[t] = "none"
                             /\ \A x \in Tasks \ {t} : kernel'.list[x] = kernel.list[x]
         /\ Kept(kernel, kernel') /\ kernel'.waiting = kernel.waiting
         /\ kernel'.tick = kernel.tick /\ kernel'.overflows = kernel.overflows
         /\ kernel'.next = kernel.next
         /\ UNCHANGED <<sem, switch, job, clock, gives>>
<1>1. PICK t \in Tasks : /\ kernel.list[t] = "terminated"
                         /\ kernel' = [kernel EXCEPT !.list[t] = "none"]
  BY DEF Reap
<1>2. Running(Idle) /\ job[Idle].pc = "run" /\ UNCHANGED <<sem, switch, job, clock, gives>>
  BY DEF Reap, At
<1>3. ~kernel.stopped
  BY <1>2 DEF Control, StopPcs, Running
<1>4. kernel \in Kernel
  BY DEF Types
<1>5. /\ kernel'.list[t] = "none"
      /\ \A x \in Tasks \ {t} : kernel'.list[x] = kernel.list[x]
      /\ Kept(kernel, kernel') /\ kernel'.waiting = kernel.waiting
      /\ kernel'.tick = kernel.tick /\ kernel'.overflows = kernel.overflows
      /\ kernel'.next = kernel.next
  BY <1>1, <1>4 DEF Kernel, Kept
<1> QED
  BY <1>1, <1>2, <1>3, <1>5

(* The idle task suspends the scheduler                                    *)
LEMMA IdleSuspended ==
  ASSUME Types, Control, IdleSuspend
  PROVE  /\ Running(Idle) /\ job[Idle].pc = "run" /\ ~kernel.stopped
         /\ job'[Idle].pc = "idle" /\ \A u \in Tasks \ {Idle} : job'[u] = job[u]
         /\ Still(kernel, kernel') /\ kernel'.current = kernel.current /\ kernel'.top = kernel.top
         /\ kernel'.next = kernel.next /\ kernel'.pended = kernel.pended /\ kernel'.stopped
         /\ UNCHANGED <<sem, switch, clock, gives>>
<1>1. /\ Running(Idle) /\ job[Idle].pc = "run" /\ Goto(Idle, "idle")
      /\ kernel' = [kernel EXCEPT !.stopped = TRUE] /\ UNCHANGED <<sem, switch, clock, gives>>
  BY DEF IdleSuspend, At
<1>2. Idle \in Tasks
  BY KernelAssumption
<1>3. ~kernel.stopped
  BY <1>1 DEF Control, StopPcs, Running
<1>4. job'[Idle].pc = "idle" /\ \A u \in Tasks \ {Idle} : job'[u] = job[u]
  BY <1>1, <1>2, Went
<1>5. /\ Still(kernel, kernel') /\ kernel'.current = kernel.current /\ kernel'.top = kernel.top
      /\ kernel'.next = kernel.next /\ kernel'.pended = kernel.pended /\ kernel'.stopped
  BY <1>1 DEF Types, Kernel, Still
<1> QED
  BY <1>1, <1>3, <1>4, <1>5

(* and resumes it.                                                         *)
LEMMA IdleRestarted ==
  ASSUME Types, Control, IdleResume
  PROVE  /\ Running(Idle) /\ job[Idle].pc = "idle" /\ kernel.stopped
         /\ job'[Idle].pc = "run" /\ \A u \in Tasks \ {Idle} : job'[u] = job[u]
         /\ \E W : Resumed(kernel, kernel', W)
         /\ switch' = kernel'.yield
         /\ UNCHANGED <<sem, clock, gives>>
<1>1. /\ Running(Idle) /\ job[Idle].pc = "idle" /\ Return(Idle)
      /\ kernel' = xTaskResumeAll(kernel) /\ switch' = kernel'.yield /\ UNCHANGED <<sem, clock, gives>>
  BY DEF IdleResume, At
<1>2. Idle \in Tasks
  BY KernelAssumption
<1>3. kernel.stopped
  BY <1>1, <1>2 DEF Control, StopPcs
<1>4. job'[Idle].pc = "run" /\ \A u \in Tasks \ {Idle} : job'[u] = job[u]
  BY <1>1, <1>2, Went
<1>5. kernel \in Kernel
  BY DEF Types
<1>6. \E W : Resumed(kernel, kernel', W)
  BY <1>1, <1>5, Resumption
<1> QED
  BY <1>1, <1>3, <1>4, <1>6

(* A tick of a running scheduler, and one of a suspended scheduler.        *)
TickedTo(A) ==
  /\ Passed(kernel, 1, A)
  /\ kernel'.current = A.current /\ kernel'.list = A.list /\ kernel'.level = A.level
  /\ kernel'.top = A.top /\ kernel'.wake = A.wake /\ kernel'.waiting = A.waiting
  /\ kernel'.pending = A.pending /\ kernel'.tick = A.tick
  /\ kernel'.overflows = A.overflows /\ kernel'.next = A.next
  /\ kernel'.stopped = A.stopped /\ kernel'.pended = A.pended /\ kernel'.prio = A.prio
  /\ kernel'.held = A.held /\ kernel'.yield = kernel.yield
  /\ switch \/ A.yield => switch'

(* A tick is pended while the scheduler is suspended, else it does what    *)
(* TickedTo says.                                                          *)
LEMMA Ticked ==
  ASSUME Types, Tick
  PROVE  /\ clock' = clock + 1 /\ UNCHANGED <<sem, job, gives>>
         /\ switch => switch'
         /\ \/ /\ kernel.stopped /\ kernel' = [kernel EXCEPT !.pended = @ + 1]
            \/ /\ ~kernel.stopped /\ \E A : TickedTo(A)
<1> DEFINE R == xTaskIncrementTick(kernel).kernel
           w == xTaskIncrementTick(kernel).switch
           A == AfterTick(kernel)
<1>1. kernel \in Kernel /\ switch \in BOOLEAN
  BY DEF Types
<1>2. /\ clock' = clock + 1 /\ kernel' = R /\ switch' = (switch \/ w)
      /\ UNCHANGED <<sem, job, gives>>
  BY DEF Tick
<1>3. switch => switch'
  <2> HIDE DEF w
  <2> QED
    BY <1>2, Zenon
<1>4. CASE kernel.stopped
  <2>1. kernel' = [kernel EXCEPT !.pended = @ + 1]
    BY <1>2, <1>4 DEF xTaskIncrementTick
  <2> HIDE DEF A, R, w
  <2> QED
    BY <1>2, <1>3, <1>4, <2>1
<1>5. CASE ~kernel.stopped
  <2>1. A \in Kernel /\ Passed(kernel, 1, A) /\ R \in Kernel /\ R.yield = kernel.yield
    BY <1>1, <1>5, TickIsDone, TickPasses
  <2>7. w \in BOOLEAN /\ (kernel.yield => w)
    BY <1>1, <1>5, TickIsDone
  <2>2. A = [R EXCEPT !.yield = R.yield \/ w]
    BY DEF AfterTick
  <2> HIDE DEF A, R, w
  <2>3. /\ R.current = A.current /\ R.list = A.list /\ R.level = A.level
        /\ R.top = A.top /\ R.wake = A.wake /\ R.waiting = A.waiting
        /\ R.pending = A.pending /\ R.tick = A.tick
        /\ R.overflows = A.overflows /\ R.next = A.next
        /\ R.stopped = A.stopped /\ R.pended = A.pended /\ R.prio = A.prio
        /\ R.held = A.held
    BY <2>1, <2>2 DEF Kernel
  <2>4. A.yield = (R.yield \/ w)
    BY <2>1, <2>2, <2>7 DEF Kernel
  <2>6. switch' = (switch \/ w) /\ kernel' = R
    BY <1>2
  <2>8. switch \/ w => switch'
    BY <2>6, Zenon
  <2>9. A.yield => w
    BY <2>1, <2>4, <2>7, Zenon
  <2>5. switch \/ A.yield => switch'
    BY <2>8, <2>9
  <2> QED
    BY <1>2, <1>3, <1>5, <2>1, <2>3, <2>4, <2>5 DEF TickedTo
<1> QED
  BY <1>4, <1>5

(* A task switch chooses a ready task of the highest priority, and none    *)
(* while the scheduler is suspended.                                       *)
LEMMA Switched ==
  ASSUME Types, vTaskSwitchContext
  PROVE  /\ switch /\ ~switch' /\ UNCHANGED <<sem, job, clock, gives>>
         /\ Still(kernel, kernel') /\ kernel'.next = kernel.next
         /\ kernel'.stopped = kernel.stopped /\ kernel'.pended = kernel.pended
         /\ \/ kernel.stopped /\ kernel'.current = kernel.current /\ kernel'.yield
            \/ /\ ~kernel.stopped /\ kernel'.current \in Tasks
               /\ kernel.list[kernel'.current] = "ready"
               /\ \A u \in Tasks : kernel.list[u] = "ready" =>
                     kernel.prio[u] <= kernel.prio[kernel'.current]
<1>1. kernel \in Kernel /\ Filed(kernel)
  BY DEF Types
<1>2. switch /\ ~switch' /\ UNCHANGED <<sem, job, clock, gives>>
  BY DEF vTaskSwitchContext
<1>3. CASE kernel.stopped
  <2>1. kernel' = [kernel EXCEPT !.yield = TRUE]
    BY <1>3 DEF vTaskSwitchContext
  <2> QED
    BY <1>1, <1>2, <1>3, <2>1 DEF Kernel, Still
<1>4. CASE ~kernel.stopped
  <2> DEFINE h == HighestReady(kernel)
  <2>1. PICK t \in Ready(kernel, h) :
           kernel' = [kernel EXCEPT !.yield = FALSE, !.current = t, !.top = h]
    BY <1>4 DEF vTaskSwitchContext
  <2>2. /\ t \in Tasks /\ kernel.list[t] = "ready" /\ kernel.prio[t] = h
        /\ \A u \in Tasks : kernel.list[u] = "ready" => kernel.prio[u] <= h
    BY <1>1, HighestIsReady
  <2> HIDE DEF h
  <2>3. /\ Still(kernel, kernel') /\ kernel'.next = kernel.next
        /\ kernel'.stopped = kernel.stopped /\ kernel'.pended = kernel.pended
        /\ kernel'.current = t
    BY <1>1, <2>1 DEF Kernel, Still
  <2> QED
    BY <1>2, <1>4, <2>2, <2>3
<1> QED
  BY <1>3, <1>4

-----------------------------------------------------------------------------
(* Who runs while the scheduler is suspended                               *)

(* The task that executes goes on, the others do not notice.               *)
LEMMA ControlKept ==
  ASSUME Types, Control, NEW t \in Tasks, kernel.current = t, kernel'.current = t,
         \A u \in Tasks \ {t} : job'[u] = job[u],
         kernel'.stopped => job'[t].pc \in StopPcs,
         job'[t].pc \in StopPcs => kernel'.stopped,
         ~kernel'.stopped => kernel'.pending = {} /\ kernel'.pended = 0,
         job'[t].pc = "idle" => t = Idle,
         t = Idle => job'[t].pc \in {"run", "idle"},
         job'[t].pc \in TakePcs => job'[t].call.op = "take",
         job'[t].pc \in {"place", "asleep"} => job'[t].call.op = "delay",
         job'[t].pc \in {"block", "next"} =>
             job'[t].call.op = "delay" \/ job'[t].path = "blocked"
  PROVE  Control'
<1>1. \A u \in Tasks : u # t => job[u].pc \notin StopPcs /\ job'[u] = job[u]
  BY DEF Control
<1>2. \A u \in Tasks : job'[u].pc \in StopPcs => kernel'.stopped /\ kernel'.current = u
  BY <1>1
<1>3. \A u \in Tasks : job'[u].pc = "idle" => u = Idle
  BY <1>1 DEF Control
<1>4. job'[Idle].pc \in {"run", "idle"}
  BY <1>1, KernelAssumption DEF Control
<1>5. \A u \in Tasks : job'[u].pc \in TakePcs => job'[u].call.op = "take"
  BY <1>1 DEF Control
<1>6. \A u \in Tasks : job'[u].pc \in {"place", "asleep"} => job'[u].call.op = "delay"
  BY <1>1 DEF Control
<1>7. \A u \in Tasks : InTake(u)' /\ job'[u].pc \in {"block", "next"} => job'[u].path = "blocked"
  <2> TAKE u \in Tasks
  <2>1. CASE u = t
    BY <2>1 DEF InTake
  <2>2. CASE u # t
    BY <1>1, <2>2 DEF Control, InTake
  <2> QED
    BY <2>1, <2>2
<1> QED
  BY <1>2, <1>3, <1>4, <1>5, <1>6, <1>7 DEF Control

(* Every action keeps Control.                                             *)
LEMMA ControlStep ==
  ASSUME Types, Control, Locks, Next, Types'
  PROVE  Control'
<1>1. ASSUME NEW t \in Tasks, Calm(t) PROVE Control'
  <2>1. /\ kernel'.stopped = kernel.stopped /\ kernel'.current = kernel.current
        /\ kernel'.pending = kernel.pending /\ kernel'.pended = kernel.pended
        /\ kernel.current = t
    BY <1>1 DEF Calm, Unmoved, Running
  <2>2. kernel.stopped <=> job[t].pc \in StopPcs
    BY <2>1 DEF Control
  <2>3. ~kernel.stopped => kernel.pending = {} /\ kernel.pended = 0
    BY DEF Control
  <2>4. /\ t # Idle /\ job'[t].pc \notin {"idle", "place", "asleep", "next"}
        /\ \A u \in Tasks \ {t} : job'[u] = job[u]
        /\ job[t].pc \in StopPcs <=> job'[t].pc \in StopPcs
        /\ job'[t].pc \in TakePcs => job'[t].call.op = "take"
        /\ job'[t].pc = "block" => job'[t].path = "blocked"
    BY <1>1 DEF Calm
  <2> QED
    BY <2>1, <2>2, <2>3, <2>4, ControlKept
<1>2. ASSUME NEW t \in Tasks, vTaskSuspendAll(t) PROVE Control'
  <2>1. /\ t # Idle /\ kernel.current = t /\ kernel'.current = t /\ kernel'.stopped
        /\ job[t] \in Job /\ job'[t].call = job[t].call
        /\ \A u \in Tasks \ {t} : job'[u] = job[u]
        /\ job'[t].pc = IF job[t].call.op = "take" THEN "lock" ELSE "place"
    BY <1>2, Suspended DEF Running, SameCall
  <2>2. job[t].call.op \in {"take", "delay"}
    BY <2>1, WaitForms DEF Job
  <2> QED
    BY <2>1, <2>2, ControlKept DEF StopPcs, TakePcs
<1>3. ASSUME NEW t \in Tasks, vTaskPlaceOnEventList(t) PROVE Control'
  <2>1. /\ t # Idle /\ Running(t) /\ kernel.stopped
        /\ job[t].pc = "block" /\ job[t].call.op = "take"
        /\ \A u \in Tasks \ {t} : job'[u] = job[u]
        /\ job'[t].pc = "next" /\ job'[t].call = job[t].call /\ job'[t].path = job[t].path
        /\ Put(kernel, kernel', job[t].ticks, TRUE)
    BY <1>3, Blocked
  <2>2. InTake(t) /\ job[t].path = "blocked"
    BY <2>1 DEF Control, InTake, CallPcs, TakePcs
  <2>3. kernel.current = t /\ kernel'.current = t /\ kernel'.stopped
    BY <2>1 DEF Running, Put
  <2> QED
    BY <2>1, <2>2, <2>3, ControlKept DEF StopPcs, TakePcs
<1>4. ASSUME NEW t \in Tasks, AdjustNext(t) PROVE Control'
  <2>1. /\ t # Idle /\ kernel.current = t /\ kernel'.current = t /\ kernel'.stopped
        /\ job'[t].call = job[t].call
        /\ \A u \in Tasks \ {t} : job'[u] = job[u]
        /\ job'[t].pc = IF job[t].call.op = "take" THEN "unlock" ELSE "resume"
    BY <1>4, Adjusted DEF Running, SameCall
  <2> QED
    BY <2>1, ControlKept DEF StopPcs, TakePcs
<1>5. ASSUME NEW t \in Tasks, Place(t) PROVE Control'
  <2>1. /\ t # Idle /\ kernel.current = t /\ kernel'.current = t /\ kernel'.stopped
        /\ job'[t].call.op = "delay" /\ job'[t].pc = "next"
        /\ \A u \in Tasks \ {t} : job'[u] = job[u]
    BY <1>5, Placed DEF Running, Put, SameCall
  <2> QED
    BY <2>1, ControlKept DEF StopPcs, TakePcs
<1>6. ASSUME NEW t \in Tasks, prvUnlockQueue(t) PROVE Control'
  <2>1. /\ t # Idle /\ kernel.current = t /\ kernel'.current = t /\ kernel'.stopped
        /\ job'[t].pc = "resume"
        /\ \A u \in Tasks \ {t} : job'[u] = job[u]
    BY <1>6, Opened DEF Unlocked, Running
  <2> QED
    BY <2>1, ControlKept DEF StopPcs, TakePcs
<1>7. ASSUME NEW t \in Tasks, Resume(t) PROVE Control'
  <2>1. /\ t # Idle /\ Running(t)
        /\ \A u \in Tasks \ {t} : job'[u] = job[u]
    BY <1>7, Restarted
  <2>4. \/ job'[t].pc = "asleep" /\ job'[t].call.op = "delay"
        \/ job'[t].pc \in {"late", "take"} /\ job'[t].call.op = "take"
    <3>1. /\ job[t] \in Job /\ job'[t].call = job[t].call /\ job[t].call.op \in {"take", "delay"}
          /\ job[t].call.op = "delay" => job'[t].pc = "asleep"
          /\ job[t].call.op # "delay" =>
                job'[t].pc = IF job[t].path \in {"late", "asleep"} THEN job[t].path ELSE "take"
      BY <1>7, Restarted DEF SameCall
    <3>2. job[t].path # "asleep"
      BY <3>1 DEF Job
    <3> QED
      BY <3>1, <3>2
  <2>2. /\ ~kernel'.stopped /\ kernel'.pending = {} /\ kernel'.pended = 0
        /\ kernel'.current = kernel.current
    BY <1>7, Restarted DEF Resumed
  <2> QED
    BY <2>1, <2>2, <2>4, ControlKept DEF StopPcs, TakePcs, Running
<1>8. ASSUME NEW t \in Tasks, Give(t) PROVE Control'
  <2>1. /\ UNCHANGED job /\ ~kernel.stopped
        /\ kernel'.stopped = kernel.stopped /\ kernel'.current = kernel.current
        /\ kernel'.pending = kernel.pending /\ kernel'.pended = kernel.pended
    <3>1. PICK s \in Semaphores : GivenTo(t, s) /\ ~kernel.stopped /\ UNCHANGED job
      BY <1>8, Given
    <3>2. Unmoved(kernel, Quit(t, s)) /\ (kernel' = Quit(t, s) \/ Removed(Quit(t, s), s, kernel'))
      BY <3>1 DEF GivenTo
    <3> QED
      BY <3>1, <3>2 DEF Unmoved, Removed
  <2> QED
    BY <2>1 DEF Control, InTake
<1>9. ASSUME NEW s \in Semaphores, xQueueGiveFromISR(s) PROVE Control'
  <2>1. /\ UNCHANGED job
        /\ kernel'.stopped = kernel.stopped /\ kernel'.current = kernel.current
        /\ ~kernel.stopped => kernel'.pending = kernel.pending
        /\ kernel'.pended = kernel.pended
    BY <1>9, GivenFromISR DEF Removed
  <2> QED
    BY <2>1 DEF Control, InTake
<1>10. ASSUME UNCHANGED job, Kept(kernel, kernel') PROVE Control'
  BY <1>10 DEF Control, InTake, Kept
<1>11. ASSUME NEW t \in Tasks, xTaskCreate(t) PROVE Control'
  BY <1>10, <1>11, Created
<1>12. ASSUME NEW t \in Tasks, vTaskDelete(t) PROVE Control'
  BY <1>10, <1>12, Deleted
<1>13. CASE Reap
  BY <1>10, <1>13, Reaped
<1>14. CASE IdleSuspend
  BY <1>14, IdleSuspended, ControlKept, KernelAssumption DEF StopPcs, TakePcs, Running
<1>15. CASE IdleResume
  <2>1. /\ Running(Idle) /\ job[Idle].pc = "idle" /\ job'[Idle].pc = "run"
        /\ \A u \in Tasks \ {Idle} : job'[u] = job[u]
    BY <1>15, IdleRestarted
  <2>2. /\ ~kernel'.stopped /\ kernel'.pending = {} /\ kernel'.pended = 0
        /\ kernel'.current = kernel.current
    BY <1>15, IdleRestarted DEF Resumed
  <2> QED
    BY <2>1, <2>2, ControlKept, KernelAssumption DEF StopPcs, TakePcs, Running
<1>16. CASE Tick
  <2>1. CASE kernel.stopped
    <3>1. kernel' = [kernel EXCEPT !.pended = @ + 1] /\ UNCHANGED job
      BY <1>16, <2>1, Ticked
    <3>2. kernel'.stopped = kernel.stopped /\ kernel'.current = kernel.current
      BY <3>1 DEF Types, Kernel
    <3> QED
      BY <2>1, <3>1, <3>2 DEF Control, InTake
  <2>2. CASE ~kernel.stopped
    <3>1. Kept(kernel, kernel') /\ UNCHANGED job
      <4>1. PICK A : TickedTo(A) /\ UNCHANGED job
        BY <1>16, <2>2, Ticked
      <4>2. Kept(kernel, A)
        BY <4>1 DEF TickedTo, Passed, Woke
      <4> QED
        BY <4>1, <4>2 DEF TickedTo, Kept
    <3> QED
      BY <1>10, <3>1
  <2> QED
    BY <2>1, <2>2
<1>17. CASE vTaskSwitchContext
  <2>1. UNCHANGED job /\ kernel'.stopped = kernel.stopped /\ kernel'.pended = kernel.pended
        /\ kernel'.pending = kernel.pending
        /\ (kernel.stopped => kernel'.current = kernel.current)
    BY <1>17, Switched DEF Still
  <2> QED
    BY <2>1 DEF Control, InTake
<1> QED
  BY <1>1, <1>2, <1>3, <1>4, <1>5, <1>6, <1>7, <1>8, <1>9, <1>11, <1>12, <1>13, <1>14,
     <1>15, <1>16, <1>17, TakenCalmly, StayedCalm DEF Next, TakesCalmly, StaysCalm

(* Where the locked queues are after a step of t that locks none.          *)
LEMMA LocksKept ==
  ASSUME Locks,
         \A s \in Semaphores : sem'[s].txLock >= -1 /\ (sem'[s].txLock = -1 <=> sem[s].txLock = -1),
         \A s \in Semaphores, u \in Tasks : Locking(u, s)' <=> Locking(u, s)
  PROVE  Locks'
BY DEF Locks

(* Every action keeps Locks.                                               *)
LEMMA LocksStep ==
  ASSUME Types, Control, Locks, Next, Types', Control'
  PROVE  Locks'
<1>0. \A s \in Semaphores : sem[s].txLock \in Int /\ sem[s].txLock >= -1
  BY DEF Types, Semaphore, Locks
<1>1. ASSUME NEW t \in Tasks, \A u \in Tasks \ {t} : job'[u] = job[u],
             \A s \in Semaphores : sem'[s].txLock = sem[s].txLock,
             \A s \in Semaphores : Locking(t, s)' <=> Locking(t, s)
      PROVE  Locks'
  <2>1. \A s \in Semaphores, u \in Tasks : Locking(u, s)' <=> Locking(u, s)
    BY <1>1 DEF Locking, InTake
  <2>2. \A s \in Semaphores : sem'[s].txLock >= -1 /\ (sem'[s].txLock = -1 <=> sem[s].txLock = -1)
    BY <1>0, <1>1
  <2> QED
    BY <2>1, <2>2, LocksKept
<1>2. ASSUME UNCHANGED job, \A s \in Semaphores : sem'[s].txLock = sem[s].txLock
      PROVE  Locks'
  BY <1>2 DEF Locks, Locking, InTake
<1>3. ASSUME NEW t \in Tasks, TakesCalmly(t) PROVE Locks'
  <2>1. PICK j \in Job : Tried(t, j) /\ job[t].pc \in {"run", "take"}
    BY <1>3, TakenCalmly
  <2>2. \A u \in Tasks \ {t} : job'[u] = job[u]
    BY <1>3, TakenCalmly DEF Calm
  <2>3. \A s \in Semaphores : sem'[s].txLock = sem[s].txLock
    BY <2>1 DEF Tried
  <2>4. job'[t].pc \in {"run", "stop"}
    BY <2>1 DEF Tried, NoJob
  <2> QED
    BY <1>1, <2>1, <2>2, <2>3, <2>4 DEF Locking
<1>4. ASSUME NEW t \in Tasks, StaysCalm(t), ~prvLockQueue(t), ~Look(t) PROVE Locks'
  <2>1. Calm(t) /\ UNCHANGED sem
    BY <1>4, StayedCalm DEF StaysCalm, AssertionFails, Late, Disinherit, vTaskDelay, Awake
  <2>2. job[t].pc \notin {"look", "block", "next", "unlock"}
    BY <1>4 DEF StaysCalm, AssertionFails, Late, Disinherit, vTaskDelay, Awake, At
  <2>4. job'[t].pc \in {"run", "stop", "take", "fatal", "disinherit"}
    <3>1. CASE vTaskDelay(t)
      <4>1. PICK c \in Calls[t] : job' = [job EXCEPT ![t] = Started(c, "stop")]
        BY <3>1 DEF vTaskDelay
      <4>2. job'[t] = Started(c, "stop")
        BY <4>1, Went
      <4>3. Started(c, "stop").pc = "stop"
        BY DEF Started
      <4> QED
        BY <4>2, <4>3
    <3>2. CASE ~vTaskDelay(t)
      <4>1. Goto(t, "fatal") \/ Goto(t, "take") \/ Goto(t, "disinherit") \/ Return(t)
        BY <1>4, <3>2 DEF StaysCalm, AssertionFails, Late, Disinherit, Awake
      <4>2. /\ Goto(t, "fatal") => job'[t].pc = "fatal"
            /\ Goto(t, "take") => job'[t].pc = "take"
            /\ Goto(t, "disinherit") => job'[t].pc = "disinherit"
            /\ Return(t) => job'[t].pc = "run"
        BY Went
      <4> QED
        BY <4>1, <4>2
    <3> QED
      BY <3>1, <3>2
  <2> QED
    BY <1>1, <2>1, <2>2, <2>4 DEF Locking, Calm
<1>5. ASSUME NEW t \in Tasks, prvLockQueue(t) PROVE Locks'
  <2>8. PICK s \in Semaphores : s = job[t].call.sem
    BY <1>5, Locked
  <2>1. /\ s = job[t].call.sem /\ job[t].pc = "lock" /\ job[t].call.op = "take"
        /\ \A u \in Tasks \ {t} : job'[u] = job[u]
        /\ job'[t].pc \in {"unlock", "look"} /\ job'[t].call = job[t].call
        /\ \A z \in Semaphores \ {s} : sem'[z] = sem[z]
        /\ sem'[s].txLock = IF sem[s].txLock = -1 THEN 0 ELSE sem[s].txLock
    BY <1>5, <2>8, Locked
  <2>2. sem'[s].txLock >= 0 /\ sem'[s].txLock # -1
    BY <1>0, <2>1
  <2>3. Locking(t, s)' /\ \A z \in Semaphores \ {s} : ~Locking(t, z)'
    BY <2>1 DEF Locking, InTake, CallPcs, TakePcs
  <2>4. \A z \in Semaphores : ~Locking(t, z)
    BY <2>1 DEF Locking
  <2>5. \A u \in Tasks \ {t}, z \in Semaphores : Locking(u, z)' <=> Locking(u, z)
    BY <2>1 DEF Locking, InTake
  <2>6. \A z \in Semaphores : z # s =>
           /\ sem'[z].txLock = sem[z].txLock
           /\ (\E u \in Tasks : Locking(u, z)') <=> (\E u \in Tasks : Locking(u, z))
    BY <2>1, <2>3, <2>4, <2>5
  <2>7. \A z \in Semaphores :
           /\ sem'[z].txLock >= -1
           /\ sem'[z].txLock # -1 <=> \E u \in Tasks : Locking(u, z)'
    <3> TAKE z \in Semaphores
    <3>1. CASE z = s
      <4>1. \E u \in Tasks : Locking(u, s)'
        BY <2>3
      <4>2. sem'[s].txLock >= -1
        BY <1>0, <2>1
      <4> QED
        BY <2>2, <3>1, <4>1, <4>2
    <3>2. CASE z # s
      BY <1>0, <2>6, <3>2 DEF Locks
    <3> QED
      BY <3>1, <3>2
  <2> QED
    BY <2>7 DEF Locks
<1>6. ASSUME NEW t \in Tasks, Look(t) PROVE Locks'
  <2>1. /\ job[t].pc = "look" /\ job[t].call.op = "take"
        /\ \A u \in Tasks \ {t} : job'[u] = job[u]
        /\ job'[t].pc \in {"unlock", "block"} /\ job'[t].call = job[t].call
    BY <1>6, Looked
  <2>2. UNCHANGED sem
    BY <1>6 DEF Look
  <2> QED
    BY <1>1, <2>1, <2>2 DEF Locking, InTake, CallPcs, TakePcs
<1>7. ASSUME NEW t \in Tasks, vTaskSuspendAll(t) PROVE Locks'
  <2>1. /\ job[t].pc = "stop" /\ \A u \in Tasks \ {t} : job'[u] = job[u]
        /\ job'[t].pc \in {"lock", "place"} /\ UNCHANGED sem
    BY <1>7, Suspended
  <2> QED
    BY <1>1, <2>1 DEF Locking
<1>8. ASSUME NEW t \in Tasks, vTaskPlaceOnEventList(t) PROVE Locks'
  <2>1. /\ job[t].pc = "block" /\ \A u \in Tasks \ {t} : job'[u] = job[u]
        /\ job'[t].pc = "next" /\ job'[t].call = job[t].call /\ UNCHANGED sem
    BY <1>8, Blocked
  <2> QED
    BY <1>1, <2>1 DEF Locking, InTake, CallPcs, TakePcs
<1>9. ASSUME NEW t \in Tasks, AdjustNext(t) PROVE Locks'
  <2>1. /\ job[t].pc = "next" /\ \A u \in Tasks \ {t} : job'[u] = job[u]
        /\ job'[t].pc = IF job[t].call.op = "take" THEN "unlock" ELSE "resume"
        /\ job'[t].call = job[t].call /\ UNCHANGED sem
    BY <1>9, Adjusted DEF SameCall
  <2> QED
    BY <1>1, <2>1 DEF Locking, InTake, CallPcs, TakePcs
<1>10. ASSUME NEW t \in Tasks, Place(t) PROVE Locks'
  <2>1. /\ job[t].pc = "place" /\ \A u \in Tasks \ {t} : job'[u] = job[u]
        /\ job'[t].pc = "next" /\ job[t].call.op = "delay" /\ job'[t].call = job[t].call /\ UNCHANGED sem
    BY <1>10, Placed DEF SameCall
  <2> QED
    BY <1>1, <2>1 DEF Locking, InTake
<1>11. ASSUME NEW t \in Tasks, prvUnlockQueue(t) PROVE Locks'
  <2>8. PICK s \in Semaphores : s = job[t].call.sem
    BY <1>11, Opened
  <2>1. /\ s = job[t].call.sem /\ job[t].pc = "unlock" /\ job[t].call.op = "take" /\ Running(t)
        /\ \A u \in Tasks \ {t} : job'[u] = job[u]
        /\ job'[t].pc = "resume"
        /\ \A z \in Semaphores \ {s} : sem'[z] = sem[z]
        /\ sem'[s].txLock = -1
    BY <1>11, <2>8, Opened
  <2>2. \A u \in Tasks \ {t} : job[u].pc \notin StopPcs
    BY <2>1 DEF Control, Running
  <2>3. \A u \in Tasks \ {t}, z \in Semaphores : ~Locking(u, z) /\ ~Locking(u, z)'
    BY <2>1, <2>2 DEF Locking, StopPcs
  <2>4. \A z \in Semaphores : ~Locking(t, z)' /\ (z # s => ~Locking(t, z))
    BY <2>1 DEF Locking
  <2> QED
    BY <1>0, <2>1, <2>3, <2>4 DEF Locks
<1>12. ASSUME NEW t \in Tasks, Resume(t) PROVE Locks'
  <2>1. /\ job[t].pc = "resume" /\ \A u \in Tasks \ {t} : job'[u] = job[u]
        /\ job'[t].pc \in {"late", "asleep", "take"} /\ UNCHANGED sem
    BY <1>12, Restarted
  <2> QED
    BY <1>1, <2>1 DEF Locking
<1>13. ASSUME NEW t \in Tasks, Give(t) PROVE Locks'
  <2>1. PICK s \in Semaphores : /\ UNCHANGED job /\ sem'[s].txLock = sem[s].txLock
                                /\ \A z \in Semaphores \ {s} : sem'[z] = sem[z]
    BY <1>13, Given DEF GivenTo
  <2> QED
    BY <1>2, <2>1
<1>14. ASSUME NEW s \in Semaphores, xQueueGiveFromISR(s) PROVE Locks'
  <2>1. /\ sem'[s].txLock = IF sem[s].txLock = -1 THEN -1 ELSE sem[s].txLock + 1
        /\ \A z \in Semaphores \ {s} : sem'[z] = sem[z]
        /\ UNCHANGED job
    BY <1>14, GivenFromISR
  <2>2. sem'[s].txLock >= -1 /\ (sem'[s].txLock = -1 <=> sem[s].txLock = -1)
    BY <1>0, <2>1
  <2>3. \A z \in Semaphores : sem'[z].txLock >= -1 /\ (sem'[z].txLock = -1 <=> sem[z].txLock = -1)
    BY <1>0, <2>1, <2>2
  <2>4. \A z \in Semaphores, u \in Tasks : Locking(u, z)' <=> Locking(u, z)
    BY <2>1 DEF Locking, InTake
  <2> QED
    BY <2>3, <2>4, LocksKept
<1>15. ASSUME NEW t \in Tasks, xTaskCreate(t) \/ vTaskDelete(t) PROVE Locks'
  BY <1>2, <1>15, Created, Deleted
<1>16. CASE Reap \/ Tick \/ vTaskSwitchContext
  BY <1>2, <1>16, Reaped, Ticked, Switched
<1>17. CASE IdleSuspend
  BY <1>1, <1>17, IdleSuspended, KernelAssumption DEF Locking
<1>18. CASE IdleResume
  BY <1>1, <1>18, IdleRestarted, KernelAssumption DEF Locking
<1> QED
  BY <1>3, <1>4, <1>5, <1>6, <1>7, <1>8, <1>9, <1>10, <1>11, <1>12, <1>13, <1>14,
     <1>15, <1>16, <1>17, <1>18 DEF Next, TakesCalmly, StaysCalm

-----------------------------------------------------------------------------
(* Where the waiting tasks are                                             *)

(* t has put itself to sleep in a call that is not through with it.        *)
Slept(t) ==
  /\ job[t].pc \in {"next", "unlock", "resume"}
  /\ job[t].call.op = "delay" \/ job[t].path = "blocked"

(* The task that runs is ready, unless it has just put itself to sleep.    *)
Runner ==
  /\ kernel.list[Idle] = "ready"
  /\ kernel.stopped => (kernel.list[kernel.current] = "ready" <=> ~Slept(kernel.current))
  /\ ~kernel.stopped /\ ~switch => kernel.list[kernel.current] = "ready"

(* A task that is not ready does not execute a call, or is in one that put *)
(* it to sleep.                                                            *)
Resting ==
  \A t \in Tasks :
    /\ kernel.list[t] \in {"none", "terminated"} => job[t].pc = "run"
    /\ kernel.list[t] \in Asleep => Slept(t) \/ job[t].pc \in {"take", "asleep"}

(* A waiting list has a task once, one that sleeps and asked for that      *)
(* semaphore.                                                              *)
Waiting ==
  /\ \A t \in kernel.pending : kernel.list[t] \in Asleep /\ InTake(t)
  /\ \A s \in Semaphores : Once(kernel.waiting[s])
  /\ \A s \in Semaphores : \A t \in Elements(kernel.waiting[s]) :
        /\ t \in Tasks /\ kernel.list[t] \in Asleep /\ t \notin kernel.pending
        /\ InTake(t) /\ job[t].call.sem = s

(* A task that sleeps without a time limit stands in the waiting list of   *)
(* the semaphore it asked for, or is pending.                              *)
Findable ==
  \A t \in Tasks : kernel.list[t] = "suspended" =>
    /\ InTake(t)
    /\ t \in kernel.pending \/ t \in Elements(kernel.waiting[job[t].call.sem])

(* All of these.                                                           *)
Queues == Runner /\ Resting /\ Waiting /\ Findable

(* A task that executes is ready, unless it has just put itself to sleep.  *)
LEMMA Runs ==
  ASSUME Types, Control, Queues, NEW t \in Tasks, Running(t)
  PROVE  /\ kernel.list[t] = "ready" <=> ~Slept(t)
         /\ ~kernel.stopped => kernel.list[t] = "ready"
<1>1. kernel.current = t /\ ~switch
  BY DEF Running
<1>2. CASE kernel.stopped
  BY <1>1, <1>2 DEF Queues, Runner
<1>3. CASE ~kernel.stopped
  <2>1. job[t].pc \notin StopPcs
    BY <1>3 DEF Control
  <2>2. ~Slept(t)
    BY <2>1 DEF Slept, StopPcs
  <2> QED
    BY <1>1, <1>3, <2>2 DEF Queues, Runner
<1> QED
  BY <1>2, <1>3

(* The lists stay, the task that runs goes on in its call.                 *)
LEMMA QueuesKept ==
  ASSUME Queues, Types, NEW t \in Tasks,
         kernel.current = t, kernel'.current = t,
         \A u \in Tasks \ {t} : job'[u] = job[u],
         kernel'.list = kernel.list, kernel'.waiting = kernel.waiting,
         kernel'.pending = kernel.pending,
         kernel'.stopped => (kernel.list[t] = "ready" <=> ~Slept(t)'),
         ~kernel'.stopped /\ ~switch' => kernel.list[t] = "ready",
         \/ kernel.list[t] = "ready"
         \/ /\ kernel.list[t] \in Asleep /\ Slept(t)'
            /\ job'[t].call = job[t].call /\ (InTake(t) => InTake(t)')
  PROVE  Queues'
<1>1. \A u \in Tasks : u # t => /\ job'[u] = job[u]
                                /\ InTake(u)' <=> InTake(u)
                                /\ Slept(u)' <=> Slept(u)
  BY DEF InTake, Slept
<1>2. Runner'
  <2>1. kernel'.list[Idle] = "ready"
    BY DEF Queues, Runner
  <2>2. kernel'.stopped => (kernel'.list[kernel'.current] = "ready" <=> ~Slept(kernel.current)')
    BY DEF Slept
  <2> QED
    BY <2>1, <2>2 DEF Runner, Slept
<1>3. Resting'
  <2> SUFFICES ASSUME NEW u \in Tasks
               PROVE  /\ kernel'.list[u] \in {"none", "terminated"} => job'[u].pc = "run"
                      /\ kernel'.list[u] \in Asleep => Slept(u)' \/ job'[u].pc \in {"take", "asleep"}
    BY DEF Resting
  <2>1. CASE u = t
    BY <2>1 DEF Asleep
  <2>2. CASE u # t
    BY <1>1, <2>2 DEF Queues, Resting
  <2> QED
    BY <2>1, <2>2
<1>4. \A u \in Tasks : kernel.list[u] \in Asleep /\ InTake(u) =>
         InTake(u)' /\ job'[u].call = job[u].call
  BY <1>1 DEF Asleep
<1>5. Waiting'
  <2>1. \A u \in kernel'.pending : kernel'.list[u] \in Asleep /\ InTake(u)'
    BY <1>4 DEF Queues, Waiting, Types, Kernel
  <2>2. ASSUME NEW s \in Semaphores, NEW u \in Elements(kernel'.waiting[s])
        PROVE  /\ u \in Tasks /\ kernel'.list[u] \in Asleep /\ u \notin kernel'.pending
               /\ InTake(u)' /\ job'[u].call.sem = s
    <3>1. /\ u \in Tasks /\ kernel.list[u] \in Asleep /\ u \notin kernel.pending
          /\ InTake(u) /\ job[u].call.sem = s
      BY <2>2 DEF Queues, Waiting
    <3> QED
      BY <1>4, <3>1
  <2>3. \A s \in Semaphores : Once(kernel'.waiting[s])
    BY DEF Queues, Waiting
  <2> QED
    BY <2>1, <2>2, <2>3 DEF Waiting
<1>6. Findable'
  BY <1>4 DEF Queues, Findable, Asleep
<1> QED
  BY <1>2, <1>3, <1>5, <1>6 DEF Queues

(* Nobody's call goes on, and nobody is put to sleep.                      *)
LEMMA QueuesLighter ==
  ASSUME Queues, Types, UNCHANGED job, NEW W \in SUBSET Tasks,
         \A u \in W : kernel'.list[u] = "ready",
         \A u \in Tasks \ W : \/ kernel'.list[u] = kernel.list[u]
                              \/ kernel.list[u] \in Timed /\ kernel'.list[u] \in Timed,
         kernel'.pending = kernel.pending, kernel.pending \intersect W = {},
         \A s \in Semaphores : Once(kernel'.waiting[s]),
         \A s \in Semaphores : Elements(kernel'.waiting[s]) \subseteq Elements(kernel.waiting[s]) \ W,
         \A s \in Semaphores : Elements(kernel.waiting[s]) \subseteq Elements(kernel'.waiting[s]) \union W,
         Runner'
  PROVE  Queues'
<1>1. \A u \in Tasks : /\ InTake(u)' <=> InTake(u)
                       /\ Slept(u)' <=> Slept(u)
  BY DEF InTake, Slept
<1>2. \A u \in Tasks : kernel'.list[u] \in Asleep => kernel.list[u] \in Asleep /\ u \notin W
  BY DEF Asleep, Timed
<1>3. \A u \in Tasks \ W : kernel.list[u] \in Asleep => kernel'.list[u] \in Asleep
  BY DEF Asleep, Timed
<1>4. Resting'
  <2> SUFFICES ASSUME NEW u \in Tasks
               PROVE  /\ kernel'.list[u] \in {"none", "terminated"} => job'[u].pc = "run"
                      /\ kernel'.list[u] \in Asleep => Slept(u)' \/ job'[u].pc \in {"take", "asleep"}
    BY DEF Resting
  <2>1. kernel'.list[u] \in {"none", "terminated"} => kernel.list[u] \in {"none", "terminated"}
    BY DEF Timed
  <2> QED
    BY <1>1, <1>2, <2>1 DEF Queues, Resting
<1>5. Waiting'
  <2>1. \A u \in kernel'.pending : kernel'.list[u] \in Asleep /\ InTake(u)'
    BY <1>1, <1>3 DEF Queues, Waiting, Types, Kernel
  <2>2. ASSUME NEW s \in Semaphores, NEW u \in Elements(kernel'.waiting[s])
        PROVE  /\ u \in Tasks /\ kernel'.list[u] \in Asleep /\ u \notin kernel'.pending
               /\ InTake(u)' /\ job'[u].call.sem = s
    <3>1. u \in Elements(kernel.waiting[s]) /\ u \notin W
      BY <2>2
    <3>2. /\ u \in Tasks /\ kernel.list[u] \in Asleep /\ u \notin kernel.pending
          /\ InTake(u) /\ job[u].call.sem = s
      BY <3>1 DEF Queues, Waiting
    <3> QED
      BY <1>1, <1>3, <3>1, <3>2
  <2> QED
    BY <2>1, <2>2 DEF Waiting
<1>6. Findable'
  <2> SUFFICES ASSUME NEW u \in Tasks, kernel'.list[u] = "suspended"
               PROVE  /\ InTake(u)'
                      /\ \/ u \in kernel'.pending
                         \/ u \in Elements(kernel'.waiting[job'[u].call.sem])
    BY DEF Findable
  <2>1. kernel.list[u] = "suspended" /\ u \notin W
    BY DEF Timed
  <2>2. InTake(u) /\ (u \in kernel.pending \/ u \in Elements(kernel.waiting[job[u].call.sem]))
    BY <2>1 DEF Queues, Findable
  <2>3. job[u].call.sem \in Semaphores
    BY <2>2, JobForms, WaitForms DEF InTake
  <2> QED
    BY <1>1, <2>1, <2>2, <2>3
<1> QED
  BY <1>4, <1>5, <1>6 DEF Queues

(* The first waiting task is woken.                                        *)
LEMMA QueuesWoken ==
  ASSUME Queues, Types, Types', UNCHANGED job, NEW s \in Semaphores, NEW K, Unmoved(kernel, K),
         K.waiting[s] # <<>>, Removed(K, s, kernel')
  PROVE  /\ ~kernel.stopped /\ Runner' => Queues'
         /\ kernel.stopped => Queues'
<1> DEFINE t == Head(kernel.waiting[s])
<1>1. /\ K.waiting = kernel.waiting /\ K.list = kernel.list /\ K.pending = kernel.pending
      /\ K.stopped = kernel.stopped /\ K.current = kernel.current
  BY DEF Unmoved
<1>2. kernel.waiting \in [Semaphores -> Seq(Tasks)] /\ kernel.waiting[s] \in Seq(Tasks)
  BY DEF Types, Kernel
<1>3. /\ t \in Tasks
      /\ Elements(kernel.waiting[s]) = Elements(Tail(kernel.waiting[s])) \union {t}
      /\ Once(kernel.waiting[s]) => /\ Once(Tail(kernel.waiting[s]))
                                    /\ t \notin Elements(Tail(kernel.waiting[s]))
  BY <1>1, <1>2, Beheaded
<1>4. \A z \in Semaphores : kernel'.waiting[z] = IF z = s THEN Tail(kernel.waiting[s])
                                                 ELSE kernel.waiting[z]
  BY <1>1, <1>2 DEF Removed
<1>5. /\ \A u \in Tasks : u # t => kernel'.list[u] = kernel.list[u]
      /\ kernel.stopped => kernel'.pending = kernel.pending \union {t} /\ kernel'.list = kernel.list
      /\ ~kernel.stopped => kernel'.pending = kernel.pending /\ kernel'.list[t] = "ready"
      /\ kernel'.stopped = kernel.stopped /\ kernel'.current = kernel.current
  BY <1>1 DEF Removed
<1> HIDE DEF t
<1>6. /\ \A z \in Semaphores : Once(kernel.waiting[z])
      /\ kernel.list[t] \in Asleep /\ t \notin kernel.pending /\ InTake(t) /\ job[t].call.sem = s
      /\ \A z \in Semaphores : z # s => t \notin Elements(kernel.waiting[z])
  BY <1>3 DEF Queues, Waiting
<1>7. /\ \A z \in Semaphores : Once(kernel'.waiting[z])
      /\ \A z \in Semaphores : Elements(kernel'.waiting[z]) = Elements(kernel.waiting[z]) \ {t}
  BY <1>3, <1>4, <1>6
<1>8. \A u \in Tasks : /\ InTake(u)' <=> InTake(u)
                       /\ Slept(u)' <=> Slept(u)
  BY DEF InTake, Slept
<1>9. ASSUME ~kernel.stopped, Runner' PROVE Queues'
  <2> DEFINE W == {t}
  <2>1. W \in SUBSET Tasks /\ kernel.pending \intersect W = {} /\ \A u \in W : kernel'.list[u] = "ready"
    BY <1>3, <1>5, <1>6, <1>9
  <2>2. \A u \in Tasks \ W : kernel'.list[u] = kernel.list[u]
    BY <1>5
  <2>3. \A z \in Semaphores : Elements(kernel'.waiting[z]) \subseteq Elements(kernel.waiting[z]) \ W
    BY <1>7
  <2>4. \A z \in Semaphores : Elements(kernel.waiting[z]) \subseteq Elements(kernel'.waiting[z]) \union W
    BY <1>7
  <2>5. kernel'.pending = kernel.pending
    BY <1>5, <1>9
  <2> HIDE DEF W
  <2> QED
    BY <1>7, <1>9, <2>1, <2>2, <2>3, <2>4, <2>5, QueuesLighter
<1>10. ASSUME kernel.stopped PROVE Queues'
  <2>1. Runner'
    BY <1>5, <1>8, <1>10 DEF Queues, Runner, Types, Kernel
  <2>2. Resting'
    BY <1>5, <1>8, <1>10 DEF Queues, Resting
  <2>3. Waiting'
    <3>1. \A u \in kernel'.pending : kernel'.list[u] \in Asleep /\ InTake(u)'
      BY <1>3, <1>5, <1>6, <1>8, <1>10 DEF Queues, Waiting, Types, Kernel
    <3>2. ASSUME NEW z \in Semaphores, NEW u \in Elements(kernel'.waiting[z])
          PROVE  /\ u \in Tasks /\ kernel'.list[u] \in Asleep /\ u \notin kernel'.pending
                 /\ InTake(u)' /\ job'[u].call.sem = z
      <4>1. u \in Elements(kernel.waiting[z]) /\ u # t
        BY <1>7, <3>2
      <4>2. /\ u \in Tasks /\ kernel.list[u] \in Asleep /\ u \notin kernel.pending
            /\ InTake(u) /\ job[u].call.sem = z
        BY <4>1 DEF Queues, Waiting
      <4> QED
        BY <1>5, <1>8, <1>10, <4>1, <4>2
    <3> QED
      BY <1>7, <3>1, <3>2 DEF Waiting
  <2>4. Findable'
    <3> SUFFICES ASSUME NEW u \in Tasks, kernel'.list[u] = "suspended"
                 PROVE  /\ InTake(u)'
                        /\ \/ u \in kernel'.pending
                           \/ u \in Elements(kernel'.waiting[job'[u].call.sem])
      BY DEF Findable
    <3>2. InTake(u) /\ (u \in kernel.pending \/ u \in Elements(kernel.waiting[job[u].call.sem]))
      BY <1>5, <1>10 DEF Queues, Findable
    <3>3. job[u].call.sem \in Semaphores
      BY <3>2, JobForms, WaitForms DEF InTake
    <3> QED
      BY <1>5, <1>7, <1>8, <1>10, <3>2, <3>3
  <2> QED
    BY <2>1, <2>2, <2>3, <2>4 DEF Queues
<1> QED
  BY <1>9, <1>10

(* The scheduler is resumed, by a task or by the idle task.                *)
LEMMA QueuesResumed ==
  ASSUME Queues, Types, NEW t \in Tasks,
         kernel.stopped, kernel.current = t, \A u \in Tasks \ {t} : job'[u] = job[u],
         NEW W, Resumed(kernel, kernel', W),
         ~Slept(t) \/ switch',
         ~Slept(t) => kernel.list[t] = "ready",
         Slept(t) => job'[t].pc \in {"take", "asleep"} /\ job'[t].call = job[t].call
                     /\ (InTake(t) => InTake(t)')
  PROVE  Queues'
<1> DEFINE V == kernel.pending \union W
<1>1. /\ \A u \in V : u \in Tasks /\ kernel'.list[u] = "ready" /\ kernel.list[u] \in Asleep
      /\ \A u \in Tasks \ V : \/ kernel'.list[u] = kernel.list[u]
                              \/ kernel.list[u] \in Timed /\ kernel'.list[u] \in Timed
      /\ ~kernel'.stopped /\ kernel'.pending = {} /\ kernel'.current = t
  BY DEF Resumed, Queues, Waiting, Timed, Asleep, Types, Kernel
<1>2. \A s \in Semaphores : Elements(kernel'.waiting[s]) = Elements(kernel.waiting[s]) \ W
  BY DEF Resumed
<1>3. \A s \in Semaphores : Once(kernel'.waiting[s])
  BY DEF Resumed, Queues, Waiting
<1>4. kernel.list[t] \in Asleep => Slept(t)
  BY DEF Asleep
<1>5. \A u \in Tasks : kernel.list[u] \in Asleep /\ InTake(u) =>
         InTake(u)' /\ job'[u].call = job[u].call
  BY <1>4 DEF InTake
<1>6. \A u \in Tasks : kernel'.list[u] \in Asleep => kernel.list[u] \in Asleep /\ u \notin V
  BY <1>1 DEF Asleep, Timed
<1>7. \A u \in Tasks : u \notin V /\ kernel.list[u] \in Asleep => kernel'.list[u] \in Asleep
  BY <1>1 DEF Asleep, Timed
<1>8. Runner'
  <2>1. kernel'.list[Idle] = "ready"
    <3>1. Idle \in Tasks /\ kernel.list[Idle] = "ready"
      BY KernelAssumption DEF Queues, Runner
    <3> QED
      BY <1>1, <3>1 DEF Asleep, Timed
  <2>2. ~switch' => kernel'.list[kernel'.current] = "ready"
    BY <1>1 DEF Asleep, Timed
  <2> QED
    BY <1>1, <2>1, <2>2 DEF Runner
<1>9. Resting'
  <2> SUFFICES ASSUME NEW u \in Tasks
               PROVE  /\ kernel'.list[u] \in {"none", "terminated"} => job'[u].pc = "run"
                      /\ kernel'.list[u] \in Asleep => Slept(u)' \/ job'[u].pc \in {"take", "asleep"}
    BY DEF Resting
  <2>1. CASE u = t
    <3>1. kernel.list[t] = "ready" \/ (kernel.list[t] \in Asleep /\ Slept(t))
      <4>1. ASSUME Slept(t) PROVE kernel.list[t] \in Asleep
        <5>1. kernel.list[t] \notin {"none", "terminated"} /\ kernel.list[t] # "ready"
          BY <4>1 DEF Queues, Resting, Runner, Slept
        <5> QED
          BY <5>1 DEF Types, Kernel, Lists
      <4> QED
        BY <4>1
    <3> QED
      BY <1>1, <2>1, <3>1 DEF Asleep, Timed
  <2>2. CASE u # t
    <3>1. kernel'.list[u] \in {"none", "terminated"} => kernel.list[u] \in {"none", "terminated"}
      BY <1>1 DEF Timed
    <3>2. job'[u] = job[u]
      BY <2>2
    <3> QED
      BY <1>6, <3>1, <3>2 DEF Queues, Resting, Slept
  <2> QED
    BY <2>1, <2>2
<1>10. Waiting'
  <2>1. ASSUME NEW s \in Semaphores, NEW u \in Elements(kernel'.waiting[s])
        PROVE  /\ u \in Tasks /\ kernel'.list[u] \in Asleep /\ u \notin kernel'.pending
               /\ InTake(u)' /\ job'[u].call.sem = s
    <3>1. u \in Elements(kernel.waiting[s]) /\ u \notin W
      BY <1>2, <2>1
    <3>2. /\ u \in Tasks /\ kernel.list[u] \in Asleep /\ u \notin kernel.pending
          /\ InTake(u) /\ job[u].call.sem = s
      BY <3>1 DEF Queues, Waiting
    <3> QED
      BY <1>1, <1>5, <1>7, <3>1, <3>2
  <2> QED
    BY <1>1, <1>3, <2>1 DEF Waiting
<1>11. Findable'
  <2> SUFFICES ASSUME NEW u \in Tasks, kernel'.list[u] = "suspended"
               PROVE  /\ InTake(u)'
                      /\ \/ u \in kernel'.pending
                         \/ u \in Elements(kernel'.waiting[job'[u].call.sem])
    BY DEF Findable
  <2>1. kernel.list[u] = "suspended" /\ u \notin V /\ kernel.list[u] \in Asleep
    BY <1>1 DEF Timed, Asleep
  <2>2. InTake(u) /\ u \in Elements(kernel.waiting[job[u].call.sem])
    BY <2>1 DEF Queues, Findable
  <2>3. job[u].call.sem \in Semaphores
    BY <2>2, JobForms, WaitForms DEF InTake
  <2>4. InTake(u)' /\ job'[u].call = job[u].call
    BY <1>5, <2>1, <2>2
  <2> QED
    BY <1>2, <2>1, <2>2, <2>3, <2>4
<1> QED
  BY <1>8, <1>9, <1>10, <1>11 DEF Queues

(* The task that runs is put to sleep, in the list of the semaphore it     *)
(* waits for or in none.                                                   *)
LEMMA QueuesPut ==
  ASSUME Queues, Types, NEW t \in Tasks,
         kernel.stopped, kernel.current = t, kernel.list[t] = "ready", t # Idle,
         \A u \in Tasks \ {t} : job'[u] = job[u],
         NEW ticks, NEW ever, Put(kernel, kernel', ticks, ever),
         Slept(t)',
         \/ /\ kernel'.waiting = kernel.waiting /\ kernel'.list[t] # "suspended"
         \/ \E s \in Semaphores :
              /\ InTake(t)' /\ job'[t].call.sem = s
              /\ \A z \in Semaphores \ {s} : kernel'.waiting[z] = kernel.waiting[z]
              /\ Elements(kernel'.waiting[s]) = Elements(kernel.waiting[s]) \union {t}
              /\ Once(kernel.waiting[s]) /\ t \notin Elements(kernel.waiting[s]) =>
                    Once(kernel'.waiting[s])
  PROVE  Queues'
<1>1. /\ \A u \in Tasks : u # t => kernel'.list[u] = kernel.list[u] /\ job'[u] = job[u]
      /\ kernel'.list[t] \in Asleep /\ kernel'.pending = kernel.pending
      /\ kernel'.stopped = kernel.stopped /\ kernel'.current = t
  BY DEF Put
<1>2. /\ t \notin kernel.pending
      /\ \A s \in Semaphores : t \notin Elements(kernel.waiting[s])
  BY DEF Queues, Waiting, Asleep
<1>3. \A u \in Tasks : u # t => /\ InTake(u)' <=> InTake(u)
                                /\ Slept(u)' <=> Slept(u)
  BY <1>1 DEF InTake, Slept
<1>4. Runner'
  <2>1. kernel'.list[Idle] = "ready"
    BY <1>1, KernelAssumption DEF Queues, Runner
  <2>2. kernel'.list[kernel'.current] # "ready" /\ Slept(kernel.current)'
    BY <1>1 DEF Asleep, Slept
  <2> QED
    BY <1>1, <2>1, <2>2 DEF Runner
<1>5. Resting'
  BY <1>1, <1>3 DEF Queues, Resting, Asleep
<1>6. CASE kernel'.waiting = kernel.waiting /\ kernel'.list[t] # "suspended"
  <2>1. \A u \in kernel'.pending : kernel'.list[u] \in Asleep /\ InTake(u)'
    BY <1>1, <1>2, <1>3 DEF Queues, Waiting, Types, Kernel
  <2>2. ASSUME NEW s \in Semaphores, NEW u \in Elements(kernel'.waiting[s])
        PROVE  /\ u \in Tasks /\ kernel'.list[u] \in Asleep /\ u \notin kernel'.pending
               /\ InTake(u)' /\ job'[u].call.sem = s
    <3>1. /\ u \in Tasks /\ kernel.list[u] \in Asleep /\ u \notin kernel.pending
          /\ InTake(u) /\ job[u].call.sem = s
      BY <1>6, <2>2 DEF Queues, Waiting
    <3>2. u # t
      BY <1>2, <1>6, <2>2
    <3> QED
      BY <1>1, <1>3, <3>1, <3>2
  <2>3. Waiting'
    BY <1>6, <2>1, <2>2 DEF Queues, Waiting
  <2>4. Findable'
    BY <1>1, <1>3, <1>6 DEF Queues, Findable
  <2> QED
    BY <1>4, <1>5, <2>3, <2>4 DEF Queues
<1>7. CASE \E s \in Semaphores :
              /\ InTake(t)' /\ job'[t].call.sem = s
              /\ \A z \in Semaphores \ {s} : kernel'.waiting[z] = kernel.waiting[z]
              /\ Elements(kernel'.waiting[s]) = Elements(kernel.waiting[s]) \union {t}
              /\ Once(kernel.waiting[s]) /\ t \notin Elements(kernel.waiting[s]) =>
                    Once(kernel'.waiting[s])
  <2> PICK s \in Semaphores :
              /\ InTake(t)' /\ job'[t].call.sem = s
              /\ \A z \in Semaphores \ {s} : kernel'.waiting[z] = kernel.waiting[z]
              /\ Elements(kernel'.waiting[s]) = Elements(kernel.waiting[s]) \union {t}
              /\ Once(kernel.waiting[s]) /\ t \notin Elements(kernel.waiting[s]) =>
                    Once(kernel'.waiting[s])
    BY <1>7
  <2>1. \A u \in kernel'.pending : kernel'.list[u] \in Asleep /\ InTake(u)'
    BY <1>1, <1>2, <1>3 DEF Queues, Waiting, Types, Kernel
  <2>2. ASSUME NEW z \in Semaphores, NEW u \in Elements(kernel'.waiting[z])
        PROVE  /\ u \in Tasks /\ kernel'.list[u] \in Asleep /\ u \notin kernel'.pending
               /\ InTake(u)' /\ job'[u].call.sem = z
    <3>1. CASE u = t /\ z = s
      BY <1>1, <1>2, <3>1
    <3>2. CASE u \in Elements(kernel.waiting[z])
      <4>1. /\ u \in Tasks /\ kernel.list[u] \in Asleep /\ u \notin kernel.pending
            /\ InTake(u) /\ job[u].call.sem = z
        BY <3>2 DEF Queues, Waiting
      <4>2. u # t
        BY <1>2, <3>2
      <4> QED
        BY <1>1, <1>3, <4>1, <4>2
    <3> QED
      BY <2>2, <3>1, <3>2
  <2>3. \A z \in Semaphores : Once(kernel'.waiting[z])
    BY <1>2 DEF Queues, Waiting
  <2>4. Waiting'
    BY <2>1, <2>2, <2>3 DEF Waiting
  <2>5. Findable'
    <3> SUFFICES ASSUME NEW u \in Tasks, kernel'.list[u] = "suspended"
                 PROVE  /\ InTake(u)'
                        /\ \/ u \in kernel'.pending
                           \/ u \in Elements(kernel'.waiting[job'[u].call.sem])
      BY DEF Findable
    <3>1. CASE u = t
      BY <3>1
    <3>2. CASE u # t
      <4>1. InTake(u) /\ (u \in kernel.pending \/ u \in Elements(kernel.waiting[job[u].call.sem]))
        BY <1>1, <3>2 DEF Queues, Findable
      <4>2. job[u].call.sem \in Semaphores
        BY <4>1, JobForms, WaitForms DEF InTake
      <4>3. job[u].call.sem # s => kernel'.waiting[job[u].call.sem] = kernel.waiting[job[u].call.sem]
        BY <4>2
      <4> QED
        BY <1>1, <1>3, <3>2, <4>1, <4>2, <4>3
    <3> QED
      BY <3>1, <3>2
  <2> QED
    BY <1>4, <1>5, <2>4, <2>5 DEF Queues
<1> QED
  BY <1>6, <1>7

(* Every action keeps Queues.                                              *)
LEMMA QueuesStep ==
  ASSUME Types, Control, Locks, Queues, Next, Types', Control'
  PROVE  Queues'
<1>1. ASSUME NEW t \in Tasks, Calm(t) PROVE Queues'
  <2>1. /\ kernel'.list = kernel.list /\ kernel'.waiting = kernel.waiting
        /\ kernel'.pending = kernel.pending /\ Running(t) /\ UNCHANGED switch
        /\ kernel.current = t /\ kernel'.current = t
        /\ \A u \in Tasks \ {t} : job'[u] = job[u]
    BY <1>1 DEF Calm, Unmoved, Running
  <2>2. ~Slept(t) /\ ~Slept(t)'
    BY <1>1 DEF Calm, Slept, TakePcs
  <2>3. kernel.list[t] = "ready"
    BY <2>1, <2>2, Runs
  <2> QED
    BY <2>1, <2>2, <2>3, QueuesKept
<1>2. ASSUME NEW t \in Tasks, vTaskSuspendAll(t) PROVE Queues'
  <2>1. /\ kernel'.list = kernel.list /\ kernel'.waiting = kernel.waiting
        /\ kernel'.pending = kernel.pending /\ Running(t) /\ UNCHANGED switch
        /\ kernel.current = t /\ kernel'.current = t
        /\ \A u \in Tasks \ {t} : job'[u] = job[u]
        /\ ~kernel.stopped /\ job'[t].pc \in {"lock", "place"}
    BY <1>2, Suspended DEF Still, Running
  <2>2. ~Slept(t)'
    BY <2>1 DEF Slept
  <2>3. kernel.list[t] = "ready"
    BY <2>1, Runs
  <2> QED
    BY <2>1, <2>2, <2>3, QueuesKept
<1>3. ASSUME NEW t \in Tasks, vTaskPlaceOnEventList(t) PROVE Queues'
  <2>1. PICK s \in Semaphores : s = job[t].call.sem
    BY <1>3, Blocked
  <2>2. /\ t # Idle /\ Running(t) /\ job[t].pc = "block" /\ job[t].call.op = "take"
        /\ kernel.stopped /\ \A u \in Tasks \ {t} : job'[u] = job[u]
        /\ job'[t].pc = "next" /\ job'[t].call = job[t].call /\ job'[t].path = job[t].path
        /\ Put(kernel, kernel', job[t].ticks, TRUE)
        /\ \A z \in Semaphores \ {s} : kernel'.waiting[z] = kernel.waiting[z]
    BY <1>3, <2>1, Blocked
  <2>3. PICK K \in Kernel : kernel'.waiting[s] = vListInsert(K, kernel.waiting[s], t)
    BY <1>3, <2>1, Blocked
  <2>4. InTake(t) /\ job[t].path = "blocked"
    BY <2>2 DEF Control, InTake, CallPcs, TakePcs
  <2>5. InTake(t)' /\ job'[t].call.sem = s /\ Slept(t)' /\ ~Slept(t)
    BY <2>1, <2>2, <2>4 DEF InTake, Slept, CallPcs
  <2>6. kernel.list[t] = "ready" /\ kernel.current = t
    BY <2>2, <2>5, Runs DEF Running
  <2>7. /\ Elements(kernel'.waiting[s]) = Elements(kernel.waiting[s]) \union {t}
        /\ Once(kernel.waiting[s]) /\ t \notin Elements(kernel.waiting[s]) =>
              Once(kernel'.waiting[s])
    <3> DEFINE q == kernel.waiting[s]
               r == vListInsert(K, q, t)
    <3>1. q \in Seq(Tasks)
      BY DEF Types, Kernel
    <3> HIDE DEF q
    <3>2. /\ Elements(r) = Elements(q) \union {t}
          /\ Once(q) /\ t \notin Elements(q) => Once(r)
      BY <3>1, Inserted
    <3>3. kernel'.waiting[s] = r
      BY <2>3 DEF q
    <3> HIDE DEF r
    <3> QED
      BY <3>2, <3>3 DEF q
  <2> QED
    BY <2>2, <2>5, <2>6, <2>7, QueuesPut
<1>4. ASSUME NEW t \in Tasks, AdjustNext(t) PROVE Queues'
  <2>1. /\ kernel'.list = kernel.list /\ kernel'.waiting = kernel.waiting
        /\ kernel'.pending = kernel.pending /\ Running(t) /\ UNCHANGED switch
        /\ kernel.current = t /\ kernel'.current = t /\ kernel.stopped /\ kernel'.stopped
        /\ \A u \in Tasks \ {t} : job'[u] = job[u]
        /\ job[t].pc = "next" /\ job[t] \in Job
        /\ job'[t].pc \in {"unlock", "resume"}
        /\ job'[t].call = job[t].call /\ job'[t].path = job[t].path
    BY <1>4, Adjusted DEF Still, Running, SameCall
  <2>2. job[t].call.op = "delay" \/ job[t].path = "blocked"
    <3>1. job[t].call.op \in {"take", "delay"}
      BY <2>1, WaitForms DEF Job
    <3> QED
      BY <2>1, <3>1 DEF Control, InTake, CallPcs
  <2>3. Slept(t) /\ Slept(t)' /\ (InTake(t) => InTake(t)')
    BY <2>1, <2>2 DEF Slept, InTake, CallPcs, TakePcs
  <2>4. kernel.list[t] # "ready" /\ kernel.list[t] \in Lists
    BY <2>1, <2>3, Runs DEF Types, Kernel
  <2>5. kernel.list[t] \in Asleep
    BY <2>1, <2>4 DEF Queues, Resting, Lists
  <2> QED
    BY <2>1, <2>3, <2>4, <2>5, QueuesKept
<1>5. ASSUME NEW t \in Tasks, Place(t) PROVE Queues'
  <2>1. /\ t # Idle /\ Running(t) /\ job[t].pc = "place" /\ job[t].call.op = "delay"
        /\ kernel.stopped /\ \A u \in Tasks \ {t} : job'[u] = job[u]
        /\ job'[t].pc = "next" /\ job'[t].call = job[t].call
        /\ Put(kernel, kernel', job[t].ticks, FALSE)
        /\ kernel'.waiting = kernel.waiting /\ kernel.current = t
    BY <1>5, Placed DEF SameCall, Running
  <2>2. ~Slept(t) /\ Slept(t)' /\ kernel'.list[t] # "suspended"
    BY <2>1 DEF Slept, Put
  <2>3. kernel.list[t] = "ready"
    BY <2>1, <2>2, Runs
  <2> QED
    BY <2>1, <2>2, <2>3, QueuesPut
<1>6. ASSUME NEW t \in Tasks, prvUnlockQueue(t) PROVE Queues'
  <2>1. PICK s \in Semaphores : s = job[t].call.sem
    BY <1>6, Opened
  <2>2. /\ t # Idle /\ Running(t) /\ job[t].pc = "unlock" /\ job[t].call.op = "take"
        /\ kernel.stopped /\ \A u \in Tasks \ {t} : job'[u] = job[u]
        /\ job'[t].pc = "resume" /\ job'[t].call = job[t].call /\ job'[t].path = job[t].path
    BY <1>6, Opened DEF SameCall
  <2>3. PICK n \in 0..Len(kernel.waiting[s]) : Unlocked(kernel, s, n, kernel')
    BY <1>6, <2>1, Opened
  <2>4. PICK U \in SUBSET Elements(kernel.waiting[s]) :
        /\ kernel'.pending = kernel.pending \union U
        /\ Elements(kernel.waiting[s]) = Elements(kernel'.waiting[s]) \union U
        /\ Once(kernel.waiting[s]) => /\ Once(kernel'.waiting[s])
                                      /\ U \intersect Elements(kernel'.waiting[s]) = {}
    BY <2>3 DEF Unlocked
  <2>5. /\ kernel'.current = kernel.current /\ kernel'.list = kernel.list
        /\ kernel'.stopped = kernel.stopped
        /\ \A z \in Semaphores : z # s => kernel'.waiting[z] = kernel.waiting[z]
    BY <2>3 DEF Unlocked
  <2>6. \A u \in Tasks : /\ InTake(u)' <=> InTake(u)
                         /\ Slept(u)' <=> Slept(u)
                         /\ InTake(u) => job'[u].call = job[u].call
    BY <2>2 DEF InTake, Slept, CallPcs, TakePcs
  <2>7. Runner'
    BY <2>2, <2>5, <2>6 DEF Queues, Runner, Types, Kernel
  <2>8. Resting'
    BY <2>2, <2>5, <2>6 DEF Queues, Resting
  <2>9. \A u \in U : /\ u \in Tasks /\ kernel.list[u] \in Asleep /\ u \notin kernel.pending
                     /\ InTake(u) /\ job[u].call.sem = s
    BY <2>4 DEF Queues, Waiting
  <2>10. Waiting'
    <3>1. \A u \in kernel'.pending : kernel'.list[u] \in Asleep /\ InTake(u)'
      BY <2>4, <2>5, <2>6, <2>9 DEF Queues, Waiting, Types, Kernel
    <3>2. \A z \in Semaphores : Once(kernel'.waiting[z])
      BY <2>4, <2>5 DEF Queues, Waiting
    <3>3. ASSUME NEW z \in Semaphores, NEW u \in Elements(kernel'.waiting[z])
          PROVE  /\ u \in Tasks /\ kernel'.list[u] \in Asleep /\ u \notin kernel'.pending
                 /\ InTake(u)' /\ job'[u].call.sem = z
      <4>1. u \in Elements(kernel.waiting[z])
        BY <2>4, <2>5, <3>3
      <4>2. /\ u \in Tasks /\ kernel.list[u] \in Asleep /\ u \notin kernel.pending
            /\ InTake(u) /\ job[u].call.sem = z
        BY <4>1 DEF Queues, Waiting
      <4>3. u \notin U
        BY <2>4, <2>9, <3>3, <4>2 DEF Queues, Waiting
      <4> QED
        BY <2>4, <2>5, <2>6, <4>2, <4>3
    <3> QED
      BY <3>1, <3>2, <3>3 DEF Waiting
  <2>11. Findable'
    <3> SUFFICES ASSUME NEW u \in Tasks, kernel'.list[u] = "suspended"
                 PROVE  /\ InTake(u)'
                        /\ \/ u \in kernel'.pending
                           \/ u \in Elements(kernel'.waiting[job'[u].call.sem])
      BY DEF Findable
    <3>1. InTake(u) /\ (u \in kernel.pending \/ u \in Elements(kernel.waiting[job[u].call.sem]))
      BY <2>5 DEF Queues, Findable
    <3>2. job[u].call.sem \in Semaphores
      BY <3>1, JobForms, WaitForms DEF InTake
    <3> QED
      BY <2>4, <2>5, <2>6, <3>1, <3>2
  <2> QED
    BY <2>7, <2>8, <2>10, <2>11 DEF Queues
<1>7. ASSUME NEW t \in Tasks, Resume(t) PROVE Queues'
  <2>1. /\ t # Idle /\ Running(t) /\ job[t] \in Job /\ job[t].pc = "resume" /\ kernel.stopped
        /\ kernel.current = t /\ \A u \in Tasks \ {t} : job'[u] = job[u]
        /\ job'[t].call = job[t].call /\ job[t].call.op \in {"take", "delay"}
    BY <1>7, Restarted DEF SameCall, Running
  <2>2. PICK W : Resumed(kernel, kernel', W)
    BY <1>7, Restarted
  <2>3. ~Slept(t) => kernel.list[t] = "ready"
    BY <2>1, Runs
  <2>4. ASSUME Slept(t) PROVE switch' /\ job'[t].pc \in {"take", "asleep"}
    <3>1. CASE job[t].call.op = "delay"
      BY <1>7, <3>1, Restarted
    <3>2. CASE job[t].call.op # "delay"
      <4>1. job[t].path = "blocked"
        BY <2>4, <3>2 DEF Slept
      <4> QED
        BY <1>7, <3>2, <4>1, Restarted
    <3> QED
      BY <3>1, <3>2
  <2>5. job'[t].pc \in {"take", "asleep"} /\ InTake(t) => InTake(t)'
    BY <2>1 DEF InTake, CallPcs, TakePcs
  <2> QED
    BY <2>1, <2>2, <2>3, <2>4, <2>5, QueuesResumed
<1>8. ASSUME NEW t \in Tasks, Give(t) PROVE Queues'
  <2>1. PICK s \in Semaphores : GivenTo(t, s)
    BY <1>8, Given
  <2>2. Running(t) /\ ~kernel.stopped /\ UNCHANGED job /\ t # Idle
    BY <1>8, Given
  <2> DEFINE K == Quit(t, s)
  <2>3. Unmoved(kernel, K)
    BY <2>1 DEF GivenTo
  <2>4. kernel.list[t] = "ready" /\ kernel.current = t
    BY <2>2, Runs DEF Running
  <2>5. \A u \in Tasks : /\ InTake(u)' <=> InTake(u)
                         /\ Slept(u)' <=> Slept(u)
    BY <2>2 DEF InTake, Slept
  <2>6. CASE kernel.waiting[s] = <<>> /\ kernel' = K
    <3>1. /\ kernel'.list = kernel.list /\ kernel'.waiting = kernel.waiting
          /\ kernel'.pending = kernel.pending /\ kernel'.current = t
          /\ kernel'.stopped = kernel.stopped
      BY <2>3, <2>4, <2>6 DEF Unmoved
    <3> QED
      BY <2>2, <2>4, <3>1, QueuesKept
  <2>7. CASE kernel.waiting[s] # <<>> /\ Removed(K, s, kernel')
    <3>1. /\ K.waiting[s] # <<>> /\ K.stopped = kernel.stopped /\ K.current = kernel.current
          /\ K.list = kernel.list
      BY <2>3, <2>7 DEF Unmoved
    <3>2. Runner'
      <4>1. \A u \in Tasks : kernel.list[u] = "ready" => kernel'.list[u] = "ready"
        BY <2>2, <2>7, <3>1 DEF Removed
      <4>2. kernel'.current = t /\ ~kernel'.stopped
        BY <2>2, <2>4, <2>7, <3>1 DEF Removed
      <4>3. Idle \in Tasks /\ kernel.list[Idle] = "ready"
        BY KernelAssumption DEF Queues, Runner
      <4> QED
        BY <2>4, <4>1, <4>2, <4>3 DEF Runner
    <3> HIDE DEF K
    <3> QED
      BY <2>2, <2>3, <2>7, <3>1, <3>2, QueuesWoken
  <2> QED
    BY <2>1, <2>6, <2>7 DEF GivenTo
<1>9. ASSUME NEW s \in Semaphores, xQueueGiveFromISR(s) PROVE Queues'
  <2>1. UNCHANGED job
    BY <1>9, GivenFromISR
  <2>2. CASE kernel' = kernel /\ switch' = switch
    BY <2>1, <2>2 DEF Queues, Runner, Resting, Waiting, Findable, InTake, Slept
  <2>3. CASE kernel.waiting[s] # <<>> /\ Removed(kernel, s, kernel')
             /\ switch' = (switch \/ WakesHigher(kernel, s))
    <3>1. Unmoved(kernel, kernel)
      BY DEF Unmoved
    <3>2. ASSUME ~kernel.stopped PROVE Runner'
      <4>1. \A u \in Tasks : kernel.list[u] = "ready" => kernel'.list[u] = "ready"
        BY <2>3, <3>2 DEF Removed
      <4>2. kernel'.current = kernel.current /\ ~kernel'.stopped
        BY <2>3, <3>2 DEF Removed
      <4>3. Idle \in Tasks /\ kernel.list[Idle] = "ready" /\ kernel.current \in Tasks
        BY KernelAssumption DEF Queues, Runner, Types, Kernel
      <4>4. switch => switch'
        <5> DEFINE w == WakesHigher(kernel, s)
        <5>1. switch' = (switch \/ w)
          BY <2>3
        <5> HIDE DEF w
        <5> QED
          BY <5>1, Zenon
      <4> QED
        BY <3>2, <4>1, <4>2, <4>3, <4>4 DEF Queues, Runner
    <3> QED
      BY <2>1, <2>3, <3>1, <3>2, QueuesWoken
  <2> QED
    BY <1>9, <2>2, <2>3, GivenFromISR
<1>10. ASSUME NEW t \in Tasks, xTaskCreate(t) PROVE Queues'
  <2>1. PICK u \in Tasks : /\ kernel.list[u] = "none" /\ kernel'.list[u] = "ready"
                           /\ \A x \in Tasks \ {u} : kernel'.list[x] = kernel.list[x]
    BY <1>10, Created
  <2>2. /\ Running(t) /\ ~kernel.stopped /\ UNCHANGED job /\ kernel'.waiting = kernel.waiting
        /\ kernel'.pending = kernel.pending /\ kernel'.current = kernel.current
        /\ kernel'.stopped = kernel.stopped
    BY <1>10, Created DEF Kept
  <2>3. kernel.list[t] = "ready" /\ kernel.current = t /\ kernel.list[Idle] = "ready"
    BY <2>2, Runs DEF Running, Queues, Runner
  <2>4. Runner'
    BY <2>1, <2>2, <2>3, KernelAssumption DEF Runner
  <2> DEFINE V == {u}
  <2>5. /\ V \in SUBSET Tasks /\ \A x \in V : kernel'.list[x] = "ready"
        /\ \A x \in Tasks \ V : kernel'.list[x] = kernel.list[x]
        /\ kernel.pending \intersect V = {}
        /\ \A s \in Semaphores : Elements(kernel.waiting[s]) \intersect V = {}
    BY <2>1 DEF Queues, Waiting, Asleep
  <2>6. /\ \A s \in Semaphores : Once(kernel'.waiting[s])
        /\ \A s \in Semaphores : Elements(kernel'.waiting[s]) \subseteq Elements(kernel.waiting[s]) \ V
        /\ \A s \in Semaphores : Elements(kernel.waiting[s]) \subseteq Elements(kernel'.waiting[s]) \union V
    BY <2>2, <2>5 DEF Queues, Waiting
  <2> HIDE DEF V
  <2> QED
    BY <2>2, <2>4, <2>5, <2>6, QueuesLighter
<1>11. ASSUME NEW t \in Tasks, kernel.list[t] \in {"ready", "terminated"},
              kernel'.list[t] \in {"terminated", "none"}, job[t].pc = "run",
              \A x \in Tasks \ {t} : kernel'.list[x] = kernel.list[x],
              UNCHANGED job, kernel'.pending = kernel.pending, kernel'.waiting = kernel.waiting,
              Runner'
       PROVE  Queues'
  <2>1. \A u \in Tasks : /\ InTake(u)' <=> InTake(u)
                         /\ Slept(u)' <=> Slept(u)
    BY <1>11 DEF InTake, Slept
  <2>2. \A u \in Tasks : /\ kernel'.list[u] \in Asleep <=> kernel.list[u] \in Asleep
                         /\ kernel'.list[u] = "suspended" <=> kernel.list[u] = "suspended"
    BY <1>11 DEF Asleep
  <2>3. Resting'
    <3> SUFFICES ASSUME NEW u \in Tasks
                 PROVE  /\ kernel'.list[u] \in {"none", "terminated"} => job'[u].pc = "run"
                        /\ kernel'.list[u] \in Asleep => Slept(u)' \/ job'[u].pc \in {"take", "asleep"}
      BY DEF Resting
    <3> QED
      BY <1>11, <2>1, <2>2 DEF Queues, Resting
  <2>4. Waiting'
    <3>1. \A u \in kernel'.pending : kernel'.list[u] \in Asleep /\ InTake(u)'
      BY <1>11, <2>1, <2>2 DEF Queues, Waiting, Types, Kernel
    <3>2. ASSUME NEW z \in Semaphores, NEW u \in Elements(kernel'.waiting[z])
          PROVE  /\ u \in Tasks /\ kernel'.list[u] \in Asleep /\ u \notin kernel'.pending
                 /\ InTake(u)' /\ job'[u].call.sem = z
      <4>1. /\ u \in Tasks /\ kernel.list[u] \in Asleep /\ u \notin kernel.pending
            /\ InTake(u) /\ job[u].call.sem = z
        BY <1>11, <3>2 DEF Queues, Waiting
      <4> QED
        BY <1>11, <2>1, <2>2, <4>1
    <3> QED
      BY <1>11, <3>1, <3>2 DEF Queues, Waiting
  <2>5. Findable'
    BY <1>11, <2>1, <2>2 DEF Queues, Findable
  <2> QED
    BY <1>11, <2>3, <2>4, <2>5 DEF Queues
<1>12. ASSUME NEW t \in Tasks, vTaskDelete(t) PROVE Queues'
  <2>1. /\ Running(t) /\ ~kernel.stopped /\ UNCHANGED job /\ kernel'.waiting = kernel.waiting
        /\ kernel'.pending = kernel.pending /\ kernel'.current = kernel.current
        /\ kernel'.stopped = kernel.stopped /\ kernel'.list[t] = "terminated" /\ switch'
        /\ \A x \in Tasks \ {t} : kernel'.list[x] = kernel.list[x]
        /\ job[t].pc = "run" /\ t # Idle
    BY <1>12, Deleted DEF Kept
  <2>2. kernel.list[t] = "ready" /\ kernel.list[Idle] = "ready"
    BY <2>1, Runs DEF Queues, Runner
  <2>3. Runner'
    BY <2>1, <2>2, KernelAssumption DEF Runner
  <2> QED
    BY <1>11, <2>1, <2>2, <2>3
<1>13. CASE Reap
  <2>1. PICK t \in Tasks : /\ kernel.list[t] = "terminated" /\ kernel'.list[t] = "none"
                           /\ \A x \in Tasks \ {t} : kernel'.list[x] = kernel.list[x]
    BY <1>13, Reaped
  <2>2. /\ Running(Idle) /\ ~kernel.stopped /\ UNCHANGED <<job, switch>>
        /\ kernel'.waiting = kernel.waiting /\ kernel'.current = kernel.current
        /\ kernel'.pending = kernel.pending /\ kernel'.stopped = kernel.stopped
    BY <1>13, Reaped DEF Kept
  <2>3. job[t].pc = "run" /\ kernel.list[Idle] = "ready" /\ kernel.current = Idle
    BY <2>1, <2>2 DEF Queues, Resting, Runner, Running
  <2>4. Runner'
    BY <2>1, <2>2, <2>3, KernelAssumption DEF Runner
  <2> QED
    BY <1>11, <2>1, <2>2, <2>3, <2>4
<1>14. CASE IdleSuspend
  <2>1. /\ kernel'.list = kernel.list /\ kernel'.waiting = kernel.waiting
        /\ kernel'.pending = kernel.pending /\ Running(Idle) /\ UNCHANGED switch
        /\ kernel.current = Idle /\ kernel'.current = Idle
        /\ \A u \in Tasks \ {Idle} : job'[u] = job[u]
        /\ ~kernel.stopped /\ job'[Idle].pc = "idle" /\ Idle \in Tasks
    BY <1>14, IdleSuspended, KernelAssumption DEF Still, Running
  <2>2. ~Slept(Idle)'
    BY <2>1 DEF Slept
  <2>3. kernel.list[Idle] = "ready"
    BY DEF Queues, Runner
  <2> QED
    BY <2>1, <2>2, <2>3, QueuesKept
<1>15. CASE IdleResume
  <2>1. /\ Running(Idle) /\ job[Idle].pc = "idle" /\ kernel.stopped /\ Idle \in Tasks
        /\ kernel.current = Idle /\ \A u \in Tasks \ {Idle} : job'[u] = job[u]
    BY <1>15, IdleRestarted, KernelAssumption DEF Running
  <2>2. PICK W : Resumed(kernel, kernel', W)
    BY <1>15, IdleRestarted
  <2>3. ~Slept(Idle) /\ kernel.list[Idle] = "ready"
    BY <2>1 DEF Queues, Runner, Slept
  <2> QED
    BY <2>1, <2>2, <2>3, QueuesResumed
<1>16. CASE Tick
  <2>1. CASE kernel.stopped
    <3>1. kernel' = [kernel EXCEPT !.pended = @ + 1] /\ UNCHANGED job
      BY <1>16, <2>1, Ticked
    <3>2. /\ kernel'.list = kernel.list /\ kernel'.waiting = kernel.waiting
          /\ kernel'.pending = kernel.pending
          /\ kernel'.stopped = kernel.stopped /\ kernel'.current = kernel.current
      BY <3>1 DEF Types, Kernel
    <3> QED
      BY <2>1, <3>1, <3>2 DEF Queues, Runner, Resting, Waiting, Findable, InTake, Slept
  <2>2. CASE ~kernel.stopped
    <3>1. PICK A : TickedTo(A) /\ UNCHANGED job /\ (switch => switch')
      BY <1>16, <2>2, Ticked
    <3> DEFINE V == WokenIn(kernel, A)
    <3>2. /\ V \in SUBSET Tasks
          /\ \A u \in V : kernel'.list[u] = "ready" /\ kernel.list[u] \in Timed
      BY <3>1 DEF TickedTo, WokenIn
    <3>3. /\ \A u \in Tasks \ V : \/ kernel'.list[u] = kernel.list[u]
                                  \/ kernel.list[u] \in Timed /\ kernel'.list[u] \in Timed
          /\ \A s \in Semaphores : Elements(kernel'.waiting[s]) = Elements(kernel.waiting[s]) \ V
          /\ \A s \in Semaphores : Once(kernel.waiting[s]) => Once(kernel'.waiting[s])
          /\ kernel'.pending = kernel.pending
          /\ kernel'.stopped = kernel.stopped /\ kernel'.current = kernel.current
      BY <3>1 DEF TickedTo, Passed, Woke, Kept
    <3> HIDE DEF V
    <3>4. Runner'
      <4>1. Idle \in Tasks /\ kernel.list[Idle] = "ready" /\ kernel.current \in Tasks
        BY KernelAssumption DEF Queues, Runner, Types, Kernel
      <4>2. \A u \in Tasks : kernel.list[u] = "ready" => kernel'.list[u] = "ready"
        BY <3>2, <3>3 DEF Timed
      <4> QED
        BY <2>2, <3>1, <3>3, <4>1, <4>2 DEF Queues, Runner
    <3>5. kernel.pending \intersect V = {}
      BY <2>2 DEF Control
    <3>6. /\ \A s \in Semaphores : Once(kernel'.waiting[s])
          /\ \A s \in Semaphores : Elements(kernel'.waiting[s]) \subseteq Elements(kernel.waiting[s]) \ V
          /\ \A s \in Semaphores : Elements(kernel.waiting[s]) \subseteq Elements(kernel'.waiting[s]) \union V
      BY <3>3 DEF Queues, Waiting
    <3> QED
      BY <3>1, <3>2, <3>3, <3>4, <3>5, <3>6, QueuesLighter
  <2> QED
    BY <2>1, <2>2
<1>17. CASE vTaskSwitchContext
  <2>1. /\ UNCHANGED job /\ kernel'.list = kernel.list /\ kernel'.waiting = kernel.waiting
        /\ kernel'.pending = kernel.pending /\ kernel'.stopped = kernel.stopped
        /\ kernel.stopped => kernel'.current = kernel.current
        /\ ~kernel.stopped => kernel'.list[kernel'.current] = "ready"
    BY <1>17, Switched DEF Still
  <2> QED
    BY <2>1 DEF Queues, Runner, Resting, Waiting, Findable, InTake, Slept
<1> QED
  BY <1>1, <1>2, <1>3, <1>4, <1>5, <1>6, <1>7, <1>8, <1>9, <1>10, <1>12, <1>13, <1>14,
     <1>15, <1>16, <1>17, TakenCalmly, StayedCalm DEF Next, TakesCalmly, StaysCalm

-----------------------------------------------------------------------------
(* How long the tasks sleep                                                *)

(* A delay starts.                                                         *)
LEMMA Dozed ==
  ASSUME Types, NEW t \in Tasks, vTaskDelay(t)
  PROVE  /\ job[t].pc = "run" /\ UNCHANGED <<kernel, sem, switch, clock, gives>>
         /\ \A u \in Tasks \ {t} : job'[u] = job[u]
         /\ \E c \in Calls[t] : c.op = "delay" /\ job'[t] = Started(c, "stop")
<1>1. PICK c \in Calls[t] : c.op = "delay" /\ job' = [job EXCEPT ![t] = Started(c, "stop")]
  BY DEF vTaskDelay
<1> DEFINE j == Started(c, "stop")
<1>2. job' = [job EXCEPT ![t] = j]
  BY <1>1
<1> HIDE DEF j
<1>3. job'[t] = j /\ \A u \in Tasks \ {t} : job'[u] = job[u]
  BY <1>2, Went
<1>4. job[t].pc = "run" /\ UNCHANGED <<kernel, sem, switch, clock, gives>>
  BY DEF vTaskDelay, At
<1> QED
  BY <1>1, <1>3, <1>4 DEF j

(* The time is over when the scheduler is resumed.                         *)
LEMMA Lateness ==
  ASSUME Types, Control, NEW t \in Tasks, Late(t)
  PROVE  /\ job[t].pc = "late" /\ job[t] \in Job /\ job[t].call.op = "take"
         /\ job[t].call.sem \in Semaphores
         /\ UNCHANGED <<kernel, sem, switch, clock, gives>>
         /\ \A u \in Tasks \ {t} : job'[u] = job[u]
         /\ \/ /\ sem[job[t].call.sem].count # 0
               /\ job'[t].pc = "take" /\ SameCall(job[t], job'[t])
            \/ /\ sem[job[t].call.sem].count = 0 /\ job[t].inherited
               /\ job'[t].pc = "disinherit" /\ SameCall(job[t], job'[t])
            \/ /\ sem[job[t].call.sem].count = 0 /\ job'[t] = NoJob
<1>1. /\ job[t].pc = "late" /\ job[t].pc \in CallPcs /\ job[t].pc \in TakePcs
      /\ UNCHANGED <<kernel, sem, switch, clock, gives>>
      /\ \/ sem[job[t].call.sem].count # 0 /\ Goto(t, "take")
         \/ sem[job[t].call.sem].count = 0 /\ job[t].inherited /\ Goto(t, "disinherit")
         \/ sem[job[t].call.sem].count = 0 /\ Return(t)
  BY DEF Late, At, CallPcs, TakePcs, prvIsQueueEmpty
<1>2. job[t] \in Job /\ job[t].call.op = "take" /\ job[t].call.sem \in Semaphores
  BY <1>1, JobForms, WaitForms DEF Control
<1> QED
  BY <1>1, <1>2, Went

(* xNextTaskUnblockTime is behind the tick count, and not behind the wake  *)
(* time of a task, but while that task is about to adjust it.              *)
Sleep ==
  /\ kernel.tick <= kernel.next
  /\ \A t \in Tasks :
        /\ kernel.list[t] = "delayed" =>
              kernel.tick < kernel.wake[t] /\ (kernel.next <= kernel.wake[t] \/ job[t].pc = "next")
        /\ kernel.list[t] = "overflow" => kernel.wake[t] < kernel.tick

(* Who goes to sleep has ticks left to wait.                               *)
Eager == {"stop", "lock", "look", "block", "place"}
Patience == \A t \in Tasks : job[t].pc \in Eager => job[t].ticks >= 1

(* No time passes and no task goes to sleep.                               *)
LEMMA SleepKept ==
  ASSUME Types, Types', Sleep, kernel'.tick = kernel.tick, 
         \A t \in Tasks : kernel'.list[t] \in Timed =>
             /\ kernel'.list[t] = kernel.list[t] /\ kernel'.wake[t] = kernel.wake[t]
             /\ job[t].pc = "next" => job'[t].pc = "next",
         kernel'.next = kernel.next \/ Recomputed(kernel')
  PROVE  Sleep'
<1>1. /\ kernel.tick \in Ticks /\ kernel'.next \in Ticks /\ Ticks \subseteq Nat
      /\ kernel.wake \in [Tasks -> Ticks]
  BY TickNumbers DEF Types, Kernel
<1>2. kernel'.tick <= kernel'.next
  <2>1. CASE kernel'.next = kernel.next
    BY <2>1 DEF Sleep
  <2>2. CASE kernel'.next = portMAX_DELAY
    BY <1>1, <2>2 DEF Ticks
  <2>3. CASE \E t \in Tasks : kernel'.list[t] = "delayed" /\ kernel'.next = kernel'.wake[t]
    <3>1. PICK t \in Tasks : kernel'.list[t] = "delayed" /\ kernel'.next = kernel'.wake[t]
      BY <2>3
    <3>2. kernel.list[t] = "delayed" /\ kernel'.wake[t] = kernel.wake[t]
      BY <3>1 DEF Timed
    <3>3. kernel.tick < kernel.wake[t] /\ kernel.wake[t] \in Nat
      BY <1>1, <3>2 DEF Sleep
    <3>4. kernel'.next = kernel.wake[t]
      BY <3>1, <3>2
    <3>5. kernel.tick \in Nat
      BY <1>1
    <3> QED
      BY <3>3, <3>4, <3>5
  <2>4. \/ kernel'.next = kernel.next \/ kernel'.next = portMAX_DELAY
        \/ \E t \in Tasks : kernel'.list[t] = "delayed" /\ kernel'.next = kernel'.wake[t]
    BY DEF Recomputed
  <2> QED
    BY <2>1, <2>2, <2>3, <2>4
<1>3. ASSUME NEW t \in Tasks, kernel'.list[t] = "delayed"
      PROVE  /\ kernel'.tick < kernel'.wake[t]
             /\ kernel'.next <= kernel'.wake[t] \/ job'[t].pc = "next"
  BY <1>3 DEF Sleep, Timed, Recomputed
<1>4. ASSUME NEW t \in Tasks, kernel'.list[t] = "overflow" PROVE kernel'.wake[t] < kernel'.tick
  BY <1>4 DEF Sleep, Timed
<1> QED
  BY <1>2, <1>3, <1>4 DEF Sleep

(* Only the job of t changes.                                              *)
LEMMA PatienceKept ==
  ASSUME Patience, NEW t \in Tasks, \A u \in Tasks \ {t} : job'[u] = job[u],
         job'[t].pc \in Eager => job'[t].ticks >= 1
  PROVE  Patience'
BY DEF Patience

(* A wait that is not over has ticks left.                                 *)
LEMMA TicksLeft ==
  ASSUME Types, NEW j \in Job, j.ticks >= 1, ~TimedOut(j)
  PROVE  xTaskCheckForTimeOut(j).ticks >= 1
<1>1. CASE j.ticks = portMAX_DELAY
  <2>1. xTaskCheckForTimeOut(j) = j
    BY <1>1 DEF xTaskCheckForTimeOut
  <2> QED
    BY <2>1
<1>2. CASE j.ticks # portMAX_DELAY
  <2>1. /\ ~(kernel.overflows # j.laps /\ kernel.tick >= j.entered)
        /\ ~(Elapsed(j) >= j.ticks)
    BY <1>2 DEF TimedOut
  <2>2. j.ticks \in Nat /\ kernel.tick \in Nat /\ j.entered \in Nat
    BY TickNumbers DEF Types, Kernel, Job
  <2>3. Elapsed(j) \in Nat
    <3> DEFINE n == kernel.tick - j.entered
    <3>1. n \in Int /\ TickMod \in Nat \ {0}
      BY <2>2, KernelAssumption
    <3> HIDE DEF n
    <3>2. n % TickMod \in Nat
      BY <3>1
    <3> QED
      BY <3>2 DEF Elapsed, n
  <2>4. Elapsed(j) < j.ticks /\ j.ticks - Elapsed(j) >= 1
    BY <2>1, <2>2, <2>3
  <2> DEFINE n == j.ticks - Elapsed(j)
  <2>5. xTaskCheckForTimeOut(j) = [j EXCEPT !.ticks = n, !.entered = kernel.tick,
                                            !.laps = kernel.overflows]
    BY <1>2, <2>1, <2>4 DEF xTaskCheckForTimeOut
  <2>6. n >= 1
    BY <2>4
  <2> HIDE DEF n
  <2>7. xTaskCheckForTimeOut(j).ticks = n
    BY <2>5 DEF Job
  <2> QED
    BY <2>6, <2>7
<1> QED
  BY <1>1, <1>2

(* Every action keeps Patience.                                            *)
LEMMA PatienceStep ==
  ASSUME Types, Control, Locks, Patience, Next, Types'
  PROVE  Patience'
<1>1. ASSUME NEW t \in Tasks, NEW p \in CallPcs, job[t] \in Job, SameCall(job[t], job'[t]),
             job'[t].pc \in Eager => job[t].pc \in Eager,
             \A u \in Tasks \ {t} : job'[u] = job[u]
      PROVE  Patience'
  BY <1>1, PatienceKept DEF Patience, SameCall
<1>2. ASSUME NEW t \in Tasks, job'[t].pc \notin Eager,
             \A u \in Tasks \ {t} : job'[u] = job[u]
      PROVE  Patience'
  BY <1>2, PatienceKept
<1>3. ASSUME NEW t \in Tasks, TakesCalmly(t) PROVE Patience'
  <2>1. PICK j \in Job : Tried(t, j)
    BY <1>3, TakenCalmly
  <2>2. \A u \in Tasks \ {t} : job'[u] = job[u]
    BY <1>3, TakenCalmly DEF Calm
  <2>3. CASE job'[t] = NoJob
    BY <1>2, <2>2, <2>3 DEF NoJob, Eager
  <2>4. CASE job'[t].pc = "stop" /\ j.ticks # 0 /\ SameCall(j, job'[t])
    <3>1. j.ticks \in Nat
      BY TickNumbers DEF Job
    <3>2. job'[t].ticks >= 1
      BY <2>4, <3>1 DEF SameCall
    <3> QED
      BY <2>2, <3>2, PatienceKept
  <2> QED
    BY <2>1, <2>3, <2>4 DEF Tried
<1>4. ASSUME NEW t \in Tasks, StaysCalm(t) PROVE Patience'
  <2>1. \A u \in Tasks \ {t} : job'[u] = job[u]
    BY <1>4, StayedCalm DEF Calm
  <2>2. CASE AssertionFails(t)
    <3>1. job'[t].pc = "fatal"
      BY <2>2, Went DEF AssertionFails
    <3> QED
      BY <1>2, <2>1, <3>1 DEF Eager
  <2>3. CASE prvLockQueue(t)
    <3>1. /\ job[t] \in Job /\ job[t].pc = "lock"
          /\ job'[t].ticks = xTaskCheckForTimeOut(job[t]).ticks
          /\ job'[t].pc = "unlock" \/ ~TimedOut(job[t])
      BY <2>3, Locked
    <3>2. job[t].ticks >= 1
      BY <3>1 DEF Patience, Eager
    <3> QED
      BY <2>1, <3>1, <3>2, TicksLeft, PatienceKept DEF Eager
  <2>4. CASE Look(t)
    <3>1. job[t].pc = "look" /\ job'[t].ticks = job[t].ticks
      BY <2>4, Looked
    <3> QED
      BY <2>1, <3>1, PatienceKept DEF Patience, Eager
  <2>5. CASE Late(t)
    <3>1. job'[t].pc \in {"take", "disinherit", "run"}
      BY <2>5, Lateness DEF NoJob
    <3> QED
      BY <1>2, <2>1, <3>1 DEF Eager
  <2>6. CASE Disinherit(t) \/ Awake(t)
    <3>1. job'[t].pc = "run"
      BY <2>6, Went DEF Disinherit, Awake
    <3> QED
      BY <1>2, <2>1, <3>1 DEF Eager
  <2>7. CASE vTaskDelay(t)
    <3>1. PICK c \in Calls[t] : c.op = "delay" /\ job'[t] = Started(c, "stop")
      BY <2>7, Dozed
    <3>2. c.ticks \in 1..portMAX_DELAY
      BY <3>1, CallForms
    <3>5. Started(c, "stop").ticks = c.ticks
      BY DEF Started
    <3>4. job'[t].ticks = c.ticks
      BY <3>1, <3>5
    <3>3. job'[t].ticks >= 1
      BY <3>2, <3>4, TickNumbers
    <3> QED
      BY <2>1, <3>3, PatienceKept
  <2> QED
    BY <1>4, <2>2, <2>3, <2>4, <2>5, <2>6, <2>7 DEF StaysCalm
<1>5. ASSUME NEW t \in Tasks, vTaskSuspendAll(t) PROVE Patience'
  <2>1. /\ job[t].pc = "stop" /\ SameCall(job[t], job'[t])
        /\ \A u \in Tasks \ {t} : job'[u] = job[u]
    BY <1>5, Suspended
  <2> QED
    BY <2>1, PatienceKept DEF Patience, Eager, SameCall
<1>6. ASSUME NEW t \in Tasks, \/ vTaskPlaceOnEventList(t) \/ AdjustNext(t) \/ Place(t)
                              \/ prvUnlockQueue(t) \/ Resume(t)
      PROVE  Patience'
  <2>1. CASE vTaskPlaceOnEventList(t)
    BY <1>2, <2>1, Blocked DEF Eager
  <2>2. CASE AdjustNext(t)
    BY <1>2, <2>2, Adjusted DEF Eager
  <2>3. CASE Place(t)
    BY <1>2, <2>3, Placed DEF Eager
  <2>4. CASE prvUnlockQueue(t)
    BY <1>2, <2>4, Opened DEF Eager
  <2>5. CASE Resume(t)
    <3>1. /\ job'[t].pc \in {"late", "asleep", "take"}
          /\ \A u \in Tasks \ {t} : job'[u] = job[u]
      BY <2>5, Restarted
    <3> QED
      BY <1>2, <3>1 DEF Eager
  <2> QED
    BY <1>6, <2>1, <2>2, <2>3, <2>4, <2>5
<1>7. ASSUME UNCHANGED job PROVE Patience'
  BY <1>7 DEF Patience
<1>8. ASSUME NEW t \in Tasks, Give(t) \/ xTaskCreate(t) \/ vTaskDelete(t) PROVE Patience'
  BY <1>7, <1>8, Given, Created, Deleted
<1>9. ASSUME NEW s \in Semaphores, xQueueGiveFromISR(s) PROVE Patience'
  BY <1>7, <1>9, GivenFromISR
<1>10. CASE Reap \/ Tick \/ vTaskSwitchContext
  BY <1>7, <1>10, Reaped, Ticked, Switched
<1>11. CASE IdleSuspend \/ IdleResume
  <2>1. /\ job'[Idle].pc \in {"idle", "run"} /\ Idle \in Tasks
        /\ \A u \in Tasks \ {Idle} : job'[u] = job[u]
    BY <1>11, IdleSuspended, IdleRestarted, KernelAssumption
  <2> QED
    BY <1>2, <2>1 DEF Eager
<1> QED
  BY <1>3, <1>4, <1>5, <1>6, <1>8, <1>9, <1>10, <1>11 DEF Next, TakesCalmly, StaysCalm

(* While nobody is about to adjust xNextTaskUnblockTime, it is not later   *)
(* than a wake time.                                                       *)
LEMMA Slumbers ==
  ASSUME Sleep, Control, \A t \in Tasks : kernel.current = t => job[t].pc # "next"
  PROVE  Slumber(kernel)
BY DEF Sleep, Slumber, Control, StopPcs

(* And the reverse: Slumber is enough for Sleep.                           *)
LEMMA SlumberKept ==
  ASSUME NEW R, Slumber(R), kernel'.tick = R.tick, kernel'.next = R.next,
         kernel'.list = R.list, kernel'.wake = R.wake
  PROVE  Sleep'
BY DEF Slumber, Sleep

(* The task that runs has put itself to sleep for some ticks.              *)
LEMMA SleepPut ==
  ASSUME Types, Types', Sleep, NEW t \in Tasks, kernel.current = t, job[t].ticks \in Ticks,
         job[t].ticks >= 1, job'[t].pc = "next", \A u \in Tasks \ {t} : job'[u] = job[u],
         NEW indefinitely \in BOOLEAN, Put(kernel, kernel', job[t].ticks, indefinitely)
  PROVE  Sleep'
<1>1. /\ kernel.tick \in Nat /\ kernel.tick \in Ticks /\ job[t].ticks \in Nat
      /\ job[t].ticks <= portMAX_DELAY /\ TickMod \in Nat /\ portMAX_DELAY \in Nat
      /\ TickMod = portMAX_DELAY + 1
  <2>1. kernel.tick \in Ticks
    BY DEF Types, Kernel
  <2>2. TickMod \in Nat
    BY KernelAssumption
  <2>3. job[t].ticks \in Nat /\ job[t].ticks <= portMAX_DELAY
    <3> DEFINE n == job[t].ticks
    <3>1. n \in 0..portMAX_DELAY
      BY DEF Ticks
    <3>2. portMAX_DELAY \in Nat
      BY TickNumbers
    <3> HIDE DEF n
    <3>3. n \in Nat /\ n <= portMAX_DELAY
      BY <3>1, <3>2
    <3> QED
      BY <3>3 DEF n
  <2> QED
    BY <2>1, <2>2, <2>3, TickNumbers
<1>2. /\ kernel'.tick = kernel.tick /\ kernel'.next = kernel.next
      /\ \A u \in Tasks \ {t} : kernel'.list[u] = kernel.list[u] /\ kernel'.wake[u] = kernel.wake[u]
      /\ kernel'.list[t] = "delayed" => kernel'.wake[t] = kernel.tick + job[t].ticks
      /\ kernel'.list[t] = "overflow" => kernel'.wake[t] = kernel.tick + job[t].ticks - TickMod
  BY DEF Put
<1>3. ASSUME NEW u \in Tasks
      PROVE  /\ kernel'.list[u] = "delayed" =>
                   /\ kernel'.tick < kernel'.wake[u]
                   /\ kernel'.next <= kernel'.wake[u] \/ job'[u].pc = "next"
             /\ kernel'.list[u] = "overflow" => kernel'.wake[u] < kernel'.tick
  <2>1. CASE u # t
    BY <1>2, <2>1 DEF Sleep
  <2>2. CASE u = t
    <3>1. ASSUME kernel'.list[t] = "delayed" PROVE kernel'.tick < kernel'.wake[t]
      BY <1>1, <1>2, <3>1
    <3>2. ASSUME kernel'.list[t] = "overflow" PROVE kernel'.wake[t] < kernel'.tick
      BY <1>1, <1>2, <3>2
    <3> QED
      BY <2>2, <3>1, <3>2
  <2> QED
    BY <2>1, <2>2
<1> QED
  BY <1>2, <1>3 DEF Sleep

(* Every action keeps Sleep.                                               *)
LEMMA SleepStep ==
  ASSUME Types, Control, Locks, Queues, Patience, Sleep, Next, Types'
  PROVE  Sleep'
<1>1. ASSUME NEW t \in Tasks, Calm(t) PROVE Sleep'
  <2>1. /\ kernel'.tick = kernel.tick /\ kernel'.list = kernel.list
        /\ kernel'.wake = kernel.wake /\ kernel'.next = kernel.next
    BY <1>1 DEF Calm, Unmoved
  <2>2. \A u \in Tasks : job[u].pc = "next" => job'[u].pc = "next"
    BY <1>1 DEF Calm
  <2> QED
    BY <2>1, <2>2, SleepKept
<1>2. ASSUME NEW t \in Tasks, vTaskSuspendAll(t) PROVE Sleep'
  <2>1. /\ kernel'.tick = kernel.tick /\ kernel'.list = kernel.list
        /\ kernel'.wake = kernel.wake /\ kernel'.next = kernel.next
        /\ job[t].pc = "stop" /\ \A u \in Tasks \ {t} : job'[u] = job[u]
    BY <1>2, Suspended DEF Still
  <2> QED
    BY <2>1, SleepKept
<1>3. ASSUME NEW t \in Tasks, vTaskPlaceOnEventList(t) PROVE Sleep'
  <2>1. /\ kernel.current = t /\ job[t] \in Job /\ job[t].pc = "block" /\ job'[t].pc = "next"
        /\ \A u \in Tasks \ {t} : job'[u] = job[u]
        /\ Put(kernel, kernel', job[t].ticks, TRUE)
    BY <1>3, Blocked DEF Running
  <2>2. job[t].ticks \in Ticks /\ job[t].ticks >= 1
    BY <2>1 DEF Job, Patience, Eager
  <2> QED
    BY <2>1, <2>2, SleepPut
<1>4. ASSUME NEW t \in Tasks, AdjustNext(t) PROVE Sleep'
  <2>1. /\ kernel'.tick = kernel.tick /\ kernel'.list = kernel.list
        /\ kernel'.wake = kernel.wake /\ kernel'.next <= kernel.next
        /\ kernel.list[t] = "delayed" => kernel'.next <= kernel.wake[t]
        /\ \/ kernel'.next = kernel.next
           \/ kernel.list[t] = "delayed" /\ kernel'.next = kernel.wake[t]
        /\ \A u \in Tasks \ {t} : job'[u] = job[u]
    BY <1>4, Adjusted DEF Still
  <2>2. /\ kernel.next \in Nat /\ kernel'.next \in Nat /\ kernel.tick \in Nat
        /\ \A u \in Tasks : kernel.wake[u] \in Nat
    BY TickNumbers DEF Types, Kernel
  <2>3. kernel'.tick <= kernel'.next
    BY <2>1, <2>2 DEF Sleep
  <2>4. ASSUME NEW u \in Tasks, kernel.list[u] = "delayed"
        PROVE  kernel.tick < kernel.wake[u] /\ (kernel'.next <= kernel.wake[u] \/ job'[u].pc = "next")
    <3>1. CASE u = t
      BY <2>1, <2>4, <3>1 DEF Sleep
    <3>2. CASE u # t
      <4>1. kernel.tick < kernel.wake[u] /\ (kernel.next <= kernel.wake[u] \/ job[u].pc = "next")
        BY <2>4 DEF Sleep
      <4> QED
        BY <2>1, <2>2, <3>2, <4>1
    <3> QED
      BY <3>1, <3>2
  <2> QED
    BY <2>1, <2>3, <2>4 DEF Sleep
<1>5. ASSUME NEW t \in Tasks, Place(t) PROVE Sleep'
  <2>1. /\ kernel.current = t /\ job[t] \in Job /\ job[t].pc = "place" /\ job'[t].pc = "next"
        /\ \A u \in Tasks \ {t} : job'[u] = job[u]
        /\ Put(kernel, kernel', job[t].ticks, FALSE)
    BY <1>5, Placed DEF Running
  <2>2. job[t].ticks \in Ticks /\ job[t].ticks >= 1
    BY <2>1 DEF Job, Patience, Eager
  <2> QED
    BY <2>1, <2>2, SleepPut
<1>6. ASSUME NEW t \in Tasks, prvUnlockQueue(t) PROVE Sleep'
  <2> DEFINE s == job[t].call.sem
  <2>1. PICK n \in 0..Len(kernel.waiting[s]) : Unlocked(kernel, s, n, kernel')
    BY <1>6, Opened
  <2>2. /\ kernel'.tick = kernel.tick /\ kernel'.list = kernel.list
        /\ kernel'.wake = kernel.wake /\ (kernel'.next = kernel.next \/ Recomputed(kernel'))
    BY <2>1 DEF Unlocked
  <2>3. job[t].pc = "unlock" /\ \A u \in Tasks \ {t} : job'[u] = job[u]
    BY <1>6, Opened
  <2> QED
    BY <2>2, <2>3, SleepKept
<1>7. ASSUME Slumber(kernel), NEW W, Resumed(kernel, kernel', W) PROVE Sleep'
  <2>1. Slumber(kernel')
    BY <1>7 DEF Resumed
  <2> QED
    BY <2>1, SlumberKept
<1>8. ASSUME NEW t \in Tasks, Resume(t) PROVE Sleep'
  <2>1. kernel.current = t /\ job[t].pc = "resume" /\ \E W : Resumed(kernel, kernel', W)
    BY <1>8, Restarted DEF Running
  <2>2. Slumber(kernel)
    BY <2>1, Slumbers
  <2> QED
    BY <1>7, <2>1, <2>2
<1>9. ASSUME UNCHANGED job, NEW K, Unmoved(kernel, K), NEW s \in Semaphores, Removed(K, s, kernel'),
             K.waiting[s] # <<>>
      PROVE  Sleep'
  <2>1. /\ kernel'.tick = kernel.tick /\ kernel'.wake = kernel.wake /\ Recomputed(kernel')
        /\ K.list = kernel.list
    BY <1>9 DEF Removed, Unmoved
  <2>2. \A u \in Tasks : kernel'.list[u] \in Timed => kernel'.list[u] = kernel.list[u]
    <3> DEFINE x == Head(K.waiting[s])
    <3>1. /\ \A u \in Tasks : u # x => kernel'.list[u] = K.list[u]
          /\ kernel'.list[x] = K.list[x] \/ kernel'.list[x] = "ready"
      BY <1>9 DEF Removed
    <3> HIDE DEF x
    <3> QED
      BY <2>1, <3>1 DEF Timed
  <2> QED
    BY <1>9, <2>1, <2>2, SleepKept
<1>10. ASSUME UNCHANGED job, kernel'.tick = kernel.tick, kernel'.wake = kernel.wake,
              kernel'.next = kernel.next,
              \A u \in Tasks : kernel'.list[u] \in Timed => kernel'.list[u] = kernel.list[u]
       PROVE  Sleep'
  BY <1>10, SleepKept
<1>11. ASSUME NEW t \in Tasks, Give(t) PROVE Sleep'
  <2>1. PICK s \in Semaphores : GivenTo(t, s) /\ UNCHANGED job
    BY <1>11, Given
  <2>2. CASE kernel' = Quit(t, s)
    <3>1. Unmoved(kernel, kernel')
      BY <2>1, <2>2 DEF GivenTo
    <3> QED
      BY <1>10, <2>1, <3>1 DEF Unmoved
  <2>3. CASE kernel.waiting[s] # <<>> /\ Removed(Quit(t, s), s, kernel')
    <3> DEFINE K == Quit(t, s)
    <3>1. Unmoved(kernel, K) /\ K.waiting[s] # <<>>
      BY <2>1, <2>3 DEF GivenTo, Unmoved
    <3> HIDE DEF K
    <3>2. Removed(K, s, kernel')
      BY <2>3 DEF K
    <3> QED
      BY <1>9, <2>1, <3>1, <3>2
  <2> QED
    BY <2>1, <2>2, <2>3 DEF GivenTo
<1>12. ASSUME NEW s \in Semaphores, xQueueGiveFromISR(s) PROVE Sleep'
  <2>1. UNCHANGED job /\ Unmoved(kernel, kernel)
    BY <1>12, GivenFromISR DEF Unmoved
  <2>2. CASE kernel' = kernel
    BY <1>10, <2>1, <2>2
  <2>3. CASE kernel.waiting[s] # <<>> /\ Removed(kernel, s, kernel')
    BY <1>9, <2>1, <2>3
  <2> QED
    BY <1>12, <2>2, <2>3, GivenFromISR
<1>13. ASSUME NEW t \in Tasks, xTaskCreate(t) PROVE Sleep'
  <2>1. /\ UNCHANGED job /\ kernel'.tick = kernel.tick /\ kernel'.wake = kernel.wake
        /\ kernel'.next = kernel.next
    BY <1>13, Created DEF Kept
  <2>2. PICK u \in Tasks : /\ kernel'.list[u] = "ready"
                           /\ \A x \in Tasks \ {u} : kernel'.list[x] = kernel.list[x]
    BY <1>13, Created
  <2> QED
    BY <1>10, <2>1, <2>2 DEF Timed
<1>14. ASSUME NEW t \in Tasks, vTaskDelete(t) PROVE Sleep'
  <2>1. /\ UNCHANGED job /\ kernel'.tick = kernel.tick /\ kernel'.wake = kernel.wake
        /\ kernel'.next = kernel.next /\ kernel'.list[t] = "terminated"
        /\ \A x \in Tasks \ {t} : kernel'.list[x] = kernel.list[x]
    BY <1>14, Deleted DEF Kept
  <2> QED
    BY <1>10, <2>1 DEF Timed
<1>15. CASE Reap
  <2>1. /\ UNCHANGED job /\ kernel'.tick = kernel.tick /\ kernel'.wake = kernel.wake
        /\ kernel'.next = kernel.next
    BY <1>15, Reaped DEF Kept
  <2>2. PICK u \in Tasks : /\ kernel'.list[u] = "none"
                           /\ \A x \in Tasks \ {u} : kernel'.list[x] = kernel.list[x]
    BY <1>15, Reaped
  <2> QED
    BY <1>10, <2>1, <2>2 DEF Timed
<1>16. CASE IdleSuspend
  <2>1. /\ kernel'.tick = kernel.tick /\ kernel'.list = kernel.list
        /\ kernel'.wake = kernel.wake /\ kernel'.next = kernel.next
        /\ job[Idle].pc = "run" /\ \A u \in Tasks \ {Idle} : job'[u] = job[u]
    BY <1>16, IdleSuspended DEF Still
  <2> QED
    BY <2>1, SleepKept
<1>17. CASE IdleResume
  <2>1. kernel.current = Idle /\ job[Idle].pc = "idle" /\ \E W : Resumed(kernel, kernel', W)
    BY <1>17, IdleRestarted DEF Running
  <2>2. Slumber(kernel)
    BY <2>1, Slumbers
  <2> QED
    BY <1>7, <2>1, <2>2
<1>18. CASE Tick
  <2>1. CASE kernel.stopped
    <3>1. kernel' = [kernel EXCEPT !.pended = @ + 1] /\ UNCHANGED job
      BY <1>18, <2>1, Ticked
    <3>2. /\ kernel'.tick = kernel.tick /\ kernel'.list = kernel.list
          /\ kernel'.wake = kernel.wake /\ kernel'.next = kernel.next
      BY <3>1 DEF Types, Kernel
    <3> QED
      BY <1>10, <3>1, <3>2
  <2>2. CASE ~kernel.stopped
    <3>1. PICK A : TickedTo(A)
      BY <1>18, <2>2, Ticked
    <3>2. Slumber(kernel)
      <4>1. \A t \in Tasks : job[t].pc # "next"
        BY <2>2 DEF Control, StopPcs
      <4> QED
        BY <4>1, Slumbers
    <3>3. Slumber(A)
      BY <3>1, <3>2 DEF TickedTo, Passed
    <3> QED
      BY <3>1, <3>3, SlumberKept DEF TickedTo
  <2> QED
    BY <2>1, <2>2
<1>19. CASE vTaskSwitchContext
  <2>1. /\ UNCHANGED job /\ kernel'.list = kernel.list /\ kernel'.wake = kernel.wake
        /\ kernel'.tick = kernel.tick /\ kernel'.next = kernel.next
    BY <1>19, Switched DEF Still
  <2> QED
    BY <1>10, <2>1
<1> QED
  BY <1>1, <1>2, <1>3, <1>4, <1>5, <1>6, <1>8, <1>11, <1>12, <1>13, <1>14, <1>15,
     <1>16, <1>17, <1>18, <1>19, TakenCalmly, StayedCalm DEF Next, TakesCalmly, StaysCalm

-----------------------------------------------------------------------------
(* No give is lost                                                         *)

(* t is awake, or will be when the scheduler is resumed, and tries to take *)
(* s before its call ends.                                                 *)
Up(u) == kernel.list[u] = "ready" \/ u \in kernel.pending
OnItsWay(u, s) ==
  InTake(u) /\ job[u].call.sem = s /\ Up(u) /\ job[u].pc # "disinherit"

(* A give that comes before the task is in the waiting list is counted by  *)
(* the lock.                                                               *)
Counted ==
  \A t \in Tasks : job[t].pc = "block" /\ sem[job[t].call.sem].count > 0 =>
                      sem[job[t].call.sem].txLock > 0

(* A semaphore that is available while tasks wait for it is locked with a  *)
(* give counted, or some task is on its way to take it.                    *)
Noticed(s) ==
  sem[s].count > 0 /\ kernel.waiting[s] # <<>> =>
    sem[s].txLock > 0 \/ \E u \in Tasks : OnItsWay(u, s)
Gives == \A s \in Semaphores : Noticed(s)

(* The task that executes is not about to block.                           *)
LEMMA CountedKept ==
  ASSUME Control, NEW t \in Tasks, kernel.current = t,
         \A u \in Tasks \ {t} : job'[u] = job[u], job'[t].pc # "block"
  PROVE  Counted'
<1>1. \A u \in Tasks : job'[u].pc # "block"
  BY DEF Control, StopPcs
<1> QED
  BY <1>1 DEF Counted

(* Every action keeps Counted.                                             *)
LEMMA CountedStep ==
  ASSUME Types, Control, Locks, Counted, Next, Types'
  PROVE  Counted'
<1>1. ASSUME NEW t \in Tasks, TakesCalmly(t) PROVE Counted'
  <2>1. /\ kernel.current = t /\ \A u \in Tasks \ {t} : job'[u] = job[u]
        /\ \E j \in Job : Tried(t, j)
    BY <1>1, TakenCalmly DEF Calm, Running
  <2>2. job'[t].pc # "block"
    BY <2>1 DEF Tried, NoJob
  <2> QED
    BY <2>1, <2>2, CountedKept
<1>2. ASSUME NEW t \in Tasks, StaysCalm(t) PROVE Counted'
  <2>1. kernel.current = t /\ \A u \in Tasks \ {t} : job'[u] = job[u]
    BY <1>2, StayedCalm DEF Calm, Running
  <2>2. CASE Look(t)
    <3>1. /\ job[t].call.sem \in Semaphores /\ job'[t].call = job[t].call /\ sem' = sem
          /\ job'[t].pc = "unlock" \/ sem[job[t].call.sem].count = 0
      BY <2>2, Looked DEF Look
    <3>2. CASE job'[t].pc = "unlock"
      BY <2>1, <3>2, CountedKept
    <3>3. CASE sem[job[t].call.sem].count = 0
      <4>1. ASSUME NEW u \in Tasks, job'[u].pc = "block", sem'[job'[u].call.sem].count > 0
            PROVE  FALSE
        <5>1. u = t
          BY <2>1, <4>1 DEF Control, StopPcs
        <5> QED
          BY <3>1, <3>3, <4>1, <5>1
      <4> QED
        BY <4>1 DEF Counted
    <3> QED
      BY <3>1, <3>2, <3>3
  <2>3. CASE ~Look(t)
    <3>1. job'[t].pc # "block"
      <4>1. CASE AssertionFails(t)
        BY <4>1, Went DEF AssertionFails
      <4>2. CASE prvLockQueue(t)
        BY <4>2, Locked
      <4>3. CASE Late(t)
        <5>1. job'[t].pc \in {"take", "disinherit", "run"}
          BY <4>3, Lateness DEF NoJob
        <5> QED
          BY <5>1
      <4>4. CASE Disinherit(t) \/ Awake(t)
        BY <4>4, Went DEF Disinherit, Awake
      <4>5. CASE vTaskDelay(t)
        <5>1. PICK c \in Calls[t] : job'[t] = Started(c, "stop")
          BY <4>5, Dozed
        <5>2. Started(c, "stop").pc = "stop"
          BY DEF Started
        <5> QED
          BY <5>1, <5>2
      <4> QED
        BY <1>2, <2>3, <4>1, <4>2, <4>3, <4>4, <4>5 DEF StaysCalm
    <3> QED
      BY <2>1, <3>1, CountedKept
  <2> QED
    BY <2>2, <2>3
<1>3. ASSUME NEW t \in Tasks, \/ vTaskSuspendAll(t) \/ vTaskPlaceOnEventList(t) \/ AdjustNext(t)
                              \/ Place(t) \/ prvUnlockQueue(t) \/ Resume(t)
      PROVE  Counted'
  <2>1. CASE vTaskSuspendAll(t)
    <3>1. job'[t].pc \in {"lock", "place"}
      BY <2>1, Suspended
    <3> QED
      BY <2>1, <3>1, Suspended, CountedKept DEF Running
  <2>2. CASE vTaskPlaceOnEventList(t)
    BY <2>2, Blocked, CountedKept DEF Running
  <2>3. CASE AdjustNext(t)
    BY <2>3, Adjusted, CountedKept DEF Running
  <2>4. CASE Place(t)
    BY <2>4, Placed, CountedKept DEF Running
  <2>5. CASE prvUnlockQueue(t)
    BY <2>5, Opened, CountedKept DEF Running
  <2>6. CASE Resume(t)
    <3>1. /\ job'[t].pc \in {"late", "asleep", "take"} /\ kernel.current = t
          /\ \A u \in Tasks \ {t} : job'[u] = job[u]
      BY <2>6, Restarted DEF Running
    <3> QED
      BY <3>1, CountedKept
  <2> QED
    BY <1>3, <2>1, <2>2, <2>3, <2>4, <2>5, <2>6
<1>4. ASSUME UNCHANGED <<sem, job>> PROVE Counted'
  BY <1>4 DEF Counted
<1>5. ASSUME NEW t \in Tasks, Give(t) PROVE Counted'
  <2>1. job[t].pc = "run" /\ UNCHANGED job /\ kernel.current = t
    BY <1>5, Given DEF Running
  <2> QED
    BY <2>1, CountedKept
<1>6. ASSUME NEW t \in Tasks, xTaskCreate(t) \/ vTaskDelete(t) PROVE Counted'
  BY <1>4, <1>6, Created, Deleted
<1>7. ASSUME NEW s \in Semaphores, xQueueGiveFromISR(s) PROVE Counted'
  <2>1. /\ sem'[s].txLock = IF sem[s].txLock = -1 THEN -1 ELSE sem[s].txLock + 1
        /\ \A z \in Semaphores \ {s} : sem'[z] = sem[z]
        /\ UNCHANGED job
    BY <1>7, GivenFromISR
  <2>2. ASSUME NEW u \in Tasks, job[u].pc = "block", sem'[job[u].call.sem].count > 0
        PROVE  sem'[job[u].call.sem].txLock > 0
    <3>1. InTake(u) /\ job[u].call.sem \in Semaphores
      <4>1. job[u].pc \in CallPcs /\ job[u].pc \in TakePcs
        BY <2>2 DEF CallPcs, TakePcs
      <4>2. job[u].call.op = "take"
        BY <4>1 DEF Control
      <4> QED
        BY <4>1, <4>2, JobForms, WaitForms DEF InTake
    <3>2. CASE job[u].call.sem # s
      BY <2>1, <2>2, <3>1, <3>2 DEF Counted
    <3>3. CASE job[u].call.sem = s
      <4>1. Locking(u, s)
        BY <2>2, <3>1, <3>3 DEF Locking
      <4>2. sem[s].txLock # -1 /\ sem[s].txLock >= -1 /\ sem[s].txLock \in Int
        BY <4>1 DEF Locks, Types, Semaphore
      <4> DEFINE n == sem[s].txLock
      <4>3. sem'[s].txLock = n + 1 /\ n # -1 /\ n >= -1 /\ n \in Int
        BY <2>1, <4>2
      <4> HIDE DEF n
      <4>4. n + 1 > 0
        BY <4>3
      <4> QED
        BY <3>3, <4>3, <4>4
    <3> QED
      BY <3>2, <3>3
  <2> QED
    BY <2>1, <2>2 DEF Counted
<1>8. CASE Reap \/ Tick \/ vTaskSwitchContext
  BY <1>4, <1>8, Reaped, Ticked, Switched
<1>9. CASE IdleSuspend \/ IdleResume
  <2>1. /\ job'[Idle].pc \in {"idle", "run"} /\ Idle \in Tasks /\ kernel.current = Idle
        /\ \A u \in Tasks \ {Idle} : job'[u] = job[u]
    BY <1>9, IdleSuspended, IdleRestarted, KernelAssumption DEF Running
  <2>2. job'[Idle].pc # "block"
    BY <2>1
  <2> QED
    BY <2>1, <2>2, CountedKept
<1> QED
  BY <1>1, <1>2, <1>3, <1>5, <1>6, <1>7, <1>8, <1>9 DEF Next, TakesCalmly, StaysCalm

(* A give stays noticed while those on their way stay on it.               *)
LEMMA GivesKept ==
  ASSUME Gives, NEW t \in Tasks, \A u \in Tasks \ {t} : job'[u] = job[u],
         \A u \in Tasks \ {t} : Up(u) => Up(u)',
         NEW s \in Semaphores,
         kernel'.waiting[s] # <<>> => kernel.waiting[s] # <<>>,
         sem'[s].count > 0 => sem[s].count > 0 /\ (sem[s].txLock > 0 => sem'[s].txLock > 0),
         OnItsWay(t, s) /\ sem'[s].count > 0 => OnItsWay(t, s)'
  PROVE  Noticed(s)'
<1> SUFFICES ASSUME sem'[s].count > 0, kernel'.waiting[s] # <<>>, ~(sem'[s].txLock > 0)
             PROVE  \E u \in Tasks : OnItsWay(u, s)'
  BY DEF Noticed
<1>1. PICK u \in Tasks : OnItsWay(u, s)
  BY DEF Gives, Noticed
<1>2. CASE u = t
  BY <1>1, <1>2
<1>3. CASE u # t
  <2>1. job'[u] = job[u] /\ Up(u)'
    BY <1>1, <1>3 DEF OnItsWay
  <2>2. OnItsWay(u, s)'
    BY <1>1, <2>1 DEF OnItsWay, InTake
  <2> QED
    BY <2>2
<1> QED
  BY <1>2, <1>3

(* Who is woken from a waiting list tries to take the semaphore.           *)
LEMMA WokenComes ==
  ASSUME Queues, Control, NEW s \in Semaphores, NEW u \in Elements(kernel.waiting[s]), UNCHANGED job, Up(u)'
  PROVE  OnItsWay(u, s)'
<1>1. u \in Tasks /\ kernel.list[u] \in Asleep /\ InTake(u) /\ job[u].call.sem = s
  BY DEF Queues, Waiting
<1>2. job[u].pc # "disinherit"
  BY <1>1 DEF Queues, Resting, Slept
<1> QED
  BY <1>1, <1>2 DEF OnItsWay, InTake

(* Every action keeps Gives.                                               *)
LEMMA GivesStep ==
  ASSUME Types, Control, Locks, Queues, Counted, Gives, Next, Types'
  PROVE  Gives'
<1>1. ASSUME NEW t \in Tasks, TakesCalmly(t) PROVE Gives'
  <2>1. PICK j \in Job : /\ j.call.op = "take" /\ Tried(t, j) /\ job[t].pc \in {"run", "take"}
                         /\ job[t].pc = "take" => j = job[t]
    BY <1>1, TakenCalmly
  <2>2. /\ \A u \in Tasks \ {t} : job'[u] = job[u]
        /\ kernel'.waiting = kernel.waiting /\ kernel'.list = kernel.list
        /\ kernel'.pending = kernel.pending
    BY <1>1, TakenCalmly DEF Calm, Unmoved
  <2>3. \A u \in Tasks : Up(u) => Up(u)'
    BY <2>2 DEF Up
  <2> SUFFICES ASSUME NEW z \in Semaphores PROVE Noticed(z)'
    BY DEF Gives
  <2>4. \/ sem'[z] = sem[z] \/ sem'[z].count = 0
    BY <2>1 DEF Tried
  <2>5. OnItsWay(t, z) => j = job[t] /\ j.call.sem = z
    BY <2>1 DEF OnItsWay, InTake, CallPcs, TakePcs
  <2>6. ASSUME OnItsWay(t, z), sem'[z].count > 0 PROVE OnItsWay(t, z)'
    <3>1. job'[t].pc = "stop" /\ SameCall(j, job'[t])
      BY <2>1, <2>5, <2>6 DEF Tried
    <3>2. Up(t)'
      BY <2>3, <2>6 DEF OnItsWay
    <3> QED
      BY <2>1, <2>5, <2>6, <3>1, <3>2 DEF OnItsWay, InTake, SameCall, CallPcs
  <2>7. sem'[z].count > 0 => sem[z].count > 0 /\ (sem[z].txLock > 0 => sem'[z].txLock > 0)
    BY <2>4
  <2> QED
    BY <2>2, <2>3, <2>6, <2>7, GivesKept
<1>2. ASSUME NEW t \in Tasks, StaysCalm(t) PROVE Gives'
  <2>1. /\ \A u \in Tasks \ {t} : job'[u] = job[u]
        /\ kernel'.waiting = kernel.waiting /\ kernel'.list = kernel.list
        /\ kernel'.pending = kernel.pending
    BY <1>2, StayedCalm DEF Calm, Unmoved
  <2>2. \A u \in Tasks : Up(u) => Up(u)'
    BY <2>1 DEF Up
  <2> SUFFICES ASSUME NEW z \in Semaphores PROVE Noticed(z)'
    BY DEF Gives
  <2>3. sem'[z].count = sem[z].count /\ (sem[z].txLock > 0 => sem'[z].txLock > 0)
    <3>1. CASE prvLockQueue(t)
      <4>1. /\ \A y \in Semaphores \ {job[t].call.sem} : sem'[y] = sem[y]
            /\ sem'[job[t].call.sem].count = sem[job[t].call.sem].count
            /\ sem'[job[t].call.sem].txLock = IF sem[job[t].call.sem].txLock = -1 THEN 0
                                              ELSE sem[job[t].call.sem].txLock
        BY <3>1, Locked
      <4> QED
        BY <4>1
    <3>2. CASE ~prvLockQueue(t)
      <4>1. sem' = sem
        BY <1>2, <3>2 DEF StaysCalm, AssertionFails, Look, Late, Disinherit, vTaskDelay, Awake
      <4> QED
        BY <4>1
    <3> QED
      BY <3>1, <3>2
  <2>4. ASSUME OnItsWay(t, z), sem'[z].count > 0 PROVE OnItsWay(t, z)'
    <3>1. /\ job[t].pc \in CallPcs /\ job[t].call.op = "take" /\ job[t].call.sem = z /\ Up(t)'
          /\ job[t].pc # "disinherit" /\ sem[z].count # 0 /\ job[t] \in Job
      BY <2>2, <2>3, <2>4, JobForms DEF OnItsWay, InTake
    <3>2. /\ job'[t].pc \in {"fatal", "unlock", "look", "block", "take"} /\ job'[t].call = job[t].call
      <4>1. CASE AssertionFails(t)
        BY <3>1, <4>1, Went DEF AssertionFails, SameCall
      <4>2. CASE prvLockQueue(t)
        <5>1. job'[t].pc \in {"unlock", "look"} /\ job'[t].call = job[t].call
          BY <4>2, Locked
        <5> QED
          BY <5>1
      <4>3. CASE Look(t)
        <5>1. job'[t].pc \in {"unlock", "block"} /\ job'[t].call = job[t].call
          BY <4>3, Looked
        <5> QED
          BY <5>1
      <4>4. CASE Late(t)
        <5>1. job'[t].pc = "take" /\ SameCall(job[t], job'[t])
          BY <3>1, <4>4, Lateness
        <5> QED
          BY <5>1 DEF SameCall
      <4>5. CASE Disinherit(t)
        BY <3>1, <4>5 DEF Disinherit, At
      <4>6. CASE Awake(t)
        <5>1. job[t].call.op = "delay"
          BY <4>6 DEF Awake, At, Control
        <5> QED
          BY <3>1, <5>1
      <4>7. CASE vTaskDelay(t)
        BY <3>1, <4>7, Dozed DEF CallPcs, TakePcs
      <4> QED
        BY <1>2, <4>1, <4>2, <4>3, <4>4, <4>5, <4>6, <4>7 DEF StaysCalm
    <3> QED
      BY <3>1, <3>2 DEF OnItsWay, InTake, CallPcs, TakePcs
  <2> QED
    BY <2>1, <2>2, <2>3, <2>4, GivesKept
<1>3. ASSUME NEW t \in Tasks, \A u \in Tasks \ {t} : job'[u] = job[u], sem' = sem,
             \A u \in Tasks \ {t} : Up(u) => Up(u)',
             \A s \in Semaphores : kernel'.waiting[s] # <<>> => kernel.waiting[s] # <<>>,
             \A s \in Semaphores : OnItsWay(t, s) => OnItsWay(t, s)'
      PROVE  Gives'
  <2> SUFFICES ASSUME NEW z \in Semaphores PROVE Noticed(z)'
    BY DEF Gives
  <2> QED
    BY <1>3, GivesKept
<1>4. ASSUME UNCHANGED <<job, sem>>, \A u \in Tasks : InTake(u) /\ Up(u) => Up(u)',
             \A s \in Semaphores : kernel'.waiting[s] # <<>> => kernel.waiting[s] # <<>>
      PROVE  Gives'
  <2>1. \A u \in Tasks : \A s \in Semaphores : OnItsWay(u, s) => OnItsWay(u, s)'
    BY <1>4 DEF OnItsWay, InTake
  <2> QED
    BY <1>4, <2>1 DEF Gives, Noticed
<1>5. ASSUME NEW t \in Tasks, vTaskSuspendAll(t) \/ AdjustNext(t) PROVE Gives'
  <2>1. /\ \A u \in Tasks \ {t} : job'[u] = job[u]
        /\ kernel'.waiting = kernel.waiting /\ kernel'.list = kernel.list
        /\ kernel'.pending = kernel.pending /\ SameCall(job[t], job'[t])
        /\ sem' = sem
        /\ job'[t].pc \in {"lock", "place", "unlock", "resume"}
    <3>1. CASE vTaskSuspendAll(t)
      <4>1. job'[t].pc \in {"lock", "place"}
        BY <3>1, Suspended
      <4> QED
        BY <3>1, <4>1, Suspended DEF Still
    <3>2. CASE AdjustNext(t)
      <4>1. job'[t].pc \in {"unlock", "resume"}
        BY <3>2, Adjusted
      <4> QED
        BY <3>2, <4>1, Adjusted DEF Still
    <3> QED
      BY <1>5, <3>1, <3>2
  <2>2. \A u \in Tasks : Up(u) => Up(u)'
    BY <2>1 DEF Up
  <2>3. \A s \in Semaphores : OnItsWay(t, s) => OnItsWay(t, s)'
    BY <2>1, <2>2 DEF OnItsWay, InTake, SameCall, CallPcs, TakePcs
  <2> QED
    BY <1>3, <2>1, <2>2, <2>3
<1>6. ASSUME NEW t \in Tasks, vTaskPlaceOnEventList(t) PROVE Gives'
  <2>1. PICK s \in Semaphores : s = job[t].call.sem
    BY <1>6, Blocked
  <2>2. /\ job[t].pc = "block" /\ kernel.current = t
        /\ \A u \in Tasks \ {t} : job'[u] = job[u]
        /\ Put(kernel, kernel', job[t].ticks, TRUE) /\ sem' = sem
        /\ \A z \in Semaphores \ {s} : kernel'.waiting[z] = kernel.waiting[z]
    BY <1>6, <2>1, Blocked DEF Running
  <2>3. \A u \in Tasks \ {t} : Up(u) => Up(u)'
    BY <2>2 DEF Put, Up
  <2>4. Noticed(s)'
    BY <2>1, <2>2 DEF Counted, Noticed
  <2>5. ASSUME NEW z \in Semaphores, z # s PROVE Noticed(z)'
    <3>1. ~OnItsWay(t, z)
      BY <2>1, <2>5 DEF OnItsWay
    <3> QED
      BY <2>2, <2>3, <2>5, <3>1, GivesKept
  <2> QED
    BY <2>4, <2>5 DEF Gives
<1>7. ASSUME NEW t \in Tasks, Place(t) PROVE Gives'
  <2>1. /\ job[t].call.op = "delay" /\ kernel.current = t
        /\ \A u \in Tasks \ {t} : job'[u] = job[u]
        /\ Put(kernel, kernel', job[t].ticks, FALSE) /\ sem' = sem
        /\ kernel'.waiting = kernel.waiting
    BY <1>7, Placed DEF Running
  <2>2. \A u \in Tasks \ {t} : Up(u) => Up(u)'
    BY <2>1 DEF Put, Up
  <2>3. \A s \in Semaphores : ~OnItsWay(t, s)
    BY <2>1 DEF OnItsWay, InTake
  <2> QED
    BY <1>3, <2>1, <2>2, <2>3
<1>8. ASSUME NEW t \in Tasks, prvUnlockQueue(t) PROVE Gives'
  <2>1. PICK s \in Semaphores : s = job[t].call.sem
    BY <1>8, Opened
  <2>2. /\ job[t].pc = "unlock" /\ job[t].call.op = "take" /\ kernel.current = t /\ kernel.stopped
        /\ \A u \in Tasks \ {t} : job'[u] = job[u]
        /\ job'[t].pc = "resume" /\ SameCall(job[t], job'[t])
        /\ \A z \in Semaphores \ {s} : sem'[z] = sem[z]
        /\ sem'[s].count = sem[s].count
    BY <1>8, <2>1, Opened DEF Running
  <2>3. PICK n \in 0..Len(kernel.waiting[s]) :
          Unlocked(kernel, s, n, kernel') /\ (n = 0 <=> sem[s].txLock = 0 \/ Len(kernel.waiting[s]) = 0)
    BY <1>8, <2>1, Opened
  <2>4. PICK U \in SUBSET Elements(kernel.waiting[s]) :
          /\ kernel'.pending = kernel.pending \union U
          /\ n > 0 => U # {}
    BY <2>3 DEF Unlocked
  <2>5. /\ kernel'.list = kernel.list
        /\ \A z \in Semaphores : z # s => kernel'.waiting[z] = kernel.waiting[z]
        /\ Len(kernel'.waiting[s]) = Len(kernel.waiting[s]) - n
    BY <2>3 DEF Unlocked
  <2>6. \A u \in Tasks : Up(u) => Up(u)'
    BY <2>4, <2>5 DEF Up
  <2>7. \A z \in Semaphores, u \in Tasks : OnItsWay(u, z) => OnItsWay(u, z)'
    BY <2>2, <2>6 DEF OnItsWay, InTake, SameCall, CallPcs
  <2>8. ASSUME NEW z \in Semaphores, z # s PROVE Noticed(z)'
    BY <2>2, <2>5, <2>6, <2>7, <2>8, GivesKept
  <2>9. Noticed(s)'
    <3> SUFFICES ASSUME sem[s].count > 0, kernel'.waiting[s] # <<>>
                 PROVE  \E u \in Tasks : OnItsWay(u, s)'
      BY <2>2 DEF Noticed
    <3>1. kernel.waiting[s] \in Seq(Tasks) /\ kernel'.waiting[s] \in Seq(Tasks)
      BY DEF Types, Kernel
    <3>2. Len(kernel'.waiting[s]) # 0 /\ Len(kernel.waiting[s]) # 0
      <4> DEFINE q == kernel.waiting[s]
                 r == kernel'.waiting[s]
      <4>1. Len(r) = Len(q) - n /\ n \in 0..Len(q) /\ r # <<>>
        BY <2>5
      <4>2. q \in Seq(Tasks) /\ r \in Seq(Tasks)
        BY <3>1
      <4> HIDE DEF q, r
      <4>3. Len(r) # 0 /\ Len(q) # 0
        BY <4>1, <4>2
      <4> QED
        BY <4>3 DEF q, r
    <3>3. CASE n = 0
      <4>1. sem[s].txLock = 0 /\ kernel.waiting[s] # <<>>
        BY <2>3, <3>2, <3>3
      <4> QED
        BY <2>7, <4>1 DEF Gives, Noticed
    <3>4. CASE n # 0
      <4>1. PICK u \in U : TRUE
        BY <2>4, <3>4
      <4>2. /\ u \in Tasks /\ kernel.list[u] \in Asleep /\ InTake(u) /\ job[u].call.sem = s
        BY <2>4, <4>1 DEF Queues, Waiting
      <4>3. job[u].pc # "disinherit"
        BY <4>2 DEF Queues, Resting, Slept
      <4>4. Up(u)'
        BY <2>4, <4>1 DEF Up
      <4>5. OnItsWay(u, s)'
        BY <2>2, <4>2, <4>3, <4>4 DEF OnItsWay, InTake, SameCall, CallPcs
      <4> QED
        BY <4>2, <4>5
    <3> QED
      BY <3>3, <3>4
  <2> QED
    BY <2>8, <2>9 DEF Gives
<1>9. ASSUME NEW W, Resumed(kernel, kernel', W)
      PROVE  /\ \A u \in Tasks : Up(u) => Up(u)'
             /\ \A s \in Semaphores : kernel'.waiting[s] # <<>> => kernel.waiting[s] # <<>>
  <2>1. \A u \in Tasks : Up(u) => Up(u)'
    BY <1>9 DEF Resumed, Up, Timed
  <2>2. ASSUME NEW s \in Semaphores, kernel.waiting[s] = <<>> PROVE kernel'.waiting[s] = <<>>
    <3>1. Elements(kernel.waiting[s]) = {}
      BY <2>2 DEF Elements
    <3> QED
      BY <1>9, <2>2, <3>1 DEF Resumed
  <2> QED
    BY <2>1, <2>2
<1>10. ASSUME NEW t \in Tasks, Resume(t) PROVE Gives'
  <2>1. /\ \A u \in Tasks \ {t} : job'[u] = job[u]
        /\ sem' = sem /\ SameCall(job[t], job'[t])
        /\ job[t].call.op = "take" => job'[t].pc \in {"late", "take"}
        /\ \E W : Resumed(kernel, kernel', W)
    <3>1. /\ \A u \in Tasks \ {t} : job'[u] = job[u]
          /\ sem' = sem /\ SameCall(job[t], job'[t]) /\ job[t] \in Job
          /\ \E W : Resumed(kernel, kernel', W)
      BY <1>10, Restarted
    <3>2. job[t].path # "asleep"
      BY <3>1 DEF Job
    <3>3. job[t].call.op = "take" => job'[t].pc \in {"late", "take"}
      BY <1>10, <3>2, Restarted
    <3> QED
      BY <3>1, <3>3
  <2>2. /\ \A u \in Tasks : Up(u) => Up(u)'
        /\ \A s \in Semaphores : kernel'.waiting[s] # <<>> => kernel.waiting[s] # <<>>
    BY <1>9, <2>1
  <2>3. \A s \in Semaphores : OnItsWay(t, s) => OnItsWay(t, s)'
    BY <2>1, <2>2 DEF OnItsWay, InTake, SameCall, CallPcs, TakePcs
  <2> QED
    BY <1>3, <2>1, <2>2, <2>3
<1>11. ASSUME NEW s \in Semaphores, NEW K, Unmoved(kernel, K), kernel.waiting[s] # <<>>,
              Removed(K, s, kernel'), UNCHANGED job,
              \A z \in Semaphores \ {s} : sem'[z] = sem[z]
       PROVE  Gives'
  <2>1. PICK x : x = Head(kernel.waiting[s])
    OBVIOUS
  <2>2. /\ K.waiting = kernel.waiting /\ K.list = kernel.list /\ K.pending = kernel.pending
        /\ K.stopped = kernel.stopped
    BY <1>11 DEF Unmoved
  <2>3. /\ \A u \in Tasks : u # x => kernel'.list[u] = kernel.list[u]
        /\ kernel.stopped => kernel'.pending = kernel.pending \union {x} /\ kernel'.list = kernel.list
        /\ ~kernel.stopped => kernel'.pending = kernel.pending /\ kernel'.list[x] = "ready"
    BY <1>11, <2>1, <2>2 DEF Removed
  <2>4. kernel.waiting \in [Semaphores -> Seq(Tasks)] /\ kernel.waiting[s] \in Seq(Tasks)
    BY DEF Types, Kernel
  <2>5. x \in Elements(kernel.waiting[s]) /\ x \in Tasks
    BY <1>11, <2>1, <2>4, Beheaded
  <2>6. \A u \in Tasks : Up(u) => Up(u)'
    BY <2>3 DEF Up
  <2>7. Up(x)'
    BY <2>3 DEF Up
  <2>8. Noticed(s)'
    <3>1. OnItsWay(x, s)'
      BY <1>11, <2>5, <2>7, WokenComes
    <3> QED
      BY <2>5, <3>1 DEF Noticed
  <2>9. ASSUME NEW z \in Semaphores, z # s PROVE Noticed(z)'
    <3>1. kernel'.waiting[z] = kernel.waiting[z]
      BY <1>11, <2>2, <2>4, <2>9 DEF Removed
    <3>2. \A u \in Tasks : OnItsWay(u, z) => OnItsWay(u, z)'
      BY <1>11, <2>6 DEF OnItsWay, InTake
    <3> QED
      BY <1>11, <2>9, <3>1, <3>2 DEF Gives, Noticed
  <2> QED
    BY <2>8, <2>9 DEF Gives
<1>12. ASSUME NEW s \in Semaphores, UNCHANGED job, kernel'.list = kernel.list,
              kernel'.waiting = kernel.waiting, kernel'.pending = kernel.pending,
              kernel.waiting[s] = <<>> \/ sem'[s].txLock > 0,
              \A z \in Semaphores \ {s} : sem'[z] = sem[z]
       PROVE  Gives'
  <2>1. \A u \in Tasks : \A z \in Semaphores : OnItsWay(u, z) => OnItsWay(u, z)'
    BY <1>12 DEF OnItsWay, InTake, Up
  <2> QED
    BY <1>12, <2>1 DEF Gives, Noticed
<1>13. ASSUME NEW t \in Tasks, Give(t) PROVE Gives'
  <2>1. PICK s \in Semaphores : GivenTo(t, s) /\ UNCHANGED job
    BY <1>13, Given
  <2> DEFINE K == Quit(t, s)
  <2>2. Unmoved(kernel, K) /\ \A z \in Semaphores \ {s} : sem'[z] = sem[z]
    BY <2>1 DEF GivenTo
  <2>3. CASE kernel.waiting[s] = <<>> /\ kernel' = K
    <3>1. /\ kernel'.list = kernel.list /\ kernel'.waiting = kernel.waiting
          /\ kernel'.pending = kernel.pending
      BY <2>2, <2>3 DEF Unmoved
    <3> QED
      BY <1>12, <2>1, <2>2, <2>3, <3>1
  <2>4. CASE kernel.waiting[s] # <<>> /\ Removed(K, s, kernel')
    <3> HIDE DEF K
    <3> QED
      BY <1>11, <2>1, <2>2, <2>4
  <2> QED
    BY <2>1, <2>3, <2>4 DEF GivenTo
<1>14. ASSUME NEW s \in Semaphores, xQueueGiveFromISR(s) PROVE Gives'
  <2>1. UNCHANGED job /\ \A z \in Semaphores \ {s} : sem'[z] = sem[z]
    BY <1>14, GivenFromISR
  <2>2. CASE /\ sem[s].txLock # -1 \/ kernel.waiting[s] = <<>>
             /\ kernel' = kernel
    <3>1. sem[s].txLock # -1 => sem'[s].txLock > 0
      <4> DEFINE n == sem[s].txLock
      <4>1. n \in Int /\ n >= -1 /\ sem'[s].txLock = IF n = -1 THEN -1 ELSE n + 1
        BY <1>14, GivenFromISR DEF Locks, Types, Semaphore
      <4> HIDE DEF n
      <4>2. n # -1 => n + 1 > 0
        BY <4>1
      <4>3. n # -1 => sem'[s].txLock > 0
        BY <4>1, <4>2
      <4> QED
        BY <4>3 DEF n
    <3> QED
      BY <1>12, <2>1, <2>2, <3>1
  <2>3. CASE kernel.waiting[s] # <<>> /\ Removed(kernel, s, kernel')
    <3>1. Unmoved(kernel, kernel)
      BY DEF Unmoved
    <3> QED
      BY <1>11, <2>1, <2>3, <3>1
  <2> QED
    BY <1>14, <2>2, <2>3, GivenFromISR
<1>15. ASSUME NEW t \in Tasks, xTaskCreate(t) PROVE Gives'
  <2>1. UNCHANGED <<job, sem>> /\ kernel'.waiting = kernel.waiting /\ kernel'.pending = kernel.pending
    BY <1>15, Created DEF Kept
  <2>2. PICK u \in Tasks : /\ kernel'.list[u] = "ready"
                           /\ \A x \in Tasks \ {u} : kernel'.list[x] = kernel.list[x]
    BY <1>15, Created
  <2>3. \A x \in Tasks : Up(x) => Up(x)'
    BY <2>1, <2>2 DEF Up
  <2> QED
    BY <1>4, <2>1, <2>3
<1>16. ASSUME NEW t \in Tasks, vTaskDelete(t) PROVE Gives'
  <2>1. /\ UNCHANGED <<job, sem>> /\ kernel'.waiting = kernel.waiting
        /\ kernel'.pending = kernel.pending /\ job[t].pc = "run"
        /\ \A x \in Tasks \ {t} : kernel'.list[x] = kernel.list[x]
    BY <1>16, Deleted DEF Kept
  <2>2. \A x \in Tasks : InTake(x) /\ Up(x) => Up(x)'
    BY <2>1 DEF Up, InTake, CallPcs, TakePcs
  <2> QED
    BY <1>4, <2>1, <2>2
<1>17. CASE Reap
  <2>1. UNCHANGED <<job, sem>> /\ kernel'.waiting = kernel.waiting /\ kernel'.pending = kernel.pending
    BY <1>17, Reaped DEF Kept
  <2>2. PICK u \in Tasks : /\ kernel.list[u] = "terminated"
                           /\ \A x \in Tasks \ {u} : kernel'.list[x] = kernel.list[x]
    BY <1>17, Reaped
  <2>3. \A x \in Tasks : Up(x) => Up(x)'
    BY <2>1, <2>2 DEF Up
  <2> QED
    BY <1>4, <2>1, <2>3
<1>18. CASE IdleSuspend
  <2>1. /\ Idle \in Tasks /\ \A u \in Tasks \ {Idle} : job'[u] = job[u]
        /\ kernel'.waiting = kernel.waiting /\ kernel'.list = kernel.list
        /\ kernel'.pending = kernel.pending /\ sem' = sem /\ job[Idle].pc = "run"
    BY <1>18, IdleSuspended, KernelAssumption DEF Still
  <2>2. \A u \in Tasks : Up(u) => Up(u)'
    BY <2>1 DEF Up
  <2>3. \A s \in Semaphores : ~OnItsWay(Idle, s)
    BY <2>1 DEF OnItsWay, InTake, CallPcs, TakePcs
  <2> QED
    BY <1>3, <2>1, <2>2, <2>3
<1>19. CASE IdleResume
  <2>1. /\ Idle \in Tasks /\ \A u \in Tasks \ {Idle} : job'[u] = job[u]
        /\ sem' = sem /\ job[Idle].pc = "idle" /\ \E W : Resumed(kernel, kernel', W)
    BY <1>19, IdleRestarted, KernelAssumption
  <2>2. /\ \A u \in Tasks : Up(u) => Up(u)'
        /\ \A s \in Semaphores : kernel'.waiting[s] # <<>> => kernel.waiting[s] # <<>>
    BY <1>9, <2>1
  <2>3. \A s \in Semaphores : ~OnItsWay(Idle, s)
    BY <2>1 DEF OnItsWay, InTake, CallPcs, TakePcs
  <2> QED
    BY <1>3, <2>1, <2>2, <2>3
<1>20. CASE Tick
  <2>1. UNCHANGED <<job, sem>>
    BY <1>20, Ticked
  <2>2. CASE kernel.stopped
    <3>1. kernel' = [kernel EXCEPT !.pended = @ + 1]
      BY <1>20, <2>2, Ticked
    <3>2. /\ kernel'.list = kernel.list /\ kernel'.waiting = kernel.waiting
          /\ kernel'.pending = kernel.pending
      BY <3>1 DEF Types, Kernel
    <3> QED
      BY <1>4, <2>1, <3>2 DEF Up
  <2>3. CASE ~kernel.stopped
    <3>1. PICK A : TickedTo(A)
      BY <1>20, <2>3, Ticked
    <3>2. Woke(kernel, A) /\ kernel'.list = A.list /\ kernel'.waiting = A.waiting
          /\ kernel'.pending = kernel.pending
      BY <3>1 DEF TickedTo, Passed, Woke, Kept
    <3>3. \A u \in Tasks : Up(u) => Up(u)'
      BY <3>2 DEF Up, Woke, WokenIn, Timed
    <3>4. ASSUME NEW s \in Semaphores, kernel.waiting[s] = <<>> PROVE kernel'.waiting[s] = <<>>
      <4>1. Elements(kernel.waiting[s]) = {}
        BY <3>4 DEF Elements
      <4> QED
        BY <3>2, <3>4, <4>1 DEF Woke
    <3> QED
      BY <1>4, <2>1, <3>3, <3>4
  <2> QED
    BY <2>2, <2>3
<1>21. CASE vTaskSwitchContext
  <2>1. /\ UNCHANGED <<job, sem>> /\ kernel'.list = kernel.list /\ kernel'.waiting = kernel.waiting
        /\ kernel'.pending = kernel.pending
    BY <1>21, Switched DEF Still
  <2> QED
    BY <1>4, <2>1 DEF Up
<1> QED
  BY <1>1, <1>2, <1>5, <1>6, <1>7, <1>8, <1>10, <1>13, <1>14, <1>15, <1>16, <1>17,
     <1>18, <1>19, <1>20, <1>21 DEF Next, TakesCalmly, StaysCalm

-----------------------------------------------------------------------------
(* No call gives up early                                                  *)

(* The tick at which the time left of the call was last reckoned.          *)
EnteredAt(u) == job[u].laps * TickMod + job[u].entered

(* The call of u knows that its time is over.                              *)
OutOfTime(u) ==
  \/ job[u].ticks = 0
  \/ job[u].pc \in {"late", "disinherit"}
  \/ job[u].pc \in {"unlock", "resume"} /\ job[u].path = "late"

(* The time left is never less than the call has still to wait.            *)
TakeTimely(u) ==
  /\ job[u].call.ticks = portMAX_DELAY <=> job[u].ticks = portMAX_DELAY
  /\ job[u].ticks # 0 => EnteredAt(u) + job[u].ticks >= job[u].since + job[u].call.ticks
  /\ OutOfTime(u) => /\ job[u].call.ticks # portMAX_DELAY
                     /\ NowIn(kernel) >= job[u].since + job[u].call.ticks
DelayTimely(u) ==
  /\ job[u].ticks = job[u].call.ticks
  /\ job[u].pc \in {"next", "resume", "asleep"} =>
        Due(kernel, u, job[u].since + job[u].ticks)
Timely(u) ==
  job[u].pc \in CallPcs =>
    /\ job[u].since <= EnteredAt(u) /\ EnteredAt(u) <= NowIn(kernel)
    /\ InTake(u) => TakeTimely(u)
    /\ InDelay(u) => DelayTimely(u)
Times ==
  /\ clock = NowIn(kernel) + kernel.pended
  /\ \A u \in Tasks : Timely(u)

(* The numbers of the clock and of the jobs, for the arithmetic.           *)
LEMMA TimeNumbers ==
  ASSUME Types
  PROVE  /\ NowIn(kernel) \in Nat /\ kernel.tick \in Nat /\ kernel.tick <= portMAX_DELAY
         /\ kernel.overflows * TickMod \in Nat /\ NowIn(kernel) = kernel.overflows * TickMod + kernel.tick
         /\ kernel.pended \in Nat /\ portMAX_DELAY \in Nat /\ TickMod = portMAX_DELAY + 1
         /\ \A u \in Tasks : job[u] \in Job =>
              /\ EnteredAt(u) \in Nat /\ job[u].laps * TickMod \in Nat
              /\ EnteredAt(u) = job[u].laps * TickMod + job[u].entered
              /\ job[u].entered \in Nat /\ job[u].entered <= portMAX_DELAY
              /\ job[u].ticks \in Nat /\ job[u].ticks <= portMAX_DELAY
              /\ job[u].since \in Nat /\ job[u].call.ticks \in Nat
              /\ job[u].call.ticks <= portMAX_DELAY
<1>1. kernel.tick \in Ticks /\ kernel.overflows \in Nat /\ kernel.pended \in Nat
  BY DEF Types, Kernel
<1>2. portMAX_DELAY \in Nat /\ TickMod = portMAX_DELAY + 1
  BY TickNumbers
<1>3. \A n \in Ticks : n \in Nat /\ n <= portMAX_DELAY
  BY <1>2 DEF Ticks
<1>4. kernel.overflows * TickMod \in Nat
  BY <1>1, Laps
<1>5. ASSUME NEW u \in Tasks, job[u] \in Job
      PROVE  /\ job[u].laps \in Nat /\ job[u].entered \in Ticks /\ job[u].ticks \in Ticks
             /\ job[u].since \in Nat /\ job[u].call.ticks \in Ticks
  BY <1>5, WaitForms, TickNumbers DEF Job
<1>6. ASSUME NEW u \in Tasks, job[u] \in Job
      PROVE  job[u].laps * TickMod \in Nat /\ EnteredAt(u) \in Nat
  <2> DEFINE n == job[u].laps
             x == job[u].entered
  <2>1. n \in Nat /\ x \in Nat
    BY <1>3, <1>5, <1>6
  <2> HIDE DEF n, x
  <2>2. n * TickMod \in Nat
    BY <2>1, Laps
  <2>3. n * TickMod + x \in Nat
    BY <2>1, <2>2
  <2> QED
    BY <2>2, <2>3 DEF EnteredAt, n, x
<1>7. NowIn(kernel) \in Nat
  BY <1>1, <1>3, <1>4 DEF NowIn
<1> QED
  BY <1>1, <1>2, <1>3, <1>4, <1>5, <1>6, <1>7 DEF NowIn, EnteredAt

(* Who reckons with a wrap of the tick count reckons right.                *)
LEMMA LapOrder ==
  ASSUME NEW a \in Nat, NEW b \in Nat, NEW x \in Nat, NEW y \in Nat,
         x <= portMAX_DELAY, y <= portMAX_DELAY, a * TickMod + x <= b * TickMod + y
  PROVE  /\ a = b => x <= y
         /\ a # b => a * TickMod + TickMod <= b * TickMod
<1>1. TickMod \in Nat /\ portMAX_DELAY \in Nat /\ TickMod = portMAX_DELAY + 1
  BY TickNumbers, KernelAssumption
<1>2. a * TickMod \in Nat /\ b * TickMod \in Nat
  BY Laps
<1>3. a = b => x <= y
  BY <1>2
<1>4. CASE b >= a + 1
  <2> DEFINE c == b - (a + 1)
  <2>1. c \in Nat /\ b = c + (a + 1)
    BY <1>4
  <2> HIDE DEF c
  <2>2. b * TickMod = c * TickMod + (a + 1) * TickMod
    BY <1>1, <2>1
  <2>3. c * TickMod \in Nat /\ (a + 1) * TickMod = a * TickMod + TickMod
    BY <2>1, Laps
  <2> QED
    BY <1>1, <1>2, <1>3, <2>2, <2>3
<1>5. CASE a >= b + 1
  <2> DEFINE c == a - (b + 1)
  <2>1. c \in Nat /\ a = c + (b + 1)
    BY <1>5
  <2> HIDE DEF c
  <2>2. a * TickMod = c * TickMod + (b + 1) * TickMod
    BY <1>1, <2>1
  <2>3. c * TickMod \in Nat /\ (b + 1) * TickMod = b * TickMod + TickMod
    BY <2>1, Laps
  <2> QED
    BY <1>1, <1>2, <2>2, <2>3
<1> QED
  BY <1>3, <1>4, <1>5

(* The time xTaskCheckForTimeOut finds elapsed has passed.                 *)
LEMMA Lapsed ==
  ASSUME Types, NEW u \in Tasks, job[u] \in Job, EnteredAt(u) <= NowIn(kernel)
  PROVE  /\ Elapsed(job[u]) \in Nat
         /\ EnteredAt(u) + Elapsed(job[u]) <= NowIn(kernel)
         /\ kernel.overflows # job[u].laps /\ kernel.tick >= job[u].entered =>
               EnteredAt(u) + TickMod <= NowIn(kernel)
<1> DEFINE a == job[u].laps
           b == kernel.overflows
           x == job[u].entered
           y == kernel.tick
           n == (y - x) % TickMod
<1>1. /\ a \in Nat /\ b \in Nat /\ x \in Nat /\ y \in Nat
      /\ x <= portMAX_DELAY /\ y <= portMAX_DELAY
      /\ a * TickMod + x <= b * TickMod + y
      /\ a * TickMod \in Nat /\ b * TickMod \in Nat
  <2>1. a \in Nat /\ b \in Nat
    BY DEF Types, Kernel, Job
  <2> QED
    BY <2>1, TimeNumbers
<1>2. TickMod \in Nat /\ portMAX_DELAY \in Nat /\ TickMod = portMAX_DELAY + 1
  BY TickNumbers, KernelAssumption
<1> HIDE DEF a, b, x, y
<1>3. /\ a = b => x <= y
      /\ a # b => a * TickMod + TickMod <= b * TickMod
  BY <1>1, LapOrder
<1>4. n = IF y - x < 0 THEN y - x + TickMod ELSE y - x
  <2> DEFINE i == y - x
  <2>1. i \in Int /\ i >= -TickMod /\ i < 2 * TickMod /\ i < TickMod
    BY <1>1, <1>2
  <2> HIDE DEF i
  <2>2. i % TickMod = IF i < 0 THEN i + TickMod ELSE i
    BY <1>2, <2>1, Remainder
  <2> QED
    BY <2>2 DEF i
<1> HIDE DEF n
<1> DEFINE A == a * TickMod
           B == b * TickMod
<1>5. /\ A \in Nat /\ B \in Nat /\ A + x <= B + y
      /\ a = b => x <= y /\ A = B
      /\ a # b => A + TickMod <= B
  BY <1>1, <1>3
<1> HIDE DEF A, B
<1>6. n \in Nat /\ A + x + n <= B + y
  BY <1>1, <1>2, <1>4, <1>5
<1>7. b # a /\ y >= x => A + x + TickMod <= B + y
  BY <1>1, <1>2, <1>5
<1>8. Elapsed(job[u]) = n /\ EnteredAt(u) = A + x /\ NowIn(kernel) = B + y
  BY DEF Elapsed, EnteredAt, NowIn, n, A, B, a, b, x, y
<1>9. b = kernel.overflows /\ a = job[u].laps /\ y = kernel.tick /\ x = job[u].entered
  BY DEF a, b, x, y
<1> QED
  BY <1>6, <1>7, <1>8, <1>9

(* The call of u goes on: as much time is left of it, and if it knows now  *)
(* that its time is over, it knew before.                                  *)
LEMMA TimelyOn ==
  ASSUME Types, Types', NEW u \in Tasks, Timely(u),
         job[u].pc \in CallPcs, job'[u].pc \in CallPcs,
         job'[u].call = job[u].call, job'[u].ticks = job[u].ticks,
         job'[u].entered = job[u].entered, job'[u].laps = job[u].laps,
         job'[u].since = job[u].since,
         NowIn(kernel') >= NowIn(kernel),
         InTake(u) /\ OutOfTime(u)' => OutOfTime(u),
         InDelay(u) /\ job'[u].pc \in {"next", "resume", "asleep"} =>
             Due(kernel', u, job[u].since + job[u].ticks)
  PROVE  Timely(u)'
<1>1. /\ job[u] \in Job /\ EnteredAt(u)' = EnteredAt(u)
      /\ InTake(u)' <=> InTake(u)
      /\ InDelay(u)' <=> InDelay(u)
  BY JobForms DEF EnteredAt, InTake, InDelay
<1>2. /\ EnteredAt(u) \in Nat /\ NowIn(kernel) \in Nat /\ job[u].since \in Nat
      /\ job[u].call.ticks \in Nat
  BY <1>1, TimeNumbers
<1>3. NowIn(kernel') \in Nat
  <2>1. kernel'.overflows \in Nat /\ kernel'.tick \in Nat
    BY TickNumbers DEF Types, Kernel
  <2>2. kernel'.overflows * TickMod \in Nat
    BY <2>1, Laps
  <2> QED
    BY <2>1, <2>2 DEF NowIn
<1>4. job'[u].since <= EnteredAt(u)' /\ EnteredAt(u)' <= NowIn(kernel)'
  BY <1>1, <1>2, <1>3 DEF Timely
<1>5. ASSUME InTake(u)' PROVE TakeTimely(u)'
  <2>1. TakeTimely(u)
    BY <1>1, <1>5 DEF Timely
  <2>2. OutOfTime(u)' => /\ job[u].call.ticks # portMAX_DELAY
                         /\ NowIn(kernel') >= job[u].since + job[u].call.ticks
    BY <1>1, <1>2, <1>3, <1>5, <2>1 DEF TakeTimely
  <2>3. /\ job'[u].call.ticks = portMAX_DELAY <=> job'[u].ticks = portMAX_DELAY
        /\ job'[u].ticks # 0 => EnteredAt(u)' + job'[u].ticks >= job'[u].since + job'[u].call.ticks
    BY <1>1, <2>1 DEF TakeTimely
  <2> QED
    BY <2>2, <2>3 DEF TakeTimely
<1>6. ASSUME InDelay(u)' PROVE DelayTimely(u)'
  BY <1>1, <1>6 DEF Timely, DelayTimely
<1> QED
  BY <1>4, <1>5, <1>6 DEF Timely

(* The tasks but for t do not notice the step.                             *)
LEMMA TimesKept ==
  ASSUME Types, Types', Times, NEW t \in Tasks,
         clock' = NowIn(kernel') + kernel'.pended,
         NowIn(kernel') >= NowIn(kernel),
         \A u \in Tasks \ {t} : job'[u] = job[u],
         \A u \in Tasks \ {t} : InDelay(u) =>
             \A x \in Int : Due(kernel, u, x) => Due(kernel', u, x),
         Timely(t)'
  PROVE  Times'
<1>1. ASSUME NEW u \in Tasks, u # t PROVE Timely(u)'
  <2>1. job'[u] = job[u]
    BY <1>1
  <2>2. CASE job[u].pc \notin CallPcs
    BY <2>1, <2>2 DEF Timely
  <2>3. CASE job[u].pc \in CallPcs
    <3>1. InTake(u) /\ OutOfTime(u)' => OutOfTime(u)
      BY <2>1 DEF OutOfTime
    <3>2. InDelay(u) /\ job'[u].pc \in {"next", "resume", "asleep"} =>
             Due(kernel', u, job[u].since + job[u].ticks)
      <4> SUFFICES ASSUME InDelay(u), job'[u].pc \in {"next", "resume", "asleep"}
                   PROVE  Due(kernel', u, job[u].since + job[u].ticks)
        OBVIOUS
      <4>1. Due(kernel, u, job[u].since + job[u].ticks)
        BY <2>1, <2>3 DEF Times, Timely, DelayTimely
      <4>2. job[u].since + job[u].ticks \in Int
        BY <2>3, JobForms, TimeNumbers
      <4> QED
        BY <1>1, <4>1, <4>2
    <3>3. Timely(u)
      BY DEF Times
    <3> QED
      BY <2>1, <2>3, <3>1, <3>2, <3>3, TimelyOn
  <2> QED
    BY <2>2, <2>3
<1> QED
  BY <1>1 DEF Times

(* No time passes, and nobody's sleep is ended.                            *)
LEMMA TimesStay ==
  ASSUME Types, Types', Times, NEW t \in Tasks,
         clock' = clock, kernel'.pended = kernel.pended, kernel'.tick = kernel.tick,
         kernel'.overflows = kernel.overflows,
         \A u \in Tasks \ {t} : job'[u] = job[u],
         \A u \in Tasks \ {t} : InDelay(u) /\ kernel.list[u] \in Timed \union {"ready"} =>
             kernel'.list[u] = kernel.list[u] /\ kernel'.wake[u] = kernel.wake[u],
         Timely(t)'
  PROVE  Times'
<1>1. NowIn(kernel') = NowIn(kernel) /\ NowIn(kernel) \in Nat
  BY TimeNumbers DEF NowIn
<1>2. \A u \in Tasks \ {t} : InDelay(u) => \A x \in Int : Due(kernel, u, x) => Due(kernel', u, x)
  BY <1>1 DEF Due, Timed
<1>3. clock' = NowIn(kernel') + kernel'.pended
  BY <1>1 DEF Times
<1> QED
  BY <1>1, <1>2, <1>3, TimesKept

(* Nothing is asked of a task that is in no call.                          *)
LEMMA Idles ==
  ASSUME NEW t \in Tasks, job'[t].pc \notin CallPcs
  PROVE  Timely(t)'
BY DEF Timely

(* The task that executes goes on with its call and stays in its list.     *)
LEMMA TimelyCalm ==
  ASSUME Types, Types', Times, NEW t \in Tasks,
         kernel'.tick = kernel.tick, kernel'.overflows = kernel.overflows,
         kernel'.list = kernel.list, kernel'.wake = kernel.wake,
         job[t].pc \in CallPcs, job'[t].pc \in CallPcs,
         job'[t].call = job[t].call, job'[t].ticks = job[t].ticks,
         job'[t].entered = job[t].entered, job'[t].laps = job[t].laps,
         job'[t].since = job[t].since,
         InTake(t) /\ OutOfTime(t)' => OutOfTime(t),
         InDelay(t) /\ job'[t].pc \in {"next", "resume", "asleep"} =>
             job[t].pc \in {"next", "resume", "asleep"}
  PROVE  Timely(t)'
<1>1. NowIn(kernel') = NowIn(kernel) /\ NowIn(kernel) \in Nat
  BY TimeNumbers DEF NowIn
<1>2. Timely(t)
  BY DEF Times
<1>3. InDelay(t) /\ job'[t].pc \in {"next", "resume", "asleep"} =>
             Due(kernel', t, job[t].since + job[t].ticks)
  BY <1>1, <1>2 DEF Timely, DelayTimely, Due
<1> QED
  BY <1>1, <1>2, <1>3, TimelyOn

(* A call starts.                                                          *)
LEMMA TimelyStart ==
  ASSUME Types, Types', Times, ~kernel.stopped, Control, NEW t \in Tasks, NEW c \in Calls[t],
         kernel'.tick = kernel.tick, kernel'.overflows = kernel.overflows,
         job'[t].pc = "stop", job'[t].call = c, job'[t].ticks = c.ticks,
         job'[t].entered = kernel.tick, job'[t].laps = kernel.overflows,
         job'[t].since = clock, c.op = "take" => c.ticks # 0
  PROVE  Timely(t)'
<1>1. NowIn(kernel') = NowIn(kernel) /\ NowIn(kernel) \in Nat
  BY TimeNumbers DEF NowIn
<1>2. EnteredAt(t)' = NowIn(kernel) /\ clock = NowIn(kernel)
  BY <1>1 DEF EnteredAt, NowIn, Times, Control
<1>3. ASSUME InTake(t)' PROVE TakeTimely(t)'
  <2>1. c.ticks \in Nat /\ c.ticks # 0
    BY <1>3, CallForms, TickNumbers DEF InTake
  <2>2. ~OutOfTime(t)'
    BY <2>1 DEF OutOfTime
  <2> QED
    BY <1>1, <1>2, <2>1, <2>2 DEF TakeTimely
<1>4. InDelay(t)' => DelayTimely(t)'
  BY DEF DelayTimely
<1> QED
  BY <1>1, <1>2, <1>3, <1>4 DEF Timely

(* Take and TakeAgain keep Times: a call starts with its time, at the      *)
(* clock's.                                                                *)
LEMMA TimesTaken ==
  ASSUME Types, Control, Times, Types', NEW t \in Tasks, TakesCalmly(t)
  PROVE  Times'
<1>1. /\ Calm(t)
      /\ \E j \in Job :
            /\ j.call.op = "take" /\ Tried(t, j)
            /\ job[t].pc \in {"run", "take"}
            /\ job[t].pc = "take" => j = job[t]
            /\ job[t].pc = "run" => j.call \in Calls[t] /\ j = Started(j.call, "take")
  BY TakenCalmly
<1>2. /\ kernel'.tick = kernel.tick /\ kernel'.list = kernel.list
      /\ kernel'.wake = kernel.wake /\ kernel'.overflows = kernel.overflows
      /\ kernel'.pended = kernel.pended /\ clock' = clock /\ Running(t)
      /\ \A u \in Tasks \ {t} : job'[u] = job[u]
  BY <1>1 DEF Calm, Unmoved
<1>3. PICK j \in Job :
            /\ j.call.op = "take" /\ Tried(t, j)
            /\ job[t].pc \in {"run", "take"}
            /\ job[t].pc = "take" => j = job[t]
            /\ job[t].pc = "run" => j.call \in Calls[t] /\ j = Started(j.call, "take")
  BY <1>1
<1>4. Timely(t)'
  <2>1. CASE job'[t] = NoJob
    BY <2>1, Idles DEF NoJob, CallPcs, TakePcs
  <2>2. CASE job'[t].pc = "stop" /\ j.ticks # 0 /\ SameCall(j, job'[t])
    <3>1. CASE job[t].pc = "take"
      <4>1. ~OutOfTime(t)'
        BY <2>2 DEF OutOfTime, SameCall
      <4>2. InTake(t) /\ ~InDelay(t) /\ job[t].pc \in CallPcs /\ job'[t].pc \in CallPcs
        BY <1>3, <2>2, <3>1 DEF InTake, InDelay, CallPcs, TakePcs
      <4> QED
        BY <1>2, <1>3, <2>2, <3>1, <4>1, <4>2, TimelyCalm DEF SameCall
    <3>2. CASE job[t].pc = "run"
      <4>1. PICK c \in Calls[t] : c = j.call /\ j = Started(c, "take") /\ c.op = "take"
        BY <1>3, <3>2
      <4>2. /\ j.ticks = c.ticks /\ j.entered = kernel.tick
            /\ j.laps = kernel.overflows /\ j.since = clock
        <5>1. /\ Started(c, "take").ticks = c.ticks /\ Started(c, "take").entered = kernel.tick
              /\ Started(c, "take").laps = kernel.overflows /\ Started(c, "take").since = clock
          BY DEF Started
        <5> QED
          BY <4>1, <5>1
      <4>3. ~kernel.stopped
        BY <1>2, <3>2 DEF Control, Running, StopPcs
      <4> QED
        BY <1>2, <2>2, <4>1, <4>2, <4>3, TimelyStart DEF SameCall
    <3> QED
      BY <1>3, <3>1, <3>2
  <2> QED
    BY <1>3, <2>1, <2>2 DEF Tried
<1> QED
  BY <1>2, <1>4, TimesStay

(* xTaskCheckForTimeOut                                                    *)
LEMMA TimesLocked ==
  ASSUME Types, Control, Times, Patience, Types', NEW t \in Tasks, prvLockQueue(t)
  PROVE  Timely(t)'
<1>1. /\ job[t] \in Job /\ job[t].pc = "lock" /\ job[t].call.op = "take"
      /\ job'[t] \in Job /\ job'[t].call = job[t].call /\ job'[t].since = job[t].since
      /\ job'[t].ticks = xTaskCheckForTimeOut(job[t]).ticks
      /\ job'[t].entered = xTaskCheckForTimeOut(job[t]).entered
      /\ job'[t].laps = xTaskCheckForTimeOut(job[t]).laps
      /\ \/ TimedOut(job[t]) /\ job'[t].pc = "unlock" /\ job'[t].path = "late"
         \/ ~TimedOut(job[t]) /\ job'[t].pc = "look"
  BY Locked
<1>2. kernel' = kernel
  BY DEF prvLockQueue
<1>3. InTake(t) /\ InTake(t)' /\ ~InDelay(t)' /\ job[t].pc \in CallPcs /\ job'[t].pc \in CallPcs
  BY <1>1 DEF InTake, InDelay, CallPcs, TakePcs
<1>4. job[t].ticks >= 1
  BY <1>1 DEF Patience, Eager
<1> DEFINE T == job[t].ticks
           C == job[t].call.ticks
           S == job[t].since
           E == EnteredAt(t)
           N == NowIn(kernel)
           L == Elapsed(job[t])
           M == portMAX_DELAY
<1>5. /\ T \in Nat /\ T >= 1 /\ T <= M /\ C \in Nat /\ S \in Nat /\ E \in Nat /\ N \in Nat
      /\ M \in Nat /\ TickMod = M + 1
  BY <1>1, <1>4, TimeNumbers
<1>6. /\ S <= E /\ E <= N /\ (C = M <=> T = M) /\ E + T >= S + C
  <2>1. Timely(t) /\ T # 0
    BY <1>5 DEF Times
  <2> QED
    BY <1>3, <2>1 DEF Timely, TakeTimely
<1>7. /\ L \in Nat /\ E + L <= N
      /\ kernel.overflows # job[t].laps /\ kernel.tick >= job[t].entered => E + TickMod <= N
  BY <1>1, <1>6, Lapsed
<1>8. \/ /\ T = M
         /\ xTaskCheckForTimeOut(job[t]) = job[t]
      \/ /\ T # M /\ TimedOut(job[t]) /\ N >= S + C
         /\ \/ xTaskCheckForTimeOut(job[t]) = job[t]
            \/ xTaskCheckForTimeOut(job[t]) = [job[t] EXCEPT !.ticks = 0]
      \/ /\ T # M /\ L < T
         /\ xTaskCheckForTimeOut(job[t]) =
              [job[t] EXCEPT !.ticks = T - L, !.entered = kernel.tick, !.laps = kernel.overflows]
  <2>1. CASE T = M
    BY <2>1 DEF xTaskCheckForTimeOut
  <2>2. CASE T # M /\ kernel.overflows # job[t].laps /\ kernel.tick >= job[t].entered
    <3>1. N >= S + C
      <4>1. E + TickMod <= N
        BY <1>7, <2>2
      <4> HIDE DEF T, C, S, E, N, L, M
      <4> QED
        BY <1>5, <1>6, <4>1
    <3>2. TimedOut(job[t]) /\ xTaskCheckForTimeOut(job[t]) = job[t]
      BY <2>2 DEF TimedOut, xTaskCheckForTimeOut
    <3> QED
      BY <2>2, <3>1, <3>2
  <2>3. CASE T # M /\ ~(kernel.overflows # job[t].laps /\ kernel.tick >= job[t].entered) /\ L >= T
    <3>1. N >= S + C
      <4> HIDE DEF T, C, S, E, N, L, M
      <4> QED
        BY <1>5, <1>6, <1>7, <2>3
    <3>2. ~(L < T)
      <4> HIDE DEF T, L
      <4> QED
        BY <1>5, <1>7, <2>3
    <3>3. TimedOut(job[t])
      BY <2>3 DEF TimedOut
    <3>4. xTaskCheckForTimeOut(job[t]) = [job[t] EXCEPT !.ticks = 0]
      BY <2>3, <3>2 DEF xTaskCheckForTimeOut
    <3> QED
      BY <2>3, <3>1, <3>3, <3>4
  <2>4. CASE T # M /\ ~(kernel.overflows # job[t].laps /\ kernel.tick >= job[t].entered) /\ L < T
    BY <2>4 DEF xTaskCheckForTimeOut
  <2>5. L >= T \/ L < T
    <3> HIDE DEF L, T
    <3> QED
      BY <1>5, <1>7
  <2> QED
    BY <2>1, <2>2, <2>3, <2>4, <2>5
<1>9. job'[t].ticks \in Ticks /\ job'[t].path \in {"", "late", "again", "blocked"}
  BY <1>1 DEF Job
<1>10. CASE T = M /\ xTaskCheckForTimeOut(job[t]) = job[t]
  <2>1. /\ job'[t].pc = "look" /\ job'[t].ticks = T /\ job'[t].entered = job[t].entered
        /\ job'[t].laps = job[t].laps
    BY <1>1, <1>10 DEF TimedOut
  <2>2. ~OutOfTime(t)'
    BY <1>5, <2>1 DEF OutOfTime
  <2>3. ~InDelay(t)
    BY <1>1 DEF InDelay
  <2>4. /\ job'[t].call = job[t].call /\ job'[t].ticks = job[t].ticks
        /\ job'[t].entered = job[t].entered /\ job'[t].laps = job[t].laps
        /\ job'[t].since = job[t].since
    BY <1>1, <2>1
  <2> QED
    BY <1>2, <1>3, <2>2, <2>3, <2>4, TimelyCalm
<1>11. CASE /\ T # M /\ TimedOut(job[t]) /\ N >= S + C
            /\ \/ xTaskCheckForTimeOut(job[t]) = job[t]
               \/ xTaskCheckForTimeOut(job[t]) = [job[t] EXCEPT !.ticks = 0]
  <2>1. /\ job'[t].ticks \in {T, 0} /\ job'[t].entered = job[t].entered
        /\ job'[t].laps = job[t].laps
    <3>1. CASE xTaskCheckForTimeOut(job[t]) = job[t]
      BY <1>1, <3>1
    <3>2. CASE xTaskCheckForTimeOut(job[t]) = [job[t] EXCEPT !.ticks = 0]
      BY <1>1, <3>2 DEF Job
    <3> QED
      BY <1>11, <3>1, <3>2
  <2>2. EnteredAt(t)' = E /\ NowIn(kernel)' = N
    BY <1>2, <2>1 DEF EnteredAt
  <2>3. /\ job'[t].call.ticks = C /\ job'[t].since = S
    BY <1>1
  <2>4. C # M /\ job'[t].ticks # M /\ (job'[t].ticks # 0 => job'[t].ticks = T)
    <3>1. M # 0
      BY TickNumbers
    <3> QED
      BY <1>6, <1>11, <2>1, <3>1
  <2>5. TakeTimely(t)'
    <3>1. job'[t].call.ticks = M <=> job'[t].ticks = M
      BY <2>3, <2>4
    <3>2. job'[t].ticks # 0 => EnteredAt(t)' + job'[t].ticks >= job'[t].since + job'[t].call.ticks
      BY <1>6, <2>2, <2>3, <2>4
    <3>3. job'[t].call.ticks # M /\ NowIn(kernel') >= job'[t].since + job'[t].call.ticks
      BY <1>2, <1>11, <2>3, <2>4
    <3> QED
      BY <3>1, <3>2, <3>3 DEF TakeTimely
  <2> QED
    BY <1>3, <1>6, <2>2, <2>3, <2>5 DEF Timely
<1>12. CASE /\ T # M /\ L < T
            /\ xTaskCheckForTimeOut(job[t]) =
                 [job[t] EXCEPT !.ticks = T - L, !.entered = kernel.tick, !.laps = kernel.overflows]
  <2> DEFINE R == T - L
  <2>1. job'[t].ticks = R /\ job'[t].entered = kernel.tick /\ job'[t].laps = kernel.overflows
    BY <1>1, <1>12 DEF Job
  <2>2. EnteredAt(t)' = N /\ NowIn(kernel)' = N
    BY <1>2, <2>1 DEF EnteredAt, NowIn
  <2>3. job'[t].call.ticks = C /\ job'[t].since = S
    BY <1>1
  <2>4. R # 0 /\ R # M /\ C # M /\ N + R >= S + C /\ S <= N
    <3>1. T # M /\ L < T
      BY <1>12
    <3> HIDE DEF T, C, S, E, N, L, M
    <3> QED
      BY <1>5, <1>6, <1>7, <3>1
  <2>5. job'[t].pc = "look" \/ N >= S + C
    <3>1. CASE ~TimedOut(job[t])
      BY <1>1, <3>1
    <3>2. CASE TimedOut(job[t])
      <4>1. kernel.overflows # job[t].laps /\ kernel.tick >= job[t].entered
        <5>1. ~(L >= T)
          <6>1. L < T
            BY <1>12
          <6> HIDE DEF L, T
          <6> QED
            BY <1>5, <1>7, <6>1
        <5> QED
          BY <3>2, <5>1 DEF TimedOut
      <4>2. E + TickMod <= N
        BY <1>7, <4>1
      <4>3. N >= S + C
        <5> HIDE DEF T, C, S, E, N, L, M
        <5> QED
          BY <1>5, <1>6, <4>2
      <4> QED
        BY <4>3
    <3> QED
      BY <3>1, <3>2
  <2> HIDE DEF R
  <2>6. TakeTimely(t)'
    <3>1. job'[t].call.ticks = M <=> job'[t].ticks = M
      BY <2>1, <2>3, <2>4
    <3>2. EnteredAt(t)' + job'[t].ticks >= job'[t].since + job'[t].call.ticks
      BY <2>1, <2>2, <2>3, <2>4
    <3>3. OutOfTime(t)' => job'[t].call.ticks # M /\ NowIn(kernel') >= job'[t].since + job'[t].call.ticks
      <4>1. job'[t].pc = "look" => ~OutOfTime(t)'
        BY <2>1, <2>4 DEF OutOfTime
      <4> QED
        BY <1>2, <2>3, <2>4, <2>5, <4>1
    <3> QED
      BY <3>1, <3>2, <3>3 DEF TakeTimely
  <2>7. job'[t].since <= EnteredAt(t)' /\ EnteredAt(t)' <= NowIn(kernel)'
    BY <1>5, <2>2, <2>3, <2>4
  <2> QED
    BY <1>3, <2>6, <2>7 DEF Timely
<1> QED
  BY <1>8, <1>10, <1>11, <1>12

(* The other actions of a call that leave the lists alone keep Times.      *)
LEMMA TimesStayed ==
  ASSUME Types, Control, Times, Patience, Types', NEW t \in Tasks, StaysCalm(t)
  PROVE  Times'
<1>1. /\ kernel'.tick = kernel.tick /\ kernel'.list = kernel.list
      /\ kernel'.wake = kernel.wake /\ kernel'.overflows = kernel.overflows
      /\ kernel'.pended = kernel.pended /\ clock' = clock /\ Running(t)
      /\ \A u \in Tasks \ {t} : job'[u] = job[u]
  BY StayedCalm DEF Calm, Unmoved
<1>2. Timely(t)'
  <2>1. ASSUME job[t].pc \in CallPcs, SameCall(job[t], job'[t]), OutOfTime(t), ~InDelay(t),
               job'[t].pc \in CallPcs
        PROVE  Timely(t)'
    <3>1. /\ job'[t].call = job[t].call /\ job'[t].ticks = job[t].ticks
          /\ job'[t].entered = job[t].entered /\ job'[t].laps = job[t].laps
          /\ job'[t].since = job[t].since
      BY <2>1 DEF SameCall
    <3> QED
      BY <1>1, <2>1, <3>1, TimelyCalm
  <2>2. CASE AssertionFails(t)
    <3>1. job[t].pc = "take" /\ job[t].ticks = 0 /\ Goto(t, "fatal")
      BY <2>2 DEF AssertionFails, At
    <3>2. job[t].pc \in CallPcs /\ job[t].pc \in TakePcs
      BY <3>1 DEF CallPcs, TakePcs
    <3>3. ~InDelay(t) /\ OutOfTime(t)
      BY <3>1, <3>2 DEF Control, InDelay, OutOfTime
    <3>4. SameCall(job[t], job'[t]) /\ job'[t].pc = "fatal"
      BY <3>1, <3>2, Went
    <3>5. job'[t].pc \in CallPcs
      BY <3>4 DEF CallPcs, TakePcs
    <3> QED
      BY <2>1, <3>2, <3>3, <3>4, <3>5
  <2>3. CASE prvLockQueue(t)
    BY <2>3, TimesLocked
  <2>4. CASE Look(t)
    <3>1. /\ job[t].pc = "look" /\ job[t].call.op = "take"
          /\ job'[t].call = job[t].call /\ job'[t].ticks = job[t].ticks
          /\ job'[t].entered = job[t].entered /\ job'[t].laps = job[t].laps
          /\ job'[t].since = job[t].since
          /\ \/ job'[t].pc = "block" /\ job'[t].path = "blocked"
             \/ job'[t].pc = "unlock" /\ job'[t].path = "again"
      BY <2>4, Looked
    <3>2. OutOfTime(t)' => OutOfTime(t)
      BY <3>1 DEF OutOfTime
    <3>3. ~InDelay(t) /\ job[t].pc \in CallPcs /\ job'[t].pc \in CallPcs
      BY <3>1 DEF InDelay, CallPcs, TakePcs
    <3> QED
      BY <1>1, <3>1, <3>2, <3>3, TimelyCalm
  <2>5. CASE Late(t)
    <3>1. /\ job[t].pc = "late" /\ job[t].call.op = "take"
          /\ \/ job'[t].pc \in {"take", "disinherit"} /\ SameCall(job[t], job'[t])
             \/ job'[t] = NoJob
      BY <2>5, Lateness
    <3>2. CASE job'[t].pc \in {"take", "disinherit"} /\ SameCall(job[t], job'[t])
      <4>1. /\ OutOfTime(t) /\ ~InDelay(t) /\ job[t].pc \in CallPcs /\ job'[t].pc \in CallPcs
        BY <3>1, <3>2 DEF OutOfTime, InDelay, CallPcs, TakePcs
      <4> QED
        BY <2>1, <3>2, <4>1
    <3>3. CASE job'[t] = NoJob
      BY <3>3, Idles DEF NoJob, CallPcs, TakePcs
    <3> QED
      BY <3>1, <3>2, <3>3
  <2>6. CASE Disinherit(t) \/ Awake(t)
    <3>1. job'[t].pc = "run"
      BY <2>6, Went DEF Disinherit, Awake
    <3> QED
      BY <3>1, Idles DEF CallPcs, TakePcs
  <2>7. CASE vTaskDelay(t)
    <3>1. PICK c \in Calls[t] : c.op = "delay" /\ job'[t] = Started(c, "stop") /\ job[t].pc = "run"
      BY <2>7, Dozed
    <3>2. /\ Started(c, "stop").pc = "stop" /\ Started(c, "stop").call = c
          /\ Started(c, "stop").ticks = c.ticks /\ Started(c, "stop").entered = kernel.tick
          /\ Started(c, "stop").laps = kernel.overflows /\ Started(c, "stop").since = clock
      BY DEF Started
    <3>3. /\ job'[t].pc = "stop" /\ job'[t].call = c
          /\ job'[t].ticks = c.ticks /\ job'[t].entered = kernel.tick
          /\ job'[t].laps = kernel.overflows /\ job'[t].since = clock
      BY <3>1, <3>2
    <3>4. ~kernel.stopped
      BY <1>1, <3>1 DEF Control, Running, StopPcs
    <3> QED
      BY <1>1, <3>1, <3>3, <3>4, TimelyStart
  <2> QED
    BY <2>2, <2>3, <2>4, <2>5, <2>6, <2>7 DEF StaysCalm
<1> QED
  BY <1>1, <1>2, TimesStay

(* Every action keeps Times.                                               *)
LEMMA TimesStep ==
  ASSUME Types, Control, Locks, Queues, Patience, Sleep, Times, Next, Types'
  PROVE  Times'
<1>1. ASSUME NEW t \in Tasks, vTaskSuspendAll(t) \/ AdjustNext(t) PROVE Times'
  <2>1. /\ \A u \in Tasks \ {t} : job'[u] = job[u]
        /\ kernel'.tick = kernel.tick /\ kernel'.list = kernel.list
        /\ kernel'.wake = kernel.wake /\ kernel'.overflows = kernel.overflows
        /\ kernel'.pended = kernel.pended /\ clock' = clock
        /\ SameCall(job[t], job'[t]) /\ job[t].pc \in {"stop", "next"}
        /\ \/ job[t].pc = "stop" /\ job'[t].pc \in {"lock", "place"}
           \/ job[t].pc = "next" /\ job'[t].pc \in {"unlock", "resume"}
    <3>1. CASE vTaskSuspendAll(t)
      <4>1. job'[t].pc \in {"lock", "place"}
        BY <3>1, Suspended
      <4> QED
        BY <3>1, <4>1, Suspended DEF Still
    <3>2. CASE AdjustNext(t)
      <4>1. job'[t].pc \in {"unlock", "resume"}
        BY <3>2, Adjusted
      <4> QED
        BY <3>2, <4>1, Adjusted DEF Still
    <3> QED
      BY <1>1, <3>1, <3>2
  <2>2. job[t].pc \in CallPcs /\ job'[t].pc \in CallPcs
    BY <2>1 DEF CallPcs, TakePcs
  <2>3. InTake(t) /\ OutOfTime(t)' => OutOfTime(t)
    <3>1. InTake(t) /\ job[t].pc = "next" => job[t].path = "blocked"
      BY DEF Control
    <3> QED
      BY <2>1, <3>1 DEF OutOfTime, SameCall
  <2>4. /\ job'[t].call = job[t].call /\ job'[t].ticks = job[t].ticks
        /\ job'[t].entered = job[t].entered /\ job'[t].laps = job[t].laps
        /\ job'[t].since = job[t].since
    BY <2>1 DEF SameCall
  <2>5. job'[t].pc \in {"next", "resume", "asleep"} => job[t].pc \in {"next", "resume", "asleep"}
    BY <2>1
  <2>6. Timely(t)'
    BY <2>1, <2>2, <2>3, <2>4, <2>5, TimelyCalm
  <2> QED
    BY <2>1, <2>6, TimesStay
<1>2. ASSUME NEW t \in Tasks, vTaskPlaceOnEventList(t) PROVE Times'
  <2>1. /\ job[t].pc = "block" /\ job[t].call.op = "take" /\ kernel.current = t
        /\ \A u \in Tasks \ {t} : job'[u] = job[u]
        /\ job'[t].pc = "next"
        /\ job'[t].call = job[t].call /\ job'[t].ticks = job[t].ticks
        /\ job'[t].entered = job[t].entered /\ job'[t].laps = job[t].laps
        /\ job'[t].since = job[t].since
        /\ Put(kernel, kernel', job[t].ticks, TRUE) /\ clock' = clock
    BY <1>2, Blocked DEF Running
  <2>2. /\ kernel'.tick = kernel.tick /\ kernel'.overflows = kernel.overflows
        /\ kernel'.pended = kernel.pended
        /\ \A u \in Tasks \ {t} : kernel'.list[u] = kernel.list[u] /\ kernel'.wake[u] = kernel.wake[u]
    BY <2>1 DEF Put
  <2>3. NowIn(kernel') = NowIn(kernel) /\ NowIn(kernel) \in Nat
    BY <2>2, TimeNumbers DEF NowIn
  <2>4. /\ job[t].pc \in CallPcs /\ job'[t].pc \in CallPcs /\ ~InDelay(t)
        /\ OutOfTime(t)' => OutOfTime(t)
    BY <2>1 DEF CallPcs, TakePcs, InDelay, OutOfTime
  <2>5. Timely(t)
    BY DEF Times
  <2>6. Timely(t)'
    <3>1. NowIn(kernel') >= NowIn(kernel)
      BY <2>3
    <3> QED
      BY <2>1, <2>4, <2>5, <3>1, TimelyOn
  <2> QED
    BY <2>1, <2>2, <2>6, TimesStay
<1>3. ASSUME NEW t \in Tasks, Place(t) PROVE Times'
  <2>1. /\ job[t].pc = "place" /\ job[t].call.op = "delay" /\ kernel.current = t
        /\ \A u \in Tasks \ {t} : job'[u] = job[u]
        /\ job'[t].pc = "next" /\ SameCall(job[t], job'[t]) /\ job[t] \in Job
        /\ Put(kernel, kernel', job[t].ticks, FALSE) /\ clock' = clock
    BY <1>3, Placed DEF Running
  <2>2. /\ kernel'.tick = kernel.tick /\ kernel'.overflows = kernel.overflows
        /\ kernel'.pended = kernel.pended
        /\ \A u \in Tasks \ {t} : kernel'.list[u] = kernel.list[u] /\ kernel'.wake[u] = kernel.wake[u]
        /\ kernel'.list[t] \in Timed
        /\ kernel'.list[t] = "delayed" => kernel'.wake[t] = kernel.tick + job[t].ticks
        /\ kernel'.list[t] = "overflow" => kernel'.wake[t] = kernel.tick + job[t].ticks - TickMod
    BY <2>1 DEF Put, Asleep, Timed
  <2>3. NowIn(kernel') = NowIn(kernel) /\ NowIn(kernel) \in Nat
    BY <2>2, TimeNumbers DEF NowIn
  <2>4. /\ job[t].pc \in CallPcs /\ job'[t].pc \in CallPcs /\ ~InTake(t)
    BY <2>1 DEF CallPcs, TakePcs, InTake
  <2>5. Timely(t)
    BY DEF Times
  <2>6. Due(kernel', t, job[t].since + job[t].ticks)
    <3> DEFINE n == job[t].ticks
               i == job[t].since
               P == kernel.overflows * TickMod
    <3>1. n \in Nat /\ i \in Nat /\ i <= NowIn(kernel)
      <4>1. i <= EnteredAt(t) /\ EnteredAt(t) <= NowIn(kernel)
        BY <2>4, <2>5 DEF Timely
      <4>2. i \in Nat /\ EnteredAt(t) \in Nat /\ n \in Nat
        BY <2>1, TimeNumbers
      <4> HIDE DEF i, n
      <4> QED
        BY <2>3, <4>1, <4>2
    <3>2. P \in Nat /\ kernel.tick \in Nat /\ NowIn(kernel) = P + kernel.tick /\ TickMod \in Nat
      BY TimeNumbers, KernelAssumption
    <3>3. kernel'.overflows * TickMod = P
      BY <2>2
    <3> HIDE DEF n, i, P
    <3>4. P + (kernel.tick + n) >= i + n
      BY <3>1, <3>2
    <3>5. P + TickMod + (kernel.tick + n - TickMod) >= i + n
      BY <3>1, <3>2
    <3>6. CASE kernel'.list[t] = "delayed"
      <4>1. kernel'.wake[t] = kernel.tick + n
        BY <2>2, <3>6 DEF n
      <4>2. kernel'.overflows * TickMod + kernel'.wake[t] >= i + n
        BY <3>3, <3>4, <4>1
      <4> QED
        BY <3>6, <4>2 DEF Due, i, n
    <3>7. CASE kernel'.list[t] = "overflow"
      <4>1. kernel'.wake[t] = kernel.tick + n - TickMod
        BY <2>2, <3>7 DEF n
      <4>2. kernel'.overflows * TickMod + TickMod + kernel'.wake[t] >= i + n
        BY <3>3, <3>5, <4>1
      <4> QED
        BY <3>7, <4>2 DEF Due, i, n
    <3> QED
      BY <2>2, <3>6, <3>7 DEF Timed
  <2>7. Timely(t)'
    <3>1. NowIn(kernel') >= NowIn(kernel)
      BY <2>3
    <3>2. /\ job'[t].call = job[t].call /\ job'[t].ticks = job[t].ticks
          /\ job'[t].entered = job[t].entered /\ job'[t].laps = job[t].laps
          /\ job'[t].since = job[t].since
      BY <2>1 DEF SameCall
    <3> QED
      BY <2>4, <2>5, <2>6, <3>1, <3>2, TimelyOn
  <2> QED
    BY <2>1, <2>2, <2>7, TimesStay
<1>4. ASSUME NEW t \in Tasks, prvUnlockQueue(t) PROVE Times'
  <2>1. /\ job[t].pc = "unlock" /\ \A u \in Tasks \ {t} : job'[u] = job[u]
        /\ job'[t].pc = "resume" /\ SameCall(job[t], job'[t]) /\ clock' = clock
        /\ job[t].call.op = "take"
        /\ \E n \in 0..Len(kernel.waiting[job[t].call.sem]) :
              Unlocked(kernel, job[t].call.sem, n, kernel')
    BY <1>4, Opened
  <2>2. /\ kernel'.tick = kernel.tick /\ kernel'.list = kernel.list
        /\ kernel'.wake = kernel.wake /\ kernel'.overflows = kernel.overflows
        /\ kernel'.pended = kernel.pended
    BY <2>1 DEF Unlocked
  <2>3. /\ job[t].pc \in CallPcs /\ job'[t].pc \in CallPcs /\ ~InDelay(t)
        /\ OutOfTime(t)' => OutOfTime(t)
    BY <2>1 DEF CallPcs, TakePcs, InDelay, OutOfTime, SameCall
  <2>4. /\ job'[t].call = job[t].call /\ job'[t].ticks = job[t].ticks
        /\ job'[t].entered = job[t].entered /\ job'[t].laps = job[t].laps
        /\ job'[t].since = job[t].since
    BY <2>1 DEF SameCall
  <2>5. Timely(t)'
    BY <2>2, <2>3, <2>4, TimelyCalm
  <2> QED
    BY <2>1, <2>2, <2>5, TimesStay
<1>5. ASSUME Slumber(kernel), NEW W, Resumed(kernel, kernel', W), clock' = clock
      PROVE  /\ clock' = NowIn(kernel') + kernel'.pended
             /\ NowIn(kernel') >= NowIn(kernel)
             /\ \A u \in Tasks : InDelay(u) =>
                   \A x \in Int : Due(kernel, u, x) => Due(kernel', u, x)
  <2>1. NowIn(kernel') = NowIn(kernel) + kernel.pended /\ kernel'.pended = 0
    BY <1>5 DEF Resumed
  <2>2. NowIn(kernel) \in Nat /\ kernel.pended \in Nat /\ clock = NowIn(kernel) + kernel.pended
    BY TimeNumbers DEF Times
  <2>3. \A u \in Tasks \ kernel.pending, x \in Int : Due(kernel, u, x) => Due(kernel', u, x)
    BY <1>5 DEF Resumed
  <2>4. \A u \in Tasks : InDelay(u) => u \notin kernel.pending
    BY DEF Queues, Waiting, InDelay, InTake
  <2>5. /\ clock' = NowIn(kernel') + kernel'.pended
        /\ NowIn(kernel') >= NowIn(kernel)
    BY <1>5, <2>1, <2>2
  <2> QED
    BY <2>3, <2>4, <2>5
<1>6. ASSUME NEW t \in Tasks, Resume(t) PROVE Times'
  <2>1. /\ \A u \in Tasks \ {t} : job'[u] = job[u]
        /\ SameCall(job[t], job'[t]) /\ job[t].pc = "resume" /\ kernel.current = t
        /\ job[t] \in Job /\ clock' = clock
        /\ \E W : Resumed(kernel, kernel', W)
    BY <1>6, Restarted DEF Running
  <2>2. job'[t].pc \in {"late", "take", "asleep"} /\ (job'[t].pc = "late" => job[t].path = "late")
    BY <1>6, Restarted
  <2>3. Slumber(kernel)
    BY <2>1, Slumbers
  <2>4. /\ clock' = NowIn(kernel') + kernel'.pended
        /\ NowIn(kernel') >= NowIn(kernel)
        /\ \A u \in Tasks : InDelay(u) =>
              \A x \in Int : Due(kernel, u, x) => Due(kernel', u, x)
    BY <1>5, <2>1, <2>3
  <2>5. Timely(t) /\ job[t].pc \in CallPcs /\ job'[t].pc \in CallPcs
    BY <2>1, <2>2 DEF Times, CallPcs, TakePcs
  <2>6. InTake(t) /\ OutOfTime(t)' => OutOfTime(t)
    BY <2>1, <2>2 DEF OutOfTime, SameCall
  <2>7. InDelay(t) => Due(kernel', t, job[t].since + job[t].ticks)
    <3> SUFFICES ASSUME InDelay(t) PROVE Due(kernel', t, job[t].since + job[t].ticks)
      OBVIOUS
    <3>1. Due(kernel, t, job[t].since + job[t].ticks)
      BY <2>1, <2>5 DEF Timely, DelayTimely
    <3>2. job[t].since + job[t].ticks \in Int
      BY <2>1, TimeNumbers
    <3> QED
      BY <2>4, <3>1, <3>2
  <2>8. /\ job'[t].call = job[t].call /\ job'[t].ticks = job[t].ticks
        /\ job'[t].entered = job[t].entered /\ job'[t].laps = job[t].laps
        /\ job'[t].since = job[t].since
    BY <2>1 DEF SameCall
  <2>9. Timely(t)'
    BY <2>4, <2>5, <2>6, <2>7, <2>8, TimelyOn
  <2> QED
    BY <2>1, <2>4, <2>9, TimesKept
<1>7. Idle \in Tasks /\ job[Idle].pc \notin CallPcs
  BY KernelAssumption DEF Control, CallPcs, TakePcs
<1>8. ASSUME UNCHANGED job, clock' = clock, kernel'.pended = kernel.pended, kernel'.tick = kernel.tick,
             kernel'.overflows = kernel.overflows,
             \A u \in Tasks : InDelay(u) /\ kernel.list[u] \in Timed \union {"ready"} =>
                 kernel'.list[u] = kernel.list[u] /\ kernel'.wake[u] = kernel.wake[u]
      PROVE  Times'
  <2>1. Timely(Idle)'
    BY <1>7, <1>8, Idles
  <2> QED
    BY <1>7, <1>8, <2>1, TimesStay
<1>9. ASSUME NEW s \in Semaphores, NEW K, Unmoved(kernel, K), kernel.waiting[s] # <<>>,
             Removed(K, s, kernel'), UNCHANGED job, clock' = clock
      PROVE  Times'
  <2>1. PICK x : x = Head(kernel.waiting[s])
    OBVIOUS
  <2>2. /\ K.waiting = kernel.waiting /\ K.list = kernel.list /\ K.wake = kernel.wake
        /\ K.tick = kernel.tick /\ K.overflows = kernel.overflows /\ K.pended = kernel.pended
    BY <1>9 DEF Unmoved
  <2>3. /\ \A u \in Tasks : u # x => kernel'.list[u] = kernel.list[u]
        /\ kernel'.wake = kernel.wake /\ kernel'.tick = kernel.tick
        /\ kernel'.overflows = kernel.overflows /\ kernel'.pended = kernel.pended
    BY <1>9, <2>1, <2>2 DEF Removed
  <2>4. kernel.waiting[s] \in Seq(Tasks)
    BY DEF Types, Kernel
  <2>5. x \in Elements(kernel.waiting[s])
    BY <1>9, <2>1, <2>4, Beheaded
  <2>6. ~InDelay(x)
    BY <2>5 DEF Queues, Waiting, InTake, InDelay
  <2> QED
    BY <1>8, <1>9, <2>3, <2>6
<1>10. ASSUME NEW t \in Tasks, Give(t) PROVE Times'
  <2>1. PICK s \in Semaphores : GivenTo(t, s)
    BY <1>10, Given
  <2> DEFINE K == Quit(t, s)
  <2>2. Unmoved(kernel, K) /\ UNCHANGED job /\ clock' = clock
    BY <1>10, <2>1, Given DEF GivenTo
  <2>3. CASE kernel' = K
    <3>1. /\ kernel'.list = kernel.list /\ kernel'.wake = kernel.wake /\ kernel'.tick = kernel.tick
          /\ kernel'.overflows = kernel.overflows /\ kernel'.pended = kernel.pended
      BY <2>2, <2>3 DEF Unmoved
    <3> QED
      BY <1>8, <2>2, <3>1
  <2>4. CASE kernel.waiting[s] # <<>> /\ Removed(K, s, kernel')
    <3> HIDE DEF K
    <3> QED
      BY <1>9, <2>2, <2>4
  <2> QED
    BY <2>1, <2>3, <2>4 DEF GivenTo
<1>11. ASSUME NEW s \in Semaphores, xQueueGiveFromISR(s) PROVE Times'
  <2>1. UNCHANGED <<job, clock>> /\ Unmoved(kernel, kernel)
    BY <1>11, GivenFromISR DEF Unmoved
  <2>2. CASE kernel' = kernel
    BY <1>8, <2>1, <2>2
  <2>3. CASE kernel.waiting[s] # <<>> /\ Removed(kernel, s, kernel')
    BY <1>9, <2>1, <2>3
  <2> QED
    BY <1>11, <2>2, <2>3, GivenFromISR
<1>12. ASSUME NEW t \in Tasks, xTaskCreate(t) PROVE Times'
  <2>1. /\ UNCHANGED <<job, clock>> /\ kernel'.wake = kernel.wake /\ kernel'.tick = kernel.tick
        /\ kernel'.overflows = kernel.overflows /\ kernel'.pended = kernel.pended
    BY <1>12, Created DEF Kept
  <2>2. PICK u \in Tasks : /\ kernel.list[u] = "none"
                           /\ \A x \in Tasks \ {u} : kernel'.list[x] = kernel.list[x]
    BY <1>12, Created
  <2> QED
    BY <1>8, <2>1, <2>2 DEF Timed
<1>13. ASSUME NEW t \in Tasks, vTaskDelete(t) PROVE Times'
  <2>1. /\ UNCHANGED <<job, clock>> /\ kernel'.wake = kernel.wake /\ kernel'.tick = kernel.tick
        /\ kernel'.overflows = kernel.overflows /\ kernel'.pended = kernel.pended
        /\ job[t].pc = "run" /\ \A x \in Tasks \ {t} : kernel'.list[x] = kernel.list[x]
    BY <1>13, Deleted DEF Kept
  <2>2. ~InDelay(t)
    BY <2>1 DEF InDelay, CallPcs, TakePcs
  <2> QED
    BY <1>8, <2>1, <2>2
<1>14. CASE Reap
  <2>1. /\ UNCHANGED <<job, clock>> /\ kernel'.wake = kernel.wake /\ kernel'.tick = kernel.tick
        /\ kernel'.overflows = kernel.overflows /\ kernel'.pended = kernel.pended
    BY <1>14, Reaped DEF Kept
  <2>2. PICK u \in Tasks : /\ kernel.list[u] = "terminated"
                           /\ \A x \in Tasks \ {u} : kernel'.list[x] = kernel.list[x]
    BY <1>14, Reaped
  <2> QED
    BY <1>8, <2>1, <2>2 DEF Timed
<1>15. CASE IdleSuspend
  <2>1. /\ \A u \in Tasks \ {Idle} : job'[u] = job[u]
        /\ kernel'.wake = kernel.wake /\ kernel'.list = kernel.list /\ kernel'.tick = kernel.tick
        /\ kernel'.overflows = kernel.overflows /\ kernel'.pended = kernel.pended
        /\ clock' = clock /\ job'[Idle].pc = "idle"
    BY <1>15, IdleSuspended DEF Still
  <2>2. Timely(Idle)'
    BY <1>7, <2>1, Idles DEF CallPcs, TakePcs
  <2> QED
    BY <1>7, <2>1, <2>2, TimesStay
<1>16. CASE IdleResume
  <2>1. /\ \A u \in Tasks \ {Idle} : job'[u] = job[u]
        /\ \E W : Resumed(kernel, kernel', W)
        /\ clock' = clock /\ job'[Idle].pc = "run" /\ job[Idle].pc = "idle" /\ kernel.current = Idle
    BY <1>16, IdleRestarted DEF Running
  <2>2. Timely(Idle)'
    BY <1>7, <2>1, Idles DEF CallPcs, TakePcs
  <2>3. Slumber(kernel)
    BY <2>1, Slumbers
  <2>4. /\ clock' = NowIn(kernel') + kernel'.pended
        /\ NowIn(kernel') >= NowIn(kernel)
        /\ \A u \in Tasks : InDelay(u) =>
              \A x \in Int : Due(kernel, u, x) => Due(kernel', u, x)
    BY <1>5, <2>1, <2>3
  <2> QED
    BY <1>7, <2>1, <2>2, <2>4, TimesKept
<1>17. CASE Tick
  <2>1. clock' = clock + 1 /\ UNCHANGED job
    BY <1>17, Ticked
  <2>2. Timely(Idle)'
    BY <1>7, <2>1, Idles
  <2>3. NowIn(kernel) \in Nat /\ kernel.pended \in Nat /\ clock = NowIn(kernel) + kernel.pended
    BY TimeNumbers DEF Times
  <2>4. CASE kernel.stopped
    <3>1. kernel' = [kernel EXCEPT !.pended = @ + 1]
      BY <1>17, <2>4, Ticked
    <3>2. /\ kernel'.list = kernel.list /\ kernel'.wake = kernel.wake /\ kernel'.tick = kernel.tick
          /\ kernel'.overflows = kernel.overflows /\ kernel'.pended = kernel.pended + 1
      BY <3>1 DEF Types, Kernel
    <3>3. NowIn(kernel') = NowIn(kernel)
      BY <3>2 DEF NowIn
    <3>4. \A u \in Tasks : \A x \in Int : Due(kernel, u, x) => Due(kernel', u, x)
      BY <3>2, <3>3 DEF Due
    <3>5. clock' = NowIn(kernel') + kernel'.pended /\ NowIn(kernel') >= NowIn(kernel)
      BY <2>1, <2>3, <3>2, <3>3
    <3> QED
      BY <1>7, <2>1, <2>2, <3>4, <3>5, TimesKept
  <2>5. CASE ~kernel.stopped
    <3>1. PICK A : TickedTo(A)
      BY <1>17, <2>5, Ticked
    <3>2. Slumber(kernel)
      <4>1. \A t \in Tasks : job[t].pc # "next"
        BY <2>5 DEF Control, StopPcs
      <4> QED
        BY <4>1, Slumbers
    <3>3. /\ NowIn(A) = NowIn(kernel) + 1 /\ A.pended = kernel.pended
          /\ \A u \in Tasks, x \in Int : Due(kernel, u, x) => Due(A, u, x)
      BY <3>1, <3>2 DEF TickedTo, Passed, Woke, Kept
    <3>4. /\ kernel'.list = A.list /\ kernel'.wake = A.wake /\ kernel'.tick = A.tick
          /\ kernel'.overflows = A.overflows /\ kernel'.pended = A.pended
      BY <3>1 DEF TickedTo
    <3>5. NowIn(kernel') = NowIn(A)
      BY <3>4 DEF NowIn
    <3>6. \A u \in Tasks, x \in Int : Due(A, u, x) => Due(kernel', u, x)
      BY <3>4, <3>5 DEF Due
    <3>7. clock' = NowIn(kernel') + kernel'.pended /\ NowIn(kernel') >= NowIn(kernel)
      BY <2>1, <2>3, <3>3, <3>4, <3>5
    <3> QED
      BY <1>7, <2>1, <2>2, <3>3, <3>6, <3>7, TimesKept
  <2> QED
    BY <2>4, <2>5
<1>18. CASE vTaskSwitchContext
  <2>1. /\ UNCHANGED <<job, clock>> /\ kernel'.list = kernel.list /\ kernel'.wake = kernel.wake
        /\ kernel'.tick = kernel.tick /\ kernel'.overflows = kernel.overflows
        /\ kernel'.pended = kernel.pended
    BY <1>18, Switched DEF Still
  <2> QED
    BY <1>8, <2>1
<1> QED
  BY <1>1, <1>2, <1>3, <1>4, <1>6, <1>10, <1>11, <1>12, <1>13, <1>14, <1>15,
     <1>16, <1>17, <1>18, TimesTaken, TimesStayed DEF Next, TakesCalmly, StaysCalm

-----------------------------------------------------------------------------
(* The inductive invariant and what follows from it                        *)

(* The inductive invariant.  The step of a part uses the parts before it.  *)
Bookkeeping ==
  /\ Types /\ Control /\ Locks /\ Queues
  /\ Patience /\ Sleep /\ Counted /\ Gives /\ Times

(* The scheduler starts with the main task ready and the idle task ready,  *)
(* all semaphores unlocked and nobody in a call.                           *)
LEMMA InitTypes ==
  ASSUME Init
  PROVE  Types
<1>1. kernel = NewKernel(Main) /\ switch = FALSE /\ clock = 0 /\ gives = 0
  BY DEF Init
<1>2. Idle \in Tasks /\ Main \in Tasks /\ BasePriority \in [Tasks -> Nat]
      /\ BasePriority[Idle] = 0
  BY KernelAssumption
<1>3. kernel \in Kernel
  <2>1. portMAX_DELAY \in Ticks /\ 0 \in Ticks
    BY TickNumbers
  <2>2. [t \in Tasks |-> IF t \in {Main, Idle} THEN "ready" ELSE "none"] \in [Tasks -> Lists]
    BY DEF Lists
  <2>3. [t \in Tasks |-> IF t = Main THEN BasePriority[t] ELSE 0] \in [Tasks -> Nat]
    BY <1>2
  <2>4. [t \in Tasks |-> 0] \in [Tasks -> Ticks] /\ [t \in Tasks |-> 0] \in [Tasks -> Int]
    BY <2>1
  <2>5. [s \in Semaphores |-> <<>>] \in [Semaphores -> Seq(Tasks)]
    OBVIOUS
  <2>6. BasePriority[Main] \in Nat
    BY <1>2
  <2> QED
    BY <1>1, <1>2, <2>1, <2>2, <2>3, <2>4, <2>5, <2>6 DEF NewKernel, Kernel
<1>4. Filed(kernel)
  <2>1. /\ kernel.list = [t \in Tasks |-> IF t \in {Main, Idle} THEN "ready" ELSE "none"]
        /\ kernel.level = [t \in Tasks |-> IF t = Main THEN BasePriority[t] ELSE 0]
        /\ kernel.prio = BasePriority /\ kernel.top = BasePriority[Main]
    BY <1>1 DEF NewKernel
  <2>2. BasePriority[Main] \in Nat
    BY <1>2
  <2>3. BasePriority[Main] <= BasePriority[Main] /\ 0 <= BasePriority[Main]
    BY <2>2
  <2>4. ASSUME NEW t \in Tasks, kernel.list[t] = "ready"
        PROVE  kernel.level[t] = kernel.prio[t] /\ kernel.prio[t] <= kernel.top
    <3>1. t = Main \/ t = Idle
      BY <2>1, <2>4
    <3> QED
      BY <1>2, <2>1, <2>3, <3>1
  <2> QED
    BY <2>4 DEF Filed
<1>5. sem \in [Semaphores -> Semaphore]
  BY DEF Init, NewSemaphore, Semaphore
<1>6. job \in [Tasks -> Job \union {NoJob, IdleJob}]
  BY DEF Init
<1> QED
  BY <1>1, <1>3, <1>4, <1>5, <1>6 DEF Types

(* The invariant holds when vTaskStartScheduler has started the first      *)
(* task.                                                                   *)
LEMMA InitBookkeeping ==
  ASSUME Init
  PROVE  Bookkeeping
<1>1. Types
  BY InitTypes
<1>2. /\ kernel.current = Main /\ kernel.waiting = [s \in Semaphores |-> <<>>]
      /\ kernel.list = [t \in Tasks |-> IF t \in {Main, Idle} THEN "ready" ELSE "none"]
      /\ kernel.pending = {} /\ kernel.tick = 0 /\ kernel.overflows = 0
      /\ kernel.next = portMAX_DELAY /\ kernel.stopped = FALSE /\ kernel.pended = 0
      /\ clock = 0
  BY DEF Init, NewKernel
<1>3. /\ \A t \in Tasks : job[t].pc = "run" /\ kernel.list[t] \in {"ready", "none"}
      /\ Idle \in Tasks /\ Main \in Tasks
      /\ \A s \in Semaphores : kernel.waiting[s] = <<>> /\ sem[s].txLock = -1
  BY <1>2, KernelAssumption DEF Init, NoJob, NewSemaphore
<1>4. \A t \in Tasks : job[t].pc \notin CallPcs /\ job[t].pc \notin StopPcs
                       /\ job[t].pc \notin TakePcs
  BY <1>3 DEF CallPcs, TakePcs, StopPcs
<1>5. Control
  <2>1. job[Idle].pc \in {"run", "idle"}
    BY <1>3
  <2>2. \A t \in Tasks : job[t].pc # "idle" /\ job[t].pc \notin {"place", "asleep"}
                         /\ ~InTake(t)
    BY <1>3, <1>4 DEF InTake
  <2> QED
    BY <1>2, <1>4, <2>1, <2>2 DEF Control
<1>6. Locks
  BY <1>3, <1>4 DEF Locks, Locking, InTake
<1>7. Queues
  <2>1. Runner
    BY <1>2, <1>3 DEF Runner
  <2>2. Resting
    BY <1>3 DEF Resting, Asleep
  <2>3. Waiting
    <3>1. \A s \in Semaphores : Len(kernel.waiting[s]) = 0
      BY <1>3
    <3>2. \A s \in Semaphores : 1..Len(kernel.waiting[s]) = {}
      BY <3>1
    <3> QED
      BY <1>2, <3>2 DEF Waiting, Once, Elements
  <2>4. Findable
    BY <1>3 DEF Findable
  <2> QED
    BY <2>1, <2>2, <2>3, <2>4 DEF Queues
<1>8. Patience
  BY <1>3 DEF Patience, Eager
<1>9. Sleep
  <2>1. kernel.tick <= kernel.next
    BY <1>2, TickNumbers
  <2> QED
    BY <1>3, <2>1 DEF Sleep
<1>10. Counted /\ Gives
  BY <1>3 DEF Counted, Gives, Noticed
<1>11. Times
  <2>1. clock = NowIn(kernel) + kernel.pended
    <3>1. 0 * TickMod + 0 + 0 = 0
      BY KernelAssumption
    <3> QED
      BY <1>2, <3>1 DEF NowIn
  <2> QED
    BY <1>4, <2>1 DEF Times, Timely
<1> QED
  BY <1>1, <1>5, <1>6, <1>7, <1>8, <1>9, <1>10, <1>11 DEF Bookkeeping

(* A step that changes nothing keeps the invariant.                        *)
LEMMA BookkeepingStutters ==
  ASSUME Bookkeeping, UNCHANGED vars
  PROVE  Bookkeeping'
<1>1. /\ kernel' = kernel /\ sem' = sem /\ switch' = switch /\ job' = job
      /\ clock' = clock /\ gives' = gives
  BY DEF vars
<1>2. Types' /\ Control' /\ Locks'
  BY <1>1 DEF Bookkeeping, Types, Control, Locks, Locking, InTake
<1>3. Runner'
  BY <1>1 DEF Bookkeeping, Queues, Runner, Slept
<1>4. Resting'
  BY <1>1 DEF Bookkeeping, Queues, Resting, Slept
<1>5. Waiting' /\ Findable'
  BY <1>1 DEF Bookkeeping, Queues, Waiting, Findable, InTake
<1>6. Patience' /\ Sleep'
  BY <1>1 DEF Bookkeeping, Patience, Sleep
<1>7. Counted' /\ Gives'
  BY <1>1 DEF Bookkeeping, Counted, Gives, Noticed, OnItsWay, Up, InTake
<1>8. Times'
  BY <1>1 DEF Bookkeeping, Times, Timely, TakeTimely, DelayTimely, OutOfTime, EnteredAt,
             InTake, InDelay
<1> QED
  BY <1>2, <1>3, <1>4, <1>5, <1>6, <1>7, <1>8 DEF Bookkeeping, Queues

(* Every step keeps the invariant.                                         *)
LEMMA BookkeepingStep ==
  ASSUME Bookkeeping, [Next]_vars
  PROVE  Bookkeeping'
<1>1. CASE UNCHANGED vars
  BY <1>1, BookkeepingStutters
<1>2. CASE Next
  <2>1. /\ Types /\ Control /\ Locks /\ Queues /\ Patience /\ Sleep /\ Counted /\ Gives /\ Times
    BY DEF Bookkeeping
  <2>2. Types'
    BY <1>2, <2>1, TypesStep
  <2>3. Control'
    BY <1>2, <2>1, <2>2, ControlStep
  <2>4. Locks'
    BY <1>2, <2>1, <2>2, <2>3, LocksStep
  <2>5. Queues'
    BY <1>2, <2>1, <2>2, <2>3, QueuesStep
  <2>6. Patience'
    BY <1>2, <2>1, <2>2, PatienceStep
  <2>7. Sleep'
    BY <1>2, <2>1, <2>2, SleepStep
  <2>8. Counted'
    BY <1>2, <2>1, <2>2, CountedStep
  <2>9. Gives'
    BY <1>2, <2>1, <2>2, GivesStep
  <2>10. Times'
    BY <1>2, <2>1, <2>2, TimesStep
  <2> QED
    BY <2>2, <2>3, <2>4, <2>5, <2>6, <2>7, <2>8, <2>9, <2>10 DEF Bookkeeping
<1> QED
  BY <1>1, <1>2

(* The scheduler's bookkeeping, its types among it, is right in every      *)
(* reachable state, for any tasks, semaphores, priorities and calls.       *)
THEOREM BookkeepingHolds == Spec => []Bookkeeping
<1>1. Init => Bookkeeping
  BY InitBookkeeping
<1>2. Bookkeeping /\ [Next]_vars => Bookkeeping'
  BY BookkeepingStep
<1> QED
  BY <1>1, <1>2, PTL DEF Spec

(* Every task that sleeps without a time limit is where a give finds it.   *)
THEOREM SleepersAreFindable == Spec => []SleepersFindable
<1>1. Bookkeeping => SleepersFindable
  <2> SUFFICES ASSUME Bookkeeping, NEW t \in Tasks, kernel.list[t] = "suspended"
               PROVE  \/ t \in kernel.pending
                      \/ \E i \in 1..Len(kernel.waiting[job[t].call.sem]) :
                            kernel.waiting[job[t].call.sem][i] = t
    BY DEF SleepersFindable
  <2>1. t \in kernel.pending \/ t \in Elements(kernel.waiting[job[t].call.sem])
    BY DEF Bookkeeping, Queues, Findable
  <2> QED
    BY <2>1 DEF Elements
<1> QED
  BY <1>1, BookkeepingHolds, PTL

(* No give is lost: with prvLockQueue, the counting of gives and the wakes *)
(* in prvUnlockQueue and xTaskResumeAll, a semaphore that is available     *)
(* while tasks wait for it is always about to be taken or to wake one.     *)
THEOREM NoGiveIsLost == Spec => []NoLostGive
<1>1. Bookkeeping => NoLostGive
  <2> SUFFICES ASSUME Bookkeeping, NEW s \in Semaphores,
                      sem[s].count > 0, kernel.waiting[s] # <<>>, ~(sem[s].txLock > 0)
               PROVE  \E t \in Tasks : Coming(t, s)
    BY DEF NoLostGive
  <2>1. PICK t \in Tasks : OnItsWay(t, s)
    BY DEF Bookkeeping, Gives, Noticed
  <2>2. job[t].pc \notin {"run", "idle"}
    BY <2>1 DEF OnItsWay, InTake, CallPcs, TakePcs
  <2> QED
    BY <2>1, <2>2 DEF OnItsWay, InTake, Up, Coming
<1> QED
  BY <1>1, BookkeepingHolds, PTL

(* Nobody oversleeps: across the wrap of the tick count, pended ticks and  *)
(* the cached xNextTaskUnblockTime every sleeping task is woken by a tick  *)
(* to come.                                                                *)
THEOREM NobodyOversleeps == Spec => []NeverOversleeps
<1>1. Bookkeeping => NeverOversleeps
  <2> SUFFICES ASSUME Bookkeeping, ~kernel.stopped
               PROVE  Slumber(kernel)
    BY DEF NeverOversleeps, Slumber
  <2>1. \A t \in Tasks : job[t].pc # "next"
    BY DEF Bookkeeping, Control, StopPcs
  <2> QED
    BY <2>1, Slumbers DEF Bookkeeping
<1> QED
  BY <1>1, BookkeepingHolds, PTL

(* The steps at which a call can end without the semaphore.                *)
LEMMA WaysToGiveUp ==
  ASSUME Bookkeeping, Next, NEW u \in Tasks, GivesUp(u)
  PROVE  TakeAgain(u) \/ Late(u) \/ Disinherit(u) \/ Awake(u)
<1>1. /\ Types /\ Control /\ Locks
      /\ job[u].pc \notin {"run", "idle"} /\ job'[u].pc = "run"
  BY DEF Bookkeeping, GivesUp
<1>2. job' # job /\ job'[u] # job[u]
  BY <1>1
<1>3. Idle \in Tasks
  BY KernelAssumption
<1>4. ASSUME NEW t \in Tasks, Take(t) \/ vTaskDelay(t)
      PROVE  FALSE
  <2>1. job[t].pc = "run"
    BY <1>4 DEF Take, vTaskDelay, At
  <2>2. \A x \in Tasks \ {t} : job'[x] = job[x]
    BY <1>1, <1>4, TakenCalmly, StayedCalm DEF Calm, TakesCalmly, StaysCalm
  <2> QED
    BY <1>1, <1>2, <2>1, <2>2
<1>5. ASSUME NEW t \in Tasks, AssertionFails(t)
      PROVE  FALSE
  <2>1. Goto(t, "fatal")
    BY <1>5 DEF AssertionFails
  <2> QED
    BY <1>1, <1>2, <2>1, Went
<1>6. ASSUME NEW t \in Tasks, vTaskSuspendAll(t)
      PROVE  FALSE
  BY <1>1, <1>2, <1>6, Suspended
<1>7. ASSUME NEW t \in Tasks, prvLockQueue(t)
      PROVE  FALSE
  BY <1>1, <1>2, <1>7, Locked
<1>8. ASSUME NEW t \in Tasks, Look(t)
      PROVE  FALSE
  BY <1>1, <1>2, <1>8, Looked
<1>9. ASSUME NEW t \in Tasks, vTaskPlaceOnEventList(t)
      PROVE  FALSE
  BY <1>1, <1>2, <1>9, Blocked
<1>10. ASSUME NEW t \in Tasks, AdjustNext(t)
       PROVE  FALSE
  BY <1>1, <1>2, <1>10, Adjusted
<1>11. ASSUME NEW t \in Tasks, prvUnlockQueue(t)
       PROVE  FALSE
  BY <1>1, <1>2, <1>11, Opened
<1>12. ASSUME NEW t \in Tasks, Resume(t)
       PROVE  FALSE
  <2>1. job'[t].pc \in {"late", "asleep", "take"} /\ \A x \in Tasks \ {t} : job'[x] = job[x]
    BY <1>1, <1>12, Restarted
  <2> QED
    BY <1>1, <1>2, <2>1
<1>13. ASSUME NEW t \in Tasks, Give(t) \/ xTaskCreate(t) \/ vTaskDelete(t)
       PROVE  FALSE
  BY <1>1, <1>2, <1>13 DEF Give, xTaskCreate, vTaskDelete
<1>14. ASSUME NEW t \in Tasks, Place(t)
       PROVE  FALSE
  BY <1>1, <1>2, <1>14, Placed
<1>15. ASSUME NEW t \in Tasks, TakeAgain(t) \/ Late(t) \/ Disinherit(t) \/ Awake(t)
       PROVE  TakeAgain(u) \/ Late(u) \/ Disinherit(u) \/ Awake(u)
  <2>1. \A x \in Tasks \ {t} : job'[x] = job[x]
    BY <1>1, <1>15, TakenCalmly, StayedCalm DEF Calm, TakesCalmly, StaysCalm
  <2>2. t = u
    BY <1>2, <2>1
  <2> QED
    BY <1>15, <2>2
<1>16. ASSUME NEW s \in Semaphores, xQueueGiveFromISR(s)
       PROVE  FALSE
  BY <1>1, <1>2, <1>16, GivenFromISR
<1>17. CASE IdleSuspend
  BY <1>1, <1>2, <1>3, <1>17, IdleSuspended
<1>18. CASE IdleResume
  BY <1>1, <1>2, <1>3, <1>18, IdleRestarted
<1>19. CASE Reap \/ Tick \/ vTaskSwitchContext
  BY <1>2, <1>19 DEF Reap, Tick, vTaskSwitchContext
<1> QED
  BY <1>4, <1>5, <1>6, <1>7, <1>8, <1>9, <1>10, <1>11, <1>12, <1>13, <1>14, <1>15, <1>16,
     <1>17, <1>18, <1>19 DEF Next

(* At each of them the time is over.                                       *)
LEMMA GivesUpInTime ==
  ASSUME Bookkeeping, Next, NEW u \in Tasks, GivesUp(u)
  PROVE  /\ job[u].call.op = "take" => job[u].call.ticks # portMAX_DELAY
         /\ clock - job[u].since >= job[u].call.ticks
<1>1. /\ Types /\ Control /\ Queues
      /\ job[u].pc \notin {"run", "idle"} /\ job'[u].pc = "run"
      /\ job[u].call.op = "delay" \/ sem'[job[u].call.sem] = sem[job[u].call.sem]
  BY DEF Bookkeeping, GivesUp
<1>2. job[u].pc \in CallPcs /\ job[u] \in Job
  BY <1>1, JobForms
<1>3. Timely(u) /\ clock = NowIn(kernel) + kernel.pended
  BY DEF Bookkeeping, Times
<1>4. ASSUME NowIn(kernel) >= job[u].since + job[u].call.ticks
      PROVE  clock - job[u].since >= job[u].call.ticks
  <2> DEFINE i == job[u].since
             n == job[u].call.ticks
             z == NowIn(kernel)
  <2>1. i \in Nat /\ n \in Nat /\ z \in Nat /\ kernel.pended \in Nat
    BY <1>1, <1>2, TimeNumbers
  <2>2. z >= i + n /\ clock = z + kernel.pended
    BY <1>3, <1>4
  <2> HIDE DEF i, n, z
  <2>3. clock - i >= n
    BY <2>1, <2>2
  <2> QED
    BY <2>3 DEF i, n
<1>5. ASSUME job[u].call.op = "take", OutOfTime(u)
      PROVE  /\ job[u].call.ticks # portMAX_DELAY
             /\ NowIn(kernel) >= job[u].since + job[u].call.ticks
  <2>1. InTake(u)
    BY <1>2, <1>5 DEF InTake
  <2> QED
    BY <1>2, <1>3, <1>5, <2>1 DEF Timely, TakeTimely
<1>6. CASE TakeAgain(u)
  <2>1. job[u].pc = "take" /\ job[u].call.op = "take"
    <3>1. job[u].pc = "take"
      BY <1>6 DEF TakeAgain, At
    <3> QED
      BY <3>1, <1>1 DEF Control, TakePcs
  <2>2. Tried(u, job[u])
    BY <1>1, <1>6, <2>1, TakenCalmly DEF TakesCalmly
  <2>3. sem'[job[u].call.sem].count = sem[job[u].call.sem].count
    BY <1>1, <2>1
  <2>4. job[u].ticks = 0
    BY <1>1, <2>2, <2>3 DEF Tried
  <2> QED
    BY <1>4, <1>5, <2>1, <2>4 DEF OutOfTime
<1>7. CASE Late(u) \/ Disinherit(u)
  <2>1. job[u].pc \in {"late", "disinherit"}
    BY <1>7 DEF Late, Disinherit, At
  <2>2. job[u].call.op = "take"
    BY <1>1, <2>1 DEF Control, TakePcs
  <2> QED
    BY <1>4, <1>5, <2>1, <2>2 DEF OutOfTime
<1>8. CASE Awake(u)
  <2>1. job[u].pc = "asleep" /\ Running(u)
    BY <1>8 DEF Awake, At
  <2>2. job[u].call.op = "delay"
    BY <1>1, <2>1 DEF Control
  <2>3. ~kernel.stopped
    BY <1>1, <2>1 DEF Control, StopPcs, Running
  <2>4. kernel.list[u] = "ready"
    BY <1>1, <2>1, <2>3, Runs
  <2>5. DelayTimely(u)
    BY <1>2, <1>3, <2>2 DEF Timely, InDelay
  <2>6. Due(kernel, u, job[u].since + job[u].ticks) /\ job[u].ticks = job[u].call.ticks
    BY <2>1, <2>5 DEF DelayTimely
  <2>7. NowIn(kernel) >= job[u].since + job[u].call.ticks
    BY <2>4, <2>6 DEF Due
  <2> QED
    BY <1>4, <2>2, <2>7
<1> QED
  BY <1>6, <1>7, <1>8, WaysToGiveUp

(* No take with a time limit and no delay ends before the ticks it was     *)
(* given have passed, however often the call was woken and blocked again;  *)
(* a take without a time limit does not give up.                           *)
THEOREM NobodyIsEarly == Spec => NeverEarly
<1>1. Bookkeeping /\ [Next]_vars =>
         [\A t \in Tasks : GivesUp(t) =>
             /\ job[t].call.op = "take" => job[t].call.ticks # portMAX_DELAY
             /\ clock - job[t].since >= job[t].call.ticks]_vars
  BY GivesUpInTime
<1> QED
  BY <1>1, BookkeepingHolds, PTL DEF Spec, NeverEarly
=============================================================================
