------------------------------- MODULE Queues -------------------------------
(***************************************************************************)
(* What appending to a sequence without repetition does, taking the head   *)
(* off it and taking one element out of it; what down() and up() do to the *)
(* wait queue of a semaphore; who sits next to whom in a ring; induction   *)
(* over the numbers, as a rule about sets; and the remainders by which     *)
(* buffers are indexed.                                                    *)
(***************************************************************************)
EXTENDS Integers, Semaphores, SequenceTheorems, FiniteSetTheorems, TLAPS

\* Appending an element that is not there yet keeps a sequence injective.
LEMMA AppendFresh ==
    ASSUME NEW S, NEW seq \in Seq(S), NEW e \in S,
           IsInjective(seq), e \notin ToSet(seq)
    PROVE  /\ Append(seq, e) \in Seq(S)
           /\ IsInjective(Append(seq, e))
           /\ ToSet(Append(seq, e)) = ToSet(seq) \cup {e}
<1>1. \A i \in 1..Len(seq) : seq[i] # e
  BY DEF ToSet
<1>2. IsInjective(Append(seq, e))
  BY <1>1 DEF IsInjective
<1>3. ToSet(Append(seq, e)) = ToSet(seq) \cup {e}
  <2>1. /\ DOMAIN Append(seq, e) = 1..Len(seq) + 1
        /\ \A i \in 1..Len(seq) : Append(seq, e)[i] = seq[i]
        /\ Append(seq, e)[Len(seq) + 1] = e
    OBVIOUS
  <2>2. QED
    BY <2>1 DEF ToSet
<1>4. Append(seq, e) \in Seq(S)
  OBVIOUS
<1>5. QED
  BY <1>2, <1>3, <1>4

\* new is seq with e put in at position k.
InsertedAt(new, seq, k, e, S) ==
    /\ new \in Seq(S)
    /\ Len(new) = Len(seq) + 1
    /\ new[k] = e
    /\ \A i \in 1..k - 1 : new[i] = seq[i]
    /\ \A i \in k + 1..Len(seq) + 1 : new[i] = seq[i - 1]

\* What an insertion (list_add_before, list_add_after) does to a sequence, position
\* by position.
LEMMA InsertAtFacts ==
    ASSUME NEW S, NEW seq \in Seq(S), NEW e \in S,
           NEW k \in Nat, 1 <= k, k <= Len(seq) + 1
    PROVE  InsertedAt(InsertAt(seq, k, e), seq, k, e, S)
<1> DEFINE a == SubSeq(seq, 1, k - 1)
           b == SubSeq(seq, k, Len(seq))
<1>1. a \in Seq(S) /\ Len(a) = k - 1 /\ \A i \in 1..k - 1 : a[i] = seq[i]
  OBVIOUS
<1>2. /\ b \in Seq(S) /\ Len(b) = Len(seq) - k + 1
      /\ \A i \in 1..Len(seq) - k + 1 : b[i] = seq[k + i - 1]
  OBVIOUS
<1>3. InsertAt(seq, k, e) = a \o <<e>> \o b
  BY DEF InsertAt
<1> HIDE DEF a, b
<1>4. /\ a \o <<e>> \in Seq(S) /\ Len(a \o <<e>>) = k
      /\ \A i \in 1..k - 1 : (a \o <<e>>)[i] = seq[i]
      /\ (a \o <<e>>)[k] = e
  BY <1>1
<1> DEFINE ae == a \o <<e>>
<1> HIDE DEF ae
<1>5. /\ ae \o b \in Seq(S) /\ Len(ae \o b) = Len(seq) + 1
      /\ \A i \in 1..k : (ae \o b)[i] = ae[i]
      /\ \A i \in k + 1..Len(seq) + 1 : (ae \o b)[i] = b[i - k]
  <2>1. ae \in Seq(S) /\ Len(ae) = k
    BY <1>4 DEF ae
  <2>2. /\ ae \o b \in Seq(S) /\ Len(ae \o b) = Len(ae) + Len(b)
        /\ \A i \in 1..Len(ae) + Len(b) :
             (ae \o b)[i] = IF i <= Len(ae) THEN ae[i] ELSE b[i - Len(ae)]
    BY <1>2, <2>1, ConcatProperties
  <2>3. k \in Nat /\ Len(seq) \in Nat /\ k <= Len(seq) + 1
    OBVIOUS
  <2>4. Len(ae) + Len(b) = Len(seq) + 1
    BY <1>2, <2>1, <2>3
  <2> HIDE DEF ae
  <2>5. QED
    BY <2>1, <2>2, <2>3, <2>4
<1>6. \A i \in k + 1..Len(seq) + 1 : b[i - k] = seq[i - 1]
  <2>1. SUFFICES ASSUME NEW i \in k + 1..Len(seq) + 1 PROVE b[i - k] = seq[i - 1]
    OBVIOUS
  <2>2. k \in Nat /\ Len(seq) \in Nat /\ i \in Nat
    OBVIOUS
  <2>3. i - k \in 1..Len(seq) - k + 1 /\ k + (i - k) - 1 = i - 1
    BY <2>2
  <2>4. QED
    BY <1>2, <2>3
<1>7. QED
  BY <1>3, <1>4, <1>5, <1>6 DEF ae, InsertedAt

\* Taking the head off an injective sequence removes exactly that element.
LEMMA TailUnique ==
    ASSUME NEW S, NEW seq \in Seq(S), IsInjective(seq), seq # <<>>
    PROVE  /\ Tail(seq) \in Seq(S)
           /\ IsInjective(Tail(seq))
           /\ Head(seq) \in S
           /\ ToSet(Tail(seq)) = ToSet(seq) \ {Head(seq)}
           /\ Head(seq) \in ToSet(seq)
<1>1. IsInjective(Tail(seq))
  BY DEF IsInjective
<1>2. ToSet(Tail(seq)) = ToSet(seq) \ {Head(seq)}
  <2>1. \A x \in ToSet(Tail(seq)) : x \in ToSet(seq) /\ x # Head(seq)
    BY DEF IsInjective, ToSet
  <2>2. ASSUME NEW x \in ToSet(seq), x # Head(seq)
        PROVE  x \in ToSet(Tail(seq))
    <3>1. PICK i \in 1..Len(seq) : seq[i] = x
      BY DEF ToSet
    <3>2. i # 1 /\ i - 1 \in 1..Len(Tail(seq)) /\ Tail(seq)[i - 1] = x
      BY <3>1, <2>2
    <3>3. DOMAIN Tail(seq) = 1..Len(Tail(seq))
      OBVIOUS
    <3>4. QED
      BY <3>2, <3>3 DEF ToSet
  <2>3. QED
    BY <2>1, <2>2
<1>3. QED
  BY <1>1, <1>2 DEF ToSet

\* list_del takes one element out of an injective sequence and leaves the others.
LEMMA TakeOut ==
    ASSUME NEW S, NEW seq \in Seq(S), NEW e, IsInjective(seq)
    PROVE  /\ RemoveFirst(seq, e) \in Seq(S)
           /\ IsInjective(RemoveFirst(seq, e))
           /\ ToSet(RemoveFirst(seq, e)) = ToSet(seq) \ {e}
<1>1. CASE \A i \in 1..Len(seq) : seq[i] # e
  <2>1. RemoveFirst(seq, e) = seq
    BY <1>1 DEF RemoveFirst
  <2>2. QED
    BY <1>1, <2>1 DEF ToSet
<1>2. CASE \E i \in 1..Len(seq) : seq[i] = e
  <2>1. PICK n \in 1..Len(seq) : seq[n] = e
    BY <1>2
  <2>2. \A i \in 1..Len(seq) : seq[i] = e <=> i = n
    BY <2>1 DEF IsInjective
  <2>3. {i \in 1..Len(seq) : seq[i] = e} = {n}
    BY <2>2
  <2>4. Min({n}) = n
    BY DEF Min
  <2>5. RemoveFirst(seq, e) = RemoveAt(seq, n)
    <3>1. SelectInSeq(seq, LAMBDA v : v = e) = n
      BY <2>3, <2>4 DEF SelectInSeq
    <3>2. QED
      BY <1>2, <3>1 DEF RemoveFirst
  <2> DEFINE rest == SubSeq(seq, 1, n - 1) \o SubSeq(seq, n + 1, Len(seq))
  <2>6. /\ rest \in Seq(S)
        /\ Len(rest) = Len(seq) - 1
        /\ \A i \in 1..Len(seq) - 1 : rest[i] = IF i < n THEN seq[i] ELSE seq[i + 1]
    <3> DEFINE front == SubSeq(seq, 1, n - 1)
               back == SubSeq(seq, n + 1, Len(seq))
    <3>1. /\ front \in Seq(S) /\ Len(front) = n - 1
          /\ \A i \in 1..n - 1 : front[i] = seq[i]
      OBVIOUS
    <3>2. /\ back \in Seq(S) /\ Len(back) = Len(seq) - n
          /\ \A i \in 1..Len(seq) - n : back[i] = seq[i + n]
      OBVIOUS
    <3> HIDE DEF front, back
    <3>3. /\ front \o back \in Seq(S)
          /\ Len(front \o back) = Len(seq) - 1
          /\ \A i \in 1..Len(seq) - 1 :
               (front \o back)[i] = IF i < n THEN front[i] ELSE back[i - (n - 1)]
      <4>1. /\ front \o back \in Seq(S)
            /\ Len(front \o back) = Len(front) + Len(back)
            /\ \A i \in 1..Len(front) + Len(back) :
                 (front \o back)[i] = IF i <= Len(front) THEN front[i]
                                      ELSE back[i - Len(front)]
        BY <3>1, <3>2, ConcatProperties
      <4>2. /\ n \in Int /\ Len(seq) \in Int
            /\ (n - 1) + (Len(seq) - n) = Len(seq) - 1
            /\ \A i \in 1..Len(seq) - 1 : i <= n - 1 <=> i < n
        OBVIOUS
      <4>3. QED
        BY <4>1, <4>2, <3>1, <3>2
    <3>4. \A i \in 1..Len(seq) - 1 :
             (front \o back)[i] = IF i < n THEN seq[i] ELSE seq[i + 1]
      <4> SUFFICES ASSUME NEW i \in 1..Len(seq) - 1
                   PROVE  (front \o back)[i] = IF i < n THEN seq[i] ELSE seq[i + 1]
        OBVIOUS
      <4>1. CASE i < n
        <5>1. i \in 1..n - 1
          BY <4>1
        <5>2. QED
          BY <4>1, <5>1, <3>1, <3>3
      <4>2. CASE i >= n
        <5>1. i - (n - 1) \in 1..Len(seq) - n /\ (i - (n - 1)) + n = i + 1 /\ ~(i < n)
          BY <4>2
        <5>2. QED
          BY <5>1, <3>2, <3>3
      <4>3. i < n \/ i >= n
        OBVIOUS
      <4>4. QED
        BY <4>1, <4>2, <4>3
    <3>5. QED
      BY <3>3, <3>4 DEF front, back
  <2>7. RemoveFirst(seq, e) = rest
    BY <2>5 DEF RemoveAt
  <2> HIDE DEF rest
  <2>8. DOMAIN rest = 1..Len(seq) - 1
    BY <2>6
  <2>9. IsInjective(rest)
    <3>1. SUFFICES ASSUME NEW i \in 1..Len(seq) - 1, NEW j \in 1..Len(seq) - 1,
                          rest[i] = rest[j]
                   PROVE  i = j
      BY <2>8 DEF IsInjective
    <3>2. \A a, b \in 1..Len(seq) : seq[a] = seq[b] => a = b
      BY DEF IsInjective
    <3>3. /\ rest[i] = IF i < n THEN seq[i] ELSE seq[i + 1]
          /\ rest[j] = IF j < n THEN seq[j] ELSE seq[j + 1]
          /\ {i, i + 1, j, j + 1} \subseteq 1..Len(seq)
      BY <2>6
    <3>4. CASE i < n
      <4>1. ~(j < n) => seq[i] = seq[j + 1] /\ i # j + 1
        <5>1. n \in Int /\ i \in Int /\ j \in Int
          OBVIOUS
        <5>2. ~(j < n) => i # j + 1
          BY <3>4, <5>1
        <5>3. QED
          BY <3>1, <3>3, <3>4, <5>2
      <4>2. QED
        BY <3>1, <3>2, <3>3, <3>4, <4>1
    <3>5. CASE ~(i < n)
      <4>1. j < n => seq[i + 1] = seq[j] /\ i + 1 # j
        <5>1. n \in Int /\ i \in Int /\ j \in Int
          OBVIOUS
        <5>2. j < n => i + 1 # j
          BY <3>5, <5>1
        <5>3. QED
          BY <3>1, <3>3, <3>5, <5>2
      <4>2. ~(j < n) => i + 1 = j + 1
        BY <3>1, <3>2, <3>3, <3>5
      <4>3. QED
        BY <3>1, <3>2, <3>3, <3>5, <4>1, <4>2
    <3>6. QED
      BY <3>4, <3>5
  <2>10. ASSUME NEW x \in ToSet(rest)  PROVE x \in ToSet(seq) \ {e}
    <3>1. PICK i \in 1..Len(seq) - 1 : x = rest[i]
      BY <2>8 DEF ToSet
    <3>2. \E j \in 1..Len(seq) : j # n /\ x = seq[j]
      <4>1. CASE i < n
        BY <3>1, <2>6, <4>1
      <4>2. CASE i >= n
        <5>1. i + 1 \in 1..Len(seq) /\ i + 1 # n /\ x = seq[i + 1]
          BY <3>1, <2>6, <4>2
        <5>2. QED
          BY <5>1
      <4>3. QED
        BY <4>1, <4>2
    <3>3. QED
      BY <3>2, <2>2 DEF ToSet
  <2>11. ASSUME NEW x \in ToSet(seq), x # e  PROVE x \in ToSet(rest)
    <3>1. PICK j \in 1..Len(seq) : x = seq[j]
      BY DEF ToSet
    <3>2. j # n
      BY <3>1, <2>1, <2>11
    <3>3. \E i \in 1..Len(seq) - 1 : x = rest[i]
      <4>1. CASE j < n
        BY <3>1, <2>6, <4>1
      <4>2. CASE j > n
        <5>1. j - 1 \in 1..Len(seq) - 1 /\ ~(j - 1 < n) /\ (j - 1) + 1 = j
          BY <4>2
        <5>2. rest[j - 1] = seq[j]
          BY <5>1, <2>6
        <5>3. QED
          BY <5>1, <5>2, <3>1
      <4>3. QED
        BY <3>2, <4>1, <4>2
    <3>4. QED
      BY <3>3, <2>8 DEF ToSet
  <2>12. QED
    BY <2>6, <2>7, <2>9, <2>10, <2>11
<1>3. QED
  BY <1>1, <1>2

-----------------------------------------------------------------------------
(* Semaphores *)

\* down() by a thread that is not asleep: it takes the permit or sleeps.
LEMMA DownFacts ==
    ASSUME NEW S, NEW sem \in SemType(S), NEW i \in S,
           IsInjective(sem.wait_queue), ~Sleeps(sem, i)
    PROVE  /\ down(sem, i) \in SemType(S)
           /\ IsInjective(down(sem, i).wait_queue)
           /\ sem.value > 0 => /\ down(sem, i).value = sem.value - 1
                               /\ down(sem, i).wait_queue = sem.wait_queue
                               /\ \A j \in S : Sleeps(down(sem, i), j) <=> Sleeps(sem, j)
           /\ sem.value = 0 => /\ down(sem, i).value = 0
                               /\ \A j \in S : Sleeps(down(sem, i), j) <=>
                                                    Sleeps(sem, j) \/ j = i
<1>1. sem.value \in Nat /\ sem.wait_queue \in Seq(S)
  BY DEF SemType
<1>2. CASE sem.value > 0
  <2>1. down(sem, i) = [sem EXCEPT !.value = @ - 1]
    BY <1>2 DEF down, CanPass
  <2>2. QED
    BY <1>1, <1>2, <2>1 DEF SemType, Sleeps
<1>3. CASE sem.value = 0
  <2>1. down(sem, i) = [sem EXCEPT !.wait_queue = Append(sem.wait_queue, i)]
    BY <1>3 DEF down, CanPass
  <2>2. /\ Append(sem.wait_queue, i) \in Seq(S)
        /\ IsInjective(Append(sem.wait_queue, i))
        /\ ToSet(Append(sem.wait_queue, i)) = ToSet(sem.wait_queue) \cup {i}
    BY <1>1, AppendFresh DEF Sleeps
  <2> DEFINE queue == Append(sem.wait_queue, i)
  <2>3. down(sem, i) = [sem EXCEPT !.wait_queue = queue]
    BY <2>1
  <2>4. /\ queue \in Seq(S) /\ IsInjective(queue)
        /\ ToSet(queue) = ToSet(sem.wait_queue) \cup {i}
    BY <2>2
  <2> HIDE DEF queue
  <2>5. /\ down(sem, i) \in SemType(S)
        /\ down(sem, i).value = 0 /\ down(sem, i).wait_queue = queue
    BY <1>1, <1>3, <2>3, <2>4 DEF SemType
  <2>6. QED
    BY <1>3, <2>4, <2>5 DEF Sleeps
<1>4. QED
  BY <1>1, <1>2, <1>3

\* up(): a permit if nobody sleeps, and else the first sleeper has it.
LEMMA UpFacts ==
    ASSUME NEW S, NEW sem \in SemType(S), IsInjective(sem.wait_queue)
    PROVE  /\ up(sem) \in SemType(S)
           /\ IsInjective(up(sem).wait_queue)
           /\ sem.wait_queue = <<>> =>
                /\ up(sem).value = sem.value + 1
                /\ up(sem).wait_queue = <<>>
                /\ \A j \in S : ~Sleeps(sem, j) /\ ~Sleeps(up(sem), j)
           /\ sem.wait_queue # <<>> =>
                /\ up(sem).value = sem.value
                /\ \E k \in S :
                     /\ Sleeps(sem, k)
                     /\ \A j \in S : Sleeps(up(sem), j) <=> Sleeps(sem, j) /\ j # k
<1>1. sem.value \in Nat /\ sem.wait_queue \in Seq(S)
  BY DEF SemType
<1>2. CASE sem.wait_queue = <<>>
  <2>1. up(sem) = [sem EXCEPT !.value = @ + 1]
    BY <1>2 DEF up
  <2>2. ToSet(sem.wait_queue) = {}
    BY <1>2 DEF ToSet
  <2>3. QED
    BY <1>1, <1>2, <2>1, <2>2 DEF SemType, Sleeps
<1>3. CASE sem.wait_queue # <<>>
  <2>1. up(sem) = [sem EXCEPT !.wait_queue = Tail(sem.wait_queue)]
    BY <1>3 DEF up
  <2>2. /\ Tail(sem.wait_queue) \in Seq(S)
        /\ IsInjective(Tail(sem.wait_queue))
        /\ Head(sem.wait_queue) \in S
        /\ ToSet(Tail(sem.wait_queue)) = ToSet(sem.wait_queue) \ {Head(sem.wait_queue)}
        /\ Head(sem.wait_queue) \in ToSet(sem.wait_queue)
    BY <1>1, <1>3, TailUnique
  <2>3. QED
    BY <1>1, <1>3, <2>1, <2>2 DEF SemType, Sleeps
<1>4. QED
  BY <1>2, <1>3

\* On s[i] nobody sleeps but i.
LEMMA OwnSleeper ==
    ASSUME NEW sem, NEW i, NEW j, sem.wait_queue = <<>> \/ sem.wait_queue = <<i>>
    PROVE  Sleeps(sem, j) <=> sem.wait_queue = <<i>> /\ j = i
<1>1. ToSet(<<>>) = {} /\ ToSet(<<i>>) = {i}
  BY DEF ToSet
<1>2. <<i>> # <<>>
  OBVIOUS
<1>3. QED
  BY <1>1, <1>2 DEF Sleeps

-----------------------------------------------------------------------------
(* Rings *)

\* Of n > 1 places in a ring, the next and the previous one are others, and the
\* next of the previous one is the place itself.
LEMMA Ring ==
    ASSUME NEW n \in Nat \ {0, 1}, NEW i \in 0..n - 1
    PROVE  LET left(k) == (k - 1 + n) % n
               right(k) == (k + 1) % n
           IN  /\ left(i) \in 0..n - 1 /\ right(i) \in 0..n - 1
               /\ left(i) # i /\ right(i) # i
               /\ left(right(i)) = i /\ right(left(i)) = i
<1>1. n > 1 /\ i \in Int /\ 0 <= i /\ i < n
  OBVIOUS
<1> DEFINE left(k) == (k - 1 + n) % n
           right(k) == (k + 1) % n
<1>2. \A k \in 0..n - 1 : right(k) = IF k = n - 1 THEN 0 ELSE k + 1
  BY <1>1
<1>3. \A k \in 0..n - 1 : left(k) = IF k = 0 THEN n - 1 ELSE k - 1
  BY <1>1
<1> HIDE DEF left, right
<1>4. QED
  BY <1>1, <1>2, <1>3

-----------------------------------------------------------------------------
(* Induction *)

\* A nonempty set of subsets of a finite set has a smallest one.
LEMMA Smallest ==
    ASSUME NEW S, IsFiniteSet(S), NEW F, F \subseteq SUBSET S, F # {}
    PROVE  \E A \in F : \A B \in F : B \subseteq A => B = A
<1>1. IsWellFoundedOn(StrictSubsetOrdering(S), SUBSET S)
  BY FS_StrictSubsetOrderingWellFounded, FS_FiniteSubsetsOfFinite
<1>2. \E x \in F : \A y \in F : ~ (<<y, x>> \in StrictSubsetOrdering(S))
  BY <1>1, WFMin
<1>3. \A x, y \in SUBSET S : <<y, x>> \in StrictSubsetOrdering(S) <=> y \subseteq x /\ y # x
  BY DEF StrictSubsetOrdering
<1>4. QED
  BY <1>2, <1>3

\* A nonempty set of numbers has a least one.
LEMMA Least ==
    ASSUME NEW T, T \subseteq Nat, T # {}
    PROVE  \E m \in T : \A k \in T : m <= k
<1>1. PICK n \in T : TRUE
  OBVIOUS
<1> DEFINE I == 0..n
           F == {0..k : k \in {j \in T : j <= n}}
<1>2. F \subseteq SUBSET I /\ F # {}
  BY <1>1
<1>3. IsFiniteSet(I)
  BY FS_Interval
<1>4. \E A \in F : \A B \in F : B \subseteq A => B = A
  <2> HIDE DEF F, I
  <2>1. QED
    BY <1>2, <1>3, Smallest
<1>5. PICK A \in F : \A B \in F : B \subseteq A => B = A
  BY <1>4
<1>6. PICK m \in T : m <= n /\ A = 0..m
  OBVIOUS
<1>7. ASSUME NEW k \in T, k < m  PROVE FALSE
  <2>1. 0..k \in F /\ 0..k \subseteq 0..m
    BY <1>6, <1>7
  <2>2. 0..k = 0..m
    BY <2>1, <1>5, <1>6
  <2>3. m \in 0..m /\ m \notin 0..k
    BY <1>7
  <2>4. QED
    BY <2>2, <2>3
<1>8. QED
  BY <1>6, <1>7

\* A set that holds 0, and n + 1 with every n, holds every number.
LEMMA Induction ==
    ASSUME NEW T, 0 \in T, \A n \in Nat : n \in T => n + 1 \in T
    PROVE  Nat \subseteq T
<1> SUFFICES ASSUME Nat \ T # {} PROVE FALSE
  OBVIOUS
<1>1. PICK m \in Nat \ T : \A k \in Nat \ T : m <= k
  <2> DEFINE U == Nat \ T
  <2>1. U \subseteq Nat /\ U # {}
    OBVIOUS
  <2> HIDE DEF U
  <2>2. \E m \in U : \A k \in U : m <= k
    BY <2>1, Least
  <2>3. QED
    BY <2>2 DEF U
<1>2. m - 1 \in Nat /\ ~(m - 1 >= m) /\ m = (m - 1) + 1
  BY <1>1
<1>3. m - 1 \in T
  BY <1>1, <1>2
<1>4. QED
  BY <1>1, <1>2, <1>3

\* f starts at first, and next makes each of its n further values from the last.
Steps(f, T, first, next, n) ==
    /\ f \in [0..n -> T]
    /\ \A k \in 0..n : f[k] = IF k = 0 THEN first ELSE next[<<k, f[k - 1]>>]

\* There is such a function.
LEMMA Recursion ==
    ASSUME NEW T, NEW first \in T, NEW next \in [Nat \X T -> T], NEW n \in Nat
    PROVE  \E f : Steps(f, T, first, next, n)
<1> DEFINE Runs(f, m) ==
             \A k \in 0..m : f[k] = IF k = 0 THEN first ELSE next[<<k, f[k - 1]>>]
           N == {m \in Nat : \E f \in [0..m -> T] : Runs(f, m)}
<1>1. 0 \in N
  <2> DEFINE f == [k \in 0..0 |-> first]
  <2>1. f \in [0..0 -> T] /\ Runs(f, 0)
    OBVIOUS
  <2> QED  BY <2>1
<1>2. ASSUME NEW m \in Nat, m \in N PROVE m + 1 \in N
  <2>1. PICK f \in [0..m -> T] : Runs(f, m)
    BY <1>2
  <2> DEFINE last == next[<<m + 1, f[m]>>]
             g == [k \in 0..m + 1 |-> IF k = m + 1 THEN last ELSE f[k]]
  <2>2. f[m] \in T /\ last \in T
    <3>1. m \in 0..m /\ m + 1 \in Nat
      OBVIOUS
    <3>2. f[m] \in T
      BY <3>1
    <3> QED  BY <3>1, <3>2
  <2> HIDE DEF last
  <2>3. g \in [0..m + 1 -> T]
    BY <2>2
  <2>4. ASSUME NEW k \in 0..m + 1
        PROVE  g[k] = IF k = 0 THEN first ELSE next[<<k, g[k - 1]>>]
    <3>1. CASE k = m + 1
      <4>1. k # 0 /\ k - 1 = m /\ m \in 0..m + 1 /\ m # m + 1
        BY <3>1
      <4>2. g[k] = last /\ g[k - 1] = f[m]
        BY <3>1, <4>1
      <4> HIDE DEF g
      <4> QED  BY <3>1, <4>1, <4>2 DEF last
    <3>2. CASE k # m + 1
      <4>1. k \in 0..m /\ (k # 0 => k - 1 \in 0..m + 1 /\ k - 1 # m + 1)
        BY <3>2
      <4>2. g[k] = f[k] /\ (k # 0 => g[k - 1] = f[k - 1])
        BY <3>2, <4>1
      <4> HIDE DEF g
      <4> QED  BY <2>1, <4>1, <4>2
    <3> QED  BY <3>1, <3>2
  <2>5. Runs(g, m + 1)
    BY <2>4
  <2> HIDE DEF g, Runs
  <2>6. \E f2 \in [0..m + 1 -> T] : Runs(f2, m + 1)
    BY <2>3, <2>5
  <2> QED  BY <2>6
<1>3. Nat \subseteq N
  <2> HIDE DEF N
  <2> QED  BY <1>1, <1>2, Induction
<1> QED  BY <1>3 DEF Steps

-----------------------------------------------------------------------------
(* Remainders *)

\* What is left over a multiple of N is the remainder.
LEMMA Remainder ==
    ASSUME NEW N \in Nat \ {0}, NEW x \in Nat, NEW q \in Nat, NEW r \in 0..N - 1,
           x = q * N + r
    PROVE  x % N = r
OBVIOUS

\* Every number is a multiple of N and a remainder.
LEMMA Quotient ==
    ASSUME NEW N \in Nat \ {0}, NEW x \in Nat
    PROVE  x % N \in 0..N - 1 /\ \E q \in Nat : x = q * N + (x % N)
<1> DEFINE T == {n \in Nat : \E q \in Nat, r \in 0..N - 1 : n = q * N + r}
<1>1. 0 \in T
  <2>1. 0 \in 0..N - 1 /\ 0 = 0 * N + 0
    OBVIOUS
  <2>2. QED
    BY <2>1
<1>2. ASSUME NEW n \in Nat, n \in T  PROVE n + 1 \in T
  <2>1. PICK q \in Nat, r \in 0..N - 1 : n = q * N + r
    BY <1>2
  <2>2. CASE r < N - 1
    <3>1. r + 1 \in 0..N - 1 /\ n + 1 = q * N + (r + 1)
      BY <2>1, <2>2
    <3>2. QED
      BY <3>1, <2>1
  <2>3. CASE r = N - 1
    <3>1. (q + 1) * N = q * N + N /\ q + 1 \in Nat /\ q * N \in Nat
      OBVIOUS
    <3>2. n + 1 = (q + 1) * N + 0 /\ 0 \in 0..N - 1
      BY <2>1, <2>3, <3>1
    <3>3. n + 1 \in Nat
      OBVIOUS
    <3>4. QED
      BY <3>1, <3>2, <3>3
  <2>4. QED
    BY <2>2, <2>3
<1>3. Nat \subseteq T
  <2> HIDE DEF T
  <2>1. QED
    BY <1>1, <1>2, Induction
<1>4. PICK q \in Nat, r \in 0..N - 1 : x = q * N + r
  BY <1>3
<1>5. x % N = r
  BY <1>4, Remainder
<1>6. QED
  BY <1>4, <1>5

\* Adding N does not change the remainder.
LEMMA Period ==
    ASSUME NEW N \in Nat \ {0}, NEW x \in Nat
    PROVE  (x + N) % N = x % N
<1>1. PICK q \in Nat : x = q * N + (x % N)
  BY Quotient
<1> DEFINE r == x % N
<1>2. r \in 0..N - 1
  BY Quotient
<1>3. x + N = (q + 1) * N + r
  <2> HIDE DEF r
  <2>1. x = q * N + r
    BY <1>1 DEF r
  <2>2. (q + 1) * N = q * N + N /\ q * N \in Nat
    OBVIOUS
  <2>3. QED
    BY <2>1, <2>2, <1>2
<1> HIDE DEF r
<1>4. (x + N) % N = r
  <2>1. q + 1 \in Nat /\ x + N \in Nat
    OBVIOUS
  <2>2. QED
    BY <1>2, <1>3, <2>1, Remainder
<1>5. QED
  BY <1>4 DEF r

\* Two numbers less than N apart have different remainders.
LEMMA Apart ==
    ASSUME NEW N \in Nat \ {0}, NEW x \in Nat, NEW y \in Nat, x < y, y < x + N
    PROVE  x % N # y % N
<1>1. PICK q \in Nat : x = q * N + (x % N)
  BY Quotient
<1>2. PICK p \in Nat : y = p * N + (y % N)
  BY Quotient
<1>3. SUFFICES ASSUME x % N = y % N PROVE FALSE
  OBVIOUS
<1> DEFINE r == x % N
<1>4. r \in 0..N - 1 /\ x = q * N + r /\ y = p * N + r
  BY <1>1, <1>2, <1>3, Quotient
<1> HIDE DEF r
<1>5. q < p
  <2>1. SUFFICES ASSUME p <= q PROVE FALSE
    OBVIOUS
  <2>2. PICK d \in Nat : q = p + d
    BY <2>1
  <2>3. q * N = p * N + d * N /\ d * N \in Nat
    BY <2>2
  <2>4. QED
    BY <1>4, <2>3
<1>6. PICK d \in Nat : p = q + 1 + d
  <2>1. p - q - 1 \in Nat /\ p = q + 1 + (p - q - 1)
    BY <1>5
  <2>2. QED
    BY <2>1
<1>7. p * N = q * N + N + d * N /\ d * N \in Nat
  BY <1>6
<1>8. QED
  BY <1>4, <1>7

\* The remainder of a sum depends on the remainder of a part only.
LEMMA Shift ==
    ASSUME NEW N \in Nat \ {0}, NEW x \in Nat, NEW k \in Nat
    PROVE  ((x % N) + k) % N = (x + k) % N
<1> DEFINE r == x % N
           s == (r + k) % N
<1>1. PICK q \in Nat : x = q * N + r
  BY Quotient
<1>2. r \in Nat
  BY Quotient
<1> HIDE DEF r
<1>3. PICK p \in Nat : r + k = p * N + s
  <2>1. r + k \in Nat
    BY <1>2
  <2>2. QED
    BY <2>1, Quotient
<1>4. s \in 0..N - 1
  BY <1>2, Quotient
<1> HIDE DEF s
<1>5. q * N + p * N = (q + p) * N /\ q + p \in Nat /\ q * N \in Nat /\ p * N \in Nat
  OBVIOUS
<1>6. x + k = (q + p) * N + s
  BY <1>1, <1>2, <1>3, <1>4, <1>5
<1>7. (x + k) % N = s
  <2>1. x + k \in Nat
    OBVIOUS
  <2>2. QED
    BY <1>4, <1>5, <1>6, <2>1, Remainder
<1>8. QED
  BY <1>7 DEF r, s
=============================================================================
