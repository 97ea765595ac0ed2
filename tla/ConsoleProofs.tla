--------------------------- MODULE ConsoleProofs ----------------------------
(***************************************************************************)
(* What is proved about keyboard input: for buffers of any size and any    *)
(* number of readers characters arrive in order, at most once, and no      *)
(* reader sleeps while there is one to read.                               *)
(*                                                                         *)
(* First what cons_intr and cons_getc do to the ring, whatever is in it.   *)
(* CharInv follows the characters from the port to the readers, WaitInv    *)
(* the readers through the queue; the two have nothing in common but the   *)
(* number of characters in stdin_buffer.                                   *)
(*                                                                         *)
(* At the end, the two file systems of the same model: what SfsProofs      *)
(* proves of every layout, for theirs.                                     *)
(***************************************************************************)
EXTENDS MCInputOutput, Queues

N == CONSBUFSIZE
B == STDIN_BUFSIZE

\* The ring of console.c, holding elements of C.
RingOf(C) == [buf : [0..N - 1 -> C], rpos : 0..N - 1, wpos : 0..N - 1]

\* One turn of the loop of cons_intr.
Put(f, c) == [f EXCEPT !.buf[f.wpos] = c, !.wpos = (@ + 1) % N]

\* cons_intr after n of the characters.
Filled(n, f, ring, chars) ==
    /\ f.rpos = ring.rpos
    /\ f.wpos = (ring.wpos + n) % N
    /\ \A i \in 0..n - 1 : n - N <= i => f.buf[(ring.wpos + i) % N] = chars[i + 1]
    /\ \A i \in n..N - 1 : f.buf[(ring.wpos + i) % N] = ring.buf[(ring.wpos + i) % N]

\* The loop of cons_intr over the characters of the port is a recursion that
\* exists: its function takes each turn from the one before.
LEMMA IntrTurns ==
    ASSUME NEW ring, NEW C, NEW chars \in Seq(C)
    PROVE  \E f : /\ f = [i \in 0..Len(chars) |-> IF i = 0 THEN ring ELSE Put(f[i - 1], chars[i])]
                  /\ cons_intr(ring, chars) = f[Len(chars)]
<1> DEFINE Turns(f, n) == f = [i \in 0..n |-> IF i = 0 THEN ring ELSE Put(f[i - 1], chars[i])]
           T == {n \in Nat : \E f : Turns(f, n)}
<1>1. 0 \in T
  <2>1. Turns([i \in 0..0 |-> ring], 0)
    OBVIOUS
  <2>2. QED
    BY <2>1
<1>2. ASSUME NEW n \in Nat, n \in T  PROVE n + 1 \in T
  <2>1. PICK f : Turns(f, n)
    BY <1>2
  <2> DEFINE g == [i \in 0..n + 1 |-> IF i <= n THEN f[i] ELSE Put(f[n], chars[n + 1])]
  <2> HIDE DEF Turns
  <2>2. Turns(g, n + 1)
    <3>1. \A i \in 0..n + 1 :
             g[i] = IF i = 0 THEN ring ELSE Put(g[i - 1], chars[i])
      <4> SUFFICES ASSUME NEW i \in 0..n + 1
                   PROVE  g[i] = IF i = 0 THEN ring ELSE Put(g[i - 1], chars[i])
        OBVIOUS
      <4>1. CASE i = 0
        BY <4>1, <2>1 DEF Turns
      <4>2. CASE i # 0 /\ i <= n
        <5>1. i \in 0..n /\ i - 1 \in 0..n + 1 /\ i - 1 <= n
          BY <4>2
        <5>2. f[i] = Put(f[i - 1], chars[i])
          BY <4>2, <5>1, <2>1 DEF Turns
        <5>3. QED
          BY <4>2, <5>1, <5>2
      <4>3. CASE i = n + 1
        <5>1. i - 1 \in 0..n + 1 /\ i - 1 <= n /\ i - 1 = n /\ ~(i <= n) /\ i # 0
          BY <4>3
        <5>2. QED
          BY <4>3, <5>1
      <4>4. QED
        BY <4>1, <4>2, <4>3
    <3> DEFINE h == [i \in 0..n + 1 |-> IF i = 0 THEN ring ELSE Put(g[i - 1], chars[i])]
    <3>2. \A i \in 0..n + 1 : g[i] = h[i]
      BY <3>1
    <3>3. DOMAIN g = 0..n + 1 /\ DOMAIN h = 0..n + 1
      OBVIOUS
    <3>4. g = [i \in 0..n + 1 |-> g[i]] /\ h = [i \in 0..n + 1 |-> h[i]]
      OBVIOUS
    <3>5. g = h
      <4> HIDE DEF g, h
      <4>1. QED
        BY <3>2, <3>4
    <3> HIDE DEF g
    <3>6. QED
      BY <3>5 DEF Turns
  <2> HIDE DEF g
  <2>3. QED
    BY <2>2
<1>3. Nat \subseteq T
  <2> HIDE DEF T
  <2>1. QED
    BY <1>1, <1>2, Induction
<1>4. \E f : Turns(f, Len(chars))
  BY <1>3
<1> DEFINE after == CHOOSE f : Turns(f, Len(chars))
<1>5. Turns(after, Len(chars))
  <2> HIDE DEF Turns
  <2>1. QED
    BY <1>4
<1>6. cons_intr(ring, chars) = after[Len(chars)]
  BY DEF cons_intr, Put, N
<1> HIDE DEF after
<1>7. QED
  BY <1>5, <1>6

\* One more character goes to where the ring is written next and nowhere else.
LEMMA PutFills ==
    ASSUME ConsoleAssumption, NEW C, NEW ring \in RingOf(C), NEW chars \in Seq(C),
           NEW n \in 0..Len(chars) - 1, NEW f \in RingOf(C), Filled(n, f, ring, chars)
    PROVE  /\ Put(f, chars[n + 1]) \in RingOf(C)
           /\ Filled(n + 1, Put(f, chars[n + 1]), ring, chars)
<1> DEFINE c == chars[n + 1]
           g == Put(f, c)
<1>1. N \in Nat \ {0}
  BY DEF ConsoleAssumption, N
<1>2. n \in Nat /\ n + 1 \in 1..Len(chars) /\ c \in C
  OBVIOUS
<1>3. ring.wpos \in 0..N - 1 /\ f.wpos \in 0..N - 1 /\ f.rpos \in 0..N - 1
  BY DEF RingOf
<1>4. ring.wpos \in Nat /\ ring.wpos + n \in Nat /\ f.wpos + 1 \in Nat
  BY <1>1, <1>2, <1>3
<1> HIDE DEF c
<1>5. (f.wpos + 1) % N \in 0..N - 1
  BY <1>1, <1>4, Quotient
<1>6. /\ g \in RingOf(C)
      /\ g.rpos = f.rpos /\ g.wpos = (f.wpos + 1) % N
      /\ g.buf = [f.buf EXCEPT ![f.wpos] = c]
  BY <1>2, <1>3, <1>5 DEF Put, RingOf
<1>7. g.wpos = (ring.wpos + (n + 1)) % N
  <2>1. f.wpos = (ring.wpos + n) % N
    BY DEF Filled
  <2>2. (((ring.wpos + n) % N) + 1) % N = ((ring.wpos + n) + 1) % N
    BY <1>1, <1>4, Shift
  <2>3. (ring.wpos + n) + 1 = ring.wpos + (n + 1)
    BY <1>2, <1>4
  <2>4. QED
    BY <1>6, <2>1, <2>2, <2>3
<1>8. f.wpos = (ring.wpos + n) % N
  BY DEF Filled
<1>9. \A p \in 0..N - 1 : g.buf[p] = IF p = f.wpos THEN c ELSE f.buf[p]
  BY <1>3, <1>6 DEF RingOf
<1>10. \A i \in Nat : (ring.wpos + i) % N \in 0..N - 1
  <2>1. \A i \in Nat : ring.wpos + i \in Nat
    BY <1>4
  <2>2. QED
    BY <1>1, <2>1, Quotient
<1> HIDE DEF g
<1>11. \A w, a, b \in Nat : a < b /\ b < a + N =>
         w + a \in Nat /\ w + b \in Nat /\ w + a < w + b /\ w + b < (w + a) + N
  BY <1>1
<1>12. ASSUME NEW i \in 0..(n + 1) - 1, (n + 1) - N <= i
       PROVE  g.buf[(ring.wpos + i) % N] = chars[i + 1]
  <2>1. i \in Nat
    OBVIOUS
  <2>2. CASE i = n
    BY <1>8, <1>9, <1>10, <2>1, <2>2 DEF c
  <2>3. CASE i # n
    <3>1. i \in 0..n - 1 /\ n - N <= i
      BY <1>1, <1>2, <1>12, <2>3
    <3>2. f.buf[(ring.wpos + i) % N] = chars[i + 1]
      BY <3>1 DEF Filled
    <3>3. (ring.wpos + i) % N # (ring.wpos + n) % N
      <4>1. /\ ring.wpos + i \in Nat /\ ring.wpos + n \in Nat
            /\ ring.wpos + i < ring.wpos + n
            /\ ring.wpos + n < (ring.wpos + i) + N
        <5>1. i < n /\ n < i + N /\ i \in Nat /\ N \in Nat
          BY <1>1, <1>2, <1>12, <3>1
        <5>2. QED
          BY <1>2, <1>4, <1>11, <5>1
      <4>2. QED
        BY <1>1, <4>1, Apart
    <3>4. QED
      BY <1>8, <1>9, <1>10, <2>1, <3>2, <3>3
  <2>4. QED
    BY <2>2, <2>3
<1>13. ASSUME NEW i \in n + 1..N - 1
       PROVE  g.buf[(ring.wpos + i) % N] = ring.buf[(ring.wpos + i) % N]
  <2>1. i \in Nat /\ i \in n..N - 1
    BY <1>1, <1>2
  <2>2. f.buf[(ring.wpos + i) % N] = ring.buf[(ring.wpos + i) % N]
    BY <2>1 DEF Filled
  <2>3. (ring.wpos + n) % N # (ring.wpos + i) % N
    <3>1. /\ ring.wpos + i \in Nat /\ ring.wpos + n \in Nat
          /\ ring.wpos + n < ring.wpos + i
          /\ ring.wpos + i < (ring.wpos + n) + N
      <4>1. n < i /\ i < n + N /\ i \in Nat /\ N \in Nat
        BY <1>1, <1>2, <2>1
      <4>2. QED
        BY <1>2, <1>4, <1>11, <4>1
    <3>2. QED
      BY <1>1, <3>1, Apart
  <2>4. QED
    BY <1>8, <1>9, <1>10, <2>1, <2>2, <2>3
<1>14. g.rpos = ring.rpos
  BY <1>6 DEF Filled
<1>15. Filled(n + 1, g, ring, chars)
  BY <1>7, <1>12, <1>13, <1>14 DEF Filled
<1>16. QED
  BY <1>6, <1>15 DEF g, c

\* cons_intr leaves the last characters of the port in the ring, as many as have
\* room there, and behind them what was in the ring before.
LEMMA IntrFills ==
    ASSUME ConsoleAssumption, NEW C, NEW ring \in RingOf(C), NEW chars \in Seq(C)
    PROVE  /\ cons_intr(ring, chars) \in RingOf(C)
           /\ Filled(Len(chars), cons_intr(ring, chars), ring, chars)
<1> DEFINE k == Len(chars)
<1>1. k \in Nat
  OBVIOUS
<1>2. PICK f : /\ f = [i \in 0..k |-> IF i = 0 THEN ring ELSE Put(f[i - 1], chars[i])]
               /\ cons_intr(ring, chars) = f[k]
  BY IntrTurns
<1> DEFINE Holds(n) == f[n] \in RingOf(C) /\ Filled(n, f[n], ring, chars)
           T == {n \in Nat : n <= k => Holds(n)}
<1>3. 0 \in T
  <2>1. f[0] = ring
    BY <1>1, <1>2
  <2>2. N \in Nat \ {0} /\ ring.wpos \in 0..N - 1
    BY DEF ConsoleAssumption, N, RingOf
  <2>3. (ring.wpos + 0) % N = ring.wpos
    BY <2>2
  <2>4. Filled(0, ring, ring, chars)
    BY <2>3 DEF Filled
  <2>5. QED
    BY <2>1, <2>4
<1>4. ASSUME NEW n \in Nat, n \in T  PROVE n + 1 \in T
  <2>1. SUFFICES ASSUME n + 1 <= k PROVE Holds(n + 1)
    OBVIOUS
  <2>2. n \in 0..Len(chars) - 1 /\ n <= k /\ n + 1 \in 0..k /\ n + 1 # 0 /\ (n + 1) - 1 = n
    BY <1>1, <2>1
  <2>3. Holds(n)
    BY <1>4, <2>2
  <2>4. f[n + 1] = Put(f[n], chars[n + 1])
    <3> HIDE DEF k
    <3>1. QED
      BY <1>2, <2>2
  <2>5. QED
    <3> HIDE DEF k
    <3>1. f[n] \in RingOf(C) /\ Filled(n, f[n], ring, chars)
      BY <2>3
    <3>2. QED
      BY <2>2, <2>4, <3>1, PutFills
<1>5. Nat \subseteq T
  <2> HIDE DEF T
  <2>1. QED
    BY <1>3, <1>4, Induction
<1>6. k <= k
  BY <1>1
<1>7. Holds(k)
  BY <1>1, <1>5, <1>6
<1>8. QED
  BY <1>2, <1>7

\* The j-th unread character of the ring, from 0 on.
InCons(ring, j) == ring.buf[(ring.rpos + j) % N]

\* The constants are numbers, as the indices of the ring are.
LEMMA Sizes ==
    ASSUME ConsoleAssumption
    PROVE  N \in Nat \ {0, 1} /\ B \in Nat \ {0, 1} /\ MaxTyped \in Nat /\ MaxLen \in Nat
BY DEF ConsoleAssumption, N, B

\* The number of unread characters leads from where the ring is read to where it
\* is written, and it is the only number below CONSBUFSIZE that does.
LEMMA UnreadFacts ==
    ASSUME ConsoleAssumption, NEW C, NEW ring \in RingOf(C)
    PROVE  /\ Unread(ring) \in 0..N - 1
           /\ ring.wpos = (ring.rpos + Unread(ring)) % N
           /\ Unread(ring) = 0 <=> ring.rpos = ring.wpos
           /\ \A v \in 0..N - 1 : ring.wpos = (ring.rpos + v) % N => v = Unread(ring)
<1> DEFINE r == ring.rpos
           w == ring.wpos
           u == IF r <= w THEN w - r ELSE w - r + N
<1>1. N \in Nat \ {0} /\ r \in 0..N - 1 /\ w \in 0..N - 1
  BY Sizes DEF RingOf
<1>2. Unread(ring) = (w - r + N) % N
  BY DEF Unread, N
<1> HIDE DEF r, w
<1>3. u \in 0..N - 1 /\ ((r + u = w) \/ (r + u = w + N))
  BY <1>1
<1>4. Unread(ring) = u
  <2>1. CASE r <= w
    <3>1. w - r \in Nat /\ w - r + N = 1 * N + (w - r) /\ w - r \in 0..N - 1
          /\ w - r + N \in Nat
      BY <1>1, <2>1
    <3>2. (w - r + N) % N = w - r
      BY <1>1, <3>1, Remainder
    <3>3. QED
      BY <1>2, <2>1, <3>2
  <2>2. CASE ~(r <= w)
    <3>1. w - r + N \in 0..N - 1
      BY <1>1, <2>2
    <3>2. (w - r + N) % N = w - r + N
      BY <1>1, <3>1
    <3>3. QED
      BY <1>2, <2>2, <3>2
  <2>3. QED
    BY <2>1, <2>2
<1> HIDE DEF u
<1>5. \A v \in 0..N - 1 : (r + v) % N = IF r + v < N THEN r + v ELSE r + v - N
  <2> SUFFICES ASSUME NEW v \in 0..N - 1
               PROVE  (r + v) % N = IF r + v < N THEN r + v ELSE r + v - N
    OBVIOUS
  <2>1. CASE r + v < N
    BY <1>1, <2>1
  <2>2. CASE ~(r + v < N)
    <3>1. r + v - N \in 0..N - 1 /\ r + v = 1 * N + (r + v - N) /\ r + v \in Nat
      BY <1>1, <2>2
    <3>2. (r + v) % N = r + v - N
      BY <1>1, <3>1, Remainder
    <3>3. QED
      BY <2>2, <3>2
  <2>3. QED
    BY <2>1, <2>2
<1>6. w = (r + u) % N
  BY <1>1, <1>3, <1>5
<1>7. u = 0 <=> r = w
  BY <1>1, <1>3
<1>8. ASSUME NEW v \in 0..N - 1, w = (r + v) % N  PROVE v = u
  BY <1>1, <1>3, <1>5, <1>8
<1>9. QED
  BY <1>3, <1>4, <1>6, <1>7, <1>8 DEF r, w

\* cons_intr drops the oldest characters of those that were unread and those that
\* come, as many as make up full turns of the ring, and keeps the others in order.
LEMMA IntrKeeps ==
    ASSUME ConsoleAssumption, NEW C, NEW ring \in RingOf(C), NEW chars \in Seq(C)
    PROVE  LET new == cons_intr(ring, chars)
               u == Unread(ring)
               k == Len(chars)
               d == u + k - Unread(new)
           IN  /\ new \in RingOf(C)
               /\ new.rpos = ring.rpos
               /\ d \in Nat
               /\ u + k < N => d = 0
               /\ \A j \in 0..Unread(new) - 1 :
                     InCons(new, j) = IF d + j < u THEN InCons(ring, d + j)
                                      ELSE chars[d + j - u + 1]
<1> DEFINE new == cons_intr(ring, chars)
           u == Unread(ring)
           k == Len(chars)
           v == (u + k) % N
           r == ring.rpos
<1>1. new \in RingOf(C) /\ Filled(k, new, ring, chars)
  BY IntrFills
<1>2. N \in Nat \ {0} /\ k \in Nat /\ r \in 0..N - 1
  BY Sizes DEF RingOf
<1>3. u \in 0..N - 1 /\ ring.wpos = (r + u) % N
  BY UnreadFacts
<1>4. new.rpos = r /\ new.wpos = (ring.wpos + k) % N
  BY <1>1 DEF Filled
<1> HIDE DEF new, u, k, r
<1>5. u + k \in Nat /\ r + u \in Nat /\ r \in Nat
  BY <1>2, <1>3
<1>6. v \in 0..N - 1
  BY <1>2, <1>5, Quotient
<1>7. PICK q \in Nat : u + k = q * N + v
  BY <1>2, <1>5, Quotient
<1>8. u + k < N => v = u + k
  BY <1>2, <1>5
<1> HIDE DEF v
<1>9. q * N \in Nat /\ u + k - v = q * N /\ (q = 0 \/ q * N >= N)
  <2>1. q * N \in Nat
    BY <1>2
  <2>2. q # 0 => q * N >= N
    <3>1. q # 0 => \E p \in Nat : q = p + 1
      <4>1. q # 0 => q - 1 \in Nat /\ q = (q - 1) + 1
        OBVIOUS
      <4>2. QED
        BY <4>1
    <3>2. \A p \in Nat : (p + 1) * N = p * N + N /\ p * N \in Nat
      BY <1>2
    <3>3. QED
      BY <1>2, <3>1, <3>2
  <2>3. QED
    BY <1>2, <1>3, <1>5, <1>6, <1>7, <2>1, <2>2
<1>10. Unread(new) = v
  <2>1. new.wpos = ((r + u) + k) % N
    <3>1. (((r + u) % N) + k) % N = ((r + u) + k) % N
      BY <1>2, <1>5, Shift
    <3>2. QED
      BY <1>3, <1>4, <3>1
  <2>2. (r + v) % N = (v + r) % N /\ (v + r) % N = ((u + k) + r) % N
    <3>1. r + v = v + r
      BY <1>2, <1>6
    <3>2. (v + r) % N = ((u + k) + r) % N
      BY <1>2, <1>5, Shift DEF v
    <3>3. QED
      BY <3>1, <3>2
  <2>3. (u + k) + r = (r + u) + k
    BY <1>2, <1>3
  <2>4. new.wpos = (new.rpos + v) % N
    BY <1>4, <2>1, <2>2, <2>3
  <2>5. QED
    BY <1>1, <1>6, <2>4, UnreadFacts
<1> DEFINE d == u + k - v
<1>11. d = q * N /\ d \in Nat
  BY <1>9
<1>12. u + k < N => d = 0
  BY <1>2, <1>3, <1>5, <1>8
<1> HIDE DEF d
<1>13. \A x \in Nat, p \in Nat : (x + p * N) % N = x % N
  <2> TAKE x \in Nat, p \in Nat
  <2> DEFINE m == x % N
  <2>1. PICK a \in Nat : x = a * N + m
    BY <1>2, Quotient
  <2>2. m \in 0..N - 1
    BY <1>2, Quotient
  <2> HIDE DEF m
  <2>3. /\ (a + p) * N = a * N + p * N /\ a + p \in Nat
        /\ a * N \in Nat /\ p * N \in Nat
    BY <1>2
  <2>4. x + p * N = (a + p) * N + m /\ x + p * N \in Nat
    BY <2>1, <2>2, <2>3
  <2>5. (x + p * N) % N = m
    BY <1>2, <2>2, <2>3, <2>4, Remainder
  <2>6. QED
    BY <2>5 DEF m
<1>14. ASSUME NEW j \in 0..v - 1
       PROVE  InCons(new, j) = IF d + j < u THEN InCons(ring, d + j)
                               ELSE chars[d + j - u + 1]
  <2>1. j \in Nat /\ j < v /\ r + j \in Nat /\ d + j \in Nat /\ d + j < u + k
    BY <1>2, <1>3, <1>5, <1>6, <1>11 DEF d
  <2>2. (r + (d + j)) % N = (r + j) % N
    <3>1. r + (d + j) = (r + j) + q * N
      BY <1>2, <1>11, <2>1
    <3>2. QED
      BY <1>13, <2>1, <3>1
  <2>3. InCons(new, j) = new.buf[(r + (d + j)) % N]
    BY <1>4, <2>2 DEF InCons
  <2>4. CASE d + j >= u
    <3> DEFINE i == d + j - u
    <3>1. i \in 0..k - 1 /\ i \in Nat /\ r + (d + j) = (r + u) + i /\ k - N <= i
      BY <1>2, <1>3, <1>5, <1>6, <1>11, <2>1, <2>4 DEF d
    <3> HIDE DEF i
    <3>2. (ring.wpos + i) % N = (r + (d + j)) % N
      <4>1. (((r + u) % N) + i) % N = ((r + u) + i) % N
        BY <1>2, <1>5, <3>1, Shift
      <4>2. QED
        BY <1>3, <3>1, <4>1
    <3>3. new.buf[(ring.wpos + i) % N] = chars[i + 1]
      BY <1>1, <3>1 DEF Filled
    <3>4. ~(d + j < u)
      BY <1>3, <2>1, <2>4
    <3>5. QED
      BY <2>3, <3>2, <3>3, <3>4 DEF i
  <2>5. CASE d + j < u
    <3>1. d = 0 /\ v = u + k
      BY <1>2, <1>3, <1>5, <1>6, <1>9, <1>11, <2>1, <2>5 DEF d
    <3> DEFINE i == (N - u) + j
    <3>2. i \in k..N - 1 /\ i \in Nat /\ (r + u) + i = (r + j) + N
      BY <1>2, <1>3, <1>5, <1>6, <2>1, <2>5, <3>1
    <3> HIDE DEF i
    <3>3. (ring.wpos + i) % N = (r + j) % N
      <4>1. (ring.wpos + i) % N = ((r + u) + i) % N
        <5>1. (((r + u) % N) + i) % N = ((r + u) + i) % N
          BY <1>2, <1>5, <3>2, Shift
        <5>2. QED
          BY <1>3, <5>1
      <4>2. QED
        BY <1>2, <2>1, <3>2, <4>1, Period
    <3>4. new.buf[(ring.wpos + i) % N] = ring.buf[(ring.wpos + i) % N]
      BY <1>1, <3>2 DEF Filled
    <3>5. InCons(ring, d + j) = ring.buf[(r + j) % N]
      BY <2>2 DEF InCons, r
    <3>6. QED
      BY <2>2, <2>3, <2>5, <3>3, <3>4, <3>5
  <2>6. QED
    BY <1>3, <2>1, <2>4, <2>5
<1>15. QED
  BY <1>1, <1>4, <1>10, <1>11, <1>12, <1>14 DEF d, new, u, k, r

\* cons_getc takes the oldest unread character and leaves the others in order.
LEMMA GetcTakes ==
    ASSUME ConsoleAssumption, NEW C, NEW ring \in RingOf(C), Unread(ring) # 0
    PROVE  /\ after_getc(ring) \in RingOf(C)
           /\ ring.buf[ring.rpos] = InCons(ring, 0)
           /\ ring.buf[ring.rpos] \in C
           /\ Unread(after_getc(ring)) = Unread(ring) - 1
           /\ \A j \in 0..Unread(ring) - 2 : InCons(after_getc(ring), j) = InCons(ring, j + 1)
<1> DEFINE r == ring.rpos
           u == Unread(ring)
           new == [ring EXCEPT !.rpos = (@ + 1) % N]
<1>1. N \in Nat \ {0} /\ r \in 0..N - 1
  BY Sizes DEF RingOf
<1>2. u \in 0..N - 1 /\ ring.wpos = (r + u) % N
  BY UnreadFacts
<1>3. after_getc(ring) = new
  BY UnreadFacts DEF after_getc, N
<1>4. (r + 1) % N \in 0..N - 1 /\ r + 1 \in Nat
  <2>1. r + 1 \in Nat
    BY <1>1
  <2>2. QED
    BY <1>1, <2>1, Quotient
<1>5. new \in RingOf(C) /\ new.rpos = (r + 1) % N /\ new.wpos = ring.wpos /\ new.buf = ring.buf
  BY <1>4 DEF RingOf
<1>6. (r + 0) % N = r /\ r + 0 = r
  BY <1>1
<1>7. ring.buf[r] = InCons(ring, 0)
  BY <1>6 DEF InCons
<1>8. ring.buf[r] \in C
  BY <1>1 DEF RingOf
<1> HIDE DEF r, u, new
<1>9. \A j \in Nat : (new.rpos + j) % N = (r + (j + 1)) % N
  <2> TAKE j \in Nat
  <2>1. (new.rpos + j) % N = ((r + 1) + j) % N
    <3>1. (((r + 1) % N) + j) % N = ((r + 1) + j) % N
      BY <1>1, <1>4, Shift
    <3>2. QED
      BY <1>5, <3>1
  <2>2. (r + 1) + j = r + (j + 1)
    BY <1>1
  <2>3. QED
    BY <2>1, <2>2
<1>10. Unread(new) = u - 1
  <2>1. u - 1 \in 0..N - 1 /\ u - 1 \in Nat /\ (u - 1) + 1 = u
    BY <1>1, <1>2 DEF u
  <2>2. (new.rpos + (u - 1)) % N = new.wpos
    BY <1>2, <1>5, <1>9, <2>1
  <2>3. QED
    BY <1>5, <2>1, <2>2, UnreadFacts
<1>11. ASSUME NEW j \in 0..u - 2  PROVE InCons(new, j) = InCons(ring, j + 1)
  <2>1. j \in Nat
    OBVIOUS
  <2>2. QED
    BY <1>5, <1>9, <2>1 DEF InCons, r
<1>12. QED
  BY <1>3, <1>5, <1>7, <1>8, <1>10, <1>11 DEF r, u

-----------------------------------------------------------------------------
(* The invariant *)

\* The i-th character dev_stdin_write has been given, from 1 on: a reader has it,
\* or it is in stdin_buffer.
Given(i) == IF i <= p_rpos THEN out[i] ELSE stdin_buffer[(i - 1) % B]

\* How many characters have left the port.
Arrived == typed - Len(port)

CharTypes ==
    /\ typed \in 0..MaxTyped
    /\ port \in Seq(Nat)
    /\ cons \in RingOf(Nat)
    /\ stdin_buffer \in [0..B - 1 -> Nat]
    /\ p_rpos \in Nat /\ p_wpos \in p_rpos..p_rpos + B
    /\ out \in Seq(Nat) /\ Len(out) = p_rpos
    /\ lost \in BOOLEAN

\* The port holds the latest characters, in order.
PortInv ==
    /\ Arrived \in Nat
    /\ \A i \in 1..Len(port) : port[i] = Arrived + i

\* The unread characters of the ring come in the order they were typed, after all
\* that stdin was given; stdin was given nothing twice.
OrderInv ==
    /\ \A i \in 1..p_wpos : Given(i) \in 1..Arrived
    /\ \A i, j \in 1..p_wpos : Given(i) = Given(j) => i = j
    /\ \A j \in 0..Unread(cons) - 1 : InCons(cons, j) \in 1..Arrived
    /\ \A i, j \in 0..Unread(cons) - 1 : i < j => InCons(cons, i) < InCons(cons, j)
    /\ \A i \in 1..p_wpos, j \in 0..Unread(cons) - 1 : Given(i) < InCons(cons, j)

\* Before a buffer has been full every place holds the character of its number.
ExactInv ==
    /\ p_wpos + Unread(cons) = Arrived
    /\ \A i \in 1..p_wpos : Given(i) = i
    /\ \A j \in 0..Unread(cons) - 1 : InCons(cons, j) = p_wpos + j + 1

CharInv == CharTypes /\ PortInv /\ OrderInv /\ (~lost => ExactInv)

WaitTypes ==
    /\ wait_queue \in Seq(Reader)
    /\ pc \in [Reader -> {"user", "asleep", "woken", "dead"}]
    /\ len \in [Reader -> Nat] /\ ret \in [Reader -> Nat]
    /\ wakeup_flags \in [Reader -> {"WT_INTERRUPTED", "WT_KBD"}]
    /\ exiting \in [Reader -> BOOLEAN]

\* A reader is in the queue from wait_current_set until a character or he himself
\* takes him out, and wakeup_flags tell which.
WaitInv ==
    /\ WaitTypes
    /\ IsInjective(wait_queue)
    /\ \A r \in ToSet(wait_queue) : pc[r] \in {"asleep", "woken"}
    /\ \A r \in Reader : ret[r] <= len[r]
    /\ \A r \in Reader : pc[r] = "asleep" =>
         /\ r \in ToSet(wait_queue)
         /\ wakeup_flags[r] = "WT_INTERRUPTED"
         /\ p_rpos = p_wpos
    /\ \A r \in Reader : pc[r] = "woken" /\ wakeup_flags[r] = "WT_KBD" =>
         r \notin ToSet(wait_queue)

IInv == part = "stdin" => CharInv /\ WaitInv

-----------------------------------------------------------------------------
(* Characters *)

\* cons_intr keeps the characters of the ring in order, those of the port are
\* after them, and before an overrun none is dropped.
LEMMA IntrOrder ==
    ASSUME ConsoleAssumption, CharTypes, PortInv, OrderInv, ~lost => ExactInv
    PROVE  LET ring == cons_intr(cons, port)
           IN  /\ ring \in RingOf(Nat)
               /\ Unread(ring) \in 0..N - 1
               /\ \A j \in 0..Unread(ring) - 1 : InCons(ring, j) \in 1..typed
               /\ \A i, j \in 0..Unread(ring) - 1 : i < j => InCons(ring, i) < InCons(ring, j)
               /\ \A i \in 1..p_wpos, j \in 0..Unread(ring) - 1 : Given(i) < InCons(ring, j)
               /\ ~lost /\ Unread(cons) + Len(port) < N =>
                    /\ p_wpos + Unread(ring) = typed
                    /\ \A j \in 0..Unread(ring) - 1 : InCons(ring, j) = p_wpos + j + 1
<1> DEFINE ring == cons_intr(cons, port)
           u == Unread(cons)
           v == Unread(ring)
           k == Len(port)
           d == u + k - v
           Whole(m) == IF m < u THEN InCons(cons, m) ELSE port[m - u + 1]
<1>1. /\ cons \in RingOf(Nat) /\ port \in Seq(Nat) /\ k \in Nat /\ typed \in Nat
      /\ p_wpos \in Nat /\ p_rpos \in Nat /\ Arrived = typed - k /\ Arrived \in Nat
  BY Sizes DEF CharTypes, PortInv, Arrived
<1>2. /\ ring \in RingOf(Nat)
      /\ d \in Nat
      /\ u + k < N => d = 0
      /\ \A j \in 0..v - 1 : InCons(ring, j) = IF d + j < u THEN InCons(cons, d + j)
                                               ELSE port[d + j - u + 1]
  BY <1>1, IntrKeeps
<1>3. u \in 0..N - 1 /\ N \in Nat
  BY <1>1, UnreadFacts, Sizes
<1>4. v \in 0..N - 1
  BY <1>2, UnreadFacts
<1>5. /\ \A i \in 1..p_wpos : Given(i) \in 1..typed - k
      /\ \A j \in 0..u - 1 : InCons(cons, j) \in 1..typed - k
      /\ \A i, j \in 0..u - 1 : i < j => InCons(cons, i) < InCons(cons, j)
      /\ \A i \in 1..p_wpos, j \in 0..u - 1 : Given(i) < InCons(cons, j)
      /\ \A i \in 1..k : port[i] = (typed - k) + i
  BY <1>1 DEF OrderInv, PortInv
<1>6. ~lost => /\ p_wpos + u = typed - k
               /\ \A j \in 0..u - 1 : InCons(cons, j) = p_wpos + j + 1
  BY <1>1 DEF ExactInv
<1> HIDE DEF ring, u, v, k, d
<1>7. ASSUME NEW m \in 0..u + k - 1
      PROVE  /\ Whole(m) \in 1..typed
             /\ \A i \in 1..p_wpos : Given(i) < Whole(m)
             /\ ~lost => Whole(m) = p_wpos + m + 1
             /\ \A n \in 0..u + k - 1 : n < m => Whole(n) < Whole(m)
  <2>1. m \in Nat
    BY <1>1, <1>3
  <2>2. CASE m < u
    <3>1. m \in 0..u - 1 /\ Whole(m) = InCons(cons, m)
      BY <1>3, <2>1, <2>2
    <3>2. Whole(m) \in 1..typed
      BY <1>1, <1>5, <3>1
    <3>3. \A n \in 0..u + k - 1 : n < m => n \in 0..u - 1 /\ n < u
      BY <1>1, <1>3, <2>1, <2>2
    <3> HIDE DEF Whole
    <3>4. \A n \in 0..u + k - 1 : n < m => Whole(n) < Whole(m)
      BY <1>5, <3>1, <3>3 DEF Whole
    <3>5. QED
      BY <1>5, <1>6, <3>1, <3>2, <3>4
  <2>3. CASE m >= u
    <3>1. m - u + 1 \in 1..k /\ Whole(m) = port[m - u + 1]
      BY <1>1, <1>3, <2>1, <2>3
    <3>2. Whole(m) = (typed - k) + (m - u + 1)
      BY <1>5, <3>1
    <3>3. Whole(m) \in 1..typed /\ typed - k < Whole(m)
      BY <1>1, <1>3, <3>1, <3>2
    <3>4. ~lost => Whole(m) = p_wpos + m + 1
      BY <1>1, <1>3, <1>6, <2>1, <3>2
    <3>5. ASSUME NEW n \in 0..u + k - 1, n < m
          PROVE  Whole(n) < Whole(m)
      <4>1. CASE n < u
        <5>1. n \in 0..u - 1 /\ Whole(n) = InCons(cons, n)
          BY <1>1, <1>3, <4>1
        <5>2. Whole(n) \in 1..typed - k
          BY <1>5, <5>1
        <5> HIDE DEF Whole
        <5>3. QED
          BY <1>1, <3>3, <5>2
      <4>2. CASE n >= u
        <5>1. n - u + 1 \in 1..k /\ Whole(n) = port[n - u + 1]
          BY <1>1, <1>3, <4>2
        <5>2. Whole(n) = (typed - k) + (n - u + 1)
          BY <1>5, <5>1
        <5> HIDE DEF Whole
        <5>3. QED
          BY <1>1, <1>3, <2>1, <3>2, <3>5, <5>2
      <4>3. QED
        BY <1>1, <1>3, <4>1, <4>2
    <3>6. \A i \in 1..p_wpos : Given(i) < Whole(m)
      <4> HIDE DEF Whole
      <4>1. QED
        BY <1>1, <1>5, <3>3
    <3>7. QED
      BY <3>3, <3>4, <3>5, <3>6
  <2>4. QED
    BY <1>3, <2>1, <2>2, <2>3
<1>8. \A j \in 0..v - 1 : d + j \in 0..u + k - 1 /\ InCons(ring, j) = Whole(d + j)
  <2> SUFFICES ASSUME NEW j \in 0..v - 1
               PROVE  d + j \in 0..u + k - 1 /\ InCons(ring, j) = Whole(d + j)
    OBVIOUS
  <2>1. d + j \in 0..u + k - 1
    BY <1>1, <1>2, <1>3, <1>4 DEF d
  <2>2. Whole(d + j) = IF d + j < u THEN InCons(cons, d + j) ELSE port[d + j - u + 1]
    <3>1. d + j - u + 1 = (d + j) - u + 1
      BY <1>2, <1>3, <1>4
    <3>2. QED
      BY <3>1
  <2> HIDE DEF Whole
  <2>3. QED
    BY <1>2, <2>1, <2>2
<1> HIDE DEF Whole
<1>9. \A j \in 0..v - 1 : InCons(ring, j) \in 1..typed
  BY <1>7, <1>8
<1>10. \A i, j \in 0..v - 1 : i < j => InCons(ring, i) < InCons(ring, j)
  <2> SUFFICES ASSUME NEW i \in 0..v - 1, NEW j \in 0..v - 1, i < j
               PROVE  InCons(ring, i) < InCons(ring, j)
    OBVIOUS
  <2>1. d + i < d + j
    BY <1>2, <1>4
  <2>2. d + i \in 0..u + k - 1 /\ d + j \in 0..u + k - 1
    BY <1>8
  <2>3. Whole(d + i) < Whole(d + j)
    BY <1>7, <2>1, <2>2
  <2>4. QED
    BY <1>8, <2>3
<1>11. \A i \in 1..p_wpos, j \in 0..v - 1 : Given(i) < InCons(ring, j)
  BY <1>7, <1>8
<1>12. ASSUME ~lost, u + k < N
       PROVE  p_wpos + v = typed /\ \A j \in 0..v - 1 : InCons(ring, j) = p_wpos + j + 1
  <2>1. d = 0
    BY <1>2, <1>12
  <2>2. v = u + k
    BY <1>1, <1>3, <1>4, <2>1 DEF d
  <2>3. p_wpos + v = typed
    BY <1>1, <1>3, <1>6, <1>12, <2>2
  <2>4. ASSUME NEW j \in 0..v - 1  PROVE InCons(ring, j) = p_wpos + j + 1
    <3>1. d + j = j
      BY <2>1, <1>4
    <3>2. QED
      BY <1>7, <1>8, <1>12, <3>1
  <2>5. QED
    BY <2>3, <2>4
<1>13. QED
  BY <1>2, <1>4, <1>9, <1>10, <1>11, <1>12 DEF ring, u, v, k

\* dev_stdin_write puts the character after the others, or in the place of the
\* oldest unread one when stdin_buffer is full.
LEMMA WriteGives ==
    ASSUME ConsoleAssumption, CharTypes, NEW c \in Nat,
           stdin_buffer' = [stdin_buffer EXCEPT ![p_wpos % STDIN_BUFSIZE] = c],
           p_wpos' = (IF full THEN p_wpos ELSE p_wpos + 1),
           UNCHANGED << p_rpos, out >>
    PROVE  /\ stdin_buffer' \in [0..B - 1 -> Nat]
           /\ p_wpos' \in p_rpos..p_rpos + B
           /\ \E m \in 1..p_wpos' :
                /\ \A i \in 1..p_wpos' : /\ Given(i)' = IF i = m THEN c ELSE Given(i)
                                         /\ i # m => i \in 1..p_wpos
                /\ ~full => m = p_wpos + 1 /\ p_wpos' = p_wpos + 1
<1>1. /\ B \in Nat \ {0} /\ p_rpos \in Nat /\ p_wpos \in Nat
      /\ p_rpos <= p_wpos /\ p_wpos <= p_rpos + B
      /\ stdin_buffer \in [0..B - 1 -> Nat]
      /\ full <=> p_wpos = p_rpos + B
  BY Sizes DEF CharTypes, full, B
<1>2. \A x \in Nat : x % B \in 0..B - 1
  BY <1>1, Quotient
<1> DEFINE at == p_wpos % B
           new == [stdin_buffer EXCEPT ![at] = c]
<1>3. stdin_buffer' = new
  BY DEF B
<1>4. new \in [0..B - 1 -> Nat]
  BY <1>1
<1>5. \A x \in Nat : new[x % B] = IF x % B = at THEN c ELSE stdin_buffer[x % B]
  BY <1>1, <1>2
<1> HIDE DEF at, new
<1>6. p_wpos' \in p_rpos..p_rpos + B
  BY <1>1
<1>7. \A i \in 1..p_wpos' : Given(i)' = IF i <= p_rpos THEN out[i] ELSE new[(i - 1) % B]
  BY <1>3 DEF Given
<1>8. \A i \in 1..p_wpos' : i \in Nat /\ i - 1 \in Nat
  BY <1>6
<1>9. CASE full
  <2>1. p_wpos' = p_wpos /\ p_rpos + 1 \in 1..p_wpos
    BY <1>1, <1>9
  <2>2. at = p_rpos % B
    <3>1. at = (p_rpos + B) % B
      BY <1>1, <1>9 DEF at
    <3>2. QED
      BY <1>1, <3>1, Period
  <2>3. ASSUME NEW i \in 1..p_wpos
        PROVE  Given(i)' = IF i = p_rpos + 1 THEN c ELSE Given(i)
    <3>1. CASE i <= p_rpos
      BY <1>1, <1>7, <2>1, <3>1 DEF Given
    <3>2. CASE i = p_rpos + 1
      <4>1. i - 1 = p_rpos /\ ~(i <= p_rpos)
        BY <1>1, <3>2
      <4>2. QED
        BY <1>1, <1>5, <1>7, <2>1, <2>2, <3>2, <4>1
    <3>3. CASE i > p_rpos + 1
      <4>1. i - 1 \in Nat /\ ~(i <= p_rpos) /\ i # p_rpos + 1
            /\ p_rpos < i - 1 /\ i - 1 < p_rpos + B
        BY <1>1, <1>9, <3>3
      <4>2. p_rpos % B # (i - 1) % B
        BY <1>1, <4>1, Apart
      <4>3. QED
        BY <1>5, <1>7, <2>1, <2>2, <4>1, <4>2 DEF Given
    <3>4. QED
      BY <1>1, <3>1, <3>2, <3>3
  <2> DEFINE m == p_rpos + 1
  <2>4. /\ m \in 1..p_wpos'
        /\ \A i \in 1..p_wpos' : /\ Given(i)' = IF i = m THEN c ELSE Given(i)
                                 /\ i # m => i \in 1..p_wpos
        /\ ~full => m = p_wpos + 1 /\ p_wpos' = p_wpos + 1
    BY <1>9, <2>1, <2>3
  <2> HIDE DEF m
  <2>5. QED
    BY <1>3, <1>4, <1>6, <2>4
<1>10. CASE ~full
  <2>1. p_wpos' = p_wpos + 1 /\ p_wpos + 1 \in 1..p_wpos'
    BY <1>1, <1>10
  <2>2. ASSUME NEW i \in 1..p_wpos + 1
        PROVE  /\ Given(i)' = IF i = p_wpos + 1 THEN c ELSE Given(i)
               /\ i # p_wpos + 1 => i \in 1..p_wpos
    <3>1. CASE i = p_wpos + 1
      <4>1. i - 1 = p_wpos /\ ~(i <= p_rpos)
        BY <1>1, <3>1
      <4>2. QED
        BY <1>1, <1>5, <1>7, <2>1, <3>1, <4>1 DEF at
    <3>2. CASE i # p_wpos + 1 /\ i <= p_rpos
      BY <1>1, <1>7, <2>1, <3>2 DEF Given
    <3>3. CASE i # p_wpos + 1 /\ ~(i <= p_rpos)
      <4>1. i - 1 \in Nat /\ i \in 1..p_wpos
            /\ i - 1 < p_wpos /\ p_wpos < (i - 1) + B
        BY <1>1, <1>10, <3>3
      <4>2. (i - 1) % B # p_wpos % B
        BY <1>1, <4>1, Apart
      <4>3. QED
        BY <1>5, <1>7, <2>1, <3>3, <4>1, <4>2 DEF Given, at
    <3>4. QED
      BY <3>1, <3>2, <3>3
  <2>3. QED
    BY <1>3, <1>4, <1>6, <1>10, <2>1, <2>2
<1>11. QED
  BY <1>9, <1>10

\* A character that is typed comes last in the port.
LEMMA TypeChars ==
    ASSUME ConsoleAssumption, CharInv, Type
    PROVE  CharInv'
<1>1. /\ typed \in 0..MaxTyped /\ port \in Seq(Nat) /\ Len(port) \in Nat /\ MaxTyped \in Nat
      /\ Arrived \in Nat /\ \A i \in 1..Len(port) : port[i] = Arrived + i
      /\ Arrived = typed - Len(port)
  BY Sizes DEF CharInv, CharTypes, PortInv, Arrived
<1>2. /\ typed < MaxTyped /\ typed' = typed + 1 /\ port' = Append(port, typed + 1)
      /\ UNCHANGED << cons, stdin_buffer, p_rpos, p_wpos, out, lost >>
  BY DEF Type
<1>3. /\ typed' \in 0..MaxTyped /\ typed + 1 \in Nat
      /\ port' \in Seq(Nat) /\ Len(port') = Len(port) + 1
      /\ \A i \in 1..Len(port) : port'[i] = port[i]
      /\ port'[Len(port) + 1] = typed + 1
  BY <1>1, <1>2
<1>4. Arrived' = Arrived
  BY <1>1, <1>2, <1>3 DEF Arrived
<1>5. CharTypes'
  BY <1>2, <1>3 DEF CharInv, CharTypes
<1>6. PortInv'
  <2>1. ASSUME NEW i \in 1..Len(port')
        PROVE  port'[i] = Arrived + i
    <3>1. i \in 1..Len(port) \/ i = Len(port) + 1
      BY <1>1, <1>3
    <3>2. CASE i \in 1..Len(port)
      BY <1>1, <1>3, <3>2
    <3>3. CASE i = Len(port) + 1
      <4>1. Arrived + (Len(port) + 1) = typed + 1
        BY <1>1
      <4>2. QED
        BY <1>3, <3>3, <4>1
    <3>4. QED
      BY <3>1, <3>2, <3>3
  <2>2. QED
    BY <1>1, <1>4, <2>1 DEF PortInv
<1>7. \A i : Given(i)' = Given(i)
  BY <1>2 DEF Given
<1>8. OrderInv'
  BY <1>2, <1>4, <1>7 DEF CharInv, OrderInv
<1>9. ~lost' => ExactInv'
  BY <1>2, <1>4, <1>7 DEF CharInv, ExactInv
<1>10. QED
  BY <1>5, <1>6, <1>8, <1>9 DEF CharInv

\* What a reader takes is what stdin was given after what was read before, as much
\* as there is or as he wants.
LEMMA TakenFacts ==
    ASSUME ConsoleAssumption, CharTypes, NEW wanted \in Nat
    PROVE  /\ Taken(wanted) \in Seq(Nat)
           /\ Len(Taken(wanted)) <= wanted
           /\ p_rpos + Len(Taken(wanted)) <= p_wpos
           /\ Len(Taken(wanted)) = wanted \/ p_rpos + Len(Taken(wanted)) = p_wpos
           /\ \A i \in 1..Len(Taken(wanted)) : Taken(wanted)[i] = Given(p_rpos + i)
<1> DEFINE n == IF wanted < p_wpos - p_rpos THEN wanted ELSE p_wpos - p_rpos
           chars == [i \in 1..n |-> stdin_buffer[(p_rpos + i - 1) % STDIN_BUFSIZE]]
<1>1. p_rpos \in Nat /\ p_wpos \in Nat /\ p_rpos <= p_wpos /\ B \in Nat \ {0}
      /\ stdin_buffer \in [0..B - 1 -> Nat]
  BY Sizes DEF CharTypes
<1>2. n \in Nat /\ n <= wanted /\ p_rpos + n <= p_wpos /\ (n = wanted \/ p_rpos + n = p_wpos)
  BY <1>1
<1>3. Taken(wanted) = chars
  BY DEF Taken
<1> HIDE DEF n
<1>4. \A i \in 1..n : chars[i] \in Nat
  <2> SUFFICES ASSUME NEW i \in 1..n PROVE chars[i] \in Nat
    OBVIOUS
  <2>1. p_rpos + i - 1 \in Nat
    BY <1>1, <1>2
  <2>2. (p_rpos + i - 1) % B \in 0..B - 1
    BY <1>1, <2>1, Quotient
  <2>3. QED
    BY <1>1, <2>2 DEF B
<1>5. chars \in Seq(Nat) /\ Len(chars) = n
  <2>1. chars = [i \in 1..n |-> chars[i]]
    OBVIOUS
  <2> HIDE DEF chars
  <2>2. chars \in [1..n -> Nat]
    BY <1>4, <2>1
  <2>3. QED
    BY <1>2, <2>2, IsASeq, LenProperties
<1>6. \A i \in 1..n : chars[i] = Given(p_rpos + i)
  <2> SUFFICES ASSUME NEW i \in 1..n PROVE chars[i] = Given(p_rpos + i)
    OBVIOUS
  <2>1. ~(p_rpos + i <= p_rpos) /\ p_rpos + i - 1 = (p_rpos + i) - 1
    BY <1>1, <1>2
  <2>2. QED
    BY <2>1 DEF Given, B
<1>7. QED
  BY <1>2, <1>3, <1>5, <1>6

\* Reading moves characters from stdin_buffer to a reader, and stdin was given the
\* same as before.
LEMMA ReadChars ==
    ASSUME ConsoleAssumption, CharInv, NEW wanted \in Nat,
           out' = out \o Taken(wanted), p_rpos' = p_rpos + Len(Taken(wanted)),
           UNCHANGED << typed, buffers, lost >>
    PROVE  CharInv'
<1> DEFINE chars == Taken(wanted)
<1>1. CharTypes /\ p_rpos \in Nat /\ p_wpos \in Nat /\ p_rpos <= p_wpos /\ p_wpos <= p_rpos + B
      /\ B \in Nat /\ out \in Seq(Nat) /\ Len(out) = p_rpos
  BY Sizes DEF CharInv, CharTypes
<1>2. /\ chars \in Seq(Nat) /\ Len(chars) \in Nat /\ p_rpos + Len(chars) <= p_wpos
      /\ \A i \in 1..Len(chars) : chars[i] = Given(p_rpos + i)
  <2>1. /\ chars \in Seq(Nat) /\ p_rpos + Len(chars) <= p_wpos
        /\ \A i \in 1..Len(chars) : chars[i] = Given(p_rpos + i)
    BY <1>1, TakenFacts
  <2> HIDE DEF chars
  <2>2. QED
    BY <2>1
<1>3. /\ out' = out \o chars /\ p_rpos' = p_rpos + Len(chars)
      /\ UNCHANGED << typed, port, cons, stdin_buffer, p_wpos, lost >>
  BY DEF buffers
<1> HIDE DEF chars
<1>4. /\ out' \in Seq(Nat) /\ Len(out') = p_rpos + Len(chars)
      /\ \A i \in 1..p_rpos + Len(chars) :
           out'[i] = IF i <= p_rpos THEN out[i] ELSE chars[i - p_rpos]
  BY <1>1, <1>2, <1>3, ConcatProperties
<1>5. CharTypes'
  <2>1. p_rpos' \in Nat /\ p_wpos' \in p_rpos'..p_rpos' + B
    BY <1>1, <1>2, <1>3
  <2>2. QED
    BY <1>3, <1>4, <2>1 DEF CharInv, CharTypes
<1>6. \A i \in 1..p_wpos : Given(i)' = Given(i)
  <2> SUFFICES ASSUME NEW i \in 1..p_wpos PROVE Given(i)' = Given(i)
    OBVIOUS
  <2>1. Given(i)' = IF i <= p_rpos + Len(chars) THEN out'[i] ELSE stdin_buffer[(i - 1) % B]
    BY <1>3 DEF Given
  <2>2. CASE i <= p_rpos
    <3>1. i \in 1..p_rpos + Len(chars) /\ i <= p_rpos + Len(chars)
      BY <1>1, <1>2, <2>2
    <3>2. QED
      BY <1>4, <2>1, <2>2, <3>1 DEF Given
  <2>3. CASE ~(i <= p_rpos) /\ i <= p_rpos + Len(chars)
    <3>1. i \in 1..p_rpos + Len(chars) /\ i - p_rpos \in 1..Len(chars) /\ p_rpos + (i - p_rpos) = i
      BY <1>1, <1>2, <2>3
    <3>2. out'[i] = chars[i - p_rpos] /\ chars[i - p_rpos] = Given(i)
      BY <1>2, <1>4, <2>3, <3>1
    <3>3. QED
      BY <2>1, <2>3, <3>2
  <2>4. CASE ~(i <= p_rpos + Len(chars))
    <3>1. ~(i <= p_rpos)
      BY <1>1, <1>2, <2>4
    <3>2. QED
      BY <2>1, <2>4, <3>1 DEF Given
  <2>5. QED
    BY <2>2, <2>3, <2>4
<1>7. Arrived' = Arrived
  BY <1>3 DEF Arrived
<1>8. PortInv'
  BY <1>3, <1>7 DEF CharInv, PortInv
<1>9. OrderInv'
  BY <1>3, <1>6, <1>7 DEF CharInv, OrderInv
<1>10. ~lost' => ExactInv'
  BY <1>3, <1>6, <1>7 DEF CharInv, ExactInv
<1>11. QED
  BY <1>5, <1>8, <1>9, <1>10 DEF CharInv

\* The timer interrupt moves the port into the ring and a character of the ring to
\* stdin.
LEMMA TickChars ==
    ASSUME ConsoleAssumption, CharInv, Tick
    PROVE  CharInv'
<1> DEFINE ring == cons_intr(cons, port)
           v == Unread(ring)
           c == ring.buf[ring.rpos]
<1>1. /\ CharTypes /\ PortInv /\ OrderInv /\ (~lost => ExactInv)
      /\ typed \in 0..MaxTyped /\ MaxTyped \in Nat /\ p_rpos \in Nat /\ p_wpos \in Nat
      /\ Arrived \in Nat /\ Arrived <= typed /\ N \in Nat \ {0}
      /\ p_wpos \in p_rpos..p_rpos + B
  <2>1. Len(port) \in Nat
    BY DEF CharInv, CharTypes
  <2>2. QED
    BY <2>1, Sizes DEF CharInv, CharTypes, PortInv, Arrived
<1>2. /\ ring \in RingOf(Nat)
      /\ v \in 0..N - 1
      /\ \A j \in 0..v - 1 : InCons(ring, j) \in 1..typed
      /\ \A i, j \in 0..v - 1 : i < j => InCons(ring, i) < InCons(ring, j)
      /\ \A i \in 1..p_wpos, j \in 0..v - 1 : Given(i) < InCons(ring, j)
      /\ ~lost /\ Unread(cons) + Len(port) < N =>
           /\ p_wpos + v = typed
           /\ \A j \in 0..v - 1 : InCons(ring, j) = p_wpos + j + 1
  BY <1>1, IntrOrder
<1>3. v = 0 <=> ring.rpos = ring.wpos
  BY <1>2, UnreadFacts
<1>4. /\ port' = <<>> /\ cons' = after_getc(ring)
      /\ UNCHANGED << typed, p_rpos, out >>
      /\ ~lost' => /\ ~lost
                   /\ ~(Unread(cons) + Len(port) >= N)
                   /\ ~(full /\ ring.rpos # ring.wpos)
      /\ lost' \in BOOLEAN
  BY DEF Tick, N
<1>5. Unread(cons) + Len(port) \in Nat
  <2>1. Unread(cons) \in Nat /\ Len(port) \in Nat
    BY <1>1, UnreadFacts DEF CharTypes
  <2>2. QED
    BY <2>1
<1>6. ~lost' => /\ ~lost /\ ~(full /\ v # 0)
                /\ p_wpos + v = typed
                /\ \A j \in 0..v - 1 : InCons(ring, j) = p_wpos + j + 1
  BY <1>1, <1>2, <1>3, <1>4, <1>5
<1>7. Arrived' = typed
  BY <1>1, <1>4 DEF Arrived
<1>8. PortInv' /\ port' \in Seq(Nat)
  BY <1>1, <1>4, <1>7 DEF PortInv
<1>9. \A i \in 1..p_wpos : Given(i) \in 1..typed
  BY <1>1 DEF OrderInv
<1>10. CASE v = 0
  <2>1. /\ cons' = ring
        /\ UNCHANGED << stdin_buffer, p_wpos >>
    BY <1>3, <1>4, <1>10 DEF Tick, after_getc
  <2>2. CharTypes'
    BY <1>1, <1>2, <1>4, <1>8, <2>1 DEF CharTypes
  <2>3. \A i : Given(i)' = Given(i)
    BY <1>4, <2>1 DEF Given
  <2>4. Unread(cons') = 0 /\ 0..Unread(cons') - 1 = {}
    BY <1>10, <2>1
  <2>5. OrderInv'
    BY <1>1, <1>7, <1>9, <2>1, <2>3, <2>4 DEF OrderInv
  <2>6. ~lost' => ExactInv'
    <3>1. ~lost' => p_wpos + 0 = typed /\ \A i \in 1..p_wpos : Given(i) = i
      BY <1>1, <1>6, <1>10 DEF ExactInv
    <3>2. QED
      BY <1>7, <2>1, <2>3, <2>4, <3>1 DEF ExactInv
  <2>7. QED
    BY <1>8, <2>2, <2>5, <2>6 DEF CharInv
<1>11. CASE v # 0
  <2>1. /\ cons' \in RingOf(Nat)
        /\ c = InCons(ring, 0) /\ c \in Nat
        /\ Unread(cons') = v - 1
        /\ \A j \in 0..v - 2 : InCons(cons', j) = InCons(ring, j + 1)
    BY <1>2, <1>4, <1>11, GetcTakes
  <2>2. Write(c)
    BY <1>3, <1>11 DEF Tick
  <2> HIDE DEF c, v, ring
  <2>3. /\ stdin_buffer' = [stdin_buffer EXCEPT ![p_wpos % STDIN_BUFSIZE] = c]
        /\ p_wpos' = (IF full THEN p_wpos ELSE p_wpos + 1)
    BY <2>2 DEF Write
  <2>4. /\ stdin_buffer' \in [0..B - 1 -> Nat]
        /\ p_wpos' \in p_rpos..p_rpos + B
        /\ \E m \in 1..p_wpos' :
             /\ \A i \in 1..p_wpos' : /\ Given(i)' = IF i = m THEN c ELSE Given(i)
                                      /\ i # m => i \in 1..p_wpos
             /\ ~full => m = p_wpos + 1 /\ p_wpos' = p_wpos + 1
    BY <1>1, <1>4, <2>1, <2>3, WriteGives
  <2>5. PICK m \in 1..p_wpos' :
             /\ \A i \in 1..p_wpos' : /\ Given(i)' = IF i = m THEN c ELSE Given(i)
                                      /\ i # m => i \in 1..p_wpos
             /\ ~full => m = p_wpos + 1 /\ p_wpos' = p_wpos + 1
    BY <2>4
  <2>6. CharTypes'
    BY <1>1, <1>4, <1>8, <2>1, <2>4 DEF CharTypes
  <2>7. 0 \in 0..v - 1 /\ \A j \in 0..v - 2 : j + 1 \in 0..v - 1 /\ 0 < j + 1
    BY <1>1, <1>2, <1>11
  <2>8. c \in 1..typed /\ \A i \in 1..p_wpos : Given(i) < c
    BY <1>2, <2>1, <2>7
  <2>9. (v - 1) - 1 = v - 2
    BY <1>2
  <2>10. OrderInv'
    <3>1. \A i \in 1..p_wpos' : Given(i)' \in 1..typed
      BY <1>9, <2>5, <2>8
    <3>2. \A i, j \in 1..p_wpos' : Given(i)' = Given(j)' => i = j
      <4> SUFFICES ASSUME NEW i \in 1..p_wpos', NEW j \in 1..p_wpos', Given(i)' = Given(j)'
                   PROVE  i = j
        OBVIOUS
      <4>1. \A x \in 1..p_wpos' : x # m => Given(x)' = Given(x) /\ Given(x) # c /\ x \in 1..p_wpos
        BY <1>1, <1>9, <2>5, <2>8
      <4>2. Given(m)' = c
        BY <2>5
      <4>3. \A x, y \in 1..p_wpos : Given(x) = Given(y) => x = y
        BY <1>1 DEF OrderInv
      <4>4. QED
        BY <4>1, <4>2, <4>3
    <3>3. \A j \in 0..v - 2 : InCons(cons', j) \in 1..typed
      BY <1>2, <2>1, <2>7
    <3>4. \A i, j \in 0..v - 2 : i < j => InCons(cons', i) < InCons(cons', j)
      <4> SUFFICES ASSUME NEW i \in 0..v - 2, NEW j \in 0..v - 2, i < j
                   PROVE  InCons(cons', i) < InCons(cons', j)
        OBVIOUS
      <4>1. i + 1 < j + 1 /\ i + 1 \in 0..v - 1 /\ j + 1 \in 0..v - 1
        BY <2>7
      <4>2. QED
        BY <1>2, <2>1, <4>1
    <3>5. \A i \in 1..p_wpos', j \in 0..v - 2 : Given(i)' < InCons(cons', j)
      <4> SUFFICES ASSUME NEW i \in 1..p_wpos', NEW j \in 0..v - 2
                   PROVE  Given(i)' < InCons(cons', j)
        OBVIOUS
      <4>1. j + 1 \in 0..v - 1 /\ InCons(cons', j) = InCons(ring, j + 1)
        BY <2>1, <2>7
      <4>2. CASE i = m
        <5>1. InCons(ring, 0) < InCons(ring, j + 1)
          BY <1>2, <2>7
        <5>2. QED
          BY <2>1, <2>5, <4>1, <4>2, <5>1
      <4>3. CASE i # m
        BY <1>2, <2>5, <4>1, <4>3
      <4>4. QED
        BY <4>2, <4>3
    <3>6. QED
      BY <1>7, <2>1, <2>9, <3>1, <3>2, <3>3, <3>4, <3>5 DEF OrderInv
  <2>11. ~lost' => ExactInv'
    <3> SUFFICES ASSUME ~lost' PROVE ExactInv'
      OBVIOUS
    <3>1. /\ ExactInv /\ ~full /\ p_wpos + v = typed
          /\ \A j \in 0..v - 1 : InCons(ring, j) = p_wpos + j + 1
      BY <1>1, <1>6, <1>11
    <3>2. p_wpos' = p_wpos + 1 /\ m = p_wpos + 1 /\ c = p_wpos + 1
      BY <1>1, <2>1, <2>5, <2>7, <3>1
    <3>3. p_wpos' + (v - 1) = typed
      BY <1>1, <1>2, <3>1, <3>2
    <3>4. \A i \in 1..p_wpos' : Given(i)' = i
      <4>1. \A i \in 1..p_wpos : Given(i) = i
        BY <3>1 DEF ExactInv
      <4>2. QED
        BY <2>5, <3>2, <4>1
    <3>5. \A j \in 0..v - 2 : InCons(cons', j) = p_wpos' + j + 1
      <4> SUFFICES ASSUME NEW j \in 0..v - 2
                   PROVE  InCons(cons', j) = p_wpos' + j + 1
        OBVIOUS
      <4>1. InCons(cons', j) = p_wpos + (j + 1) + 1
        BY <2>1, <2>7, <3>1
      <4>2. p_wpos + (j + 1) + 1 = (p_wpos + 1) + j + 1
        BY <1>1, <1>2
      <4>3. QED
        BY <3>2, <4>1, <4>2
    <3>6. QED
      BY <1>7, <2>1, <2>9, <3>3, <3>4, <3>5 DEF ExactInv
  <2>12. QED
    BY <1>8, <2>6, <2>10, <2>11 DEF CharInv
<1>12. QED
  BY <1>10, <1>11

-----------------------------------------------------------------------------
(* Readers *)

\* A pass of the loop of dev_stdin_read by a reader that is not in the queue: he
\* returns, or has emptied stdin_buffer and is in the queue.
LEMMA ReadLoopWaits ==
    ASSUME ConsoleAssumption, CharTypes, WaitInv, NEW r \in Reader,
           NEW done \in Nat, NEW l \in Nat, done <= l, r \notin ToSet(wait_queue),
           ReadLoop(r, done, l, wait_queue),
           len' = [len EXCEPT ![r] = l], UNCHANGED << p_wpos, exiting >>
    PROVE  WaitInv'
<1> DEFINE n == Len(Taken(l - done))
<1>1. /\ p_rpos \in Nat /\ p_wpos \in Nat /\ l - done \in Nat
      /\ n \in Nat /\ n <= l - done /\ p_rpos + n <= p_wpos
      /\ n = l - done \/ p_rpos + n = p_wpos
  <2>1. p_rpos \in Nat /\ p_wpos \in Nat /\ l - done \in Nat
    BY DEF CharTypes
  <2> DEFINE chars == Taken(l - done)
  <2>2. /\ chars \in Seq(Nat) /\ Len(chars) <= l - done /\ p_rpos + Len(chars) <= p_wpos
        /\ Len(chars) = l - done \/ p_rpos + Len(chars) = p_wpos
    BY <2>1, TakenFacts
  <2> HIDE DEF chars
  <2>3. Len(chars) \in Nat
    BY <2>2
  <2>4. QED
    BY <2>1, <2>2, <2>3 DEF chars
<1>2. /\ p_rpos' = p_rpos + n
      /\ ret' = [ret EXCEPT ![r] = done + n]
      /\ IF done + n = l THEN Return(r) /\ wait_queue' = wait_queue
         ELSE Sleep(r, wait_queue)
  BY DEF ReadLoop
<1> HIDE DEF n
<1>3. WaitTypes /\ IsInjective(wait_queue)
  BY DEF WaitInv
<1>4. len' \in [Reader -> Nat] /\ ret' \in [Reader -> Nat] /\ exiting' \in [Reader -> BOOLEAN]
  BY <1>1, <1>2, <1>3 DEF WaitTypes
<1>5. \A q \in Reader : ret'[q] <= len'[q]
  <2>1. done + n <= l
    BY <1>1
  <2>2. QED
    BY <1>2, <1>3, <2>1 DEF WaitInv, WaitTypes
<1>6. \A q \in Reader : pc[q] = "asleep" => p_rpos' = p_wpos'
  <2>1. p_rpos = p_wpos => p_rpos + n = p_wpos
    BY <1>1
  <2>2. QED
    BY <1>2, <2>1 DEF WaitInv
<1>7. CASE done + n = l
  <2>1. /\ pc' = [pc EXCEPT ![r] = IF exiting[r] THEN "dead" ELSE "user"]
        /\ wakeup_flags' = wakeup_flags /\ wait_queue' = wait_queue
    BY <1>2, <1>7 DEF Return
  <2>2. WaitTypes'
    BY <1>3, <1>4, <2>1 DEF WaitTypes
  <2>3. /\ \A q \in Reader : q # r => pc'[q] = pc[q]
        /\ pc'[r] \in {"dead", "user"}
    BY <1>3, <2>1 DEF WaitTypes
  <2>4. \A q \in ToSet(wait_queue) : q \in Reader /\ q # r
    BY <1>3 DEF WaitTypes, ToSet
  <2>5. QED
    BY <1>3, <1>5, <1>6, <2>1, <2>2, <2>3, <2>4 DEF WaitInv
<1>8. CASE done + n # l
  <2>1. /\ pc' = [pc EXCEPT ![r] = "asleep"]
        /\ wakeup_flags' = [wakeup_flags EXCEPT ![r] = "WT_INTERRUPTED"]
        /\ wait_queue' = Append(wait_queue, r)
    BY <1>2, <1>8 DEF Sleep
  <2>2. p_rpos' = p_wpos'
    BY <1>1, <1>2, <1>8
  <2>3. /\ wait_queue' \in Seq(Reader) /\ IsInjective(wait_queue')
        /\ ToSet(wait_queue') = ToSet(wait_queue) \cup {r}
    BY <1>3, <2>1, AppendFresh DEF WaitTypes
  <2>4. WaitTypes'
    BY <1>3, <1>4, <2>1, <2>3 DEF WaitTypes
  <2>5. /\ \A q \in Reader : q # r => pc'[q] = pc[q] /\ wakeup_flags'[q] = wakeup_flags[q]
        /\ pc'[r] = "asleep" /\ wakeup_flags'[r] = "WT_INTERRUPTED"
    BY <1>3, <2>1 DEF WaitTypes
  <2>6. \A q \in ToSet(wait_queue) : q \in Reader /\ q # r
    BY <1>3 DEF WaitTypes, ToSet
  <2>7. \A q \in ToSet(wait_queue') : pc'[q] \in {"asleep", "woken"}
    BY <2>3, <2>5, <2>6 DEF WaitInv
  <2>8. \A q \in Reader : pc'[q] = "asleep" =>
          /\ q \in ToSet(wait_queue') /\ wakeup_flags'[q] = "WT_INTERRUPTED"
          /\ p_rpos' = p_wpos'
    BY <2>2, <2>3, <2>5 DEF WaitInv
  <2>9. \A q \in Reader : pc'[q] = "woken" /\ wakeup_flags'[q] = "WT_KBD" =>
          q \notin ToSet(wait_queue')
    BY <2>3, <2>5 DEF WaitInv
  <2>10. QED
    BY <1>5, <2>3, <2>4, <2>7, <2>8, <2>9 DEF WaitInv
<1>9. QED
  BY <1>7, <1>8

\* A read begins with a reader who is in no queue.
LEMMA ReadWaits ==
    ASSUME ConsoleAssumption, CharTypes, WaitInv, NEW r \in Reader, NEW l \in 1..MaxLen,
           Read(r, l)
    PROVE  WaitInv'
<1>1. /\ pc[r] = "user" /\ len' = [len EXCEPT ![r] = l]
      /\ ReadLoop(r, 0, l, wait_queue) /\ UNCHANGED << p_wpos, exiting >>
  BY DEF Read, buffers
<1>2. r \notin ToSet(wait_queue)
  BY <1>1 DEF WaitInv
<1>3. l \in Nat /\ 0 <= l /\ 0 \in Nat
  BY Sizes
<1>4. QED
  BY <1>1, <1>2, <1>3, ReadLoopWaits

\* After schedule() a reader that a character has woken reads on; one that a kill
\* has woken takes its wait_t out of the queue.
LEMMA ResumeWaits ==
    ASSUME ConsoleAssumption, CharTypes, WaitInv, NEW r \in Reader, Resume(r)
    PROVE  WaitInv'
<1>1. /\ pc[r] = "woken"
      /\ UNCHANGED << len, p_wpos, exiting >>
  BY DEF Resume, buffers
<1>2. WaitTypes /\ IsInjective(wait_queue)
  BY DEF WaitInv
<1>3. CASE wakeup_flags[r] = "WT_KBD"
  <2>1. r \notin ToSet(wait_queue)
    BY <1>1, <1>3 DEF WaitInv
  <2>2. ReadLoop(r, ret[r], len[r], wait_queue)
    BY <1>3 DEF Resume
  <2>3. ret[r] \in Nat /\ len[r] \in Nat /\ ret[r] <= len[r] /\ len' = [len EXCEPT ![r] = len[r]]
    BY <1>1, <1>2 DEF WaitInv, WaitTypes
  <2>4. QED
    BY <1>1, <2>1, <2>2, <2>3, ReadLoopWaits
<1>4. CASE wakeup_flags[r] # "WT_KBD"
  <2>1. /\ pc' = [pc EXCEPT ![r] = IF exiting[r] THEN "dead" ELSE "user"]
        /\ wait_queue' = RemoveFirst(wait_queue, r)
        /\ UNCHANGED << wakeup_flags, p_rpos, ret >>
    BY <1>4 DEF Resume, Return
  <2>2. /\ wait_queue' \in Seq(Reader) /\ IsInjective(wait_queue')
        /\ ToSet(wait_queue') = ToSet(wait_queue) \ {r}
    BY <1>2, <2>1, TakeOut DEF WaitTypes
  <2>3. WaitTypes'
    BY <1>1, <1>2, <2>1, <2>2 DEF WaitTypes
  <2>4. /\ \A q \in Reader : q # r => pc'[q] = pc[q]
        /\ pc'[r] \in {"dead", "user"}
    BY <1>2, <2>1 DEF WaitTypes
  <2>5. \A q \in ToSet(wait_queue') : q \in Reader
    BY <2>2 DEF ToSet
  <2>6. QED
    BY <1>1, <2>1, <2>2, <2>3, <2>4, <2>5 DEF WaitInv
<1>5. QED
  BY <1>3, <1>4

\* A kill wakes a sleeping reader and leaves him in the queue.
LEMMA KillWaits ==
    ASSUME WaitInv, NEW r \in Reader, Kill(r)
    PROVE  WaitInv'
<1>1. /\ pc' = [pc EXCEPT ![r] = IF @ = "asleep" THEN "woken" ELSE @]
      /\ exiting' = [exiting EXCEPT ![r] = TRUE]
      /\ UNCHANGED << p_rpos, p_wpos, wait_queue, len, ret, wakeup_flags >>
  BY DEF Kill, buffers
<1>2. WaitTypes
  BY DEF WaitInv
<1>3. WaitTypes'
  BY <1>1, <1>2 DEF WaitTypes
<1>4. /\ \A q \in Reader : q # r => pc'[q] = pc[q]
      /\ pc'[r] = IF pc[r] = "asleep" THEN "woken" ELSE pc[r]
  BY <1>1, <1>2 DEF WaitTypes
<1>5. \A q \in ToSet(wait_queue) : q \in Reader
  BY <1>2 DEF WaitTypes, ToSet
<1>6. QED
  BY <1>1, <1>3, <1>4, <1>5 DEF WaitInv

\* A process that ends in user mode is in no queue.
LEMMA DieWaits ==
    ASSUME WaitInv, NEW r \in Reader, Die(r)
    PROVE  WaitInv'
<1>1. /\ pc[r] = "user" /\ pc' = [pc EXCEPT ![r] = "dead"]
      /\ UNCHANGED << p_rpos, p_wpos, wait_queue, len, ret, wakeup_flags, exiting >>
  BY DEF Die, buffers
<1>2. WaitTypes
  BY DEF WaitInv
<1>3. WaitTypes'
  BY <1>1, <1>2 DEF WaitTypes
<1>4. (\A q \in Reader : q # r => pc'[q] = pc[q]) /\ pc'[r] = "dead"
  BY <1>1, <1>2 DEF WaitTypes
<1>5. \A q \in ToSet(wait_queue) : q \in Reader /\ q # r
  <2>1. \A q \in ToSet(wait_queue) : q \in Reader
    BY <1>2 DEF WaitTypes, ToSet
  <2>2. r \notin ToSet(wait_queue)
    BY <1>1 DEF WaitInv
  <2>3. QED
    BY <2>1, <2>2
<1>6. QED
  BY <1>1, <1>3, <1>4, <1>5 DEF WaitInv

\* wakeup_queue leaves nobody in the queue and nobody asleep.
LEMMA TickWaits ==
    ASSUME CharTypes, WaitInv, Tick
    PROVE  WaitInv'
<1>1. WaitTypes /\ UNCHANGED << p_rpos, len, ret, exiting >>
  BY DEF WaitInv, Tick
<1>2. CASE UNCHANGED << stdin_buffer, p_wpos, wait_queue, pc, wakeup_flags >>
  BY <1>1, <1>2 DEF WaitInv, WaitTypes
<1>3. CASE Wake(Len(wait_queue))
  <2>1. wait_queue \in Seq(Reader)
    BY <1>1 DEF WaitTypes
  <2>2. /\ SubSeq(wait_queue, 1, Len(wait_queue)) = wait_queue
        /\ SubSeq(wait_queue, Len(wait_queue) + 1, Len(wait_queue)) = <<>>
    BY <2>1, SubSeqFull, SubSeqEmpty
  <2> DEFINE first == ToSet(wait_queue)
  <2>3. /\ pc' = [r \in Reader |-> IF r \in first THEN "woken" ELSE pc[r]]
        /\ wakeup_flags' = [r \in Reader |-> IF r \in first THEN "WT_KBD"
                                             ELSE wakeup_flags[r]]
        /\ wait_queue' = <<>>
    BY <1>3, <2>2 DEF Wake
  <2>4. wait_queue' \in Seq(Reader) /\ IsInjective(wait_queue') /\ ToSet(wait_queue') = {}
    BY <2>3 DEF IsInjective, ToSet
  <2>5. WaitTypes'
    BY <1>1, <2>3, <2>4 DEF WaitTypes
  <2>6. \A r \in Reader : pc'[r] # "asleep"
    BY <2>3 DEF WaitInv
  <2>7. \A r \in Reader : ret'[r] <= len'[r]
    BY <1>1 DEF WaitInv
  <2>8. QED
    BY <2>4, <2>5, <2>6, <2>7 DEF WaitInv
<1>4. QED
  BY <1>2, <1>3 DEF Tick, Write

-----------------------------------------------------------------------------
(* Theorems *)

\* Both parts of the invariant hold while nobody has typed or read.
LEMMA InitConsole ==
    ASSUME ConsoleAssumption, Init
    PROVE  CharInv /\ WaitInv
<1>1. N \in Nat \ {0} /\ B \in Nat \ {0} /\ 0 \in 0..N - 1 /\ MaxTyped \in Nat
  BY Sizes
<1>2. cons = [buf |-> [i \in 0..N - 1 |-> 0], rpos |-> 0, wpos |-> 0]
  BY DEF Init, N
<1>3. cons \in RingOf(Nat)
  BY <1>1, <1>2 DEF RingOf
<1>4. Unread(cons) = 0
  BY <1>2, <1>3, UnreadFacts
<1>5. CharTypes
  <2>1. /\ typed = 0 /\ port = <<>> /\ stdin_buffer = [i \in 0..B - 1 |-> 0]
        /\ p_rpos = 0 /\ p_wpos = 0 /\ out = <<>> /\ lost = FALSE
    BY DEF Init, B
  <2>2. 0 \in 0..MaxTyped /\ 0 \in 0..0 + B /\ <<>> \in Seq(Nat) /\ Len(<<>>) = 0
    BY <1>1
  <2>3. QED
    BY <1>3, <2>1, <2>2 DEF CharTypes
<1>6. Arrived = 0
  <2>1. typed = 0 /\ Len(port) = 0
    BY DEF Init
  <2>2. QED
    BY <2>1 DEF Arrived
<1>7. PortInv
  BY <1>6 DEF Init, PortInv
<1>8. p_wpos = 0 /\ 1..0 = {} /\ 0..Unread(cons) - 1 = {}
  BY <1>4 DEF Init
<1>9. OrderInv /\ ExactInv
  BY <1>4, <1>6, <1>8 DEF OrderInv, ExactInv
<1>10. WaitInv
  <2>1. wait_queue \in Seq(Reader) /\ IsInjective(wait_queue) /\ ToSet(wait_queue) = {}
    BY DEF Init, IsInjective, ToSet
  <2>2. QED
    BY <2>1 DEF Init, WaitInv, WaitTypes
<1>11. QED
  BY <1>5, <1>7, <1>9, <1>10 DEF CharInv

\* Each step of Console keeps both parts of the invariant.
LEMMA NextConsole ==
    ASSUME ConsoleAssumption, CharInv, WaitInv, [Next]_vars
    PROVE  CharInv' /\ WaitInv'
<1>1. CharTypes
  BY DEF CharInv
<1>2. CASE Type
  <2>1. WaitInv'
    BY <1>2 DEF Type, readers, WaitInv, WaitTypes
  <2>2. QED
    BY <1>2, <2>1, TypeChars
<1>3. CASE Tick
  BY <1>1, <1>3, TickChars, TickWaits
<1>4. ASSUME NEW r \in Reader, NEW l \in 1..MaxLen, Read(r, l)
      PROVE  CharInv' /\ WaitInv'
  <2>1. /\ out' = out \o Taken(l - 0) /\ p_rpos' = p_rpos + Len(Taken(l - 0))
        /\ UNCHANGED << typed, buffers, lost >>
    BY <1>4 DEF Read, ReadLoop
  <2>2. l - 0 \in Nat
    BY Sizes
  <2>3. QED
    BY <1>1, <1>4, <2>1, <2>2, ReadChars, ReadWaits
<1>5. ASSUME NEW r \in Reader, Resume(r)
      PROVE  CharInv' /\ WaitInv'
  <2>1. UNCHANGED << typed, buffers, lost >>
    BY <1>5 DEF Resume
  <2>2. CASE wakeup_flags[r] = "WT_KBD"
    <3> DEFINE wanted == len[r] - ret[r]
    <3>1. out' = out \o Taken(wanted) /\ p_rpos' = p_rpos + Len(Taken(wanted))
      BY <1>5, <2>2 DEF Resume, ReadLoop
    <3>2. wanted \in Nat
      BY DEF WaitInv, WaitTypes
    <3> HIDE DEF wanted
    <3>3. QED
      BY <1>1, <1>5, <2>1, <3>1, <3>2, ReadChars, ResumeWaits
  <2>3. CASE wakeup_flags[r] # "WT_KBD"
    <3>1. UNCHANGED << p_rpos, out >>
      BY <1>5, <2>3 DEF Resume
    <3>2. CharInv'
      BY <2>1, <3>1 DEF buffers, CharInv, CharTypes, PortInv, OrderInv, ExactInv, Given, Arrived
    <3>3. QED
      BY <1>1, <1>5, <3>2, ResumeWaits
  <2>4. QED
    BY <2>2, <2>3
<1>6. ASSUME NEW r \in Reader, Kill(r) \/ Die(r)
      PROVE  CharInv' /\ WaitInv'
  <2>1. UNCHANGED << typed, buffers, p_rpos, out, lost >>
    BY <1>6 DEF Kill, Die
  <2>2. CharInv'
    BY <2>1 DEF buffers, CharInv, CharTypes, PortInv, OrderInv, ExactInv, Given, Arrived
  <2>3. QED
    BY <1>6, <2>2, KillWaits, DieWaits
<1>7. CASE UNCHANGED vars
  <2>1. CharInv'
    BY <1>7 DEF vars, buffers, CharInv, CharTypes, PortInv, OrderInv, ExactInv, Given, Arrived
  <2>2. WaitInv'
    BY <1>7 DEF vars, buffers, readers, WaitInv, WaitTypes
  <2>3. QED
    BY <2>1, <2>2
<1>8. QED
  BY <1>2, <1>3, <1>4, <1>5, <1>6, <1>7 DEF Next

\* What the readers got, what waits for them, in stdin_buffer, in the ring and in
\* the port are the characters typed, each in its place (cons_intr, cons_getc,
\* dev_stdin_write, dev_stdin_read).
LEMMA CharsInPlace ==
    ASSUME ConsoleAssumption, CharInv
    PROVE  InOrder /\ CharsOnce
<1>1. /\ CharTypes /\ PortInv /\ OrderInv /\ (~lost => ExactInv)
      /\ p_rpos \in Nat /\ p_wpos \in Nat /\ p_rpos <= p_wpos
      /\ out \in Seq(Nat) /\ Len(out) = p_rpos
      /\ cons \in RingOf(Nat) /\ Unread(cons) \in 0..N - 1 /\ N \in Nat
      /\ port \in Seq(Nat) /\ Len(port) \in Nat
      /\ typed \in 0..MaxTyped /\ MaxTyped \in Nat
      /\ Arrived = typed - Len(port) /\ Arrived \in Nat
  BY Sizes, UnreadFacts DEF CharInv, CharTypes, PortInv, Arrived
<1>2. \A i \in 1..p_rpos : i \in 1..p_wpos /\ out[i] = Given(i)
  BY <1>1 DEF Given
<1>3. CharsOnce
  <2>1. \A i \in 1..p_rpos : out[i] # 0
    BY <1>1, <1>2 DEF OrderInv
  <2>2. \A i, j \in 1..p_rpos : out[i] = out[j] => i = j
    BY <1>1, <1>2 DEF OrderInv
  <2>3. QED
    BY <1>1, <2>1, <2>2 DEF CharsOnce, ToSet, IsInjective
<1>4. ASSUME ~lost
      PROVE  out \o Taken(MaxTyped) \o InRing \o port = [i \in 1..typed |-> i]
  <2> DEFINE u == Unread(cons)
             k == Len(port)
             w == p_wpos - p_rpos
             inBuffer == Taken(MaxTyped)
             given == out \o inBuffer
             moved == given \o InRing
             all == moved \o port
             numbers == [i \in 1..typed |-> i]
  <2>1. /\ p_wpos + u = typed - k
        /\ \A i \in 1..p_wpos : Given(i) = i
        /\ \A j \in 0..u - 1 : InCons(cons, j) = p_wpos + j + 1
    BY <1>1, <1>4 DEF ExactInv
  <2>2. u \in Nat /\ k \in Nat /\ w \in Nat /\ w <= MaxTyped
    BY <1>1, <2>1
  <2>3. /\ inBuffer \in Seq(Nat) /\ Len(inBuffer) = w
        /\ \A i \in 1..w : inBuffer[i] = p_rpos + i
    <3>1. /\ inBuffer \in Seq(Nat) /\ Len(inBuffer) <= MaxTyped
          /\ p_rpos + Len(inBuffer) <= p_wpos
          /\ Len(inBuffer) = MaxTyped \/ p_rpos + Len(inBuffer) = p_wpos
          /\ \A i \in 1..Len(inBuffer) : inBuffer[i] = Given(p_rpos + i)
      BY <1>1, TakenFacts
    <3> HIDE DEF inBuffer
    <3>2. Len(inBuffer) \in Nat
      BY <3>1
    <3>3. Len(inBuffer) = w
      <4> DEFINE n == Len(inBuffer)
      <4>1. /\ n \in Nat /\ n <= MaxTyped /\ p_rpos + n <= p_wpos
            /\ n = MaxTyped \/ p_rpos + n = p_wpos
        BY <3>1, <3>2
      <4> HIDE DEF n
      <4>2. n = p_wpos - p_rpos
        BY <1>1, <2>2, <4>1
      <4>3. QED
        BY <4>2 DEF n
    <3>4. \A i \in 1..w : p_rpos + i \in 1..p_wpos
      BY <1>1
    <3>5. QED
      BY <2>1, <3>1, <3>3, <3>4
  <2>4. /\ InRing \in Seq(Nat) /\ Len(InRing) = u
        /\ \A i \in 1..u : InRing[i] = p_wpos + i
    <3>1. InRing = [i \in 1..u |-> cons.buf[(cons.rpos + i - 1) % N]]
      BY DEF InRing, N
    <3>2. \A i \in 1..u : cons.buf[(cons.rpos + i - 1) % N] = p_wpos + i
      <4> SUFFICES ASSUME NEW i \in 1..u
                   PROVE  cons.buf[(cons.rpos + i - 1) % N] = p_wpos + i
        OBVIOUS
      <4>1. i - 1 \in 0..u - 1 /\ p_wpos + (i - 1) + 1 = p_wpos + i
        BY <1>1, <2>2
      <4>2. InCons(cons, i - 1) = p_wpos + i
        BY <2>1, <4>1
      <4>3. cons.rpos \in Nat
        BY <1>1 DEF RingOf
      <4>4. cons.rpos + i - 1 = cons.rpos + (i - 1)
        BY <4>3
      <4>5. QED
        BY <4>2, <4>4 DEF InCons
    <3> HIDE DEF u
    <3>3. InRing = [i \in 1..u |-> p_wpos + i]
      BY <3>1, <3>2
    <3>4. InRing \in [1..u -> Nat]
      BY <1>1, <3>3
    <3>5. QED
      BY <2>2, <3>3, <3>4, IsASeq, LenProperties
  <2> HIDE DEF u, k, w, inBuffer
  <2>5. /\ given \in Seq(Nat) /\ Len(given) = p_wpos
        /\ \A i \in 1..p_wpos : given[i] = i
    <3>1. /\ given \in Seq(Nat) /\ Len(given) = p_rpos + w
          /\ \A i \in 1..p_rpos + w :
               given[i] = IF i <= p_rpos THEN out[i] ELSE inBuffer[i - p_rpos]
      BY <1>1, <2>3, ConcatProperties
    <3>2. p_rpos + w = p_wpos
      BY <1>1 DEF w
    <3> HIDE DEF given
    <3>3. ASSUME NEW i \in 1..p_wpos  PROVE given[i] = i
      <4>1. CASE i <= p_rpos
        <5>1. out[i] = i
          BY <1>1, <1>2, <2>1, <4>1
        <5>2. QED
          BY <3>1, <3>2, <4>1, <5>1
      <4>2. CASE ~(i <= p_rpos)
        <5>1. i - p_rpos \in 1..w /\ p_rpos + (i - p_rpos) = i
          BY <1>1, <2>2, <3>2, <4>2
        <5>2. QED
          BY <2>3, <3>1, <3>2, <4>2, <5>1
      <4>3. QED
        BY <4>1, <4>2
    <3>4. QED
      BY <3>1, <3>2, <3>3
  <2> HIDE DEF given
  <2>6. /\ moved \in Seq(Nat) /\ Len(moved) = p_wpos + u
        /\ \A i \in 1..p_wpos + u : moved[i] = i
    <3>1. /\ moved \in Seq(Nat) /\ Len(moved) = p_wpos + u
          /\ \A i \in 1..p_wpos + u :
               moved[i] = IF i <= p_wpos THEN given[i] ELSE InRing[i - p_wpos]
      BY <2>4, <2>5, ConcatProperties
    <3> HIDE DEF moved
    <3>2. ASSUME NEW i \in 1..p_wpos + u  PROVE moved[i] = i
      <4>1. CASE i <= p_wpos
        BY <1>1, <2>5, <3>1, <4>1
      <4>2. CASE ~(i <= p_wpos)
        <5>1. i - p_wpos \in 1..u /\ p_wpos + (i - p_wpos) = i
          BY <1>1, <2>2, <4>2
        <5>2. QED
          BY <2>4, <3>1, <4>2, <5>1
      <4>3. QED
        BY <4>1, <4>2
    <3>3. QED
      BY <3>1, <3>2
  <2> HIDE DEF moved
  <2>7. /\ all \in Seq(Nat) /\ Len(all) = typed
        /\ \A i \in 1..typed : all[i] = i
    <3> DEFINE m == p_wpos + u
    <3>1. m \in Nat /\ m + k = typed /\ m = Arrived
      BY <1>1, <2>1, <2>2 DEF k
    <3>2. Len(moved) = m /\ \A i \in 1..m : moved[i] = i
      BY <2>6
    <3> HIDE DEF m
    <3>3. /\ all \in Seq(Nat) /\ Len(all) = m + k
          /\ \A i \in 1..m + k : all[i] = IF i <= m THEN moved[i] ELSE port[i - m]
      BY <1>1, <2>6, <3>2, ConcatProperties DEF k
    <3> HIDE DEF all
    <3>4. ASSUME NEW i \in 1..m + k  PROVE all[i] = i
      <4>1. CASE i <= m
        BY <3>1, <3>2, <3>3, <4>1
      <4>2. CASE ~(i <= m)
        <5>1. i - m \in 1..k /\ m + (i - m) = i
          BY <2>2, <3>1, <4>2
        <5>2. port[i - m] = m + (i - m)
          BY <1>1, <3>1, <5>1 DEF PortInv, k
        <5>3. QED
          BY <3>3, <4>2, <5>1, <5>2
      <4>3. QED
        BY <4>1, <4>2
    <3>5. QED
      BY <3>1, <3>3, <3>4
  <2> HIDE DEF all
  <2>8. all = [i \in 1..Len(all) |-> all[i]]
    BY <2>7
  <2>9. all = numbers
    BY <2>7, <2>8
  <2>10. QED
    BY <2>9 DEF all, moved, given, inBuffer
<1>5. QED
  BY <1>3, <1>4 DEF InOrder

\* The invariant holds throughout: a behaviour of the run is one of Console, or
\* leaves the console alone.
THEOREM ConsoleInvariant == MCSpec => []IInv
<1>1. MCInit => IInv
  BY ConsoleAssumption, InitConsole DEF MCInit, IInv
<1>2. IInv /\ [MCNext]_allvars => IInv'
  <2> SUFFICES ASSUME IInv, [MCNext]_allvars, part' = "stdin" PROVE CharInv' /\ WaitInv'
    BY DEF IInv
  <2>1. part = "stdin" /\ [Next]_vars
    BY DEF MCNext, allvars
  <2>2. QED
    BY <2>1, ConsoleAssumption, NextConsole DEF IInv
<1>3. QED
  BY <1>1, <1>2, PTL DEF MCSpec

\* For every size of the two buffers and every number of readers: before a buffer
\* has been full the characters are in the order they were typed, from the readers
\* to the port; after an overrun no character is handed out twice and none that
\* was not typed (cons_intr, cons_getc, dev_stdin_write, dev_stdin_read).
THEOREM CharsKept == MCSpec => []CharsExact
<1>1. IInv => CharsExact
  BY ConsoleAssumption, CharsInPlace DEF IInv, CharsExact
<1>2. QED
  BY <1>1, ConsoleInvariant, PTL

\* No reader sleeps while stdin_buffer holds a character, and a wait_t is in the
\* queue as long as its reader sleeps and never after dev_stdin_read has returned,
\* however kills and characters come (wait_current_set, wakeup_queue,
\* wait_current_del).
THEOREM ReadersKept == MCSpec => []ReadersWoken
<1>1. WaitInv => NoReaderForgotten /\ NoDanglingWait
  BY DEF WaitInv, NoReaderForgotten, NoDanglingWait
<1>2. IInv => ReadersWoken
  BY <1>1 DEF IInv, ReadersWoken
<1>3. QED
  BY <1>2, ConsoleInvariant, PTL

-----------------------------------------------------------------------------
(* The file systems of the same model *)

\* The sizes of both disks are as SfsProofs assumes.
LEMMA Disks == Sfs!Layout /\ Full!Layout
<1>1. IsFiniteSet(SomeDescriptors)
  <2>1. SomeDescriptors = {3} \cup {4}
    BY DEF SomeDescriptors
  <2> QED  BY <2>1, FS_Singleton, FS_Union
<1>2. Texts \subseteq Seq(Nat)
  <2>1. << 2, 1, 2 >> \in Seq(Nat)
    OBVIOUS
  <2> QED  BY <2>1 DEF Texts
<1>3. Positions \subseteq Nat
  BY DEF Positions
<1>4. CLOSED \notin [node : SomeFiles, pos : Nat] /\ CLOSED \notin [file : SomeFiles, pos : Nat]
  BY ClosedAssumption
<1>5. Sfs!Layout
  <2>1. Sfs!IsFiniteSet(SomeDescriptors)
    BY <1>1, Zenon DEF IsFiniteSet, Sfs!IsFiniteSet
  <2> QED  BY <2>1, <1>2, <1>3, <1>4 DEF Sfs!Layout
<1>6. Full!Layout
  <2>1. Full!IsFiniteSet(SomeDescriptors)
    BY <1>1, Zenon DEF IsFiniteSet, Full!IsFiniteSet
  <2> QED  BY <2>1, <1>2, <1>3, <1>4 DEF Full!Layout
<1> QED  BY <1>5, <1>6

FilesInv ==
    /\ part = "files" => Sfs!SfsInv
    /\ part = "full" => Full!SfsInv

\* While the part is a file system its invariant holds: the variables of that part
\* change only by the steps of Sfs.
THEOREM FilesInvariant == MCSpec => []FilesInv
<1>1. MCInit => FilesInv
  BY Disks, Sfs!InitInv, Full!InitInv DEF MCInit, FilesInv
<1>2. FilesInv /\ [MCNext]_allvars => FilesInv'
  <2> SUFFICES ASSUME FilesInv, [MCNext]_allvars  PROVE FilesInv'
    OBVIOUS
  <2>1. part' = part
    BY DEF MCNext, allvars
  <2>2. part = "files" => [Sfs!Next]_(Sfs!vars)
    BY DEF MCNext, allvars, OfFiles, Sfs!vars
  <2>3. part = "full" => [Full!Next]_(Full!vars)
    BY DEF MCNext, allvars, OfFiles, Full!vars
  <2>4. part = "files" => Sfs!SfsInv'
    BY <2>2, Disks, Sfs!NextInv DEF FilesInv
  <2>5. part = "full" => Full!SfsInv'
    BY <2>3, Disks, Full!NextInv DEF FilesInv
  <2> QED  BY <2>1, <2>4, <2>5 DEF FilesInv
<1>3. QED
  BY <1>1, <1>2, PTL DEF MCSpec

\* Every block is free or named at one place of one inode, and what read returns is
\* the bytes written, while blocks are allocated and freed, inodes come and go and the
\* disk runs full (sfs_block_alloc, sfs_bmap_load_nolock, sfs_truncfile,
\* sfs_io_nolock, sfs_fsync, sfs_reclaim).
THEOREM BlocksKept == MCSpec => []BlocksExact
<1>1. Sfs!SfsInv => Sfs!TypeOK /\ Sfs!BlocksOnce /\ Sfs!ReadExact
  BY Disks, Sfs!InvTypeOK, Sfs!InvBlocksOnce, Sfs!InvReadExact
<1>2. Full!SfsInv => Full!TypeOK /\ Full!BlocksOnce /\ Full!ReadExact
  BY Disks, Full!InvTypeOK, Full!InvBlocksOnce, Full!InvReadExact
<1>3. FilesInv => BlocksExact
  BY <1>1, <1>2, Disks DEF FilesInv, BlocksExact
<1>4. QED
  BY <1>3, FilesInvariant, PTL
-----------------------------------------------------------------------------
(* What programs see of both file systems *)

\* text and at of Bytes, and its actions in terms of them.
Shown ==
    CASE part = "files" -> Sfs!texts
      [] part = "full"  -> Full!texts
      [] OTHER          -> [f \in SomeFiles |-> << >>]

ShownAt ==
    CASE part = "files" -> Sfs!positions
      [] part = "full"  -> Full!positions
      [] OTHER          -> [d \in SomeDescriptors |-> CLOSED]

OpenShown(d, f, cut, end) ==
    /\ ShownAt[d] = CLOSED
    /\ Shown' = IF cut THEN [Shown EXCEPT ![f] = << >>] ELSE Shown
    /\ ShownAt' = [ShownAt EXCEPT ![d] = [file |-> f,
                                         pos |-> IF end THEN Len(Shown'[f]) ELSE 0]]

CloseShown(d) == ShownAt' = [ShownAt EXCEPT ![d] = CLOSED] /\ UNCHANGED Shown

WriteShown(d, w) ==
    \E n \in 0..Len(w) :
      /\ Shown' = [Shown EXCEPT ![ShownAt[d].file] =
                     Bytes!Written(@, ShownAt[d].pos, SubSeq(w, 1, n))]
      /\ ShownAt' = [ShownAt EXCEPT ![d].pos = @ + n]

ReadShown(d, n) ==
    /\ ShownAt' = [ShownAt EXCEPT ![d].pos =
                      @ + Bytes!Smaller(n, Bytes!Larger(0, Len(Shown[ShownAt[d].file])
                                                             - ShownAt[d].pos))]
    /\ UNCHANGED Shown

SeekShown(d, pos) ==
    /\ Shown' = [Shown EXCEPT ![ShownAt[d].file] =
                   Bytes!Written(@, Bytes!Larger(pos, Len(@)), << >>)]
    /\ ShownAt' = [ShownAt EXCEPT ![d].pos = pos]

LEMMA ShownBytes ==
    ASSUME NEW d
    PROVE  /\ \A f, cut, end : OpenShown(d, f, cut, end) => Bytes!Open(d, f, cut, end)
           /\ CloseShown(d) => Bytes!Close(d)
           /\ \A w : WriteShown(d, w) => Bytes!Write(d, w)
           /\ \A n : ReadShown(d, n) => Bytes!Read(d, n)
           /\ \A pos : SeekShown(d, pos) => Bytes!Seek(d, pos)
<1>1. ASSUME NEW f, NEW cut, NEW end  PROVE OpenShown(d, f, cut, end) => Bytes!Open(d, f, cut, end)
  BY Zenon DEF OpenShown, Shown, ShownAt, Bytes!Open
<1>2. CloseShown(d) => Bytes!Close(d)
  BY Zenon DEF CloseShown, Shown, ShownAt, Bytes!Close
<1>3. ASSUME NEW w  PROVE WriteShown(d, w) => Bytes!Write(d, w)
  BY Zenon DEF WriteShown, Shown, ShownAt, Bytes!Write
<1>4. ASSUME NEW n  PROVE ReadShown(d, n) => Bytes!Read(d, n)
  BY Zenon DEF ReadShown, Shown, ShownAt, Bytes!Read
<1>5. ASSUME NEW pos  PROVE SeekShown(d, pos) => Bytes!Seek(d, pos)
  BY Zenon DEF SeekShown, Shown, ShownAt, Bytes!Seek
<1> QED  BY <1>1, <1>2, <1>3, <1>4, <1>5

\* A step of Sfs in Contents is one of Bytes.
LEMMA SfsBytes ==
    ASSUME part = "files", part' = "files", Sfs!C!Next
    PROVE  Bytes!Next
<1>1. /\ Shown = Sfs!texts /\ Shown' = Sfs!texts'
      /\ ShownAt = Sfs!positions /\ ShownAt' = Sfs!positions'
  BY DEF Shown, ShownAt
<1>2. ASSUME NEW m, NEW n
      PROVE  Sfs!C!Larger(m, n) = Bytes!Larger(m, n) /\ Sfs!C!Smaller(m, n) = Bytes!Smaller(m, n)
  BY Zenon DEF Sfs!C!Larger, Bytes!Larger, Sfs!C!Smaller, Bytes!Smaller
<1>3. ASSUME NEW t, NEW pos, NEW w  PROVE Sfs!C!Written(t, pos, w) = Bytes!Written(t, pos, w)
  BY Zenon DEF Sfs!C!Written, Bytes!Written, Sfs!C!Larger, Bytes!Larger
<1>4. ASSUME NEW d, NEW f, NEW cut, NEW end, Sfs!C!Open(d, f, cut, end)
      PROVE  Bytes!Open(d, f, cut, end)
  <2>1. OpenShown(d, f, cut, end)
    BY <1>1, <1>4 DEF Sfs!C!Open, OpenShown
  <2> QED  BY <2>1, ShownBytes
<1>5. ASSUME NEW d, Sfs!positions[d] # CLOSED  PROVE ShownAt[d] # CLOSED
  BY <1>1, <1>5
<1>6. ASSUME NEW d, Sfs!C!Close(d)  PROVE Bytes!Close(d)
  <2>1. CloseShown(d)
    BY <1>1, <1>6 DEF Sfs!C!Close, CloseShown
  <2> QED  BY <2>1, ShownBytes
<1>7. ASSUME NEW d, NEW w, Sfs!C!Write(d, w)  PROVE Bytes!Write(d, w)
  <2>1. WriteShown(d, w)
    BY <1>1, <1>3, <1>7 DEF Sfs!C!Write, WriteShown
  <2> QED  BY <2>1, ShownBytes
<1>8. ASSUME NEW d, NEW n, Sfs!C!Read(d, n)  PROVE Bytes!Read(d, n)
  <2>1. ReadShown(d, n)
    BY <1>1, <1>2, <1>8 DEF Sfs!C!Read, ReadShown
  <2> QED  BY <2>1, ShownBytes
<1>9. ASSUME NEW d, NEW pos, Sfs!C!Seek(d, pos)  PROVE Bytes!Seek(d, pos)
  <2>1. SeekShown(d, pos)
    BY <1>1, <1>2, <1>3, <1>9 DEF Sfs!C!Seek, SeekShown
  <2> QED  BY <2>1, ShownBytes
<1> QED
  BY <1>4, <1>5, <1>6, <1>7, <1>8, <1>9, Zenon DEF Sfs!C!Next, Bytes!Next, ShownAt

\* A step of Full in Contents is one of Bytes.
LEMMA FullBytes ==
    ASSUME part = "full", part' = "full", Full!C!Next
    PROVE  Bytes!Next
<1>1. /\ Shown = Full!texts /\ Shown' = Full!texts'
      /\ ShownAt = Full!positions /\ ShownAt' = Full!positions'
  BY DEF Shown, ShownAt
<1>2. ASSUME NEW m, NEW n
      PROVE  Full!C!Larger(m, n) = Bytes!Larger(m, n) /\ Full!C!Smaller(m, n) = Bytes!Smaller(m, n)
  BY Zenon DEF Full!C!Larger, Bytes!Larger, Full!C!Smaller, Bytes!Smaller
<1>3. ASSUME NEW t, NEW pos, NEW w  PROVE Full!C!Written(t, pos, w) = Bytes!Written(t, pos, w)
  BY Zenon DEF Full!C!Written, Bytes!Written, Full!C!Larger, Bytes!Larger
<1>4. ASSUME NEW d, NEW f, NEW cut, NEW end, Full!C!Open(d, f, cut, end)
      PROVE  Bytes!Open(d, f, cut, end)
  <2>1. OpenShown(d, f, cut, end)
    BY <1>1, <1>4 DEF Full!C!Open, OpenShown
  <2> QED  BY <2>1, ShownBytes
<1>5. ASSUME NEW d, Full!positions[d] # CLOSED  PROVE ShownAt[d] # CLOSED
  BY <1>1, <1>5
<1>6. ASSUME NEW d, Full!C!Close(d)  PROVE Bytes!Close(d)
  <2>1. CloseShown(d)
    BY <1>1, <1>6 DEF Full!C!Close, CloseShown
  <2> QED  BY <2>1, ShownBytes
<1>7. ASSUME NEW d, NEW w, Full!C!Write(d, w)  PROVE Bytes!Write(d, w)
  <2>1. WriteShown(d, w)
    BY <1>1, <1>3, <1>7 DEF Full!C!Write, WriteShown
  <2> QED  BY <2>1, ShownBytes
<1>8. ASSUME NEW d, NEW n, Full!C!Read(d, n)  PROVE Bytes!Read(d, n)
  <2>1. ReadShown(d, n)
    BY <1>1, <1>2, <1>8 DEF Full!C!Read, ReadShown
  <2> QED  BY <2>1, ShownBytes
<1>9. ASSUME NEW d, NEW pos, Full!C!Seek(d, pos)  PROVE Bytes!Seek(d, pos)
  <2>1. SeekShown(d, pos)
    BY <1>1, <1>2, <1>3, <1>9 DEF Full!C!Seek, SeekShown
  <2> QED  BY <2>1, ShownBytes
<1> QED
  BY <1>4, <1>5, <1>6, <1>7, <1>8, <1>9, Zenon DEF Full!C!Next, Bytes!Next, ShownAt

\* What programs see of a file through open, close, read, write and seek is a sequence
\* of bytes: no block, no write-back, no inode that comes and goes and no full disk
\* shows (sfs_io_nolock, sfs_truncfile, sfs_fsync, sfs_reclaim, sfs_load_inode).
THEOREM ContentsKept == MCSpec => ImplementsContents
<1>1. MCInit => Bytes!Init
  <2> SUFFICES ASSUME MCInit  PROVE Bytes!Init
    OBVIOUS
  <2>1. CASE part = "stdin"
    <3>1. Shown = [f \in SomeFiles |-> << >>] /\ ShownAt = [d \in SomeDescriptors |-> CLOSED]
      BY <2>1 DEF Shown, ShownAt
    <3> QED  BY <3>1, Zenon DEF Bytes!Init, Shown, ShownAt
  <2>2. CASE part = "files"
    <3>1. Sfs!C!Init
      BY <2>2, Disks, Sfs!InitMoves DEF MCInit
    <3>2. Shown = Sfs!texts /\ ShownAt = Sfs!positions
      BY <2>2 DEF Shown, ShownAt
    <3>3. Shown = [f \in SomeFiles |-> << >>] /\ ShownAt = [d \in SomeDescriptors |-> CLOSED]
      BY <3>1, <3>2, Zenon DEF Sfs!C!Init
    <3> QED  BY <3>3, Zenon DEF Bytes!Init, Shown, ShownAt
  <2>3. CASE part = "full"
    <3>1. Full!C!Init
      BY <2>3, Disks, Full!InitMoves DEF MCInit
    <3>2. Shown = Full!texts /\ ShownAt = Full!positions
      BY <2>3 DEF Shown, ShownAt
    <3>3. Shown = [f \in SomeFiles |-> << >>] /\ ShownAt = [d \in SomeDescriptors |-> CLOSED]
      BY <3>1, <3>2, Zenon DEF Full!C!Init
    <3> QED  BY <3>3, Zenon DEF Bytes!Init, Shown, ShownAt
  <2> QED  BY <2>1, <2>2, <2>3 DEF MCInit
<1>2. FilesInv /\ [MCNext]_allvars => Bytes!Next \/ UNCHANGED << Shown, ShownAt >>
  <2> SUFFICES ASSUME FilesInv, [MCNext]_allvars
               PROVE  Bytes!Next \/ UNCHANGED << Shown, ShownAt >>
    OBVIOUS
  <2>1. part' = part
    BY DEF MCNext, allvars
  <2>2. CASE part = "files"
    <3>1. [Sfs!Next]_(Sfs!vars)
      BY <2>2 DEF MCNext, allvars, OfFiles, Sfs!vars
    <3>2. Sfs!Moves
      BY <2>2, <3>1, Disks, Sfs!NextMoves DEF FilesInv
    <3>3. UNCHANGED << Sfs!texts, Sfs!positions >> => UNCHANGED << Shown, ShownAt >>
      BY <2>1, <2>2 DEF Shown, ShownAt
    <3> QED  BY <2>1, <2>2, <3>2, <3>3, SfsBytes, Zenon DEF Sfs!Moves
  <2>3. CASE part = "full"
    <3>1. [Full!Next]_(Full!vars)
      BY <2>3 DEF MCNext, allvars, OfFiles, Full!vars
    <3>2. Full!Moves
      BY <2>3, <3>1, Disks, Full!NextMoves DEF FilesInv
    <3>3. UNCHANGED << Full!texts, Full!positions >> => UNCHANGED << Shown, ShownAt >>
      BY <2>1, <2>3 DEF Shown, ShownAt
    <3> QED  BY <2>1, <2>3, <3>2, <3>3, FullBytes, Zenon DEF Full!Moves
  <2>4. CASE part # "files" /\ part # "full"
    BY <2>1, <2>4 DEF Shown, ShownAt
  <2> QED  BY <2>2, <2>3, <2>4
<1>3. FilesInv /\ [MCNext]_allvars => [Bytes!Next]_<< Shown, ShownAt >>
  BY <1>2
<1>4. QED
  BY <1>1, <1>3, FilesInvariant, PTL DEF MCSpec, ImplementsContents, Bytes!Spec, Shown, ShownAt
=============================================================================
