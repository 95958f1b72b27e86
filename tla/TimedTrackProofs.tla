-------------------------- MODULE TimedTrackProofs --------------------------
(***************************************************************************)
(* Proofs about TimedTrack, for queues and buffers of any size.  The       *)
(* inductive invariant TimedInv is TypeOK, HeadInFlightStays and OrderInv: *)
(* the queue is in the order of queueing and, unless its head is in        *)
(* flight, holds nothing the mixer was given before.  The counting is a    *)
(* second induction on top of it: what each step does to the sum over the  *)
(* queue is what it does to the counters, modulo W.                        *)
(***************************************************************************)
EXTENDS TimedTrack, SequenceTheorems, WellFoundedInduction, TLAPS

-----------------------------------------------------------------------------
(* Remainders.  The moduli are constants of any value, which puts them out *)
(* of linear arithmetic: these lemmas bring the facts back into it.        *)

(* % and \div are division with a remainder between 0 and n - 1.           *)
LEMMA ModRange ==
    ASSUME NEW x \in Int, NEW n \in Nat \ {0}
    PROVE  /\ x % n \in 0..(n - 1)
           /\ x \div n \in Int
           /\ x = n * (x \div n) + (x % n)
  BY SMT

(* The remainder is unique.                                                *)
LEMMA ModUnique ==
    ASSUME NEW n \in Nat \ {0}, NEW q \in Int, NEW r \in 0..(n - 1)
    PROVE  (n * q + r) % n = r
  <1> DEFINE x == n * q + r
             d == q - (x \div n)
  <1>1. x \in Int
    OBVIOUS
  <1>2. /\ x % n \in 0..(n - 1) /\ x \div n \in Int
        /\ x = n * (x \div n) + (x % n)
    BY <1>1, ModRange
  <1>3. n * d = (x % n) - r
    BY <1>2
  <1>4. ASSUME d >= 1 PROVE FALSE
    <2>1. n * d >= n
      BY <1>4, <1>2
    <2> QED
      BY <2>1, <1>3, <1>2
  <1>5. ASSUME d <= -1 PROVE FALSE
    <2>1. n * d <= -n
      BY <1>5, <1>2
    <2> QED
      BY <2>1, <1>3, <1>2
  <1> QED
    BY <1>2, <1>3, <1>4, <1>5

(* Within one turn of the modulus, % adds or subtracts it once.            *)
LEMMA ModNear ==
    ASSUME NEW n \in Nat \ {0}, NEW r \in 0..(n - 1)
    PROVE  r % n = r /\ (n + r) % n = r /\ (r - n) % n = r
  <1>1. r = n * 0 + r /\ n + r = n * 1 + r /\ r - n = n * (-1) + r
    OBVIOUS
  <1>2. (n * 0 + r) % n = r /\ (n * 1 + r) % n = r /\ (n * (-1) + r) % n = r
    BY ModUnique
  <1> QED
    BY <1>1, <1>2

(* Multiples of the modulus do not matter.                                 *)
LEMMA ModShift ==
    ASSUME NEW n \in Nat \ {0}, NEW q \in Int, NEW x \in Int
    PROVE  (n * q + x) % n = x % n
  <1> DEFINE j == x \div n
             r == x % n
  <1>1. j \in Int /\ r \in 0..(n - 1) /\ x = n * j + r
    BY ModRange
  <1> HIDE DEF j, r
  <1>2. n * q + x = n * (q + j) + r /\ q + j \in Int
    BY <1>1
  <1>3. (n * (q + j) + r) % n = r
    BY <1>1, <1>2, ModUnique
  <1> QED
    BY <1>2, <1>3 DEF r

(* A counter that wraps at a multiple w of n is still right modulo n.      *)
LEMMA ModOfMod ==
    ASSUME NEW n \in Nat \ {0}, NEW w \in Nat \ {0}, w % n = 0,
           NEW x \in Int, NEW k \in Int
    PROVE  ((x % w) + k) % n = (x + k) % n
  <1> DEFINE h == w \div n
             j == x \div w
             r == x % w
  <1>1. h \in Int /\ w = n * h
    BY ModRange
  <1>2. j \in Int /\ r \in Int /\ x = w * j + r
    BY ModRange
  <1> HIDE DEF h, j, r
  <1>3. x + k = n * (h * j) + (r + k) /\ h * j \in Int /\ r + k \in Int
    BY <1>1, <1>2
  <1>4. (n * (h * j) + (r + k)) % n = (r + k) % n
    BY <1>3, ModShift
  <1> QED
    BY <1>3, <1>4 DEF r

-----------------------------------------------------------------------------
(* Induction is stated for a set of numbers, not for a predicate: the      *)
(* provers can give a set comprehension for the set, where they could not  *)
(* instantiate an operator.                                                *)

(* A set of natural numbers has a least element.                           *)
LEMMA LeastNatural ==
    ASSUME NEW T, T \subseteq Nat, T # {}
    PROVE  \E x \in T : \A y \in T : x <= y
  <1> DEFINE R == {ss \in Nat \X Nat : ss[1] < ss[2]}
  <1>1. IsWellFoundedOn(R, Nat)
    BY NatLessThanWellFounded, Zenon DEF OpToRel
  <1> HIDE DEF R
  <1>2. PICK x \in T : \A y \in T : ~(<<y, x>> \in R)
    BY <1>1, WFMin, Zenon
  <1>3. \A y \in T : ~(y < x)
    <2> SUFFICES ASSUME NEW y \in T, y < x PROVE <<y, x>> \in R
      BY <1>2
    <2>1. <<y, x>> \in Nat \X Nat
      OBVIOUS
    <2>2. <<y, x>>[1] < <<y, x>>[2]
      OBVIOUS
    <2> QED
      BY <2>1, <2>2, Zenon DEF R
  <1> QED
    BY <1>3

(* A set with 0 that is closed under + 1 has every natural number.         *)
LEMMA SetInduction ==
    ASSUME NEW T, 0 \in T, \A n \in Nat : n \in T => n + 1 \in T
    PROVE  \A n \in Nat : n \in T
  <1> SUFFICES ASSUME Nat \ T # {} PROVE FALSE
    OBVIOUS
  <1>1. PICK x \in Nat \ T : \A y \in Nat \ T : x <= y
    <2>1. Nat \ T \subseteq Nat
      OBVIOUS
    <2> QED
      BY <2>1, LeastNatural
  <1>2. x - 1 \in Nat /\ ~(x <= x - 1) /\ x = (x - 1) + 1
    BY <1>1
  <1>3. x - 1 \in T
    BY <1>1, <1>2
  <1> QED
    BY <1>1, <1>2, <1>3

-----------------------------------------------------------------------------
(* The sum of F[a + 1], F[a + 2], ... up to F[k].                          *)

(* The recursion up to n has a solution, ...                               *)
SumUpTo(F, a, n, h) ==
    h = [k \in 0..n |-> IF k <= a THEN 0 ELSE h[k - 1] + F[k]]

(* There is a table of partial sums of any length.                         *)
LEMMA SumUpToExists ==
    ASSUME NEW F, NEW a \in Nat, NEW n \in Nat
    PROVE  \E h : SumUpTo(F, a, n, h)
  <1> DEFINE T == {m \in Nat : \E h : SumUpTo(F, a, m, h)}
  <1>1. 0 \in T
    <2>1. SumUpTo(F, a, 0, [k \in 0..0 |-> 0])
      BY DEF SumUpTo
    <2> QED
      BY <2>1
  <1>2. ASSUME NEW m \in Nat, m \in T PROVE m + 1 \in T
    <2>1. PICK h : SumUpTo(F, a, m, h)
      BY <1>2
    <2> DEFINE v == IF m + 1 <= a THEN 0 ELSE h[m] + F[m + 1]
               g == [k \in 0..(m + 1) |-> IF k = m + 1 THEN v ELSE h[k]]
    <2>2. ASSUME NEW k \in 0..m
          PROVE  k \in 0..(m + 1) /\ k # m + 1 /\ k - 1 # m + 1
      OBVIOUS
    <2>3. ASSUME NEW k \in 0..(m + 1)
          PROVE  g[k] = IF k <= a THEN 0 ELSE g[k - 1] + F[k]
      <3>1. CASE k = m + 1
        <4>1. k - 1 \in 0..(m + 1) /\ k - 1 = m /\ k - 1 # m + 1
          BY <3>1
        <4> QED
          BY <3>1, <4>1
      <3>2. CASE k # m + 1
        <4>1. k \in 0..m
          BY <3>2
        <4>2. h[k] = IF k <= a THEN 0 ELSE h[k - 1] + F[k]
          BY <4>1, <2>1 DEF SumUpTo
        <4>3. g[k] = h[k]
          BY <4>1, <2>2
        <4>4. CASE k <= a
          BY <4>2, <4>3, <4>4
        <4>5. CASE ~(k <= a)
          <5>1. k - 1 \in 0..(m + 1) /\ k - 1 # m + 1
            BY <4>1, <4>5
          <5>2. g[k - 1] = h[k - 1]
            BY <5>1
          <5> HIDE DEF g
          <5> QED
            BY <4>2, <4>3, <4>5, <5>2
        <4> QED
          BY <4>4, <4>5
      <3> QED
        BY <3>1, <3>2
    <2>4. g = [k \in 0..(m + 1) |-> g[k]]
      OBVIOUS
    <2> HIDE DEF g
    <2>5. SumUpTo(F, a, m + 1, g)
      BY <2>3, <2>4 DEF SumUpTo
    <2> QED
      BY <2>5
  <1> HIDE DEF T
  <1>3. n \in T
    BY <1>1, <1>2, SetInduction
  <1> QED
    BY <1>3 DEF T

(* ... and two solutions agree where both are defined.                     *)
LEMMA SumUpToAgree ==
    ASSUME NEW F, NEW a \in Nat, NEW n \in Nat, NEW m \in Nat, NEW h, NEW g,
           SumUpTo(F, a, n, h), SumUpTo(F, a, m, g),
           NEW k \in Nat, k <= n, k <= m
    PROVE  h[k] = g[k]
  <1> DEFINE T == {j \in Nat : j <= n /\ j <= m => h[j] = g[j]}
  <1>0. ASSUME NEW j \in Nat, j <= n, j <= m
        PROVE  /\ h[j] = IF j <= a THEN 0 ELSE h[j - 1] + F[j]
               /\ g[j] = IF j <= a THEN 0 ELSE g[j - 1] + F[j]
    <2>1. j \in 0..n /\ j \in 0..m
      BY <1>0
    <2> QED
      BY <2>1 DEF SumUpTo
  <1>1. 0 \in T
    BY <1>0
  <1>2. ASSUME NEW j \in Nat, j \in T PROVE j + 1 \in T
    <2> SUFFICES ASSUME j + 1 <= n, j + 1 <= m PROVE h[j + 1] = g[j + 1]
      OBVIOUS
    <2>1. h[j] = g[j] /\ (j + 1) - 1 = j
      BY <1>2
    <2>2. /\ h[j + 1] = IF j + 1 <= a THEN 0 ELSE h[j] + F[j + 1]
          /\ g[j + 1] = IF j + 1 <= a THEN 0 ELSE g[j] + F[j + 1]
      BY <2>1, <1>0
    <2> QED
      BY <2>1, <2>2
  <1> HIDE DEF T
  <1>3. k \in T
    BY <1>1, <1>2, SetInduction
  <1> QED
    BY <1>3 DEF T

(* So the recursion over all natural numbers has a solution.               *)
LEMMA SumExists ==
    ASSUME NEW F, NEW a \in Nat
    PROVE  \E g : g = [k \in Nat |-> IF k <= a THEN 0 ELSE g[k - 1] + F[k]]
  <1> DEFINE H(n) == CHOOSE h : SumUpTo(F, a, n, h)
             g == [n \in Nat |-> H(n)[n]]
  <1>1. ASSUME NEW n \in Nat PROVE SumUpTo(F, a, n, H(n))
    BY SumUpToExists
  <1> HIDE DEF H
  <1>2. ASSUME NEW k \in Nat
        PROVE  g[k] = IF k <= a THEN 0 ELSE g[k - 1] + F[k]
    <2>1. H(k)[k] = IF k <= a THEN 0 ELSE H(k)[k - 1] + F[k]
      <3>1. k \in 0..k
        OBVIOUS
      <3> QED
        BY <3>1, <1>1 DEF SumUpTo
    <2>2. CASE k <= a
      BY <2>1, <2>2
    <2>3. CASE ~(k <= a)
      <3>1. k - 1 \in Nat /\ k - 1 <= k /\ k - 1 <= k - 1
        BY <2>3
      <3>2. SumUpTo(F, a, k, H(k)) /\ SumUpTo(F, a, k - 1, H(k - 1))
        BY <1>1, <3>1
      <3>3. H(k)[k - 1] = H(k - 1)[k - 1]
        BY <3>1, <3>2, SumUpToAgree
      <3>4. g[k] = H(k)[k] /\ g[k - 1] = H(k - 1)[k - 1]
        BY <3>1
      <3> HIDE DEF g
      <3> QED
        BY <3>3, <3>4, <2>1, <2>3
    <2> QED
      BY <2>2, <2>3
  <1>3. g = [k \in Nat |-> g[k]]
    OBVIOUS
  <1> HIDE DEF g
  <1>4. g = [k \in Nat |-> IF k <= a THEN 0 ELSE g[k - 1] + F[k]]
    BY <1>2, <1>3
  <1> QED
    BY <1>4

-----------------------------------------------------------------------------
(* The queue as the mixer and the client change it.                        *)

(* The constants, as arithmetic uses them.                                 *)
LEMMA Bounds ==
    /\ Sizes \subseteq Nat \ {0} /\ Requests \subseteq Nat \ {0}
    /\ MediaTimes \subseteq Int /\ Offsets \subseteq Int
    /\ CommonOffset \in Int /\ W \in Nat \ {0}
    /\ MaxBuffers \in Nat /\ MaxTime \in Nat
  BY TimedTrackAssumption

(* The fields of a timed buffer, as arithmetic uses them.                  *)
LEMMA BufferIs ==
    ASSUME NEW b \in TimedBuffer
    PROVE  /\ b.id \in Nat \ {0} /\ b.id <= MaxBuffers /\ b.pts \in Int
           /\ b.size \in Nat /\ b.position \in Nat /\ Rest(b) \in Int
  <1>1. /\ b.id \in 1..MaxBuffers /\ b.pts \in MediaTimes
        /\ b.size \in Sizes /\ b.position \in Nat
    BY DEF TimedBuffer
  <1>2. b.id \in Nat \ {0} /\ b.id <= MaxBuffers
    <2>1. MaxBuffers \in Nat
      BY Bounds
    <2> QED
      BY <1>1, <2>1
  <1>3. b.pts \in Int /\ b.size \in Nat
    BY <1>1, Bounds, Zenon
  <1> QED
    BY <1>1, <1>2, <1>3 DEF Rest

(* Queued in the order of their ids, of which n have been given out, and   *)
(* none read beyond its end.                                               *)
Ordered(q, n) ==
    /\ q \in Seq(TimedBuffer)
    /\ \A i \in 1..Len(q) : q[i].position <= q[i].size /\ q[i].id <= n
    /\ \A i, j \in 1..Len(q) : i < j => q[i].id < q[j].id

(* No frame of q comes before the last one that the mixer was given.       *)
AfterPlayed(q, p) ==
    \A i \in 1..Len(q) : /\ p.id <= q[i].id
                         /\ q[i].id = p.id => q[i].position >= p.end

(* p is q without the d elements after the k-th.                           *)
Cut(p, q, k, d) ==
    /\ p \in Seq(TimedBuffer)
    /\ k \in Nat /\ d \in Nat /\ k + d <= Len(q) /\ Len(p) = Len(q) - d
    /\ \A i \in 1..Len(p) : p[i] = IF i <= k THEN q[i] ELSE q[i + d]

(* Dropping the head of the queue is a cut of its first buffer.            *)
LEMMA TailCuts ==
    ASSUME NEW q \in Seq(TimedBuffer), q # <<>>
    PROVE  Cut(Tail(q), q, 0, 1) /\ Len(q) \in Nat \ {0} /\ Head(q) = q[1]
  <1>1. /\ Tail(q) \in Seq(TimedBuffer) /\ Len(Tail(q)) = Len(q) - 1
        /\ \A i \in 1..Len(Tail(q)) : Tail(q)[i] = q[i + 1]
    BY HeadTailProperties
  <1>2. Len(q) \in Nat \ {0}
    BY EmptySeq
  <1> QED
    BY <1>1, <1>2 DEF Cut

(* Vector::removeItemsAt() cuts the buffers it names, or nothing when      *)
(* there are not that many.                                                *)
LEMMA RemoveItemsAtCuts ==
    ASSUME NEW q \in Seq(TimedBuffer), NEW k \in Nat, NEW d \in Nat
    PROVE  IF k + d > Len(q) THEN RemoveItemsAt(q, k, d) = q
           ELSE Cut(RemoveItemsAt(q, k, d), q, k, d)
  <1>0. Len(q) \in Nat /\ \A i \in 1..Len(q) : q[i] \in TimedBuffer
    BY LenProperties
  <1>1. CASE k + d > Len(q)
    BY <1>1 DEF RemoveItemsAt
  <1>2. CASE ~(k + d > Len(q))
    <2> DEFINE a == SubSeq(q, 1, k)
               b == SubSeq(q, k + d + 1, Len(q))
    <2>1. /\ a \in Seq(TimedBuffer) /\ Len(a) = k
          /\ \A i \in 1..k : a[i] = q[i]
      <3>1. \A i \in 1..k : q[i] \in TimedBuffer
        BY <1>0, <1>2
      <3> QED
        BY <3>1, SubSeqProperties
    <2>2. /\ b \in Seq(TimedBuffer) /\ Len(b) = Len(q) - k - d
          /\ \A i \in 1..(Len(q) - k - d) : b[i] = q[k + d + i]
      <3>1. \A i \in (k + d + 1)..Len(q) : q[i] \in TimedBuffer
        BY <1>0
      <3>2. /\ b \in Seq(TimedBuffer)
            /\ Len(b) = IF k + d + 1 <= Len(q) THEN Len(q) - (k + d + 1) + 1
                        ELSE 0
            /\ \A i \in 1..(Len(q) - (k + d + 1) + 1) :
                 b[i] = q[(k + d + 1) + i - 1]
        BY <3>1, <1>0, SubSeqProperties
      <3> HIDE DEF b
      <3>3. Len(b) = Len(q) - k - d
        BY <3>2, <1>0, <1>2
      <3>4. ASSUME NEW i \in 1..(Len(q) - k - d) PROVE b[i] = q[k + d + i]
        <4>1. /\ i \in 1..(Len(q) - (k + d + 1) + 1)
              /\ (k + d + 1) + i - 1 = k + d + i
          BY <1>0
        <4> QED
          BY <4>1, <3>2
      <3> QED
        BY <3>2, <3>3, <3>4
    <2>3. RemoveItemsAt(q, k, d) = a \o b
      BY <1>2 DEF RemoveItemsAt
    <2> HIDE DEF a, b
    <2>4. /\ a \o b \in Seq(TimedBuffer) /\ Len(a \o b) = Len(q) - d
          /\ \A i \in 1..Len(a \o b) :
               (a \o b)[i] = IF i <= Len(a) THEN a[i] ELSE b[i - Len(a)]
      BY <2>1, <2>2, <1>0, ConcatProperties
    <2>5. ASSUME NEW i \in 1..Len(a \o b)
          PROVE  (a \o b)[i] = IF i <= k THEN q[i] ELSE q[i + d]
      <3>1. CASE i <= k
        BY <3>1, <2>1, <2>4
      <3>2. CASE ~(i <= k)
        <4>1. i - k \in 1..(Len(q) - k - d) /\ k + d + (i - k) = i + d
          BY <3>2, <2>4, <1>0
        <4>2. b[i - k] = q[i + d]
          BY <4>1, <2>2
        <4> QED
          BY <3>2, <4>2, <2>1, <2>4
      <3> QED
        BY <3>1, <3>2
    <2> QED
      BY <2>3, <2>4, <2>5, <1>2, <1>0 DEF Cut
  <1> QED
    BY <1>1, <1>2

(* A cut leaves the buffers in the order they were queued in.              *)
LEMMA CutOrdered ==
    ASSUME NEW p, NEW q, NEW k, NEW d, NEW n, Cut(p, q, k, d), Ordered(q, n)
    PROVE  Ordered(p, n)
  <1>1. Len(q) \in Nat /\ Len(p) \in Nat
    BY LenProperties DEF Cut, Ordered
  <1>2. \A i \in 1..Len(p) : i \in 1..Len(q) /\ i + d \in 1..Len(q)
    BY <1>1 DEF Cut
  <1>3. \A i \in 1..Len(p) : p[i].position <= p[i].size /\ p[i].id <= n
    BY <1>2 DEF Cut, Ordered
  <1>4. ASSUME NEW i \in 1..Len(p), NEW j \in 1..Len(p), i < j
        PROVE  p[i].id < p[j].id
    <2> DEFINE a == IF i <= k THEN i ELSE i + d
               b == IF j <= k THEN j ELSE j + d
    <2>1. a \in 1..Len(q) /\ b \in 1..Len(q) /\ a < b
      BY <1>1, <1>2, <1>4 DEF Cut
    <2>2. p[i] = q[a] /\ p[j] = q[b]
      BY DEF Cut
    <2> QED
      BY <2>1, <2>2 DEF Ordered
  <1> QED
    BY <1>3, <1>4 DEF Ordered, Cut

(* A cut leaves no buffer before what was played.                          *)
LEMMA CutAfter ==
    ASSUME NEW p, NEW q, NEW k, NEW d, NEW n, NEW r, Cut(p, q, k, d),
           Ordered(q, n), AfterPlayed(q, r)
    PROVE  AfterPlayed(p, r)
  <1>1. Len(q) \in Nat /\ Len(p) \in Nat
    BY LenProperties DEF Cut, Ordered
  <1>2. \A i \in 1..Len(p) : i \in 1..Len(q) /\ i + d \in 1..Len(q)
    BY <1>1 DEF Cut
  <1> QED
    BY <1>2 DEF Cut, AfterPlayed

(* The head has been read on: h is what becomes of it.                     *)
Moved(h, b) ==
    /\ h \in TimedBuffer /\ h.id = b.id /\ h.size = b.size
    /\ h.position <= h.size

(* Moving the position of the head leaves order and tail alone.            *)
LEMMA MovedOrdered ==
    ASSUME NEW q, NEW n, Ordered(q, n), q # <<>>, NEW h, Moved(h, q[1])
    PROVE  LET p == [q EXCEPT ![1] = h]
           IN  /\ Ordered(p, n) /\ Len(p) = Len(q) /\ p[1] = h /\ p # <<>>
               /\ Head(p) = h /\ Tail(p) = Tail(q)
               /\ \A i \in 2..Len(q) : p[i] = q[i]
  <1> DEFINE p == [q EXCEPT ![1] = h]
  <1>1. q \in Seq(TimedBuffer) /\ Len(q) \in Nat \ {0}
    BY EmptySeq DEF Ordered
  <1>2. /\ p \in Seq(TimedBuffer) /\ Len(p) = Len(q)
        /\ \A i \in 1..Len(q) : p[i] = IF i = 1 THEN h ELSE q[i]
    BY <1>1, ExceptSeq DEF Moved
  <1> HIDE DEF p
  <1>3. p[1] = h /\ \A i \in 2..Len(q) : p[i] = q[i]
    BY <1>1, <1>2
  <1>4. p # <<>>
    BY <1>1, <1>2
  <1>5. Ordered(p, n)
    BY <1>1, <1>2 DEF Ordered, Moved
  <1>6. Tail(p) = Tail(q) /\ Head(p) = h
    <2>1. /\ Tail(q) \in Seq(TimedBuffer) /\ Len(Tail(q)) = Len(q) - 1
          /\ \A i \in 1..Len(Tail(q)) : Tail(q)[i] = q[i + 1]
      BY <1>1, HeadTailProperties
    <2>2. /\ Tail(p) \in Seq(TimedBuffer) /\ Len(Tail(p)) = Len(q) - 1
          /\ \A i \in 1..Len(Tail(p)) : Tail(p)[i] = p[i + 1]
      BY <1>2, <1>4, HeadTailProperties
    <2>3. \A i \in 1..Len(Tail(p)) : Tail(p)[i] = Tail(q)[i]
      BY <2>1, <2>2, <1>1, <1>2
    <2> QED
      BY <2>1, <2>2, <2>3, <1>3, SeqEqual
  <1> QED
    BY <1>2, <1>3, <1>4, <1>5, <1>6 DEF p

(* A buffer queued with the next number keeps the order.                   *)
LEMMA AppendOrdered ==
    ASSUME NEW q, NEW n \in Nat, Ordered(q, n), NEW b \in TimedBuffer,
           b.id = n + 1, b.position <= b.size
    PROVE  LET p == Append(q, b)
           IN  /\ Ordered(p, n + 1) /\ Len(p) = Len(q) + 1 /\ p # <<>>
               /\ p[Len(q) + 1] = b /\ \A i \in 1..Len(q) : p[i] = q[i]
               /\ q # <<>> => Head(p) = Head(q)
  <1> DEFINE p == Append(q, b)
  <1>1. q \in Seq(TimedBuffer) /\ Len(q) \in Nat
    BY LenProperties DEF Ordered
  <1>2. /\ p \in Seq(TimedBuffer) /\ Len(p) = Len(q) + 1
        /\ \A i \in 1..Len(q) : p[i] = q[i]
        /\ p[Len(q) + 1] = b
    BY <1>1, AppendProperties
  <1> HIDE DEF p
  <1>3. p # <<>>
    BY <1>1, <1>2
  <1>4. \A i \in 1..Len(p) : i \in 1..Len(q) \/ i = Len(q) + 1
    BY <1>1, <1>2
  <1>5. \A i \in 1..Len(q) : q[i].id \in Nat
    BY <1>1, LenProperties, BufferIs
  <1>6. Ordered(p, n + 1)
    <2>1. \A i \in 1..Len(p) : p[i].position <= p[i].size /\ p[i].id <= n + 1
      BY <1>2, <1>4, <1>5 DEF Ordered
    <2>2. ASSUME NEW i \in 1..Len(p), NEW j \in 1..Len(p), i < j
          PROVE  p[i].id < p[j].id
      <3>1. i \in 1..Len(q)
        BY <2>2, <1>1, <1>2
      <3>2. CASE j \in 1..Len(q)
        BY <3>1, <3>2, <2>2, <1>2 DEF Ordered
      <3>3. CASE j = Len(q) + 1
        BY <3>1, <3>3, <1>2, <1>5 DEF Ordered
      <3> QED
        BY <3>2, <3>3, <1>4
    <2> QED
      BY <2>1, <2>2, <1>2 DEF Ordered
  <1>7. q # <<>> => Head(p) = Head(q)
    BY <1>1, <1>2, <1>3, TailCuts
  <1> QED
    BY <1>2, <1>3, <1>6, <1>7 DEF p

-----------------------------------------------------------------------------
(* The frames left in the queue.                                           *)

(* RestOf satisfies its recursion.                                         *)
LEMMA RestOfIs ==
    ASSUME NEW q, NEW from \in Nat, NEW to \in Nat
    PROVE  RestOf(q, from, to) = IF to <= from THEN 0
                                 ELSE RestOf(q, from, to - 1) + Rest(q[to])
  <1> DEFINE S == CHOOSE g : g = [k \in Nat |-> IF k <= from THEN 0
                                               ELSE g[k - 1] + Rest(q[k])]
             F == [k \in Nat |-> Rest(q[k])]
  <1>1. PICK g : g = [k \in Nat |-> IF k <= from THEN 0 ELSE g[k - 1] + F[k]]
    BY SumExists
  <1>2. g = [k \in Nat |-> IF k <= from THEN 0 ELSE g[k - 1] + Rest(q[k])]
    BY <1>1, Zenon
  <1>3. S = [k \in Nat |-> IF k <= from THEN 0 ELSE S[k - 1] + Rest(q[k])]
    BY <1>2, Zenon
  <1>4. RestOf(q, from, to) = S[to] /\ RestOf(q, from, to - 1) = S[to - 1]
    BY Zenon DEF RestOf
  <1> HIDE DEF S
  <1> QED
    BY <1>3, <1>4

(* The frames left of one more buffer.                                     *)
LEMMA RestOfNext ==
    ASSUME NEW q, NEW from \in Nat, NEW n \in Nat, n >= from
    PROVE  RestOf(q, from, n + 1) = RestOf(q, from, n) + Rest(q[n + 1])
  <1>1. n + 1 \in Nat /\ ~(n + 1 <= from) /\ (n + 1) - 1 = n
    OBVIOUS
  <1> QED
    BY <1>1, RestOfIs

(* No buffers have no frames left.                                         *)
LEMMA RestOfNothing ==
    ASSUME NEW q, NEW from \in Nat PROVE RestOf(q, from, from) = 0
  BY RestOfIs

(* The frames left of a stretch of the queue are a number.                 *)
LEMMA RestOfInt ==
    ASSUME NEW q \in Seq(TimedBuffer), NEW from \in Nat, NEW n \in Nat,
           from <= n, n <= Len(q)
    PROVE  RestOf(q, from, n) \in Int
  <1> DEFINE T == {m \in Nat : from + m <= Len(q)
                                 => RestOf(q, from, from + m) \in Int}
  <1>0. Len(q) \in Nat /\ \A i \in 1..Len(q) : Rest(q[i]) \in Int
    BY LenProperties, BufferIs
  <1>1. 0 \in T
    <2>1. from + 0 = from
      OBVIOUS
    <2> QED
      BY <2>1, RestOfNothing
  <1>2. ASSUME NEW m \in Nat, m \in T PROVE m + 1 \in T
    <2> SUFFICES ASSUME from + (m + 1) <= Len(q)
                 PROVE  RestOf(q, from, from + (m + 1)) \in Int
      OBVIOUS
    <2>1. /\ from + (m + 1) = (from + m) + 1 /\ from + m \in Nat
          /\ from + m >= from /\ (from + m) + 1 \in 1..Len(q)
          /\ from + m <= Len(q)
      BY <1>0
    <2>2. RestOf(q, from, from + m) \in Int
      BY <2>1, <1>2
    <2>3. RestOf(q, from, (from + m) + 1)
            = RestOf(q, from, from + m) + Rest(q[(from + m) + 1])
      BY <2>1, RestOfNext
    <2>4. Rest(q[(from + m) + 1]) \in Int
      BY <2>1, <1>0
    <2> QED
      BY <2>1, <2>2, <2>3, <2>4
  <1> HIDE DEF T
  <1>3. n - from \in T
    BY <1>1, <1>2, SetInduction
  <1>4. from + (n - from) = n /\ n - from \in Nat
    OBVIOUS
  <1> QED
    BY <1>3, <1>4 DEF T

(* The same elements, e further on, have the same sum.                     *)
Shifted(p, q, a, n, e) == \A i \in (a + 1)..n : p[i] = q[i + e]

(* Two queues that agree on a stretch have the same frames left there.     *)
LEMMA RestOfShifted ==
    ASSUME NEW p, NEW q, NEW a \in Nat, NEW n \in Nat, NEW e \in Nat, a <= n,
           Shifted(p, q, a, n, e),
           NEW b, NEW c, b = a + e, c = n + e
    PROVE  RestOf(p, a, n) = RestOf(q, b, c)
  <1> DEFINE T == {m \in Nat : a + m <= n => RestOf(p, a, a + m)
                                               = RestOf(q, a + e, (a + m) + e)}
  <1>1. 0 \in T
    <2>1. a + 0 = a /\ a + e \in Nat
      OBVIOUS
    <2> QED
      BY <2>1, RestOfNothing
  <1>2. ASSUME NEW m \in Nat, m \in T PROVE m + 1 \in T
    <2> SUFFICES ASSUME a + (m + 1) <= n
                 PROVE  RestOf(p, a, a + (m + 1))
                          = RestOf(q, a + e, (a + (m + 1)) + e)
      OBVIOUS
    <2> DEFINE j == a + m
    <2>1. /\ a + (m + 1) = j + 1 /\ (j + 1) + e = (j + e) + 1 /\ j \in Nat
          /\ j >= a /\ j + e \in Nat /\ a + e \in Nat /\ j + e >= a + e
          /\ j + 1 \in (a + 1)..n /\ j <= n
      OBVIOUS
    <2>2. RestOf(p, a, j) = RestOf(q, a + e, j + e)
      BY <2>1, <1>2
    <2> HIDE DEF j
    <2>3. p[j + 1] = q[(j + e) + 1]
      BY <2>1 DEF Shifted
    <2>4. RestOf(p, a, j + 1) = RestOf(p, a, j) + Rest(p[j + 1])
      BY <2>1, RestOfNext
    <2>5. RestOf(q, a + e, (j + e) + 1)
            = RestOf(q, a + e, j + e) + Rest(q[(j + e) + 1])
      BY <2>1, RestOfNext
    <2> QED
      BY <2>1, <2>2, <2>3, <2>4, <2>5
  <1> HIDE DEF T
  <1>3. n - a \in T
    BY <1>1, <1>2, SetInduction
  <1>4. a + (n - a) = n /\ n - a \in Nat
    OBVIOUS
  <1> QED
    BY <1>3, <1>4 DEF T

(* The sum in two parts.                                                   *)
LEMMA RestOfSplit ==
    ASSUME NEW q \in Seq(TimedBuffer), NEW d \in Nat, d <= Len(q)
    PROVE  RestOf(q, 0, Len(q)) = RestOf(q, 0, d) + RestOf(q, d, Len(q))
  <1> DEFINE T == {m \in Nat : d + m <= Len(q) =>
                     RestOf(q, 0, d + m) = RestOf(q, 0, d) + RestOf(q, d, d + m)}
  <1>0. Len(q) \in Nat /\ \A i \in 1..Len(q) : Rest(q[i]) \in Int
    BY LenProperties, BufferIs
  <1>1. 0 \in T
    <2>1. d + 0 = d
      OBVIOUS
    <2>2. RestOf(q, d, d) = 0 /\ RestOf(q, 0, d) \in Int
      BY RestOfNothing, RestOfInt
    <2>3. RestOf(q, 0, d) = RestOf(q, 0, d) + RestOf(q, d, d)
      BY <2>2
    <2> QED
      BY <2>1, <2>3
  <1>2. ASSUME NEW m \in Nat, m \in T PROVE m + 1 \in T
    <2> DEFINE j == d + m
    <2> SUFFICES ASSUME d + (m + 1) <= Len(q)
                 PROVE  RestOf(q, 0, d + (m + 1))
                          = RestOf(q, 0, d) + RestOf(q, d, d + (m + 1))
      OBVIOUS
    <2>1. /\ d + (m + 1) = j + 1 /\ j \in Nat /\ j >= 0 /\ j >= d
          /\ j + 1 \in 1..Len(q) /\ j <= Len(q)
      BY <1>0
    <2>2. RestOf(q, 0, j) = RestOf(q, 0, d) + RestOf(q, d, j)
      BY <2>1, <1>2
    <2> HIDE DEF j
    <2>3. /\ RestOf(q, 0, j + 1) = RestOf(q, 0, j) + Rest(q[j + 1])
          /\ RestOf(q, d, j + 1) = RestOf(q, d, j) + Rest(q[j + 1])
      BY <2>1, RestOfNext
    <2>4. /\ RestOf(q, 0, d) \in Int /\ RestOf(q, d, j) \in Int
          /\ Rest(q[j + 1]) \in Int
      BY <2>1, <1>0, RestOfInt
    <2>5. RestOf(q, 0, j + 1) = RestOf(q, 0, d) + RestOf(q, d, j + 1)
      BY <2>2, <2>3, <2>4
    <2> QED
      BY <2>1, <2>5
  <1> HIDE DEF T
  <1>3. Len(q) - d \in T
    <2>1. Len(q) - d \in Nat
      BY <1>0
    <2> QED
      BY <1>1, <1>2, <2>1, SetInduction
  <1>4. d + (Len(q) - d) = Len(q) /\ Len(q) - d \in Nat
    BY <1>0
  <1> QED
    BY <1>3, <1>4 DEF T

(* What the edits of the queue do to the sum.                              *)
Left(q) == RestOf(q, 0, Len(q))

(* The frames left of a queue are a number.                                *)
LEMMA LeftInt == ASSUME NEW q \in Seq(TimedBuffer) PROVE Left(q) \in Int
  BY LenProperties, RestOfInt DEF Left

(* What a cut takes from the frames left.                                  *)
LEMMA CutLeft ==
    ASSUME NEW q \in Seq(TimedBuffer), NEW p, NEW d, Cut(p, q, 0, d)
    PROVE  /\ Left(p) = Left(q) - RestOf(q, 0, d)
           /\ RestOf(q, 0, d) \in Int
  <1>1. /\ Len(q) \in Nat /\ d \in Nat /\ d <= Len(q)
        /\ Len(p) = Len(q) - d /\ Len(p) \in Nat
    BY LenProperties DEF Cut
  <1>2. RestOf(p, 0, Len(p)) = RestOf(q, d, Len(q))
    <2>1. Shifted(p, q, 0, Len(p), d)
      BY <1>1 DEF Cut, Shifted
    <2>2. 0 <= Len(p) /\ d = 0 + d /\ Len(q) = Len(p) + d
      BY <1>1
    <2> QED
      BY <1>1, <2>1, <2>2, RestOfShifted
  <1>4. RestOf(q, 0, Len(q)) = RestOf(q, 0, d) + RestOf(q, d, Len(q))
    BY <1>1, RestOfSplit
  <1>5. RestOf(q, 0, d) \in Int /\ RestOf(q, d, Len(q)) \in Int
    BY <1>1, RestOfInt
  <1> QED
    BY <1>2, <1>4, <1>5 DEF Left

(* The frames left of the head alone.                                      *)
LEMMA FirstRest ==
    ASSUME NEW q \in Seq(TimedBuffer), q # <<>>
    PROVE  RestOf(q, 0, 1) = Rest(q[1]) /\ Rest(q[1]) \in Int
  <1>1. Len(q) \in Nat \ {0} /\ q[1] \in TimedBuffer
    BY EmptySeq, LenProperties
  <1>2. RestOf(q, 0, 0 + 1) = RestOf(q, 0, 0) + Rest(q[0 + 1])
    BY RestOfNext
  <1>3. RestOf(q, 0, 0) = 0 /\ Rest(q[1]) \in Int
    BY <1>1, RestOfNothing, BufferIs
  <1>4. RestOf(q, 0, 1) = RestOf(q, 0, 0) + Rest(q[1])
    BY <1>2
  <1> QED
    BY <1>3, <1>4

(* What moving the position of the head takes from the frames left.        *)
LEMMA MovedLeft ==
    ASSUME NEW q, NEW n, Ordered(q, n), q # <<>>, NEW h, Moved(h, q[1])
    PROVE  /\ Left([q EXCEPT ![1] = h]) = Left(q) - Rest(q[1]) + Rest(h)
           /\ Rest(q[1]) \in Int /\ Rest(h) \in Int
  <1> DEFINE p == [q EXCEPT ![1] = h]
  <1>1. q \in Seq(TimedBuffer) /\ Len(q) \in Nat \ {0}
    BY EmptySeq DEF Ordered
  <1>2. /\ p \in Seq(TimedBuffer) /\ Len(p) = Len(q) /\ p[1] = h /\ p # <<>>
        /\ \A i \in 2..Len(q) : p[i] = q[i]
    <2>1. /\ Ordered(p, n) /\ Len(p) = Len(q) /\ p[1] = h /\ p # <<>>
          /\ \A i \in 2..Len(q) : p[i] = q[i]
      BY MovedOrdered, Zenon
    <2> QED
      BY <2>1 DEF Ordered
  <1> HIDE DEF p
  <1>3. RestOf(p, 1, Len(q)) = RestOf(q, 1, Len(q))
    <2>1. Shifted(p, q, 1, Len(q), 0)
      BY <1>1, <1>2 DEF Shifted
    <2>2. Len(q) \in Nat /\ 1 <= Len(q) /\ Len(q) = Len(q) + 0
      BY <1>1
    <2> QED
      BY <2>1, <2>2, RestOfShifted
  <1>4. /\ RestOf(q, 0, Len(q)) = RestOf(q, 0, 1) + RestOf(q, 1, Len(q))
        /\ RestOf(p, 0, Len(p)) = RestOf(p, 0, 1) + RestOf(p, 1, Len(p))
    BY <1>1, <1>2, RestOfSplit
  <1>5. RestOf(q, 0, 1) = Rest(q[1]) /\ Rest(q[1]) \in Int
    BY <1>1, FirstRest
  <1>6. RestOf(p, 0, 1) = Rest(h) /\ Rest(h) \in Int
    BY <1>2, FirstRest
  <1>7. RestOf(q, 1, Len(q)) \in Int
    BY <1>1, RestOfInt
  <1>8. Left(p) = Left(q) - Rest(q[1]) + Rest(h)
    BY <1>2, <1>3, <1>4, <1>5, <1>6, <1>7 DEF Left
  <1> QED
    BY <1>5, <1>6, <1>8 DEF p

(* What a queued buffer adds to the frames left.                           *)
LEMMA AppendLeft ==
    ASSUME NEW q \in Seq(TimedBuffer), NEW b \in TimedBuffer
    PROVE  Left(Append(q, b)) = Left(q) + Rest(b) /\ Rest(b) \in Int
  <1> DEFINE p == Append(q, b)
  <1>1. Len(q) \in Nat
    BY LenProperties
  <1>2. /\ Len(p) = Len(q) + 1 /\ p[Len(q) + 1] = b
        /\ \A i \in 1..Len(q) : p[i] = q[i]
    BY AppendProperties
  <1> HIDE DEF p
  <1>3. RestOf(p, 0, Len(q)) = RestOf(q, 0, Len(q))
    <2>1. Shifted(p, q, 0, Len(q), 0)
      BY <1>1, <1>2 DEF Shifted
    <2>2. Len(q) \in Nat /\ 0 <= Len(q) /\ Len(q) = Len(q) + 0
      BY <1>1
    <2> QED
      BY <2>1, <2>2, RestOfShifted
  <1>4. RestOf(p, 0, Len(q) + 1) = RestOf(p, 0, Len(q)) + Rest(p[Len(q) + 1])
    BY <1>1, RestOfNext
  <1>5. Left(p) = Left(q) + Rest(b)
    BY <1>2, <1>3, <1>4 DEF Left
  <1> QED
    BY <1>5, BufferIs DEF p

-----------------------------------------------------------------------------
(* Ids ascend, what the mixer was given is behind it, and it asks again    *)
(* only after a release.                                                   *)
OrderInv ==
    /\ Ordered(mTimedBufferQueue, queued)
    /\ played.id <= queued
    /\ call.busy => buffer = Empty
    /\ ~mQueueHeadInFlight => AfterPlayed(mTimedBufferQueue, played)

TimedInv == TypeOK /\ OrderInv /\ HeadInFlightStays

-----------------------------------------------------------------------------
(* What the steps compute.                                                 *)

(* A count modulo W is a count.                                            *)
LEMMA WrapIs ==
    ASSUME NEW x \in Int
    PROVE  x % W \in 0..(W - 1) /\ x % W \in Int
  BY Bounds, ModRange

(* Counting modulo W at each step is counting modulo W once.               *)
LEMMA WrapSum ==
    ASSUME NEW x \in Int, NEW k \in Int
    PROVE  ((x % W) + k) % W = (x + k) % W
  <1>1. W \in Nat \ {0} /\ 0 \in 0..(W - 1)
    BY Bounds
  <1>2. W % W = 0
    <2>1. (W + 0) % W = 0
      BY <1>1, ModNear
    <2> QED
      BY <2>1, <1>1
  <1> QED
    BY <1>1, <1>2, ModOfMod

(* The media time transform yields numbers.                                *)
LEMMA TransformIs ==
    ASSUME TypeOK
    PROVE  /\ mMediaTimeTransform.zero \in Int
           /\ mMediaTimeTransform.numer \in {0, 1}
           /\ mMediaTimeTransform.denom \in {0, 1}
           /\ TargetOffset \in Int /\ MediaTimeNow \in Int
  <1>1. /\ mMediaTimeTransform.zero \in Int
        /\ mMediaTimeTransform.numer \in {0, 1}
        /\ mMediaTimeTransform.denom \in {0, 1}
    BY Bounds DEF TypeOK, LinearTransform
  <1>2. TargetOffset \in Int
    BY Bounds DEF TargetOffset
  <1>3. now \in Int
    BY Bounds DEF TypeOK
  <1>4. now + TargetOffset - mMediaTimeTransform.zero \in Int
    BY <1>1, <1>2, <1>3
  <1>5. MediaTimeNow \in Int
    BY <1>1, <1>4 DEF MediaTimeNow
  <1> QED
    BY <1>1, <1>2, <1>5

(* The head of a queue that is not empty.                                  *)
LEMMA HeadIs ==
    ASSUME OrderInv, mTimedBufferQueue # <<>>
    PROVE  /\ head = mTimedBufferQueue[1] /\ head \in TimedBuffer
           /\ Len(mTimedBufferQueue) \in Nat \ {0}
           /\ head.position <= head.size
  <1>1. mTimedBufferQueue \in Seq(TimedBuffer)
    BY DEF OrderInv, Ordered
  <1>2. /\ Len(mTimedBufferQueue) \in Nat \ {0}
        /\ Head(mTimedBufferQueue) = mTimedBufferQueue[1]
    BY <1>1, TailCuts
  <1>3. 1 \in 1..Len(mTimedBufferQueue)
    BY <1>2
  <1>4. mTimedBufferQueue[1] \in TimedBuffer
    BY <1>1, <1>3, ElementOfSeq
  <1> QED
    BY <1>2, <1>3, <1>4 DEF head, OrderInv, Ordered

(* How late the head is, is a number.                                      *)
LEMMA SampleDeltaIs ==
    ASSUME TimedInv, mTimedBufferQueue # <<>>
    PROVE  SampleDelta \in Int /\ Late \in Int
  <1>1. head.pts \in Int /\ head.position \in Int
    BY HeadIs, BufferIs DEF TimedInv
  <1>2. Forward(head.pts) \in Int
    <2>1. /\ mMediaTimeTransform.zero \in Int
          /\ mMediaTimeTransform.numer \in {0, 1}
      BY TransformIs DEF TimedInv
    <2>2. head.pts * mMediaTimeTransform.numer \in Int
      BY <1>1, <2>1
    <2> QED
      BY <2>1, <2>2 DEF Forward
  <1>3. TargetOffset \in Int /\ call.pts \in Int
    BY TransformIs DEF TimedInv, TypeOK
  <1>4. SampleDelta \in Int
    BY <1>1, <1>2, <1>3 DEF SampleDelta
  <1> QED
    BY <1>4 DEF Late

(* The trimming stops at a place in the queue.                             *)
LEMMA TrimEndIs ==
    ASSUME TypeOK
    PROVE  TrimEnd(mTimedBufferQueue) \in 0..Len(mTimedBufferQueue)
  <1> DEFINE q == mTimedBufferQueue
             T == {k \in 0..Len(q) :
                      k < Len(q) => BufEnd(q, k + 1) > MediaTimeNow}
  <1>1. q \in Seq(TimedBuffer) /\ Len(q) \in Nat /\ MediaTimeNow \in Int
    BY LenProperties, TransformIs DEF TypeOK
  <1>2. ASSUME NEW i \in 1..Len(q) PROVE BufEnd(q, i) \in Int
    <2>1. q[i] \in TimedBuffer /\ (i < Len(q) => q[i + 1] \in TimedBuffer)
      BY <1>1, ElementOfSeq
    <2>2. /\ q[i].pts \in Int /\ q[i].size \in Nat
          /\ i < Len(q) => q[i + 1].pts \in Int
      BY <2>1, BufferIs
    <2> QED
      BY <2>2 DEF BufEnd
  <1> HIDE DEF q
  <1>3. Len(q) \in T /\ T \subseteq Nat
    BY <1>1
  <1>4. PICK k \in T : \A j \in T : k <= j
    <2> HIDE DEF T
    <2> QED
      BY <1>3, LeastNatural
  <1>5. ASSUME NEW i \in 1..k PROVE BufEnd(q, i) <= MediaTimeNow
    <2>1. /\ i - 1 \in 0..Len(q) /\ ~(k <= i - 1) /\ i - 1 < Len(q)
          /\ (i - 1) + 1 = i /\ i \in 1..Len(q)
      BY <1>1, <1>4
    <2>2. i - 1 \notin T
      BY <2>1, <1>4
    <2>3. ~(BufEnd(q, i) > MediaTimeNow)
      BY <2>1, <2>2
    <2> QED
      BY <2>1, <2>3, <1>1, <1>2
  <1>6. \E j \in 0..Len(q) :
          /\ \A i \in 1..j : BufEnd(q, i) <= MediaTimeNow
          /\ j < Len(q) => BufEnd(q, j + 1) > MediaTimeNow
    BY <1>4, <1>5
  <1>7. TrimEnd(q) \in 0..Len(q)
    BY <1>6, Zenon DEF TrimEnd
  <1> QED
    BY <1>7 DEF q

-----------------------------------------------------------------------------
(* The order of the queue, by what the steps do to it.                     *)

(* A step that leaves the queue and the buffer in flight alone.            *)
LEMMA OrderStays ==
    ASSUME TimedInv,
           UNCHANGED <<mTimedBufferQueue, queued, played, mQueueHeadInFlight,
                       mTrimQueueHeadOnRelease>>,
           buffer'.raw = "head" <=> buffer.raw = "head",
           mQueueHeadInFlight => buffer' = buffer,
           call'.busy => buffer' = Empty
    PROVE  OrderInv' /\ HeadInFlightStays'
  BY DEF TimedInv, OrderInv, HeadInFlightStays, head

(* A step that trims the queue while the head is not in flight.            *)
LEMMA OrderCut ==
    ASSUME TimedInv, ~mQueueHeadInFlight, NEW k, NEW d,
           Cut(mTimedBufferQueue', mTimedBufferQueue, k, d),
           UNCHANGED <<queued, played, mQueueHeadInFlight, buffer,
                       mTrimQueueHeadOnRelease>>,
           call'.busy => buffer' = Empty
    PROVE  OrderInv' /\ HeadInFlightStays'
  <1>1. /\ Ordered(mTimedBufferQueue, queued)
        /\ AfterPlayed(mTimedBufferQueue, played)
    BY DEF TimedInv, OrderInv
  <1>2. /\ Ordered(mTimedBufferQueue', queued)
        /\ AfterPlayed(mTimedBufferQueue', played)
    BY <1>1, CutOrdered, CutAfter
  <1>3. OrderInv'
    BY <1>2 DEF TimedInv, OrderInv
  <1> QED
    BY <1>3 DEF TimedInv, HeadInFlightStays

(* trimTimedBufferQueueHead_l() cuts the first buffer.                     *)
LEMMA TrimHeadCuts ==
    ASSUME TimedInv, mTimedBufferQueue # <<>>, TrimHead(mTimedBufferQueue)
    PROVE  Cut(mTimedBufferQueue', mTimedBufferQueue, 0, 1)
  BY TailCuts DEF TimedInv, OrderInv, Ordered, TrimHead

(* In a call of getNextBuffer the mixer holds nothing.                     *)
LEMMA CallHolds ==
    ASSUME TimedInv, call.busy
    PROVE  ~mQueueHeadInFlight /\ buffer.raw = "NULL"
  BY DEF TimedInv, OrderInv, HeadInFlightStays, Empty

(* allocateTimedBuffer() trims no buffer in flight: it leaves the head and *)
(* marks it instead.                                                       *)
LEMMA AllocateOrder ==
    ASSUME TimedInv, AllocateTimedBuffer
    PROVE  OrderInv' /\ HeadInFlightStays'
  <1> DEFINE q == mTimedBufferQueue
             start == TrimStart(q)
             end == TrimEnd(q)
  <1>1. /\ q \in Seq(TimedBuffer) /\ end \in 0..Len(q) /\ Len(q) \in Nat
        /\ Ordered(q, queued)
    BY TrimEndIs, LenProperties DEF TimedInv, OrderInv, Ordered
  <1>2. /\ mTrimQueueHeadOnRelease' = TrimsHeadOnRelease(q)
        /\ q' = IF start < end THEN RemoveItemsAt(q, start, end) ELSE q
        /\ UNCHANGED <<mQueueHeadInFlight, call, buffer, queued, played>>
    BY DEF AllocateTimedBuffer
  <1>3. TrimsHeadOnRelease(q) => mQueueHeadInFlight
    BY DEF TimedInv, HeadInFlightStays, TrimsHeadOnRelease
  <1>4. TrimsHeadOnRelease(q) \in BOOLEAN /\ start \in Nat
    BY DEF TrimsHeadOnRelease, TrimStart, TimedInv, TypeOK
  <1>5. IF start + end > Len(q) THEN RemoveItemsAt(q, start, end) = q
        ELSE Cut(RemoveItemsAt(q, start, end), q, start, end)
    <2>1. end \in Nat
      BY <1>1
    <2> HIDE DEF q, start, end
    <2> QED
      BY <2>1, <1>1, <1>4, RemoveItemsAtCuts
  <1>6. q' = q \/ (Cut(q', q, start, end) /\ start < end)
    BY <1>2, <1>5
  <1>7. CASE TrimsHeadOnRelease(q)
    <2>1. start = 1 /\ mQueueHeadInFlight
      BY <1>3, <1>7 DEF TrimStart
    <2>2. q # <<>> /\ Head(q) = q[1] /\ Len(q) \in Nat \ {0}
      BY <2>1, <1>1, TailCuts DEF TimedInv, HeadInFlightStays
    <2>3. q' # <<>> /\ Head(q') = Head(q) /\ Ordered(q', queued)
      <3>1. CASE q' = q
        BY <3>1, <2>2, <1>1
      <3>2. CASE Cut(q', q, start, end)
        <4>1. Ordered(q', queued)
          BY <3>2, <1>1, CutOrdered
        <4>2. q' \in Seq(TimedBuffer) /\ Len(q') >= 1 /\ Len(q') \in Nat
          BY <3>2, <2>1, <2>2, <1>1 DEF Cut
        <4>3. q'[1] = q[1]
          BY <4>2, <3>2, <2>1 DEF Cut
        <4>4. q' # <<>>
          BY <4>2, EmptySeq
        <4>5. Head(q') = q'[1]
          BY <4>2, <4>4, TailCuts
        <4> QED
          BY <4>1, <4>3, <4>4, <4>5, <2>2
      <3> QED
        BY <3>1, <3>2, <1>6
    <2> HIDE DEF q
    <2>4. OrderInv'
      BY <2>1, <2>3, <1>2 DEF TimedInv, OrderInv, q
    <2>5. HeadInFlightStays'
      BY <2>1, <2>3, <1>2 DEF TimedInv, HeadInFlightStays, head, q
    <2> QED
      BY <2>4, <2>5
  <1>8. CASE ~TrimsHeadOnRelease(q)
    <2>1. start = 0 /\ ~mTrimQueueHeadOnRelease
      BY <1>8 DEF TrimStart, TrimsHeadOnRelease
    <2>2. UNCHANGED mTrimQueueHeadOnRelease
      BY <2>1, <1>2, <1>4, <1>8 DEF TimedInv, TypeOK
    <2>3. CASE q' = q
      BY <2>2, <2>3, <1>2, OrderStays DEF TimedInv, OrderInv
    <2>4. CASE Cut(q', q, start, end) /\ start < end
      <3>1. ~mQueueHeadInFlight
        BY <2>1, <2>4, <1>1, <1>8 DEF TrimsHeadOnRelease
      <3> QED
        BY <3>1, <2>2, <2>4, <1>2, OrderCut DEF TimedInv, OrderInv
    <2> QED
      BY <2>3, <2>4, <1>6
  <1> QED
    BY <1>7, <1>8

(* queueTimedBuffer() leaves the head alone.                               *)
LEMMA QueueOrder ==
    ASSUME TimedInv, NEW size \in Sizes, NEW pts \in MediaTimes,
           QueueTimedBuffer(size, pts)
    PROVE  OrderInv' /\ HeadInFlightStays'
  <1> DEFINE q == mTimedBufferQueue
             b == [id |-> queued + 1, pts |-> pts, size |-> size,
                   position |-> 0]
  <1>1. queued \in Nat /\ queued < MaxBuffers /\ MaxBuffers \in Nat
          /\ size \in Nat /\ played.id \in Nat /\ played.id <= queued
    BY Bounds DEF TimedInv, OrderInv, TypeOK, QueueTimedBuffer
  <1>2. b \in TimedBuffer
    <2>1. queued + 1 \in 1..MaxBuffers
      BY <1>1
    <2> QED
      BY <2>1 DEF TimedBuffer
  <1>3. b.id = queued + 1 /\ b.position <= b.size /\ Ordered(q, queued)
    BY <1>1 DEF TimedInv, OrderInv
  <1>4. /\ q' = Append(q, b) /\ queued' = queued + 1
        /\ UNCHANGED <<flags, call, buffer, played>>
    BY DEF QueueTimedBuffer
  <1> HIDE DEF b
  <1>5. /\ Ordered(q', queued + 1) /\ Len(q') = Len(q) + 1 /\ q' # <<>>
        /\ q'[Len(q) + 1] = b /\ \A i \in 1..Len(q) : q'[i] = q[i]
        /\ q # <<>> => Head(q') = Head(q)
    BY <1>1, <1>2, <1>3, <1>4, AppendOrdered
  <1>6. Len(q) \in Nat
    BY LenProperties DEF TimedInv, TypeOK
  <1>7. AfterPlayed(q, played) => AfterPlayed(q', played)
    <2> SUFFICES ASSUME AfterPlayed(q, played), NEW i \in 1..Len(q')
                 PROVE  /\ played.id <= q'[i].id
                        /\ q'[i].id = played.id => q'[i].position >= played.end
      BY DEF AfterPlayed
    <2>1. CASE i \in 1..Len(q)
      BY <2>1, <1>5 DEF AfterPlayed
    <2>2. CASE i = Len(q) + 1
      BY <2>2, <1>1, <1>3, <1>5
    <2> QED
      BY <2>1, <2>2, <1>5, <1>6
  <1>8. played.id <= queued + 1
    BY <1>1
  <1> HIDE DEF q
  <1>9. OrderInv'
    BY <1>4, <1>5, <1>7, <1>8 DEF TimedInv, OrderInv, flags, q
  <1>10. HeadInFlightStays'
    BY <1>4, <1>5 DEF TimedInv, HeadInFlightStays, flags, head, q
  <1> QED
    BY <1>9, <1>10

(* The samples that the mixer is given: those of the head, after the late  *)
(* ones.                                                                   *)
Yielded(late) ==
    LET h == [head EXCEPT !.position = @ + late]
    IN  /\ Moved(h, mTimedBufferQueue[1]) /\ h.id = head.id
        /\ h.position = head.position + late /\ h.size = head.size
        /\ buffer'.frameCount \in Nat
        /\ h.position + buffer'.frameCount <= h.size
        /\ mTimedBufferQueue' = [mTimedBufferQueue EXCEPT ![1] = h]
        /\ mTimedBufferQueue' # <<>> /\ Head(mTimedBufferQueue') = h
        /\ Ordered(mTimedBufferQueue', queued)
        /\ buffer' = [raw |-> "head", frameCount |-> buffer'.frameCount]
        /\ played' = [id |-> h.id, end |-> h.position + buffer'.frameCount]

(* timedYieldSamples_l(): what it does to the head, the buffer and what    *)
(* was played.                                                             *)
LEMMA YieldIs ==
    ASSUME TimedInv, mTimedBufferQueue # <<>>, NEW late \in Nat,
           head.position + late <= head.size, YieldSamples(late)
    PROVE  Yielded(late)
  <1> DEFINE h == [head EXCEPT !.position = @ + late]
             n == Lesser(Rest(h), call.frames)
             q == mTimedBufferQueue
  <1>1. /\ head = q[1] /\ head \in TimedBuffer /\ head.position \in Nat
        /\ head.size \in Nat /\ Ordered(q, queued)
    BY HeadIs, BufferIs DEF TimedInv, OrderInv
  <1>2. /\ h \in TimedBuffer /\ h.id = head.id /\ h.size = head.size
        /\ h.position = head.position + late
    BY <1>1 DEF TimedBuffer
  <1>3. Moved(h, q[1])
    BY <1>1, <1>2 DEF Moved
  <1>4. /\ q' = [q EXCEPT ![1] = h]
        /\ buffer' = [raw |-> "head", frameCount |-> n]
        /\ played' = [id |-> h.id, end |-> h.position + n]
    BY DEF YieldSamples
  <1> HIDE DEF h
  <1>5. call.frames \in Nat
    BY DEF TimedInv, TypeOK
  <1>6. n \in Nat /\ h.position + n <= h.size
    <2>1. /\ Rest(h) = h.size - h.position /\ Rest(h) \in Nat
          /\ h.size \in Nat /\ h.position \in Nat
      BY <1>1, <1>2 DEF Rest
    <2>2. n \in Nat /\ n <= Rest(h)
      BY <2>1, <1>5 DEF Lesser
    <2> HIDE DEF n
    <2> QED
      BY <2>1, <2>2
  <1> HIDE DEF n
  <1>7. buffer'.frameCount = n
    BY <1>4
  <1>8. Ordered(q', queued) /\ q' # <<>> /\ Head(q') = h
    BY <1>1, <1>3, <1>4, MovedOrdered
  <1> QED
    BY <1>2, <1>3, <1>4, <1>6, <1>7, <1>8 DEF Yielded, h

(* It puts the head in flight and plays forward.                           *)
LEMMA YieldOrder ==
    ASSUME TimedInv, call.busy, mTimedBufferQueue # <<>>, NEW late \in Nat,
           head.position + late <= head.size, YieldSamples(late)
    PROVE  OrderInv' /\ HeadInFlightStays'
  <1> DEFINE h == [head EXCEPT !.position = @ + late]
             n == buffer'.frameCount
  <1>1. /\ h.id = head.id /\ h.position + n <= h.size
        /\ mTimedBufferQueue' # <<>> /\ Head(mTimedBufferQueue') = h
        /\ Ordered(mTimedBufferQueue', queued)
        /\ buffer' = [raw |-> "head", frameCount |-> n]
        /\ played' = [id |-> h.id, end |-> h.position + n]
    BY YieldIs DEF Yielded
  <1>2. /\ mQueueHeadInFlight' = TRUE /\ call' = Idle
        /\ UNCHANGED <<mTrimQueueHeadOnRelease, queued>>
    BY DEF YieldSamples
  <1>3. head.id <= queued
    BY HeadIs DEF TimedInv, OrderInv, Ordered
  <1> HIDE DEF h, n
  <1>4. OrderInv'
    BY <1>1, <1>2, <1>3 DEF OrderInv, Idle
  <1>5. /\ played'.id = h.id /\ played'.end = h.position + n
        /\ buffer'.raw = "head" /\ buffer'.frameCount = n
    BY <1>1
  <1>6. HeadInFlightStays'
    BY <1>1, <1>2, <1>5 DEF HeadInFlightStays, head
  <1> QED
    BY <1>4, <1>6

(* The release: the head is what the mixer has left of it, or gone.        *)
Released ==
    LET h == Consumed(head)
    IN  /\ mTimedBufferQueue # <<>> /\ mQueueHeadInFlight
        /\ Moved(h, mTimedBufferQueue[1]) /\ h.id = played.id
        /\ h.position = played.end
        /\ h.position = head.position + buffer.frameCount
        /\ \/ /\ mTimedBufferQueue' = Tail(mTimedBufferQueue)
              /\ mTrimQueueHeadOnRelease' = FALSE
           \/ /\ mTimedBufferQueue' = [mTimedBufferQueue EXCEPT ![1] = h]
              /\ mTrimQueueHeadOnRelease = FALSE
              /\ mTrimQueueHeadOnRelease' = FALSE

(* releaseBuffer() of the head: what it does to the queue.                 *)
LEMMA ReleaseIs ==
    ASSUME TimedInv, ReleaseHead
    PROVE  Released
  <1> DEFINE h == Consumed(head)
             q == mTimedBufferQueue
  <1>1. q # <<>> /\ buffer.raw = "head" /\ mQueueHeadInFlight
    BY DEF ReleaseHead, TimedInv, HeadInFlightStays
  <1>2. /\ head.id = played.id /\ played.end <= head.size
        /\ head.position + buffer.frameCount = played.end
    BY <1>1 DEF TimedInv, HeadInFlightStays
  <1>3. /\ head = q[1] /\ head \in TimedBuffer /\ Ordered(q, queued)
        /\ buffer.frameCount \in Nat /\ head.position \in Nat
    BY <1>1, HeadIs, BufferIs DEF TimedInv, OrderInv, TypeOK
  <1>4. /\ h \in TimedBuffer /\ h.id = head.id /\ h.size = head.size
        /\ h.position = head.position + buffer.frameCount
    BY <1>3 DEF Consumed, TimedBuffer
  <1>5. \/ /\ q' = Tail([q EXCEPT ![1] = h])
           /\ mTrimQueueHeadOnRelease' = FALSE
        \/ /\ q' = [q EXCEPT ![1] = h] /\ ~mTrimQueueHeadOnRelease
           /\ UNCHANGED mTrimQueueHeadOnRelease
    BY DEF ReleaseHead
  <1> HIDE DEF h
  <1>6. Moved(h, q[1])
    BY <1>2, <1>3, <1>4 DEF Moved
  <1>7. Tail([q EXCEPT ![1] = h]) = Tail(q)
    BY <1>1, <1>3, <1>6, MovedOrdered
  <1>8. mTrimQueueHeadOnRelease \in BOOLEAN
    BY DEF TimedInv, TypeOK
  <1> HIDE DEF q
  <1> QED
    BY <1>1, <1>2, <1>4, <1>5, <1>6, <1>7, <1>8 DEF Released, h, q

(* It drops the head only when it is used up or marked for trimming.       *)
LEMMA ReleaseOrder ==
    ASSUME TimedInv, ReleaseHead
    PROVE  OrderInv' /\ HeadInFlightStays'
  <1> DEFINE h == Consumed(head)
             q == mTimedBufferQueue
  <1>1. Released
    BY ReleaseIs
  <1>2. /\ q # <<>> /\ Moved(h, q[1]) /\ h.id = played.id
        /\ h.position = played.end
    BY <1>1 DEF Released
  <1>3. /\ Ordered(q, queued) /\ q \in Seq(TimedBuffer) /\ Len(q) \in Nat \ {0}
        /\ head = q[1] /\ played.id <= queued /\ h.id = q[1].id
        /\ \A i \in 1..Len(q) : q[i].id \in Nat
        /\ played.end \in Nat
    <2>1. \A i \in 1..Len(q) : q[i] \in TimedBuffer
      BY ElementOfSeq DEF TimedInv, TypeOK
    <2> QED
      BY <2>1, <1>2, HeadIs, BufferIs DEF TimedInv, OrderInv, Ordered, TypeOK,
         Moved
  <1>4. /\ buffer' = Empty /\ mQueueHeadInFlight' = FALSE
        /\ mTrimQueueHeadOnRelease' = FALSE
        /\ UNCHANGED <<call, queued, played>> /\ ~call.busy
    BY <1>1 DEF ReleaseHead, Released, history, QueueUnlocked
  <1> HIDE DEF h, q
  (* Whatever follows the head has a larger id.                            *)
  <1>5. \A i \in 2..Len(q) : q[i].id > played.id /\ i \in 1..Len(q)
    <2>1. \A i \in 2..Len(q) : i \in 1..Len(q) /\ 1 \in 1..Len(q) /\ 1 < i
      BY <1>3
    <2> QED
      BY <2>1, <1>2, <1>3 DEF Ordered
  <1>6. CASE q' = Tail(q)
    <2>1. Cut(q', q, 0, 1)
      BY <1>6, <1>2, <1>3, TailCuts
    <2>2. Ordered(q', queued)
      BY <2>1, <1>3, CutOrdered
    <2>3. AfterPlayed(q', played)
      <3> SUFFICES ASSUME NEW i \in 1..Len(q')
                   PROVE  /\ played.id <= q'[i].id
                          /\ q'[i].id = played.id => q'[i].position >= played.end
        BY DEF AfterPlayed
      <3>1. q'[i] = q[i + 1] /\ i + 1 \in 2..Len(q)
        BY <2>1, <1>3 DEF Cut
      <3>2. q[i + 1].id > played.id /\ q[i + 1].id \in Nat
        BY <3>1, <1>3, <1>5
      <3>3. played.id \in Int
        BY <1>2, <1>3
      <3> QED
        BY <3>1, <3>2, <3>3
    <2> QED
      BY <2>2, <2>3, <1>3, <1>4 DEF OrderInv, HeadInFlightStays, Empty, q
  <1>7. CASE q' = [q EXCEPT ![1] = h]
    <2>1. /\ Ordered(q', queued) /\ Len(q') = Len(q) /\ q'[1] = h
          /\ \A i \in 2..Len(q) : q'[i] = q[i]
      <3> DEFINE p == [q EXCEPT ![1] = h]
      <3>1. Ordered(q, queued) /\ q # <<>> /\ Moved(h, q[1])
        BY <1>2, <1>3
      <3>2. /\ Ordered(p, queued) /\ Len(p) = Len(q) /\ p[1] = h
            /\ \A i \in 2..Len(q) : p[i] = q[i]
        BY <3>1, MovedOrdered, Zenon
      <3> HIDE DEF p
      <3>3. q' = p
        BY <1>7 DEF p
      <3> QED
        BY <3>2, <3>3
    <2>2. AfterPlayed(q', played)
      <3> SUFFICES ASSUME NEW i \in 1..Len(q')
                   PROVE  /\ played.id <= q'[i].id
                          /\ q'[i].id = played.id => q'[i].position >= played.end
        BY DEF AfterPlayed
      <3>1. CASE i = 1
        BY <3>1, <2>1, <1>2, <1>3
      <3>2. CASE i # 1
        <4>1. i \in 2..Len(q)
          BY <3>2, <2>1, <1>3
        <4>2. q'[i] = q[i] /\ q[i].id > played.id /\ q[i].id \in Nat
          BY <4>1, <2>1, <1>3, <1>5
        <4>3. played.id \in Int
          BY <1>2, <1>3
        <4> QED
          BY <4>2, <4>3
      <3> QED
        BY <3>1, <3>2
    <2> QED
      BY <2>1, <2>2, <1>3, <1>4 DEF OrderInv, HeadInFlightStays, Empty, q
  <1> QED
    BY <1>1, <1>6, <1>7 DEF Released, q, h

(* Frames skipped in the head are frames it has.                           *)
LEMMA LateIs ==
    ASSUME TimedInv, GetLate
    PROVE  /\ mTimedBufferQueue # <<>> /\ call.busy /\ YieldSamples(Late)
           /\ Late \in Nat /\ head.position + Late <= head.size
  <1>1. /\ mTimedBufferQueue # <<>> /\ call.busy /\ YieldSamples(Late)
        /\ ~PassesHead /\ Late > 0
    BY DEF GetLate, Near, Located, Playing, InLoop
  <1>2. Late \in Nat
    BY <1>1, SampleDeltaIs
  <1>3. head.position \in Nat /\ head.size \in Nat
    BY <1>1, HeadIs, BufferIs DEF TimedInv
  <1>4. head.position + Late <= head.size
    BY <1>1, <1>2, <1>3 DEF PassesHead
  <1> QED
    BY <1>1, <1>2, <1>4

(* The order survives every step.                                          *)
LEMMA OrderNext ==
    ASSUME TimedInv, [Next]_vars
    PROVE  OrderInv' /\ HeadInFlightStays'
  <1>1. CASE Tick
    BY <1>1, OrderStays DEF TimedInv, OrderInv, Tick, flags, history
  <1>2. CASE Sync
    BY <1>2, OrderStays DEF TimedInv, OrderInv, Sync, flags, history
  <1>3. CASE \E x \in LinearTransform, t \in Target :
                 SetMediaTimeTransform(x, t)
    BY <1>3, OrderStays
       DEF TimedInv, OrderInv, SetMediaTimeTransform, flags, history
  <1>4. CASE AllocateTimedBuffer
    BY <1>4, AllocateOrder
  <1>5. CASE \E size \in Sizes, pts \in MediaTimes :
                 QueueTimedBuffer(size, pts)
    BY <1>5, QueueOrder
  <1>6. CASE GetNextBufferInvalidPTS
    BY <1>6, OrderStays
       DEF TimedInv, OrderInv, GetNextBufferInvalidPTS, history
  <1>7. CASE \E n \in Requests, pts \in now..(now + 1) : GetNextBuffer(n, pts)
    BY <1>7, OrderStays DEF GetNextBuffer, flags, history
  <1>8. CASE GetFails
    <2>1. UNCHANGED <<mTimedBufferQueue, flags, history, buffer>>
      BY <1>8 DEF GetFails, ReturnNull
    <2>2. call' = Idle
      BY <1>8 DEF GetFails, ReturnNull
    <2> QED
      BY <2>1, <2>2, OrderStays DEF flags, history, Idle
  <1>9. CASE GetUntransformable
    <2>1. /\ mTimedBufferQueue # <<>> /\ call.busy /\ call' = Idle
          /\ TrimHead(mTimedBufferQueue) /\ UNCHANGED <<flags, history, buffer>>
      BY <1>9 DEF GetUntransformable, Playing, InLoop, ReturnNull
    <2>2. /\ Cut(mTimedBufferQueue', mTimedBufferQueue, 0, 1)
          /\ ~mQueueHeadInFlight
      BY <2>1, TrimHeadCuts, CallHolds
    <2> QED
      BY <2>1, <2>2, OrderCut DEF flags, history, Idle
  <1>10. CASE GetPaused \/ GetEarly
    <2>1. PICK n : YieldSilence(n)
      BY <1>10 DEF GetPaused, GetEarly
    <2>2. call.busy
      BY <1>10 DEF GetPaused, GetEarly, Near, Located, Playing, InLoop
    <2>3. ~mQueueHeadInFlight /\ buffer.raw = "NULL"
      BY <2>2, CallHolds
    <2>4. /\ UNCHANGED <<mTimedBufferQueue, mQueueHeadInFlight,
                         mTrimQueueHeadOnRelease, queued, played>>
          /\ call' = Idle /\ buffer'.raw = "silence"
      BY <2>1 DEF YieldSilence, history
    <2> QED
      BY <2>3, <2>4, OrderStays DEF Idle
  <1>11. CASE GetOnTime
    <2>1. mTimedBufferQueue # <<>> /\ call.busy /\ YieldSamples(0)
      BY <1>11 DEF GetOnTime, Near, Located, Playing, InLoop
    <2>2. head.position + 0 <= head.size
      BY <2>1, HeadIs, BufferIs DEF TimedInv
    <2> QED
      BY <2>1, <2>2, YieldOrder
  <1>12. CASE GetLate
    BY <1>12, LateIs, YieldOrder
  <1>13. CASE GetDrop
    <2>1. /\ mTimedBufferQueue # <<>> /\ call.busy
          /\ TrimHead(mTimedBufferQueue)
          /\ UNCHANGED <<mQueueHeadInFlight, mTrimQueueHeadOnRelease, call,
                         buffer, queued, played>>
      BY <1>13 DEF GetDrop, TooLate, Near, Located, Playing, InLoop, history
    <2>2. /\ Cut(mTimedBufferQueue', mTimedBufferQueue, 0, 1)
          /\ ~mQueueHeadInFlight
      BY <2>1, TrimHeadCuts, CallHolds
    <2> QED
      BY <2>1, <2>2, OrderCut DEF TimedInv, OrderInv
  <1>14. CASE ReleaseSilence
    <2>1. ~mQueueHeadInFlight /\ ~call.busy /\ buffer.raw # "head"
      BY <1>14 DEF ReleaseSilence, TimedInv, HeadInFlightStays, QueueUnlocked
    <2> QED
      BY <1>14, <2>1, OrderStays DEF ReleaseSilence, flags, history, Empty
  <1>15. CASE ReleaseHead
    BY <1>15, ReleaseOrder
  <1>16. CASE UNCHANGED vars
    <2>1. UNCHANGED <<mTimedBufferQueue, flags, history, buffer, call>>
      BY <1>16 DEF vars
    <2> QED
      BY <2>1, OrderStays DEF flags, history, TimedInv, OrderInv
  <1> QED
    BY <1>1, <1>2, <1>3, <1>4, <1>5, <1>6, <1>7, <1>8, <1>9, <1>10, <1>11,
       <1>12, <1>13, <1>14, <1>15, <1>16 DEF Next, Round

-----------------------------------------------------------------------------
(* The count of the frames pending, by what the steps do to it.            *)


(* The two counters are numbers below W.                                   *)
LEMMA PendingInt ==
    ASSUME TypeOK
    PROVE  /\ mFramesPendingInQueue \in Int /\ skipped \in Int
           /\ mFramesPendingInQueue % W = mFramesPendingInQueue
           /\ skipped % W = skipped
  <1>1. W \in Nat \ {0}
    BY Bounds
  <1>2. mFramesPendingInQueue \in 0..(W - 1) /\ skipped \in 0..(W - 1)
    BY DEF TypeOK
  <1> QED
    BY <1>1, <1>2, ModUnique

(* A step adds d to the count and e to the frames skipped, which is what   *)
(* it does to the queue: unless it trims behind a head in flight.          *)
CountedBy(d, e) ==
    /\ d \in Int /\ e \in Int
    /\ mFramesPendingInQueue' = (mFramesPendingInQueue + d) % W
    /\ skipped' = (skipped + e) % W
    /\ trimmedUnderMixer => trimmedUnderMixer'
    /\ ~trimmedUnderMixer' =>
           Left(mTimedBufferQueue') = Left(mTimedBufferQueue) + d - e

Counted == \E d, e \in Int : CountedBy(d, e)

(* A step that touches neither the queue nor the counters.                 *)
LEMMA CountStays ==
    ASSUME TimedInv,
           UNCHANGED <<mTimedBufferQueue, mFramesPendingInQueue, skipped,
                       trimmedUnderMixer>>
    PROVE  Counted
  <1>1. /\ mFramesPendingInQueue \in Int /\ skipped \in Int
        /\ mFramesPendingInQueue % W = mFramesPendingInQueue
        /\ skipped % W = skipped
    BY PendingInt DEF TimedInv
  <1>2. Left(mTimedBufferQueue) \in Int
    BY LeftInt DEF TimedInv, TypeOK
  <1>3. /\ mFramesPendingInQueue + 0 = mFramesPendingInQueue
        /\ skipped + 0 = skipped
        /\ Left(mTimedBufferQueue) = Left(mTimedBufferQueue) + 0 - 0
    BY <1>1, <1>2
  <1>4. CountedBy(0, 0)
    BY <1>1, <1>3 DEF CountedBy
  <1> QED
    BY <1>4 DEF Counted

(* Trimming the head takes its frames from the counter.                    *)
LEMMA CountTrimHead ==
    ASSUME TimedInv, mTimedBufferQueue # <<>>, TrimHead(mTimedBufferQueue),
           UNCHANGED <<skipped, trimmedUnderMixer>>
    PROVE  Counted
  <1> DEFINE q == mTimedBufferQueue
             r == Rest(q[1])
  <1>1. q \in Seq(TimedBuffer) /\ Head(q) = q[1]
    BY TailCuts DEF TimedInv, TypeOK
  <1>2. /\ Left(q') = Left(q) - RestOf(q, 0, 1) /\ RestOf(q, 0, 1) = r
        /\ r \in Int /\ Left(q) \in Int
    <2>1. Cut(q', q, 0, 1)
      BY TrimHeadCuts
    <2>2. Left(q') = Left(q) - RestOf(q, 0, 1)
      BY <2>1, <1>1, CutLeft
    <2> QED
      BY <2>2, <1>1, FirstRest, LeftInt
  <1>3. mFramesPendingInQueue' = (mFramesPendingInQueue - r) % W
    BY <1>1 DEF TrimHead
  <1>4. /\ mFramesPendingInQueue \in Int /\ skipped \in Int
        /\ skipped % W = skipped
    BY PendingInt DEF TimedInv
  <1> HIDE DEF r, q
  <1>5. /\ mFramesPendingInQueue - r = mFramesPendingInQueue + (-r)
        /\ skipped + 0 = skipped /\ -r \in Int
        /\ Left(q') = Left(q) + (-r) - 0
    BY <1>2, <1>4
  <1>6. CountedBy(-r, 0)
    BY <1>3, <1>4, <1>5 DEF CountedBy, q
  <1> QED
    BY <1>5, <1>6 DEF Counted

(* Late samples skipped in the head stay in the counter: they are what     *)
(* skipped counts.                                                         *)
LEMMA CountYield ==
    ASSUME TimedInv, mTimedBufferQueue # <<>>, NEW late \in Nat,
           head.position + late <= head.size, YieldSamples(late)
    PROVE  Counted
  <1> DEFINE q == mTimedBufferQueue
             h == [head EXCEPT !.position = @ + late]
  <1>1. /\ Moved(h, q[1]) /\ h.position = head.position + late
        /\ h.size = head.size /\ q' = [q EXCEPT ![1] = h]
    BY YieldIs DEF Yielded
  <1>2. /\ Ordered(q, queued) /\ q \in Seq(TimedBuffer) /\ head = q[1]
        /\ head.position \in Nat /\ head.size \in Nat
    BY HeadIs, BufferIs DEF TimedInv, OrderInv, TypeOK
  <1>3. /\ UNCHANGED <<mFramesPendingInQueue, trimmedUnderMixer>>
        /\ skipped' = (skipped + late) % W
    BY DEF YieldSamples
  <1>4. /\ mFramesPendingInQueue \in Int
        /\ mFramesPendingInQueue % W = mFramesPendingInQueue
    BY PendingInt DEF TimedInv
  <1> HIDE DEF h, q
  <1>5. Left(q') = Left(q) - Rest(q[1]) + Rest(h) /\ Left(q) \in Int
    BY <1>1, <1>2, MovedLeft, LeftInt DEF q
  <1>6. Rest(h) = Rest(q[1]) - late /\ Rest(q[1]) \in Int
    BY <1>1, <1>2 DEF Rest
  <1>7. /\ Left(q') = Left(q) + 0 - late
        /\ mFramesPendingInQueue + 0 = mFramesPendingInQueue
    BY <1>4, <1>5, <1>6
  <1>8. CountedBy(0, late)
    BY <1>3, <1>4, <1>7 DEF CountedBy, q
  <1> QED
    BY <1>8 DEF Counted

(* A queued buffer adds its frames to the counter.                         *)
LEMMA CountQueue ==
    ASSUME TimedInv, NEW size \in Sizes, NEW pts \in MediaTimes,
           QueueTimedBuffer(size, pts)
    PROVE  Counted
  <1> DEFINE q == mTimedBufferQueue
             b == [id |-> queued + 1, pts |-> pts, size |-> size,
                   position |-> 0]
  <1>1. b \in TimedBuffer /\ size \in Nat
    <2>1. queued \in Nat /\ queued < MaxBuffers /\ MaxBuffers \in Nat
      BY Bounds DEF TimedInv, TypeOK, QueueTimedBuffer
    <2>2. queued + 1 \in 1..MaxBuffers
      BY <2>1
    <2> QED
      BY <2>2, Bounds DEF TimedBuffer
  <1>2. /\ q \in Seq(TimedBuffer) /\ q' = Append(q, b)
        /\ mFramesPendingInQueue' = (mFramesPendingInQueue + size) % W
        /\ UNCHANGED <<skipped, trimmedUnderMixer>>
    BY DEF TimedInv, TypeOK, QueueTimedBuffer
  <1>3. Rest(b) = size
    BY <1>1 DEF Rest
  <1> HIDE DEF b, q
  <1>4. Left(q') = Left(q) + size /\ Left(q) \in Int
    BY <1>1, <1>2, <1>3, AppendLeft, LeftInt
  <1>5. skipped \in Int /\ skipped % W = skipped
    BY PendingInt DEF TimedInv
  <1>6. Left(q') = Left(q) + size - 0 /\ skipped + 0 = skipped
    BY <1>1, <1>4, <1>5
  <1>7. CountedBy(size, 0)
    BY <1>1, <1>2, <1>5, <1>6 DEF CountedBy, q
  <1> QED
    BY <1>1, <1>7 DEF Counted

(* Trimming before an allocation takes the frames of every buffer it       *)
(* drops, unless the head is in flight.                                    *)
LEMMA CountAllocate ==
    ASSUME TimedInv, AllocateTimedBuffer
    PROVE  Counted
  <1> DEFINE q == mTimedBufferQueue
             start == TrimStart(q)
             end == TrimEnd(q)
             r == RestOf(q, start, end)
  <1>1. /\ q \in Seq(TimedBuffer) /\ end \in 0..Len(q) /\ Len(q) \in Nat
    BY TrimEndIs, LenProperties DEF TimedInv, TypeOK
  <1>2. /\ mFramesPendingInQueue' = IF start < end
               THEN (mFramesPendingInQueue - r) % W
               ELSE mFramesPendingInQueue
        /\ q' = IF start < end THEN RemoveItemsAt(q, start, end) ELSE q
        /\ trimmedUnderMixer' =
               (trimmedUnderMixer \/ (start < end /\ start = 1))
        /\ UNCHANGED skipped
    BY DEF AllocateTimedBuffer
  <1>3. start \in {0, 1} /\ end \in Nat /\ end <= Len(q)
    BY <1>1 DEF TrimStart
  <1> HIDE DEF start, end
  <1>4. CASE ~(start < end)
    <2>1. trimmedUnderMixer \in BOOLEAN
      BY DEF TimedInv, TypeOK
    <2> QED
      BY <2>1, <1>2, <1>4, CountStays
  <1>5. CASE start < end
    <2>1. r \in Int /\ Left(q) \in Int
      BY <1>1, <1>3, <1>5, RestOfInt, LeftInt
    <2>2. ~trimmedUnderMixer' => Left(q') = Left(q) - r
      <3> SUFFICES ASSUME ~trimmedUnderMixer' PROVE Left(q') = Left(q) - r
        OBVIOUS
      <3>1. start = 0
        BY <1>2, <1>3, <1>5
      <3>2. q' = RemoveItemsAt(q, 0, end) /\ ~(0 + end > Len(q))
        BY <3>1, <1>2, <1>1, <1>3, <1>5
      <3> HIDE DEF q
      <3>3. Cut(RemoveItemsAt(q, 0, end), q, 0, end)
        BY <3>2, <1>1, <1>3, RemoveItemsAtCuts
      <3>4. Left(q') = Left(q) - RestOf(q, 0, end)
        BY <3>2, <3>3, <1>1, CutLeft
      <3> QED
        BY <3>1, <3>4
    <2>3. /\ mFramesPendingInQueue \in Int /\ skipped \in Int
          /\ skipped % W = skipped
      BY PendingInt DEF TimedInv
    <2> HIDE DEF r, q
    <2>4. /\ mFramesPendingInQueue - r = mFramesPendingInQueue + (-r)
          /\ skipped + 0 = skipped /\ -r \in Int
          /\ ~trimmedUnderMixer' => Left(q') = Left(q) + (-r) - 0
      BY <2>1, <2>2, <2>3
    <2>5. trimmedUnderMixer => trimmedUnderMixer'
      BY <1>2
    <2>6. /\ mFramesPendingInQueue' = (mFramesPendingInQueue + (-r)) % W
          /\ skipped' = (skipped + 0) % W
      BY <2>3, <2>4, <1>2, <1>5
    <2>7. CountedBy(-r, 0)
      BY <2>4, <2>5, <2>6 DEF CountedBy, q
    <2> QED
      BY <2>4, <2>7 DEF Counted
  <1> QED
    BY <1>4, <1>5

(* A release takes the frames that were mixed, and the rest of a head it   *)
(* drops.                                                                  *)
LEMMA CountRelease ==
    ASSUME TimedInv, ReleaseHead
    PROVE  Counted
  <1> DEFINE q == mTimedBufferQueue
             h == Consumed(head)
             n == buffer.frameCount
             pending == mFramesPendingInQueue
  <1>1. /\ q # <<>> /\ Moved(h, q[1]) /\ h.position = head.position + n
    BY ReleaseIs DEF Released
  <1>2. /\ Ordered(q, queued) /\ q \in Seq(TimedBuffer) /\ head = q[1]
        /\ head.position \in Nat /\ head.size \in Nat /\ n \in Nat
    BY <1>1, HeadIs, BufferIs DEF TimedInv, OrderInv, TypeOK
  <1>3. /\ \/ /\ q' = Tail([q EXCEPT ![1] = h])
              /\ pending' = (pending - n - Rest(h)) % W
           \/ /\ q' = [q EXCEPT ![1] = h]
              /\ pending' = (pending - n) % W
        /\ UNCHANGED <<skipped, trimmedUnderMixer>>
    BY DEF ReleaseHead, history
  <1> HIDE DEF h, n
  <1>4. /\ Rest(h) = Rest(q[1]) - n /\ Rest(q[1]) \in Int /\ Rest(h) \in Int
        /\ n \in Int
    BY <1>1, <1>2 DEF Rest, Moved
  <1>5. pending \in Int /\ skipped \in Int /\ skipped % W = skipped
    BY PendingInt DEF TimedInv
  <1>6. Left(q) \in Int
    BY <1>2, LeftInt
  <1>7. CASE /\ q' = Tail([q EXCEPT ![1] = h])
             /\ pending' = (pending - n - Rest(h)) % W
    <2> DEFINE r == Rest(q[1])
    <2>1. q' = Tail(q)
      <3>1. Tail([q EXCEPT ![1] = h]) = Tail(q)
        BY <1>1, <1>2, MovedOrdered
      <3> QED
        BY <3>1, <1>7
    <2>2. Left(q') = Left(q) - RestOf(q, 0, 1) /\ RestOf(q, 0, 1) = r
      <3>1. Cut(q', q, 0, 1)
        BY <2>1, <1>1, <1>2, TailCuts
      <3> QED
        BY <3>1, <1>1, <1>2, CutLeft, FirstRest
    <2> HIDE DEF q, r
    <2>3. r \in Int /\ Rest(h) = r - n
      BY <1>4 DEF r
    <2>4. /\ pending - n - Rest(h) = pending + (-r) /\ -r \in Int
          /\ skipped + 0 = skipped /\ Left(q') = Left(q) + (-r) - 0
      BY <2>2, <2>3, <1>4, <1>5, <1>6
    <2>5. CountedBy(-r, 0)
      BY <2>4, <1>3, <1>5, <1>7 DEF CountedBy, q
    <2> QED
      BY <2>4, <2>5 DEF Counted
  <1>8. CASE q' = [q EXCEPT ![1] = h] /\ pending' = (pending - n) % W
    <2>1. Left(q') = Left(q) - Rest(q[1]) + Rest(h)
      <3>1. Left([q EXCEPT ![1] = h]) = Left(q) - Rest(q[1]) + Rest(h)
        BY <1>1, <1>2, MovedLeft
      <3> QED
        BY <3>1, <1>8
    <2> HIDE DEF q
    <2>2. /\ pending - n = pending + (-n) /\ -n \in Int
          /\ skipped + 0 = skipped /\ Left(q') = Left(q) + (-n) - 0
      BY <2>1, <1>4, <1>5, <1>6
    <2>3. CountedBy(-n, 0)
      BY <2>2, <1>3, <1>5, <1>8 DEF CountedBy, q
    <2> QED
      BY <2>2, <2>3 DEF Counted
  <1> QED
    BY <1>3, <1>7, <1>8

(* Queue and counters change together in every step.                       *)
LEMMA CountNext ==
    ASSUME TimedInv, [Next]_vars
    PROVE  Counted
  <1>1. CASE Tick \/ Sync \/ GetNextBufferInvalidPTS \/ ReleaseSilence
    BY <1>1, CountStays
       DEF Tick, Sync, GetNextBufferInvalidPTS, ReleaseSilence, history
  <1>2. CASE \/ \E x \in LinearTransform, t \in Target :
                    SetMediaTimeTransform(x, t)
             \/ \E n \in Requests, pts \in now..(now + 1) :
                    GetNextBuffer(n, pts)
    BY <1>2, CountStays DEF SetMediaTimeTransform, GetNextBuffer, history
  <1>3. CASE GetFails \/ GetPaused \/ GetEarly
    BY <1>3, CountStays DEF GetFails, GetPaused, GetEarly, YieldSilence, history
  <1>4. CASE AllocateTimedBuffer
    BY <1>4, CountAllocate
  <1>5. CASE \E size \in Sizes, pts \in MediaTimes :
                 QueueTimedBuffer(size, pts)
    BY <1>5, CountQueue
  <1>6. CASE GetUntransformable
    BY <1>6, CountTrimHead DEF GetUntransformable, Playing, InLoop, history
  <1>7. CASE GetDrop
    <2>1. /\ mTimedBufferQueue # <<>> /\ TrimHead(mTimedBufferQueue)
          /\ UNCHANGED <<skipped, trimmedUnderMixer>>
      BY <1>7 DEF GetDrop, TooLate, Near, Located, Playing, InLoop, history
    <2> QED
      BY <2>1, CountTrimHead
  <1>8. CASE GetOnTime
    <2>1. mTimedBufferQueue # <<>> /\ YieldSamples(0)
      BY <1>8 DEF GetOnTime, Near, Located, Playing, InLoop
    <2>2. head.position + 0 <= head.size
      BY <2>1, HeadIs, BufferIs DEF TimedInv
    <2> QED
      BY <2>1, <2>2, CountYield
  <1>9. CASE GetLate
    BY <1>9, LateIs, CountYield
  <1>10. CASE ReleaseHead
    BY <1>10, CountRelease
  <1>11. CASE UNCHANGED vars
    BY <1>11, CountStays DEF vars, history
  <1> QED
    BY <1>1, <1>2, <1>3, <1>4, <1>5, <1>6, <1>7, <1>8, <1>9, <1>10, <1>11
       DEF Next, Round

-----------------------------------------------------------------------------
(* Types.                                                                  *)

(* The parts of TypeOK that the queue's order and the count do not give.   *)
FlagsOK ==
    /\ mQueueHeadInFlight \in BOOLEAN /\ mTrimQueueHeadOnRelease \in BOOLEAN
    /\ mTimedAudioOutputOnTime \in BOOLEAN
XformOK ==
    /\ mMediaTimeTransform \in LinearTransform
    /\ mMediaTimeTransformTarget \in Target
    /\ mMediaTimeTransformValid \in BOOLEAN
ClocksOK == now \in 0..MaxTime /\ inSync \in BOOLEAN
CallOK ==
    /\ call \in [frames : Nat, pts : Int, busy : BOOLEAN]
    /\ buffer \in [raw : {"NULL", "silence", "head"}, frameCount : Nat]
HistoryOK ==
    /\ queued \in 0..MaxBuffers /\ trimmedUnderMixer \in BOOLEAN
    /\ played \in [id : 0..MaxBuffers, end : Nat]

(* The type invariant, from its parts.                                     *)
LEMMA TypeParts ==
    ASSUME Ordered(mTimedBufferQueue, queued),
           mFramesPendingInQueue \in 0..(W - 1), skipped \in 0..(W - 1),
           FlagsOK, XformOK, ClocksOK, CallOK, HistoryOK
    PROVE  TypeOK
  <1>1. mTimedBufferQueue \in Seq(TimedBuffer)
    BY DEF Ordered
  <1>2. DOMAIN mTimedBufferQueue = 1..Len(mTimedBufferQueue)
    BY <1>1, LenProperties
  <1>3. \A i \in DOMAIN mTimedBufferQueue :
          mTimedBufferQueue[i].position <= mTimedBufferQueue[i].size
    BY <1>2 DEF Ordered
  <1> QED
    BY <1>1, <1>3
       DEF TypeOK, FlagsOK, XformOK, ClocksOK, CallOK, HistoryOK

(* The parts, from the type invariant.                                     *)
LEMMA PartsOfType ==
    TypeOK => FlagsOK /\ XformOK /\ ClocksOK /\ CallOK /\ HistoryOK
  BY DEF TypeOK, FlagsOK, XformOK, ClocksOK, CallOK, HistoryOK

(* The counters stay below W.                                              *)
LEMMA CountTypes ==
    ASSUME TypeOK, Counted
    PROVE  mFramesPendingInQueue' \in 0..(W - 1) /\ skipped' \in 0..(W - 1)
  <1>1. PICK d \in Int, e \in Int : CountedBy(d, e)
    BY DEF Counted
  <1>2. mFramesPendingInQueue + d \in Int /\ skipped + e \in Int
    BY PendingInt
  <1> QED
    BY <1>1, <1>2, WrapIs DEF CountedBy

(* timedYieldSamples_l() keeps the types.                                  *)
LEMMA YieldTypes ==
    ASSUME TimedInv, mTimedBufferQueue # <<>>, NEW late \in Nat,
           head.position + late <= head.size, YieldSamples(late)
    PROVE  FlagsOK' /\ XformOK' /\ ClocksOK' /\ CallOK' /\ HistoryOK'
  <1> DEFINE h == [head EXCEPT !.position = @ + late]
             n == buffer'.frameCount
  <1>1. /\ h.id = head.id /\ h.position = head.position + late /\ n \in Nat
        /\ buffer' = [raw |-> "head", frameCount |-> n]
        /\ played' = [id |-> h.id, end |-> h.position + n]
    BY YieldIs DEF Yielded
  <1>2. head.id \in 0..MaxBuffers /\ head.position \in Nat
    <2>1. /\ head.id \in Nat \ {0} /\ head.id <= MaxBuffers
          /\ head.position \in Nat
      BY HeadIs, BufferIs DEF TimedInv
    <2> QED
      BY <2>1, Bounds
  <1>3. FlagsOK /\ XformOK /\ ClocksOK /\ CallOK /\ HistoryOK
    BY PartsOfType DEF TimedInv
  <1>4. /\ UNCHANGED <<mTrimQueueHeadOnRelease, xform, clocks, queued,
                       trimmedUnderMixer>>
        /\ call' = Idle /\ mQueueHeadInFlight' = TRUE
        /\ mTimedAudioOutputOnTime' = TRUE
    BY DEF YieldSamples
  <1> HIDE DEF h, n
  <1>5. h.position + n \in Nat /\ h.id \in 0..MaxBuffers
    BY <1>1, <1>2
  <1>6. HistoryOK'
    BY <1>1, <1>3, <1>4, <1>5 DEF HistoryOK
  <1>7. CallOK'
    BY <1>1, <1>4 DEF CallOK, Idle
  <1>8. FlagsOK' /\ XformOK' /\ ClocksOK'
    BY <1>3, <1>4 DEF FlagsOK, XformOK, ClocksOK, xform, clocks
  <1> QED
    BY <1>6, <1>7, <1>8

(* Every step keeps the parts of the type invariant.                       *)
LEMMA PartsNext ==
    ASSUME TimedInv, [Next]_vars
    PROVE  FlagsOK' /\ XformOK' /\ ClocksOK' /\ CallOK' /\ HistoryOK'
  <1>0. FlagsOK /\ XformOK /\ ClocksOK /\ CallOK /\ HistoryOK
    BY PartsOfType DEF TimedInv
  <1>1. CASE Tick
    <2>1. now' \in 0..MaxTime
      <3>1. now \in Nat /\ now < MaxTime /\ now' = now + 1
        BY <1>0, <1>1, Bounds DEF ClocksOK, Tick
      <3> QED
        BY <3>1, Bounds
    <2>2. UNCHANGED <<flags, xform, inSync, call, buffer, history>>
      BY <1>1 DEF Tick
    <2> QED
      BY <1>0, <2>1, <2>2 DEF FlagsOK, XformOK, ClocksOK, CallOK, HistoryOK,
         flags, xform, history
  <1>2. CASE Sync
    <2>1. /\ UNCHANGED <<flags, xform, now, call, buffer, history>>
          /\ inSync' \in BOOLEAN
      BY <1>2 DEF Sync
    <2> QED
      BY <1>0, <2>1 DEF FlagsOK, XformOK, ClocksOK, CallOK, HistoryOK, flags,
         xform, history
  <1>3. CASE \E x \in LinearTransform, t \in Target :
                 SetMediaTimeTransform(x, t)
    <2>1. XformOK' /\ UNCHANGED <<flags, clocks, call, buffer, history>>
      BY <1>3 DEF SetMediaTimeTransform, XformOK
    <2> QED
      BY <1>0, <2>1 DEF FlagsOK, ClocksOK, CallOK, HistoryOK, flags, clocks,
         history
  <1>4. CASE AllocateTimedBuffer
    <2>1. /\ mTrimQueueHeadOnRelease' \in BOOLEAN
          /\ trimmedUnderMixer' \in BOOLEAN
      BY <1>0, <1>4
         DEF AllocateTimedBuffer, TrimsHeadOnRelease, FlagsOK, HistoryOK
    <2>2. UNCHANGED <<mQueueHeadInFlight, mTimedAudioOutputOnTime, xform,
                      clocks, call, buffer, queued, played>>
      BY <1>4 DEF AllocateTimedBuffer
    <2> QED
      BY <1>0, <2>1, <2>2 DEF FlagsOK, XformOK, ClocksOK, CallOK, HistoryOK,
         xform, clocks
  <1>5. CASE \E size \in Sizes, pts \in MediaTimes :
                 QueueTimedBuffer(size, pts)
    <2>1. queued' \in 0..MaxBuffers
      <3>1. queued \in Nat /\ queued < MaxBuffers /\ queued' = queued + 1
        BY <1>0, <1>5, Bounds DEF HistoryOK, QueueTimedBuffer
      <3> QED
        BY <3>1, Bounds
    <2>2. UNCHANGED <<flags, xform, clocks, call, buffer, trimmedUnderMixer,
                      played>>
      BY <1>5 DEF QueueTimedBuffer
    <2> QED
      BY <1>0, <2>1, <2>2 DEF FlagsOK, XformOK, ClocksOK, CallOK, HistoryOK,
         flags, xform, clocks
  <1>6. CASE GetNextBufferInvalidPTS
    BY <1>0, <1>6 DEF GetNextBufferInvalidPTS, FlagsOK, XformOK, ClocksOK,
       CallOK, HistoryOK, xform, clocks, history
  <1>7. CASE \E n \in Requests, pts \in now..(now + 1) : GetNextBuffer(n, pts)
    <2>1. PICK n \in Requests, pts \in now..(now + 1) : GetNextBuffer(n, pts)
      BY <1>7
    <2>2. n \in Nat /\ pts \in Int
      <3>1. now \in Int
        BY <1>0, Bounds DEF ClocksOK
      <3> QED
        BY <3>1, Bounds
    <2>3. /\ call' = [frames |-> n, pts |-> pts, busy |-> TRUE]
          /\ UNCHANGED <<flags, xform, clocks, buffer, history>>
      BY <2>1 DEF GetNextBuffer
    <2>4. CallOK'
      BY <1>0, <2>2, <2>3 DEF CallOK
    <2> QED
      BY <1>0, <2>3, <2>4 DEF FlagsOK, XformOK, ClocksOK, HistoryOK, flags,
         xform, clocks, history
  <1>8. CASE GetFails \/ GetUntransformable
    <2>1. UNCHANGED <<flags, xform, clocks, buffer, history>> /\ call' = Idle
      BY <1>8 DEF GetFails, GetUntransformable, ReturnNull
    <2> QED
      BY <1>0, <2>1 DEF FlagsOK, XformOK, ClocksOK, CallOK, HistoryOK, flags,
         xform, clocks, history, Idle
  <1>9. CASE GetPaused \/ GetEarly
    <2>1. PICK n \in Nat : YieldSilence(n)
      <3>1. CASE GetPaused
        BY <1>0, <3>1 DEF GetPaused, CallOK
      <3>2. CASE GetEarly
        <4>1. mTimedBufferQueue # <<>> /\ SampleDelta > 0
          BY <3>2 DEF GetEarly, Near, Located, Playing, InLoop
        <4>2. SampleDelta \in Nat
          BY <4>1, SampleDeltaIs
        <4> QED
          BY <3>2, <4>2 DEF GetEarly
      <3> QED
        BY <1>9, <3>1, <3>2
    <2>2. Lesser(n, call.frames) \in Nat
      BY <1>0 DEF CallOK, Lesser
    <2>3. /\ buffer' = [raw |-> "silence",
                        frameCount |-> Lesser(n, call.frames)]
          /\ call' = Idle /\ mTimedAudioOutputOnTime' = FALSE
          /\ UNCHANGED <<mQueueHeadInFlight, mTrimQueueHeadOnRelease, xform,
                         clocks, history>>
      BY <2>1 DEF YieldSilence
    <2>4. CallOK'
      BY <2>2, <2>3 DEF CallOK, Idle
    <2> QED
      BY <1>0, <2>3, <2>4 DEF FlagsOK, XformOK, ClocksOK, HistoryOK, xform,
         clocks, history
  <1>10. CASE GetOnTime
    <2>1. mTimedBufferQueue # <<>> /\ YieldSamples(0)
      BY <1>10 DEF GetOnTime, Near, Located, Playing, InLoop
    <2>2. head.position + 0 <= head.size
      BY <2>1, HeadIs, BufferIs DEF TimedInv
    <2> QED
      BY <2>1, <2>2, YieldTypes
  <1>11. CASE GetLate
    BY <1>11, LateIs, YieldTypes
  <1>12. CASE GetDrop
    <2>1. mTimedAudioOutputOnTime' \in BOOLEAN
      BY <1>0, <1>12 DEF GetDrop, FlagsOK
    <2>2. UNCHANGED <<mQueueHeadInFlight, mTrimQueueHeadOnRelease, xform,
                      clocks, call, buffer, history>>
      BY <1>12 DEF GetDrop
    <2> QED
      BY <1>0, <2>1, <2>2 DEF FlagsOK, XformOK, ClocksOK, CallOK, HistoryOK,
         xform, clocks, history
  <1>13. CASE ReleaseSilence
    BY <1>0, <1>13 DEF ReleaseSilence, FlagsOK, XformOK, ClocksOK, CallOK,
       HistoryOK, flags, xform, clocks, history, Empty
  <1>14. CASE ReleaseHead
    <2>1. mTrimQueueHeadOnRelease' = FALSE
      BY <1>14, ReleaseIs DEF Released
    <2>2. /\ buffer' = Empty /\ mQueueHeadInFlight' = FALSE
          /\ UNCHANGED <<mTimedAudioOutputOnTime, xform, clocks, call,
                         history>>
      BY <1>14 DEF ReleaseHead
    <2> QED
      BY <1>0, <2>1, <2>2 DEF FlagsOK, XformOK, ClocksOK, CallOK, HistoryOK,
         xform, clocks, history, Empty
  <1>15. CASE UNCHANGED vars
    BY <1>0, <1>15 DEF vars, FlagsOK, XformOK, ClocksOK, CallOK, HistoryOK,
       flags, xform, clocks, history
  <1> QED
    BY <1>1, <1>2, <1>3, <1>4, <1>5, <1>6, <1>7, <1>8, <1>9, <1>10, <1>11,
       <1>12, <1>13, <1>14, <1>15 DEF Next, Round

-----------------------------------------------------------------------------
(* The inductive invariant.                                                *)

(* The invariant holds at first.                                           *)
LEMMA TimedInvInit == Init => TimedInv
  <1> SUFFICES ASSUME Init PROVE TimedInv
    OBVIOUS
  <1>1. /\ <<>> \in Seq(TimedBuffer) /\ Len(<<>>) = 0 /\ W \in Nat \ {0}
        /\ MaxBuffers \in Nat /\ MaxTime \in Nat
    BY Bounds
  <1>2. 0 \in 0..(W - 1) /\ 0 \in 0..MaxBuffers /\ 0 \in 0..MaxTime
    BY <1>1
  <1>3. Ordered(mTimedBufferQueue, queued)
    BY <1>1 DEF Init, Ordered
  <1>4. AfterPlayed(mTimedBufferQueue, played)
    BY <1>1 DEF Init, AfterPlayed
  <1>5. OrderInv
    BY <1>3, <1>4 DEF Init, OrderInv, Idle
  <1>6. HeadInFlightStays
    BY DEF Init, HeadInFlightStays, Empty
  <1>7. FlagsOK /\ XformOK /\ ClocksOK
    BY <1>2 DEF Init, FlagsOK, XformOK, ClocksOK
  <1>8. CallOK /\ HistoryOK
    <2>1. CallOK
      BY DEF Init, CallOK, Idle, Empty
    <2>2. queued \in 0..MaxBuffers /\ trimmedUnderMixer \in BOOLEAN
      BY <1>2 DEF Init
    <2>3. played \in [id : 0..MaxBuffers, end : Nat]
      BY <1>2 DEF Init
    <2> QED
      BY <2>1, <2>2, <2>3 DEF HistoryOK
  <1>9. mFramesPendingInQueue \in 0..(W - 1) /\ skipped \in 0..(W - 1)
    BY <1>2 DEF Init
  <1>10. TypeOK
    BY <1>3, <1>7, <1>8, <1>9, TypeParts
  <1> QED
    BY <1>5, <1>6, <1>10 DEF TimedInv

(* Every step keeps it.                                                    *)
LEMMA TimedInvNext == TimedInv /\ [Next]_vars => TimedInv'
  <1> SUFFICES ASSUME TimedInv, [Next]_vars PROVE TimedInv'
    OBVIOUS
  <1>1. OrderInv' /\ HeadInFlightStays'
    BY OrderNext
  <1>2. FlagsOK' /\ XformOK' /\ ClocksOK' /\ CallOK' /\ HistoryOK'
    BY PartsNext
  <1>3. mFramesPendingInQueue' \in 0..(W - 1) /\ skipped' \in 0..(W - 1)
    BY CountNext, CountTypes DEF TimedInv
  <1>4. Ordered(mTimedBufferQueue, queued)'
    BY <1>1 DEF OrderInv
  <1>5. TypeOK'
    <2>1. mTimedBufferQueue' \in Seq(TimedBuffer)
      BY <1>4 DEF Ordered
    <2>2. DOMAIN mTimedBufferQueue' = 1..Len(mTimedBufferQueue')
      BY <2>1, LenProperties
    <2>3. \A i \in DOMAIN mTimedBufferQueue' :
            mTimedBufferQueue'[i].position <= mTimedBufferQueue'[i].size
      BY <1>4, <2>2 DEF Ordered
    <2> QED
      BY <1>2, <1>3, <2>1, <2>3
         DEF TypeOK, FlagsOK, XformOK, ClocksOK, CallOK, HistoryOK
  <1> QED
    BY <1>1, <1>5 DEF TimedInv

(* It holds in every reachable state.                                      *)
LEMMA TimedInvAlways == Spec => []TimedInv
  BY TimedInvInit, TimedInvNext, PTL DEF Spec

(* A step of the count preserves what it says.                             *)
LEMMA CountStep ==
    ASSUME TypeOK, Counted, PendingCountsSkipped
    PROVE  PendingCountsSkipped'
  <1> DEFINE L == Left(mTimedBufferQueue)
  <1> SUFFICES ASSUME ~trimmedUnderMixer'
               PROVE  mFramesPendingInQueue' = (L' + skipped') % W
    BY DEF PendingCountsSkipped, Remaining, Left
  <1>1. PICK d \in Int, e \in Int : CountedBy(d, e)
    BY DEF Counted
  <1>2. /\ mFramesPendingInQueue' = (mFramesPendingInQueue + d) % W
        /\ skipped' = (skipped + e) % W /\ ~trimmedUnderMixer
        /\ L' = L + d - e
    BY <1>1 DEF CountedBy
  <1>3. mFramesPendingInQueue = (L + skipped) % W
    BY <1>2 DEF PendingCountsSkipped, Remaining, Left
  <1>4. L \in Int /\ skipped \in Int
    BY LeftInt, PendingInt DEF TypeOK
  <1> HIDE DEF L
  <1>5. L + skipped \in Int /\ skipped + e \in Int /\ L' \in Int
    BY <1>2, <1>4
  <1>6. (((L + skipped) % W) + d) % W = ((L + skipped) + d) % W
    BY <1>5, WrapSum
  <1>7. (((skipped + e) % W) + L') % W = ((skipped + e) + L') % W
    BY <1>5, WrapSum
  <1>8. (L + skipped) + d = (skipped + e) + L'
    BY <1>2, <1>4
  <1>9. skipped' \in Int
    BY <1>2, <1>5, WrapIs
  <1>10. L' + skipped' = skipped' + L'
    BY <1>5, <1>9
  <1> QED
    BY <1>2, <1>3, <1>6, <1>7, <1>8, <1>10

-----------------------------------------------------------------------------
(* Every variable of the timed track keeps its type, whatever the client   *)
(* queues and the mixer asks for; in particular no buffer of the queue is  *)
(* ever read beyond its end.                                               *)
THEOREM TimedTypeCorrect == Spec => []TypeOK
  <1>1. TimedInv => TypeOK
    BY DEF TimedInv
  <1> QED
    BY <1>1, TimedInvAlways, PTL

(* allocateTimedBuffer()'s trimming leaves the buffer that the mixer reads *)
(* from at the head of the queue: releaseBuffer()'s assertions "released   *)
(* buffer not within the head of the timed buffer queue" and "Queue head   *)
(* in flight during release of silence buffer" hold for every transform,   *)
(* clock and number of buffers.                                            *)
THEOREM TimedHeadStays == Spec => []HeadInFlightStays
  <1>1. TimedInv => HeadInFlightStays
    BY DEF TimedInv
  <1> QED
    BY <1>1, TimedInvAlways, PTL

(* framesReady() is the frames left in the queue and the late ones that    *)
(* getNextBuffer() ever skipped, modulo the counter's width, for queues of *)
(* any length: until allocateTimedBuffer() trims behind a head in flight.  *)
THEOREM TimedPendingCounts == Spec => []PendingCountsSkipped
  <1>1. Init => PendingCountsSkipped
    <2> SUFFICES ASSUME Init PROVE PendingCountsSkipped
      OBVIOUS
    <2>1. RestOf(<<>>, 0, 0) = 0 /\ Len(<<>>) = 0
      BY RestOfNothing
    <2>2. W \in Nat \ {0} /\ 0 \in 0..(W - 1)
      BY Bounds
    <2>3. 0 % W = 0
      BY <2>2, ModNear
    <2>4. Remaining = 0
      BY <2>1 DEF Init, Remaining
    <2> QED
      BY <2>3, <2>4 DEF Init, PendingCountsSkipped
  <1>2. TimedInv /\ [Next]_vars /\ PendingCountsSkipped
            => PendingCountsSkipped'
    BY CountNext, CountStep DEF TimedInv
  <1> QED
    BY <1>1, <1>2, TimedInvAlways, PTL DEF Spec

(* timedYieldSamples_l() gives the mixer every frame at most once and in   *)
(* the order of queueing, whatever is trimmed, skipped or dropped between  *)
(* two of its calls.                                                       *)
THEOREM TimedPlaysForward == Spec => PlaysForward
  <1> DEFINE A == buffer.raw # "head" /\ buffer'.raw = "head" =>
                    \/ played'.id > played.id
                    \/ /\ played'.id = played.id
                       /\ played'.end - buffer'.frameCount >= played.end
  <1>1. TimedInv /\ [Next]_vars => [A]_vars
    <2> SUFFICES ASSUME TimedInv, Next, buffer.raw # "head",
                        buffer'.raw = "head"
                 PROVE  A
      OBVIOUS
    <2>1. PICK late \in Nat : /\ mTimedBufferQueue # <<>> /\ YieldSamples(late)
                              /\ head.position + late <= head.size
      <3>1. CASE GetOnTime
        <4>1. mTimedBufferQueue # <<>> /\ YieldSamples(0)
          BY <3>1 DEF GetOnTime, Near, Located, Playing, InLoop
        <4>2. head.position + 0 <= head.size
          BY <4>1, HeadIs, BufferIs DEF TimedInv
        <4> QED
          BY <4>1, <4>2
      <3>2. CASE GetLate
        BY <3>2, LateIs
      <3>3. CASE GetPaused \/ GetEarly
        <4>1. buffer'.raw = "silence"
          BY <3>3 DEF GetPaused, GetEarly, YieldSilence
        <4> QED
          BY <4>1
      <3>4. CASE UNCHANGED buffer
        BY <3>4
      <3>5. CASE buffer' = Empty
        BY <3>5 DEF Empty
      <3> QED
        BY <3>1, <3>2, <3>3, <3>4, <3>5
           DEF Next, Round, Tick, Sync, SetMediaTimeTransform,
               AllocateTimedBuffer, QueueTimedBuffer, GetNextBufferInvalidPTS,
               GetNextBuffer, GetFails, GetUntransformable, ReturnNull,
               GetDrop, ReleaseSilence, ReleaseHead
    <2> DEFINE h == [head EXCEPT !.position = @ + late]
               n == buffer'.frameCount
    <2>2. /\ h.id = head.id /\ h.position = head.position + late /\ n \in Nat
          /\ played' = [id |-> h.id, end |-> h.position + n]
      BY <2>1, YieldIs DEF Yielded
    <2>3. /\ head.id >= played.id
          /\ head.id = played.id => head.position >= played.end
      <3>1. AfterPlayed(mTimedBufferQueue, played)
        BY DEF TimedInv, OrderInv, HeadInFlightStays
      <3>2. head = mTimedBufferQueue[1] /\ 1 \in 1..Len(mTimedBufferQueue)
        BY <2>1, HeadIs, EmptySeq, LenProperties
           DEF TimedInv, OrderInv, TypeOK
      <3>3. /\ played.id <= mTimedBufferQueue[1].id
            /\ mTimedBufferQueue[1].id = played.id =>
                  mTimedBufferQueue[1].position >= played.end
        BY <3>1, <3>2 DEF AfterPlayed
      <3>4. head.id \in Nat /\ played.id \in Nat
        BY <2>1, HeadIs, BufferIs, Bounds DEF TimedInv, TypeOK
      <3> QED
        BY <3>2, <3>3, <3>4
    <2>4. /\ head.id \in Nat /\ head.position \in Nat /\ played.id \in Nat
          /\ played.end \in Nat
      BY <2>1, HeadIs, BufferIs, Bounds DEF TimedInv, TypeOK
    <2> HIDE DEF h, n
    <2>5. played'.id = head.id /\ played'.end = head.position + late + n
      BY <2>2
    <2>6. \/ head.id > played.id
          \/ /\ head.id = played.id
             /\ head.position + late + n - n >= played.end
      BY <2>2, <2>3, <2>4
    <2>7. \/ played'.id > played.id
          \/ /\ played'.id = played.id
             /\ played'.end - n >= played.end
      BY <2>2, <2>4, <2>5, <2>6
    <2> QED
      BY <2>7, Zenon DEF n
  <1> QED
    BY <1>1, TimedInvAlways, PTL DEF Spec, PlaysForward
=============================================================================
