------------------------- MODULE AudioCommandProofs -------------------------
(***************************************************************************)
(* Proofs about AudioCommandThread, for any requests, delays and number of *)
(* pending commands.  What insertCommand_l() does to the queue is brought  *)
(* into one form first (Placed): the commands before the place of the new  *)
(* one, the new one, and some of those after it in their old order.  The   *)
(* inductive invariant CommandInv then says of that form that a command    *)
(* with a waiting caller is due, and so is never scanned.                  *)
(***************************************************************************)
EXTENDS AudioCommandThread, SequenceTheorems, FiniteSetTheorems,
        WellFoundedInduction, TLAPS

-----------------------------------------------------------------------------
(* Induction is stated for a set of numbers, not for a predicate: the      *)
(* provers can give a set comprehension for the set, where they could not  *)
(* instantiate an operator.                                                *)

(* A set of natural numbers has a least element.                           *)
LEMMA LeastNatural ==
    ASSUME NEW T, T \subseteq Nat, T # {}
    PROVE  \E x \in T : \A y \in T : x <= y
  <1> DEFINE R == {ss \in Nat \X Nat : ss[1] < ss[2]}
  <1>1. IsWellFoundedOn(R, Nat)
    BY NatLessThanWellFounded, Zenon DEF OpToRel
  <1> HIDE DEF R
  <1>2. PICK x \in T : \A y \in T : ~(<<y, x>> \in R)
    BY <1>1, WFMin, Zenon
  <1>3. \A y \in T : ~(y < x)
    <2> SUFFICES ASSUME NEW y \in T, y < x PROVE <<y, x>> \in R
      BY <1>2
    <2>1. <<y, x>> \in Nat \X Nat
      OBVIOUS
    <2>2. <<y, x>>[1] < <<y, x>>[2]
      OBVIOUS
    <2> QED
      BY <2>1, <2>2, Zenon DEF R
  <1> QED
    BY <1>3

(* A set with 0 that is closed under + 1 has every natural number.         *)
LEMMA SetInduction ==
    ASSUME NEW T, 0 \in T, \A n \in Nat : n \in T => n + 1 \in T
    PROVE  \A n \in Nat : n \in T
  <1> SUFFICES ASSUME Nat \ T # {} PROVE FALSE
    OBVIOUS
  <1>1. PICK x \in Nat \ T : \A y \in Nat \ T : x <= y
    <2>1. Nat \ T \subseteq Nat
      OBVIOUS
    <2> QED
      BY <2>1, LeastNatural
  <1>2. x - 1 \in Nat /\ ~(x <= x - 1) /\ x = (x - 1) + 1
    BY <1>1
  <1>3. x - 1 \in T
    BY <1>1, <1>2
  <1> QED
    BY <1>1, <1>2, <1>3

-----------------------------------------------------------------------------
(* insertCommand_l()                                                       *)

(* A set of numbers up to n has a greatest one.                            *)
LEMMA GreatestUpTo ==
    ASSUME NEW n \in Nat, NEW T, T \subseteq 0..n, T # {}
    PROVE  \E x \in T : \A y \in T : y <= x
  <1> DEFINE U == {u \in 0..n : n - u \in T}
  <1>1. \A x \in T : n - x \in 0..n /\ n - (n - x) = x
    OBVIOUS
  <1>2. U \subseteq Nat /\ U # {}
    <2>1. PICK x : x \in T
      OBVIOUS
    <2>2. n - x \in 0..n /\ n - (n - x) \in T
      BY <2>1, <1>1
    <2>3. n - x \in U
      BY <2>2
    <2> QED
      BY <2>3
  <1> HIDE DEF U
  <1>3. PICK u \in U : \A v \in U : u <= v
    BY <1>2, LeastNatural
  <1>4. n - u \in T /\ u \in 0..n
    BY <1>3 DEF U
  <1>5. ASSUME NEW y \in T PROVE y <= n - u
    <2>1. n - y \in U /\ y \in 0..n
      BY <1>1 DEF U
    <2>2. u <= n - y
      BY <2>1, <1>3
    <2> QED
      BY <2>1, <2>2, <1>4
  <1> QED
    BY <1>4, <1>5

(* The scan ends in the queue, and what it has passed is later than the    *)
(* new command.                                                            *)
LEMMA ScanEndIs ==
    ASSUME mAudioCommands \in Seq(Command), NEW delay \in Nat
    PROVE  /\ ScanEnd(delay) \in 0..Len(mAudioCommands)
           /\ \A j \in ScanEnd(delay) + 1..Len(mAudioCommands) :
                 mAudioCommands[j].time > delay
  <1> DEFINE q == mAudioCommands
             stops == {i \in DOMAIN q : q[i].time <= delay}
             T == stops \cup {0}
             k == ScanEnd(delay)
  <1>1. Len(q) \in Nat /\ DOMAIN q = 1..Len(q)
    BY LenProperties
  <1>2. T \subseteq 0..Len(q) /\ T # {}
    BY <1>1
  <1>3. \E x \in T : \A y \in T : y <= x
    <2> HIDE DEF T
    <2> QED
      BY <1>1, <1>2, GreatestUpTo
  <1>4. \E x \in T : \A y \in stops : y <= x
    BY <1>3
  <1>5. k \in T /\ \A y \in stops : y <= k
    <2> HIDE DEF stops
    <2>1. k = CHOOSE x \in T : \A y \in stops : y <= x
      BY Zenon DEF ScanEnd, stops
    <2> HIDE DEF k, T
    <2> QED
      BY <2>1, <1>4
  <1>6. k \in 0..Len(q)
    BY <1>2, <1>5
  <1>7. ASSUME NEW j \in k + 1..Len(q) PROVE q[j].time > delay
    <2>1. j \in 1..Len(q) /\ ~(j <= k)
      BY <1>1, <1>6
    <2>2. ~(q[j].time <= delay)
      BY <2>1, <1>1, <1>5
    <2>3. q[j].time \in Nat
      <3>1. q[j] \in Command
        BY <2>1, ElementOfSeq
      <3> HIDE DEF q
      <3> QED
        BY <3>1 DEF Command
    <2> QED
      BY <2>2, <2>3
  <1> QED
    BY <1>6, <1>7

(* The due time a request gets, its own or that of the earliest related    *)
(* command it passed, is a time.                                           *)
LEMMA MovedToIs ==
    ASSUME mAudioCommands \in Seq(Command), NEW delay \in Nat, NEW r
    PROVE  MovedTo(r, delay) \in Nat
  <1> DEFINE q == mAudioCommands
             T == {i \in ScanEnd(delay) + 1..Len(q) : Related(r, q[i])}
  <1>1. T \subseteq Nat /\ T \subseteq 1..Len(q) /\ Len(q) \in Nat
    <2>1. ScanEnd(delay) \in 0..Len(q) /\ Len(q) \in Nat
      BY ScanEndIs, LenProperties
    <2> QED
      BY <2>1
  <1>2. CASE T = {}
    BY <1>2 DEF MovedTo
  <1>3. CASE T # {}
    <2> DEFINE least == CHOOSE i \in T : \A j \in T : i <= j
    <2>1. MovedTo(r, delay) = q[least].time
      BY <1>3, Zenon DEF MovedTo
    <2>2. least \in T
      <3> HIDE DEF T
      <3>1. \E i \in T : \A j \in T : i <= j
        BY <1>1, <1>3, LeastNatural
      <3> QED
        BY <3>1
    <2> HIDE DEF least
    <2>3. least \in 1..Len(q)
      BY <1>1, <2>2
    <2>4. q[least] \in Command
      BY <2>3, ElementOfSeq
    <2> QED
      BY <2>1, <2>4 DEF Command
  <1> QED
    BY <1>2, <1>3

(* f gives the members of K in ascending order.                            *)
Ascends(f, K) ==
    /\ \A i \in K : \E j \in DOMAIN f : f[j] = i
    /\ \A i, j \in DOMAIN f : i < j => f[i] < f[j]

(* The places kept of a bounded queue can be listed in ascending order:    *)
(* what the choice in Filtered() rests on.                                 *)
LEMMA AscendsExists ==
    ASSUME NEW n \in Nat, NEW K, K \subseteq 1..n
    PROVE  \E f \in UNION {[1..m -> K] : m \in 0..n} : Ascends(f, K)
  <1> DEFINE Part(m) == {i \in K : i <= m}
             T == {m \in Nat : \E l \in 0..m : \E f \in [1..l -> Part(m)] :
                                  Ascends(f, Part(m))}
  <1>0. \A i \in K : i \in Nat /\ i >= 1 /\ i <= n
    OBVIOUS
  <1>1. 0 \in T
    <2> DEFINE f == [i \in 1..0 |-> 0]
    <2>1. Part(0) = {} /\ 1..0 = {}
      <3>1. \A i \in K : ~(i <= 0)
        BY <1>0
      <3>2. Part(0) = {}
        BY <3>1, Zenon
      <3> QED
        BY <3>2
    <2>2. f \in [1..0 -> Part(0)] /\ DOMAIN f = {} /\ 0 \in 0..0
      BY <2>1
    <2>3. Ascends(f, Part(0))
      BY <2>1, <2>2 DEF Ascends
    <2> QED
      BY <2>2, <2>3
  <1>2. ASSUME NEW m \in Nat, m \in T PROVE m + 1 \in T
    <2>1. PICK l \in 0..m : \E f \in [1..l -> Part(m)] : Ascends(f, Part(m))
      BY <1>2
    <2>2. PICK f \in [1..l -> Part(m)] : Ascends(f, Part(m))
      BY <2>1
    <2>3. CASE m + 1 \in K
      <3> DEFINE g == [i \in 1..(l + 1) |-> IF i = l + 1 THEN m + 1 ELSE f[i]]
      <3>1. Part(m + 1) = Part(m) \cup {m + 1}
        <4>1. \A i \in K : i <= m + 1 <=> i <= m \/ i = m + 1
          BY <1>0
        <4>2. m + 1 <= m + 1
          OBVIOUS
        <4> QED
          BY <4>1, <4>2, <2>3, Zenon
      <3>2. \A i \in 1..l : /\ i \in 1..(l + 1) /\ i # l + 1
                            /\ f[i] \in Part(m) /\ f[i] <= m /\ f[i] \in Nat
        <4>1. \A i \in 1..l : f[i] \in Part(m)
          BY <2>2
        <4>2. \A i \in Part(m) : i <= m /\ i \in Nat
          BY <1>0
        <4> HIDE DEF Part
        <4> QED
          BY <4>1, <4>2
      <3>3. l + 1 \in 0..(m + 1) /\ l + 1 \in 1..(l + 1) /\ l \in Nat
        OBVIOUS
      <3>4. \A i \in 1..(l + 1) : i \in 1..l \/ i = l + 1
        BY <3>3
      <3> HIDE DEF Part
      <3>5. g \in [1..(l + 1) -> Part(m + 1)]
        BY <3>1, <3>2, <3>4
      <3>6. /\ DOMAIN g = 1..(l + 1) /\ DOMAIN f = 1..l /\ g[l + 1] = m + 1
            /\ \A i \in 1..l : g[i] = f[i]
        BY <3>2, <3>3
      <3> HIDE DEF g
      <3>7. \A i \in Part(m + 1) : \E j \in DOMAIN g : g[j] = i
        <4> SUFFICES ASSUME NEW i \in Part(m + 1)
                     PROVE  \E j \in 1..(l + 1) : g[j] = i
          BY <3>6
        <4>1. CASE i = m + 1
          BY <4>1, <3>3, <3>6
        <4>2. CASE i \in Part(m)
          <5>1. PICK j \in 1..l : f[j] = i
            BY <4>2, <2>2, <3>6 DEF Ascends
          <5> QED
            BY <5>1, <3>2, <3>6
        <4> QED
          BY <4>1, <4>2, <3>1
      <3>8. ASSUME NEW i \in 1..(l + 1), NEW j \in 1..(l + 1), i < j
            PROVE  g[i] < g[j]
        <4>1. i \in 1..l
          BY <3>8, <3>3
        <4>2. CASE j \in 1..l
          BY <3>8, <4>1, <4>2, <3>6, <2>2 DEF Ascends
        <4>3. CASE j = l + 1
          BY <4>1, <4>3, <3>2, <3>6
        <4> QED
          BY <4>2, <4>3, <3>4
      <3>9. Ascends(g, Part(m + 1))
        BY <3>6, <3>7, <3>8 DEF Ascends
      <3> QED
        BY <3>3, <3>5, <3>9
    <2>4. CASE m + 1 \notin K
      <3>1. Part(m + 1) = Part(m) /\ l \in 0..(m + 1)
        <4>1. \A i \in K : i <= m + 1 <=> i <= m
          BY <2>4, <1>0
        <4>2. Part(m + 1) = Part(m)
          BY <4>1, Zenon
        <4> QED
          BY <4>2
      <3> HIDE DEF Part
      <3> QED
        BY <3>1, <2>2
    <2> QED
      BY <2>3, <2>4
  <1>3. n \in T
    <2> HIDE DEF T
    <2> QED
      BY <1>1, <1>2, SetInduction
  <1>4. Part(n) = K
    BY <1>0
  <1> HIDE DEF Part
  <1>5. PICK l \in 0..n : \E f \in [1..l -> K] : Ascends(f, K)
    BY <1>3, <1>4
  <1>6. PICK f \in [1..l -> K] : Ascends(f, K)
    BY <1>5
  <1>7. f \in UNION {[1..m -> K] : m \in 0..n}
    BY Zenon
  <1> QED
    BY <1>6, <1>7

(* What Filtered leaves: some of the commands passed, in their order.      *)
LEMMA FilteredIs ==
    ASSUME mAudioCommands \in Seq(Command), NEW delay \in Nat, NEW r
    PROVE  LET q == mAudioCommands
               k == ScanEnd(delay)
           IN  \E m \in 0..Len(q) : \E f \in [1..m -> k + 1..Len(q)] :
                 /\ \A i, j \in 1..m : i < j => f[i] < f[j]
                 /\ \A i \in 1..m : ~Removed(r, q[f[i]])
                 /\ Filtered(r, delay) = [i \in 1..m |-> Reduced(r, q[f[i]])]
  <1> DEFINE q == mAudioCommands
             k == ScanEnd(delay)
             kept == {i \in k + 1..Len(q) : ~Removed(r, q[i])}
             F == UNION {[1..m -> kept] : m \in 0..Len(q)}
             order == CHOOSE f \in F : Ascends(f, kept)
  <1>1. k \in 0..Len(q) /\ Len(q) \in Nat
    BY ScanEndIs, LenProperties
  <1>2. kept \subseteq 1..Len(q) /\ kept \subseteq k + 1..Len(q)
    <2> HIDE DEF k
    <2> QED
      BY <1>1
  <1>3. order \in F /\ Ascends(order, kept)
    <2>1. \E f \in F : Ascends(f, kept)
      <3> HIDE DEF kept
      <3> QED
        BY <1>1, <1>2, AscendsExists
    <2> HIDE DEF F, kept
    <2> QED
      BY <2>1, Zenon
  <1>4. Filtered(r, delay) =
          [i \in DOMAIN order |-> Reduced(r, q[order[i]])]
    BY Zenon DEF Filtered, Ascends
  <1> HIDE DEF order
  <1>5. PICK m \in 0..Len(q) : order \in [1..m -> kept]
    BY <1>3, Zenon
  <1>6. DOMAIN order = 1..m
    BY <1>5
  <1>7. \A i \in 1..m : order[i] \in kept
    BY <1>5
  <1>8. order \in [1..m -> k + 1..Len(q)]
    <2> HIDE DEF kept
    <2> QED
      BY <1>2, <1>5
  <1>9. \A i \in 1..m : ~Removed(r, q[order[i]])
    BY <1>7, Zenon
  <1>10. \A i, j \in 1..m : i < j => order[i] < order[j]
    BY <1>3, <1>6 DEF Ascends
  <1> HIDE DEF kept, k, q
  <1> QED
    BY <1>4, <1>6, <1>8, <1>9, <1>10, Zenon DEF k, q

(* The elements of a sequence put together from a part, an element and a   *)
(* part.                                                                   *)
LEMMA ThreeParts ==
    ASSUME NEW S, NEW a \in Seq(S), NEW d \in S, NEW b \in Seq(S)
    PROVE  LET p == a \o <<d>> \o b
           IN  /\ p \in Seq(S) /\ Len(p) = Len(a) + 1 + Len(b)
               /\ \A i \in 1..Len(a) : p[i] = a[i]
               /\ p[Len(a) + 1] = d
               /\ \A i \in 1..Len(b) : p[Len(a) + 1 + i] = b[i]
  <1> DEFINE c == a \o <<d>>
             p == c \o b
  <1>1. <<d>> \in Seq(S) /\ Len(<<d>>) = 1 /\ <<d>>[1] = d
    OBVIOUS
  <1>2. /\ c \in Seq(S) /\ Len(c) = Len(a) + 1
        /\ \A i \in 1..Len(c) : c[i] = IF i <= Len(a) THEN a[i]
                                       ELSE <<d>>[i - Len(a)]
    BY <1>1, ConcatProperties
  <1>3. Len(a) \in Nat /\ Len(b) \in Nat
    BY LenProperties
  <1>4. (\A i \in 1..Len(a) : c[i] = a[i]) /\ c[Len(a) + 1] = d
    <2>1. \A i \in 1..Len(a) : i \in 1..Len(c) /\ i <= Len(a)
      BY <1>2, <1>3
    <2>2. /\ Len(a) + 1 \in 1..Len(c) /\ ~(Len(a) + 1 <= Len(a))
          /\ (Len(a) + 1) - Len(a) = 1
      BY <1>2, <1>3
    <2> HIDE DEF c
    <2> QED
      BY <2>1, <2>2, <1>1, <1>2
  <1> HIDE DEF c
  <1>5. /\ p \in Seq(S) /\ Len(p) = Len(c) + Len(b)
        /\ \A i \in 1..Len(p) : p[i] = IF i <= Len(c) THEN c[i]
                                       ELSE b[i - Len(c)]
    <2>1. c \in Seq(S)
      BY <1>2
    <2> QED
      BY <2>1, ConcatProperties
  <1> HIDE DEF p
  <1>6. /\ \A i \in 1..Len(a) : p[i] = c[i]
        /\ p[Len(a) + 1] = c[Len(a) + 1]
        /\ \A i \in 1..Len(b) : p[Len(a) + 1 + i] = b[i]
    <2>1. \A i \in 1..Len(a) + 1 : i \in 1..Len(p) /\ i <= Len(c)
      BY <1>2, <1>3, <1>5
    <2>2. \A i \in 1..Len(b) : /\ Len(a) + 1 + i \in 1..Len(p)
                               /\ ~(Len(a) + 1 + i <= Len(c))
                               /\ (Len(a) + 1 + i) - Len(c) = i
      BY <1>2, <1>3, <1>5
    <2>3. /\ \A i \in 1..Len(a) : i \in 1..Len(a) + 1
          /\ Len(a) + 1 \in 1..Len(a) + 1
      BY <1>3
    <2> QED
      BY <2>1, <2>2, <2>3, <1>5
  <1>7. Len(p) = Len(a) + 1 + Len(b)
    BY <1>2, <1>3, <1>5
  <1> QED
    BY <1>4, <1>5, <1>6, <1>7 DEF p, c

-----------------------------------------------------------------------------
(* What the insertion of r leaves of a command c.                          *)

(* A volume is for one stream, a set of parameters for several keys, and   *)
(* what else there is has none.                                            *)
KeysOK(c) ==
    /\ c.kind = "SET_VOLUME" => \E k \in c.keys : c.keys = {k}
    /\ c.kind \notin {"SET_VOLUME", "SET_PARAMETERS"} => c.keys = {}

Dated(r, c) ==
    IF SetsSame(r, c) THEN [c EXCEPT !.newest = @ \ r.keys] ELSE c

(* b is what r leaves of c, in what the properties speak of.               *)
LeftOf(r, c, b) ==
    /\ b \in Command
    /\ b.kind = c.kind /\ b.io = c.io /\ b.by = c.by /\ b.time = c.time
    /\ b.keys \subseteq c.keys /\ b.newest \subseteq c.newest
    /\ SetsSame(r, c) => b.newest \cap r.keys = {}
    /\ KeysOK(c) => KeysOK(b)

(* Marking the settings a newer request replaces changes nothing else of a *)
(* command.                                                                *)
LEMMA DatedIs ==
    ASSUME NEW r, NEW c \in Command
    PROVE  LeftOf(r, c, Dated(r, c)) /\ Dated(r, c).keys = c.keys
  <1> DEFINE b == [c EXCEPT !.newest = @ \ r.keys]
  <1>1. c.newest \subseteq Keys
    BY DEF Command
  <1>2. c.newest \ r.keys \in SUBSET Keys
    BY <1>1
  <1>3. /\ b \in Command /\ b.kind = c.kind /\ b.io = c.io /\ b.by = c.by
        /\ b.time = c.time /\ b.keys = c.keys /\ b.newest = c.newest \ r.keys
    BY <1>2 DEF Command
  <1> HIDE DEF b
  <1>4. CASE SetsSame(r, c)
    <2>1. Dated(r, c) = b
      BY <1>4 DEF Dated, b
    <2>2. b.newest \cap r.keys = {} /\ b.newest \subseteq c.newest
      BY <1>3
    <2> QED
      BY <2>1, <2>2, <1>3 DEF LeftOf, KeysOK
  <1>5. CASE ~SetsSame(r, c)
    BY <1>5 DEF Dated, LeftOf
  <1> QED
    BY <1>4, <1>5

(* A command that is not removed keeps all but the keys the request sets   *)
(* again, and so shares no key with it.                                    *)
LEMMA ReducedIs ==
    ASSUME NEW r, NEW c \in Command, ~Removed(r, c)
    PROVE  LET b == Dated(r, Reduced(r, c))
           IN  /\ Reduced(r, c) \in Command /\ LeftOf(r, c, b)
               /\ KeysOK(r) /\ KeysOK(c) /\ SetsSame(r, c)
                     => b.keys \cap r.keys = {}
  <1> DEFINE a == Reduced(r, c)
             x == [c EXCEPT !.keys = @ \ r.keys]
             b == Dated(r, a)
  <1>1. /\ a \in Command /\ a.kind = c.kind /\ a.io = c.io /\ a.by = c.by
        /\ a.time = c.time /\ a.newest = c.newest
        /\ a.keys = IF Related(r, c) THEN c.keys \ r.keys ELSE c.keys
    <2>1. c.keys \ r.keys \in SUBSET Keys
      BY DEF Command
    <2>2. /\ x \in Command /\ x.kind = c.kind /\ x.io = c.io /\ x.by = c.by
          /\ x.time = c.time /\ x.newest = c.newest
          /\ x.keys = c.keys \ r.keys
      BY <2>1 DEF Command
    <2> HIDE DEF x
    <2>3. CASE Related(r, c)
      <3>1. a = x
        BY <2>3 DEF Reduced, x
      <3> HIDE DEF a
      <3> QED
        BY <3>1, <2>2, <2>3
    <2>4. CASE ~Related(r, c)
      <3>1. a = c
        BY <2>4 DEF Reduced
      <3> HIDE DEF a
      <3> QED
        BY <3>1, <2>4
    <2> QED
      BY <2>3, <2>4
  <1> HIDE DEF a
  <1>2. LeftOf(r, a, b) /\ b.keys = a.keys
    BY <1>1, DatedIs
  <1>3. SetsSame(r, c) <=> SetsSame(r, a)
    BY <1>1 DEF SetsSame
  <1>4. KeysOK(c) => KeysOK(a)
    <2>1. ASSUME Related(r, c) PROVE c.kind = "SET_PARAMETERS"
      BY <2>1 DEF Related, Removed
    <2> QED
      BY <2>1, <1>1 DEF KeysOK
  <1> HIDE DEF b
  <1>5. LeftOf(r, c, b)
    BY <1>1, <1>2, <1>3, <1>4 DEF LeftOf
  <1>6. ASSUME KeysOK(r), KeysOK(c), SetsSame(r, c)
        PROVE  a.keys \cap r.keys = {}
    <2>1. CASE Related(r, c)
      BY <2>1, <1>1
    <2>2. CASE ~Related(r, c)
      <3>1. a.keys = c.keys /\ r.kind = c.kind /\ r.io = c.io
        BY <2>2, <1>1, <1>6 DEF SetsSame
      <3>2. CASE r.kind = "SET_VOLUME"
        <4>1. PICK y : r.keys = {y}
          BY <3>2, <1>6 DEF KeysOK
        <4>2. PICK z : c.keys = {z}
          BY <3>1, <3>2, <1>6 DEF KeysOK
        <4>3. y # z
          BY <4>1, <4>2, <3>1, <3>2, <2>2 DEF Related
        <4> QED
          BY <4>1, <4>2, <4>3, <3>1
      <3>3. CASE r.kind = "SET_PARAMETERS"
        BY <3>1, <3>3, <2>2 DEF Related
      <3>4. CASE r.kind \notin {"SET_VOLUME", "SET_PARAMETERS"}
        BY <3>4, <1>6 DEF KeysOK
      <3> QED
        BY <3>2, <3>3, <3>4
    <2> QED
      BY <2>1, <2>2
  <1> QED
    BY <1>1, <1>2, <1>5, <1>6 DEF a, b

-----------------------------------------------------------------------------
(* The queue after insertCommand_l(): the first k commands, the new one d, *)
(* and those at the places f[1], ..., f[m] after the k-th.                 *)
Placed(p, q, r, d, k, m, f) ==
    /\ p \in Seq(Command) /\ k \in 0..Len(q) /\ m \in 0..Len(q)
    /\ f \in [1..m -> k + 1..Len(q)] /\ Len(p) = k + 1 + m
    /\ \A i, j \in 1..m : i < j => f[i] < f[j]
    /\ \A i \in 1..k : LeftOf(r, q[i], p[i]) /\ p[i].keys = q[i].keys
    /\ p[k + 1] = d
    /\ \A i \in 1..m :
          /\ LeftOf(r, q[f[i]], p[k + 1 + i])
          /\ KeysOK(r) /\ KeysOK(q[f[i]]) /\ SetsSame(r, q[f[i]])
                => p[k + 1 + i].keys \cap r.keys = {}

(* The same for every command of a part of the queue.                      *)
LEMMA OutdatedIs ==
    ASSUME NEW r, NEW s \in Seq(Command)
    PROVE  /\ Outdated(r, s) \in Seq(Command) /\ Len(Outdated(r, s)) = Len(s)
           /\ \A i \in 1..Len(s) : Outdated(r, s)[i] = Dated(r, s[i])
  <1>1. Len(s) \in Nat /\ DOMAIN s = 1..Len(s)
    BY LenProperties
  <1>2. Outdated(r, s) = [i \in 1..Len(s) |-> Dated(r, s[i])]
    BY <1>1, Zenon DEF Outdated, Dated
  <1>3. \A i \in 1..Len(s) : Dated(r, s[i]) \in Command
    <2>1. \A i \in 1..Len(s) : s[i] \in Command
      BY ElementOfSeq
    <2> QED
      BY <2>1, DatedIs DEF LeftOf
  <1>4. Outdated(r, s) \in [1..Len(s) -> Command]
    BY <1>2, <1>3
  <1> QED
    BY <1>1, <1>2, <1>4

(* insertCommand_l() as one relation: the commands up to the insertion     *)
(* point, the new one, then the kept ones in their old order.              *)
LEMMA InsertIs ==
    ASSUME mAudioCommands \in Seq(Command), NEW r \in Request,
           NEW delay \in Nat, NEW by \in Caller \cup {NULL},
           InsertCommand(r, delay, by)
    PROVE  \E d, m, f :
             /\ d \in Command
             /\ Placed(mAudioCommands', mAudioCommands, r, d, ScanEnd(delay),
                       m, f)
             /\ d.kind = r.kind /\ d.io = r.io /\ d.keys = r.keys
             /\ d.newest = r.keys /\ d.by = by
             /\ d.time = MovedTo(r, delay)
  <1> DEFINE q == mAudioCommands
             k == ScanEnd(delay)
             d == [kind |-> r.kind, io |-> r.io, keys |-> r.keys,
                   newest |-> r.keys, time |-> MovedTo(r, delay), by |-> by]
             before == SubSeq(q, 1, k)
             after == Filtered(r, delay)
             a == Outdated(r, before)
             b == Outdated(r, after)
  <1>1. /\ k \in 0..Len(q) /\ Len(q) \in Nat
        /\ \A i \in 1..Len(q) : q[i] \in Command
    BY ScanEndIs, LenProperties, ElementOfSeq
  <1>2. d \in Command
    <2>1. r.keys \in SUBSET Keys /\ r.io \in {x.io : x \in Request}
      BY DEF Keys
    <2>2. MovedTo(r, delay) \in Nat /\ r.kind \in Kinds
      BY MovedToIs, AudioCommandAssumption
    <2> QED
      BY <2>1, <2>2 DEF Command
  <1>3. /\ d.kind = r.kind /\ d.io = r.io /\ d.keys = r.keys
        /\ d.newest = r.keys /\ d.by = by /\ d.time = MovedTo(r, delay)
    OBVIOUS
  <1>4. q' = a \o <<d>> \o b
    BY DEF InsertCommand
  <1>5. PICK m \in 0..Len(q) : \E f \in [1..m -> k + 1..Len(q)] :
                 /\ \A i, j \in 1..m : i < j => f[i] < f[j]
                 /\ \A i \in 1..m : ~Removed(r, q[f[i]])
                 /\ after = [i \in 1..m |-> Reduced(r, q[f[i]])]
    BY FilteredIs
  <1>6. PICK f \in [1..m -> k + 1..Len(q)] :
                 /\ \A i, j \in 1..m : i < j => f[i] < f[j]
                 /\ \A i \in 1..m : ~Removed(r, q[f[i]])
                 /\ after = [i \in 1..m |-> Reduced(r, q[f[i]])]
    BY <1>5, Zenon
  <1>7. /\ before \in Seq(Command) /\ Len(before) = k
        /\ \A i \in 1..k : before[i] = q[i] /\ i \in 1..Len(q)
    <2> HIDE DEF k
    <2> QED
      BY <1>1
  <1> HIDE DEF k, q, d, before, after
  <1>8. \A i \in 1..m : f[i] \in 1..Len(q) /\ q[f[i]] \in Command
    <2>1. \A i \in 1..m : f[i] \in k + 1..Len(q)
      BY <1>6
    <2> QED
      BY <2>1, <1>1
  <1>9. after \in Seq(Command) /\ Len(after) = m
        /\ \A i \in 1..m : after[i] = Reduced(r, q[f[i]])
    <2>1. \A i \in 1..m : Reduced(r, q[f[i]]) \in Command
      BY <1>6, <1>8, ReducedIs
    <2>2. m \in Nat
      BY <1>1
    <2>3. after \in [1..m -> Command]
      BY <2>1, <1>6
    <2> QED
      BY <2>2, <2>3, <1>6
  <1>10. /\ a \in Seq(Command) /\ Len(a) = k
         /\ \A i \in 1..k : a[i] = Dated(r, q[i])
    BY <1>7, OutdatedIs
  <1>11. /\ b \in Seq(Command) /\ Len(b) = m
         /\ \A i \in 1..m : b[i] = Dated(r, Reduced(r, q[f[i]]))
    BY <1>9, OutdatedIs
  <1> HIDE DEF a, b
  <1>12. /\ q' \in Seq(Command) /\ Len(q') = k + 1 + m
         /\ \A i \in 1..k : q'[i] = a[i]
         /\ q'[k + 1] = d
         /\ \A i \in 1..m : q'[k + 1 + i] = b[i]
    <2> DEFINE p == a \o <<d>> \o b
    <2>1. a \in Seq(Command) /\ b \in Seq(Command)
      BY <1>10, <1>11
    <2>2. /\ p \in Seq(Command) /\ Len(p) = Len(a) + 1 + Len(b)
          /\ \A i \in 1..Len(a) : p[i] = a[i]
          /\ p[Len(a) + 1] = d
          /\ \A i \in 1..Len(b) : p[Len(a) + 1 + i] = b[i]
      BY <2>1, <1>2, ThreeParts
    <2> HIDE DEF p
    <2>3. q' = p
      BY <1>4 DEF p
    <2> QED
      BY <2>2, <2>3, <1>10, <1>11
  <1>13. \A i \in 1..k : LeftOf(r, q[i], q'[i]) /\ q'[i].keys = q[i].keys
    <2>1. \A i \in 1..k : q[i] \in Command /\ q'[i] = Dated(r, q[i])
      BY <1>1, <1>7, <1>10, <1>12
    <2> QED
      BY <2>1, DatedIs
  <1>14. ASSUME NEW i \in 1..m
         PROVE  /\ LeftOf(r, q[f[i]], q'[k + 1 + i])
                /\ KeysOK(r) /\ KeysOK(q[f[i]]) /\ SetsSame(r, q[f[i]])
                      => q'[k + 1 + i].keys \cap r.keys = {}
    <2> DEFINE c == q[f[i]]
    <2>1. c \in Command /\ ~Removed(r, c)
      BY <1>6, <1>8
    <2>2. q'[k + 1 + i] = Dated(r, Reduced(r, c))
      BY <1>11, <1>12
    <2> HIDE DEF c
    <2>3. /\ LeftOf(r, c, Dated(r, Reduced(r, c)))
          /\ KeysOK(r) /\ KeysOK(c) /\ SetsSame(r, c)
                => Dated(r, Reduced(r, c)).keys \cap r.keys = {}
      BY <2>1, ReducedIs
    <2>4. /\ LeftOf(r, c, q'[k + 1 + i])
          /\ KeysOK(r) /\ KeysOK(c) /\ SetsSame(r, c)
                => q'[k + 1 + i].keys \cap r.keys = {}
      BY <2>2, <2>3
    <2> QED
      BY <2>4 DEF c
  <1>15. Placed(q', q, r, d, k, m, f)
    BY <1>1, <1>6, <1>12, <1>13, <1>14 DEF Placed
  <1>16. /\ Placed(mAudioCommands', mAudioCommands, r, d, ScanEnd(delay), m, f)
         /\ d.kind = r.kind /\ d.io = r.io /\ d.keys = r.keys
         /\ d.newest = r.keys /\ d.by = by /\ d.time = MovedTo(r, delay)
    BY <1>3, <1>15, Zenon DEF q, k
  <1> QED
    BY <1>2, <1>16, Zenon

-----------------------------------------------------------------------------
(* The invariants, of a queue q and the callers' places cl.                *)

KeysIn(q) == \A i \in 1..Len(q) : KeysOK(q[i])

NewestIn(q) ==
    \A i, j \in 1..Len(q) :
        i < j /\ SetsSame(q[i], q[j]) => q[i].newest \cap q[j].keys = {}

Tones == {"START_TONE", "STOP_TONE"}

(* A command with a waiting caller is due, no tone, and the only one of    *)
(* its caller.                                                             *)
WaitsIn(q, cl) ==
    /\ \A i \in 1..Len(q) : q[i].by # NULL =>
          /\ q[i].by \in Caller /\ cl[q[i].by] = "waiting"
          /\ q[i].time = 0 /\ q[i].kind \notin Tones
    /\ \A i, j \in 1..Len(q) : q[i].by # NULL /\ q[i].by = q[j].by => i = j
    /\ \A c \in Caller : cl[c] = "waiting" =>
          \E i \in 1..Len(q) : q[i].by = c

(* The places of the queue after an insertion, and where each came from.   *)
LEMMA PlacedPlaces ==
    ASSUME NEW p, NEW q \in Seq(Command), NEW r, NEW d, NEW k, NEW m, NEW f,
           Placed(p, q, r, d, k, m, f)
    PROVE  /\ k \in Nat /\ m \in Nat /\ Len(q) \in Nat
           /\ Len(p) = k + 1 + m /\ k + 1 \in 1..Len(p)
           /\ \A i \in 1..Len(p) : \/ i \in 1..k \/ i = k + 1
                                   \/ \E a \in 1..m : i = k + 1 + a
           /\ \A i \in 1..k : i \in 1..Len(q) /\ i \in 1..Len(p)
           /\ \A a \in 1..m : /\ f[a] \in 1..Len(q) /\ f[a] \in k + 1..Len(q)
                              /\ k + 1 + a \in 1..Len(p) /\ f[a] > k
                              /\ f[a] \in Nat
  <1>1. /\ k \in 0..Len(q) /\ m \in 0..Len(q) /\ Len(p) = k + 1 + m
        /\ f \in [1..m -> k + 1..Len(q)]
    BY DEF Placed
  <1>2. Len(q) \in Nat
    BY LenProperties
  <1>3. k \in Nat /\ m \in Nat
    BY <1>1, <1>2
  <1>4. ASSUME NEW i \in 1..Len(p), ~(i \in 1..k), i # k + 1
        PROVE  \E a \in 1..m : i = k + 1 + a
    <2>1. i - (k + 1) \in 1..m /\ i = k + 1 + (i - (k + 1))
      BY <1>1, <1>3, <1>4
    <2> QED
      BY <2>1
  <1>5. \A a \in 1..m : f[a] \in k + 1..Len(q)
    BY <1>1
  <1> QED
    BY <1>1, <1>2, <1>3, <1>4, <1>5

(* An insertion keeps the kinds and keys of the commands in agreement.     *)
LEMMA PlacedKeys ==
    ASSUME NEW p, NEW q \in Seq(Command), NEW r, NEW d, NEW k, NEW m, NEW f,
           Placed(p, q, r, d, k, m, f), KeysIn(q), KeysOK(d)
    PROVE  KeysIn(p)
  <1> SUFFICES ASSUME NEW i \in 1..Len(p) PROVE KeysOK(p[i])
    BY DEF KeysIn
  <1>1. CASE i \in 1..k
    <2>1. i \in 1..Len(q)
      BY <1>1, PlacedPlaces
    <2> QED
      BY <1>1, <2>1 DEF Placed, KeysIn, LeftOf
  <1>2. CASE i = k + 1
    BY <1>2 DEF Placed
  <1>3. ASSUME NEW a \in 1..m, i = k + 1 + a PROVE KeysOK(p[i])
    <2>1. f[a] \in 1..Len(q)
      BY PlacedPlaces
    <2> QED
      BY <1>3, <2>1 DEF Placed, KeysIn, LeftOf
  <1> QED
    BY <1>1, <1>2, <1>3, PlacedPlaces

(* An insertion leaves every key's newest value after all older ones.      *)
LEMMA PlacedNewest ==
    ASSUME NEW p, NEW q \in Seq(Command), NEW r, NEW d, NEW k, NEW m, NEW f,
           Placed(p, q, r, d, k, m, f), KeysIn(q), NewestIn(q), KeysOK(r),
           d.kind = r.kind, d.io = r.io, d.keys = r.keys, d.newest = r.keys
    PROVE  NewestIn(p)
  <1>0. /\ k \in Nat /\ m \in Nat /\ Len(q) \in Nat
        /\ \A i \in 1..Len(p) : \/ i \in 1..k \/ i = k + 1
                                \/ \E a \in 1..m : i = k + 1 + a
        /\ \A i \in 1..k : i \in 1..Len(q)
        /\ \A a \in 1..m : f[a] \in 1..Len(q) /\ f[a] > k
    <2>1. k \in Nat /\ m \in Nat /\ Len(q) \in Nat
      BY PlacedPlaces
    <2>2. \A i \in 1..Len(p) : \/ i \in 1..k \/ i = k + 1
                               \/ \E a \in 1..m : i = k + 1 + a
      BY PlacedPlaces
    <2>3. \A i \in 1..k : i \in 1..Len(q)
      BY PlacedPlaces
    <2>4. \A a \in 1..m : f[a] \in 1..Len(q) /\ f[a] > k
      BY PlacedPlaces
    <2> QED
      BY <2>1, <2>2, <2>3, <2>4
  <1> SUFFICES ASSUME NEW i \in 1..Len(p), NEW j \in 1..Len(p), i < j,
                      SetsSame(p[i], p[j])
               PROVE  p[i].newest \cap p[j].keys = {}
    BY DEF NewestIn
  (* Where p[i] and p[j] come from.                                        *)
  <1>1. ASSUME NEW x \in 1..Len(q), NEW y \in 1..Len(q), x < y,
               LeftOf(r, q[x], p[i]), LeftOf(r, q[y], p[j])
        PROVE  p[i].newest \cap p[j].keys = {}
    <2>1. q[x].newest \cap q[y].keys = {}
      BY <1>1 DEF NewestIn, SetsSame, LeftOf
    <2> QED
      BY <1>1, <2>1 DEF LeftOf
  <1>2. CASE i \in 1..k
    <2>0. LeftOf(r, q[i], p[i]) /\ i \in 1..Len(q)
      BY <1>2, <1>0 DEF Placed
    <2>1. CASE j \in 1..k
      <3>1. LeftOf(r, q[j], p[j]) /\ j \in 1..Len(q)
        BY <2>1, <1>0 DEF Placed
      <3> QED
        BY <3>1, <2>0, <1>1
    <2>2. CASE j = k + 1
      <3>1. p[j] = d
        BY <2>2 DEF Placed
      <3>2. SetsSame(r, q[i])
        BY <3>1, <2>0 DEF SetsSame, LeftOf
      <3> QED
        BY <3>1, <3>2, <2>0 DEF LeftOf
    <2>3. ASSUME NEW b \in 1..m, j = k + 1 + b
          PROVE  p[i].newest \cap p[j].keys = {}
      <3>1. LeftOf(r, q[f[b]], p[j]) /\ f[b] \in 1..Len(q) /\ f[b] > k
        BY <2>3, <1>0 DEF Placed
      <3>2. i < f[b]
        BY <3>1, <1>0, <1>2
      <3> QED
        BY <3>1, <3>2, <2>0, <1>1
    <2> QED
      BY <2>1, <2>2, <2>3, <1>0
  <1>3. CASE i = k + 1
    <2>1. PICK b \in 1..m : j = k + 1 + b
      <3>1. ~(j \in 1..k) /\ j # k + 1
        BY <1>0, <1>3
      <3> QED
        BY <3>1, <1>0
    <2>2. /\ LeftOf(r, q[f[b]], p[j]) /\ f[b] \in 1..Len(q) /\ p[i] = d
          /\ KeysOK(r) /\ KeysOK(q[f[b]]) /\ SetsSame(r, q[f[b]])
                => p[j].keys \cap r.keys = {}
      BY <2>1, <1>0, <1>3 DEF Placed
    <2>3. SetsSame(r, q[f[b]]) /\ KeysOK(q[f[b]])
      BY <2>2 DEF SetsSame, LeftOf, KeysIn
    <2>4. p[j].keys \cap r.keys = {}
      BY <2>2, <2>3
    <2> QED
      BY <2>2, <2>4
  <1>4. ASSUME NEW a \in 1..m, i = k + 1 + a
        PROVE  p[i].newest \cap p[j].keys = {}
    <2>1. PICK b \in 1..m : j = k + 1 + b
      <3>1. ~(j \in 1..k) /\ j # k + 1
        BY <1>0, <1>4
      <3> QED
        BY <3>1, <1>0
    <2>2. a < b
      BY <2>1, <1>0, <1>4
    <2>3. /\ LeftOf(r, q[f[a]], p[i]) /\ LeftOf(r, q[f[b]], p[j])
          /\ f[a] < f[b]
      BY <2>1, <2>2, <1>4 DEF Placed
    <2> QED
      BY <2>3, <1>0, <1>1
  <1> QED
    BY <1>2, <1>3, <1>4, <1>0

(* Whoever waits is not scanned, and who has just called waits alone.      *)
LEMMA PlacedWaits ==
    ASSUME NEW p, NEW q \in Seq(Command), NEW r, NEW d, NEW k, NEW m, NEW f,
           Placed(p, q, r, d, k, m, f),
           NEW cl \in [Caller -> {"idle", "waiting", "woken"}], WaitsIn(q, cl),
           \A j \in k + 1..Len(q) : q[j].time > 0, NEW new,
           \/ d.by = NULL /\ new = cl
           \/ /\ d.by \in Caller /\ d.time = 0 /\ cl[d.by] # "waiting"
              /\ d.kind \notin Tones
              /\ new = [cl EXCEPT ![d.by] = "waiting"]
    PROVE  WaitsIn(p, new)
  <1>0. /\ k \in Nat /\ m \in Nat /\ k + 1 \in 1..Len(p)
        /\ \A i \in 1..Len(p) : \/ i \in 1..k \/ i = k + 1
                                \/ \E a \in 1..m : i = k + 1 + a
        /\ \A i \in 1..k : i \in 1..Len(q) /\ i \in 1..Len(p)
        /\ \A a \in 1..m : f[a] \in 1..Len(q) /\ f[a] \in k + 1..Len(q)
    <2>1. k \in Nat /\ m \in Nat /\ k + 1 \in 1..Len(p)
      BY PlacedPlaces
    <2>2. \A i \in 1..Len(p) : \/ i \in 1..k \/ i = k + 1
                               \/ \E a \in 1..m : i = k + 1 + a
      BY PlacedPlaces
    <2>3. \A i \in 1..k : i \in 1..Len(q) /\ i \in 1..Len(p)
      BY PlacedPlaces
    <2>4. \A a \in 1..m : f[a] \in 1..Len(q) /\ f[a] \in k + 1..Len(q)
      BY PlacedPlaces
    <2> QED
      BY <2>1, <2>2, <2>3, <2>4
  <1>1. \A i \in 1..k : /\ p[i].by = q[i].by /\ p[i].time = q[i].time
                         /\ p[i].kind = q[i].kind
    BY DEF Placed, LeftOf
  <1>2. p[k + 1] = d
    BY DEF Placed
  <1>3. \A j \in k + 1..Len(q) : j \in 1..Len(q) => q[j].by = NULL
    <2> SUFFICES ASSUME NEW j \in k + 1..Len(q), j \in 1..Len(q),
                        q[j].by # NULL
                 PROVE  FALSE
      OBVIOUS
    <2>1. q[j].time = 0 /\ q[j].time > 0
      BY DEF WaitsIn
    <2> QED
      BY <2>1
  <1>4. \A a \in 1..m : p[k + 1 + a].by = NULL
    BY <1>0, <1>3 DEF Placed, LeftOf
  <1>5. \A i \in 1..Len(p) : p[i].by # NULL => i \in 1..k \/ i = k + 1
    BY <1>0, <1>4
  <1>6. \A c \in Caller : new[c] = IF c = d.by THEN "waiting" ELSE cl[c]
    <2>1. NULL \notin Caller
      BY AudioCommandAssumption
    <2> QED
      BY <2>1
  <1>7. \A i \in 1..k : q[i].by # NULL => q[i].by \in Caller /\ q[i].by # d.by
    BY <1>0 DEF WaitsIn
  <1>8. ASSUME NEW i \in 1..Len(p), p[i].by # NULL
        PROVE  /\ p[i].by \in Caller /\ new[p[i].by] = "waiting"
               /\ p[i].time = 0 /\ p[i].kind \notin Tones
    <2>1. CASE i \in 1..k
      <3>1. q[i].by # NULL /\ i \in 1..Len(q)
        BY <2>1, <1>0, <1>1, <1>8
      <3>2. /\ q[i].by \in Caller /\ cl[q[i].by] = "waiting"
            /\ q[i].time = 0 /\ q[i].kind \notin Tones
        BY <3>1 DEF WaitsIn
      <3> QED
        BY <3>2, <2>1, <1>1, <1>6
    <2>2. CASE i = k + 1
      BY <2>2, <1>2, <1>6, <1>8
    <2> QED
      BY <2>1, <2>2, <1>5, <1>8
  <1>9. ASSUME NEW i \in 1..Len(p), NEW j \in 1..Len(p), p[i].by # NULL,
               p[i].by = p[j].by
        PROVE  i = j
    <2>1. (i \in 1..k \/ i = k + 1) /\ (j \in 1..k \/ j = k + 1)
      BY <1>5, <1>9
    <2>2. CASE i \in 1..k /\ j \in 1..k
      BY <2>2, <1>0, <1>1, <1>9 DEF WaitsIn
    <2>3. CASE i \in 1..k /\ j = k + 1
      BY <2>3, <1>1, <1>2, <1>7, <1>9
    <2>4. CASE i = k + 1 /\ j \in 1..k
      BY <2>4, <1>1, <1>2, <1>7, <1>9
    <2> QED
      BY <2>1, <2>2, <2>3, <2>4
  <1>10. ASSUME NEW c \in Caller, new[c] = "waiting"
         PROVE  \E i \in 1..Len(p) : p[i].by = c
    <2>1. CASE c = d.by
      BY <2>1, <1>0, <1>2
    <2>2. CASE c # d.by
      <3>1. PICK i \in 1..Len(q) : q[i].by = c
        BY <2>2, <1>6, <1>10 DEF WaitsIn
      <3>2. c # NULL
        BY AudioCommandAssumption
      <3>3. i \in 1..k
        <4>1. ~(i \in k + 1..Len(q))
          BY <3>1, <3>2, <1>3
        <4>2. Len(q) \in Nat
          BY LenProperties
        <4> QED
          BY <4>1, <4>2, <1>0
      <3> QED
        BY <3>1, <3>3, <1>0, <1>1
    <2> QED
      BY <2>1, <2>2
  <1> QED
    BY <1>8, <1>9, <1>10 DEF WaitsIn

-----------------------------------------------------------------------------
(* The inductive invariant: in CommandInv the queue is as above, the       *)
(* thread knows whose answer it waits for, and the status is there.        *)
QueueOK ==
    /\ mAudioCommands \in Seq(Command)
    /\ KeysIn(mAudioCommands) /\ NewestIn(mAudioCommands)
    /\ WaitsIn(mAudioCommands, caller)

ThreadOK ==
    /\ pc \in {"top", "run", "unlocked", "answer", "sleep", "done"}
    /\ waitTime \in Nat \cup {Forever}
    /\ current \in Caller \cup {NULL}
    /\ pc = "answer" => current \in Caller
    /\ caller \in [Caller -> {"idle", "waiting", "woken"}]
    /\ deleted \subseteq Caller
    /\ exitPending \in BOOLEAN

CommandInv ==
    /\ QueueOK /\ ThreadOK /\ StatusIsThere
    /\ Len(mAudioCommands) <= MaxPending

(* A new command, and its caller waiting or not.                           *)
LEMMA InsertQueue ==
    ASSUME CommandInv, NEW r \in Request, NEW delay \in Nat,
           NEW by \in Caller \cup {NULL}, InsertCommand(r, delay, by),
           \/ by = NULL /\ caller' = caller
           \/ /\ by \in Caller /\ MovedTo(r, delay) = 0 /\ caller[by] = "idle"
              /\ r.kind \notin Tones
              /\ caller' = [caller EXCEPT ![by] = "waiting"]
    PROVE  QueueOK'
  <1> DEFINE q == mAudioCommands
             k == ScanEnd(delay)
  <1>1. /\ q \in Seq(Command) /\ KeysIn(q) /\ NewestIn(q)
        /\ WaitsIn(q, caller)
        /\ caller \in [Caller -> {"idle", "waiting", "woken"}]
    BY DEF CommandInv, QueueOK, ThreadOK
  <1>2. PICK d, m, f :
          /\ d \in Command /\ Placed(q', q, r, d, k, m, f)
          /\ d.kind = r.kind /\ d.io = r.io /\ d.keys = r.keys
          /\ d.newest = r.keys /\ d.by = by /\ d.time = MovedTo(r, delay)
    BY <1>1, InsertIs
  <1>3. KeysOK(r)
    BY AudioCommandAssumption DEF KeysOK
  <1>4. KeysOK(d)
    BY <1>2, <1>3 DEF KeysOK
  <1>5. \A j \in k + 1..Len(q) : q[j].time > 0
    <2>1. \A j \in k + 1..Len(q) : q[j].time > delay
      BY <1>1, ScanEndIs
    <2>2. k \in 0..Len(q) /\ Len(q) \in Nat
      BY <1>1, ScanEndIs, LenProperties
    <2>3. \A j \in k + 1..Len(q) : q[j].time \in Nat
      <3> SUFFICES ASSUME NEW j \in k + 1..Len(q) PROVE q[j].time \in Nat
        OBVIOUS
      <3> HIDE DEF k
      <3>1. j \in 1..Len(q)
        BY <2>2
      <3>2. q[j] \in Command
        BY <3>1, <1>1, ElementOfSeq
      <3> HIDE DEF q
      <3> QED
        BY <3>2 DEF Command
    <2> HIDE DEF k, q
    <2> QED
      BY <2>1, <2>3
  <1> HIDE DEF q, k
  <1>6. q' \in Seq(Command)
    BY <1>2 DEF Placed
  <1>7. KeysIn(q')
    BY <1>1, <1>2, <1>4, PlacedKeys
  <1>8. NewestIn(q')
    BY <1>1, <1>2, <1>3, PlacedNewest
  <1>9. WaitsIn(q', caller')
    <2>1. \/ d.by = NULL /\ caller' = caller
          \/ /\ d.by \in Caller /\ d.time = 0 /\ caller[d.by] # "waiting"
             /\ d.kind \notin Tones
             /\ caller' = [caller EXCEPT ![d.by] = "waiting"]
      BY <1>2
    <2>2. Placed(q', q, r, d, k, m, f)
      BY <1>2
    <2> QED
      BY <2>1, <2>2, <1>1, <1>5, PlacedWaits
  <1> QED
    BY <1>6, <1>7, <1>8, <1>9 DEF QueueOK, q

(* The head is executed, and its caller is answered.                       *)
LEMMA TailQueue ==
    ASSUME CommandInv, mAudioCommands # <<>>,
           mAudioCommands' = Tail(mAudioCommands),
           LET by == Head(mAudioCommands).by
           IN  \/ by = NULL /\ caller' = caller
               \/ by # NULL /\ caller' = [caller EXCEPT ![by] = "woken"]
    PROVE  QueueOK' /\ Len(mAudioCommands') <= MaxPending
  <1> DEFINE q == mAudioCommands
             by == Head(q).by
  <1>1. /\ q \in Seq(Command) /\ KeysIn(q) /\ NewestIn(q)
        /\ WaitsIn(q, caller)
        /\ caller \in [Caller -> {"idle", "waiting", "woken"}]
        /\ Len(q) <= MaxPending /\ MaxPending \in Nat
    BY AudioCommandAssumption DEF CommandInv, QueueOK, ThreadOK
  <1>2. /\ q' \in Seq(Command) /\ Len(q') = Len(q) - 1
        /\ \A i \in 1..Len(q') : q'[i] = q[i + 1]
        /\ Head(q) = q[1]
    BY <1>1, HeadTailProperties
  <1>3. Len(q) \in Nat \ {0}
    BY <1>1, EmptySeq
  <1>4. \/ by = NULL /\ caller' = caller
        \/ by # NULL /\ caller' = [caller EXCEPT ![by] = "woken"]
    OBVIOUS
  <1>5. by = q[1].by
    BY <1>2
  <1> HIDE DEF q, by
  <1>6. 1 \in 1..Len(q) /\ \A i \in 1..Len(q') : /\ i + 1 \in 1..Len(q)
                                                 /\ i + 1 # 1 /\ i \in Nat
    BY <1>2, <1>3
  <1>7. KeysIn(q')
    BY <1>1, <1>2, <1>6 DEF KeysIn
  <1>8. NewestIn(q')
    <2> SUFFICES ASSUME NEW i \in 1..Len(q'), NEW j \in 1..Len(q'), i < j,
                        SetsSame(q'[i], q'[j])
                 PROVE  q'[i].newest \cap q'[j].keys = {}
      BY DEF NewestIn
    <2>1. /\ q'[i] = q[i + 1] /\ q'[j] = q[j + 1] /\ i + 1 < j + 1
          /\ i + 1 \in 1..Len(q) /\ j + 1 \in 1..Len(q)
      BY <1>2, <1>6
    <2>2. SetsSame(q[i + 1], q[j + 1])
      BY <2>1
    <2>3. q[i + 1].newest \cap q[j + 1].keys = {}
      BY <2>1, <2>2, <1>1 DEF NewestIn
    <2> QED
      BY <2>1, <2>3
  <1>9. WaitsIn(q', caller')
    <2>1. by # NULL => by \in Caller
      BY <1>1, <1>5, <1>6 DEF WaitsIn
    <2>2. \A c \in Caller : caller'[c] = "waiting" <=>
                               caller[c] = "waiting" /\ c # by
      <3>1. CASE by = NULL /\ caller' = caller
        <4>1. \A c \in Caller : c # by
          BY <3>1, AudioCommandAssumption
        <4> QED
          BY <3>1, <4>1
      <3>2. CASE by # NULL /\ caller' = [caller EXCEPT ![by] = "woken"]
        BY <3>2, <2>1, <1>1
      <3> QED
        BY <3>1, <3>2, <1>4
    <2>3. \A i \in 1..Len(q) : i # 1 /\ q[i].by # NULL => q[i].by # by
      BY <1>1, <1>5, <1>6 DEF WaitsIn
    <2>4. ASSUME NEW i \in 1..Len(q'), q'[i].by # NULL
          PROVE  /\ q'[i].by \in Caller /\ caller'[q'[i].by] = "waiting"
                 /\ q'[i].time = 0 /\ q'[i].kind \notin Tones
      <3>1. q'[i] = q[i + 1] /\ i + 1 \in 1..Len(q) /\ i + 1 # 1
        BY <1>2, <1>6
      <3>2. /\ q[i + 1].by \in Caller /\ q[i + 1].time = 0
            /\ caller[q[i + 1].by] = "waiting" /\ q[i + 1].by # by
            /\ q[i + 1].kind \notin Tones
        BY <3>1, <2>3, <2>4, <1>1 DEF WaitsIn
      <3> QED
        BY <3>1, <3>2, <2>2
    <2>5. ASSUME NEW i \in 1..Len(q'), NEW j \in 1..Len(q'),
                 q'[i].by # NULL, q'[i].by = q'[j].by
          PROVE  i = j
      <3>1. /\ q'[i] = q[i + 1] /\ q'[j] = q[j + 1]
            /\ i + 1 \in 1..Len(q) /\ j + 1 \in 1..Len(q)
        BY <1>2, <1>6
      <3>2. i + 1 = j + 1
        BY <3>1, <2>5, <1>1 DEF WaitsIn
      <3> QED
        BY <3>2, <1>6
    <2>6. ASSUME NEW c \in Caller, caller'[c] = "waiting"
          PROVE  \E i \in 1..Len(q') : q'[i].by = c
      <3>1. caller[c] = "waiting" /\ c # by
        BY <2>2, <2>6
      <3>2. PICK i \in 1..Len(q) : q[i].by = c
        BY <3>1, <1>1 DEF WaitsIn
      <3>3. i # 1
        BY <3>1, <3>2, <1>5
      <3>4. i - 1 \in 1..Len(q') /\ (i - 1) + 1 = i
        BY <3>3, <1>2, <1>3
      <3>5. q'[i - 1] = q[(i - 1) + 1]
        BY <3>4, <1>2
      <3>6. q'[i - 1].by = c
        BY <3>2, <3>4, <3>5
      <3> QED
        BY <3>4, <3>6
    <2> QED
      BY <2>4, <2>5, <2>6 DEF WaitsIn
  <1>10. Len(q') <= MaxPending
    BY <1>1, <1>2, <1>3
  <1> QED
    BY <1>2, <1>7, <1>8, <1>9, <1>10 DEF QueueOK, q

(* The queue stays, and so does who waits.                                 *)
LEMMA QueueStays ==
    ASSUME CommandInv, mAudioCommands' = mAudioCommands,
           \A c \in Caller : caller'[c] = "waiting" <=> caller[c] = "waiting"
    PROVE  QueueOK' /\ Len(mAudioCommands') <= MaxPending
  <1> DEFINE q == mAudioCommands
  <1>1. /\ q \in Seq(Command) /\ KeysIn(q) /\ NewestIn(q)
        /\ WaitsIn(q, caller) /\ Len(q) <= MaxPending
    BY DEF CommandInv, QueueOK
  <1>2. WaitsIn(q, caller')
    BY <1>1 DEF WaitsIn
  <1> QED
    BY <1>1, <1>2 DEF QueueOK

(* Time passes for every command.                                          *)
LEMMA TickQueue ==
    ASSUME CommandInv, Tick
    PROVE  QueueOK' /\ Len(mAudioCommands') <= MaxPending
  <1> DEFINE q == mAudioCommands
  <1>1. /\ q \in Seq(Command) /\ KeysIn(q) /\ NewestIn(q)
        /\ WaitsIn(q, caller) /\ Len(q) <= MaxPending
    BY DEF CommandInv, QueueOK
  <1>2. Len(q) \in Nat /\ DOMAIN q = 1..Len(q)
    BY <1>1, LenProperties
  <1>3. q' = [i \in 1..Len(q) |-> [q[i] EXCEPT !.time = Less(@)]]
        /\ caller' = caller
    BY <1>2 DEF Tick
  <1>4. ASSUME NEW i \in 1..Len(q)
        PROVE  /\ q'[i] \in Command /\ q'[i].kind = q[i].kind
               /\ q'[i].io = q[i].io /\ q'[i].keys = q[i].keys
               /\ q'[i].newest = q[i].newest /\ q'[i].by = q[i].by
               /\ q[i].time = 0 => q'[i].time = 0
    <2> DEFINE c == q[i]
    <2>1. c \in Command
      BY <1>1, ElementOfSeq
    <2>2. q'[i] = [c EXCEPT !.time = Less(c.time)]
      BY <1>3
    <2> HIDE DEF c
    <2>3. c.time \in Nat
      BY <2>1 DEF Command
    <2>4. Less(c.time) \in Nat /\ (c.time = 0 => Less(c.time) = 0)
      BY <2>3 DEF Less
    <2>5. /\ q'[i] \in Command /\ q'[i].kind = c.kind /\ q'[i].io = c.io
          /\ q'[i].keys = c.keys /\ q'[i].newest = c.newest
          /\ q'[i].by = c.by /\ q'[i].time = Less(c.time)
      BY <2>1, <2>2, <2>4 DEF Command
    <2> QED
      BY <2>4, <2>5 DEF c
  <1>5. q' \in Seq(Command) /\ Len(q') = Len(q)
    <2>1. q' \in [1..Len(q) -> Command]
      <3>1. \A i \in 1..Len(q) : q'[i] \in Command
        BY <1>4
      <3> QED
        BY <3>1, <1>3
    <2> QED
      BY <2>1, <1>2
  <1> HIDE DEF q
  <1>6. KeysIn(q')
    BY <1>1, <1>4, <1>5 DEF KeysIn, KeysOK
  <1>7. NewestIn(q')
    BY <1>1, <1>4, <1>5 DEF NewestIn, SetsSame
  <1>8. WaitsIn(q', caller')
    <2>1. WaitsIn(q', caller)
      BY <1>1, <1>4, <1>5 DEF WaitsIn
    <2> QED
      BY <2>1, <1>3
  <1> QED
    BY <1>1, <1>5, <1>6, <1>7, <1>8 DEF QueueOK, q

-----------------------------------------------------------------------------
(* Each step.                                                              *)

(* The invariant holds before the first command.                           *)
LEMMA CommandInvInit == Init => CommandInv
  <1> SUFFICES ASSUME Init PROVE CommandInv
    OBVIOUS
  <1>1. /\ mAudioCommands = <<>> /\ <<>> \in Seq(Command) /\ Len(<<>>) = 0
        /\ MaxPending \in Nat
    BY AudioCommandAssumption DEF Init
  <1>2. \A c \in Caller : caller[c] = "idle"
    BY DEF Init
  <1>3. KeysIn(mAudioCommands) /\ NewestIn(mAudioCommands)
    BY <1>1 DEF KeysIn, NewestIn
  <1>4. WaitsIn(mAudioCommands, caller)
    BY <1>1, <1>2 DEF WaitsIn
  <1>5. ThreadOK
    BY DEF Init, ThreadOK
  <1>6. StatusIsThere
    BY <1>2 DEF StatusIsThere
  <1> QED
    BY <1>1, <1>3, <1>4, <1>5, <1>6 DEF CommandInv, QueueOK

(* A call signals the thread, or finds it busy.                            *)
LEMMA SignalledIs ==
    ASSUME ThreadOK
    PROVE  /\ Signalled \in {"top", "run", "unlocked", "answer", "done"}
           /\ Signalled = "answer" <=> pc = "answer"
  BY DEF ThreadOK, Signalled

(* A command that has a status, whether or not its caller waits for it.    *)
LEMMA StatusCommandKeeps ==
    ASSUME CommandInv, NEW c \in Caller, NEW r \in Request,
           NEW delay \in Delays, r.kind \notin Tones,
           StatusCommand(c, r, delay)
    PROVE  CommandInv'
  <1> DEFINE waits == WaitsForStatus(r, delay)
             by == IF waits THEN c ELSE NULL
  <1>1. /\ caller[c] = "idle" /\ InsertCommand(r, delay, by)
        /\ Len(mAudioCommands') <= MaxPending /\ pc' = Signalled
        /\ caller' = IF waits THEN [caller EXCEPT ![c] = "waiting"]
                     ELSE caller
        /\ UNCHANGED <<waitTime, current, deleted, exitPending>>
    BY DEF StatusCommand
  <1>2. delay \in Nat
    BY AudioCommandAssumption
  <1>3. waits => MovedTo(r, delay) = 0
    BY DEF WaitsForStatus
  <1>4. QueueOK'
    <2>1. CASE waits
      <3>1. InsertCommand(r, delay, c)
        BY <1>1, <2>1
      <3> QED
        BY <3>1, <2>1, <1>1, <1>2, <1>3, InsertQueue
    <2>2. CASE ~waits
      <3>1. InsertCommand(r, delay, NULL)
        BY <1>1, <2>2
      <3> QED
        BY <3>1, <2>2, <1>1, <1>2, InsertQueue
    <2> QED
      BY <2>1, <2>2
  <1>5. ThreadOK /\ StatusIsThere
    BY DEF CommandInv
  <1> HIDE DEF waits
  <1>6. /\ caller' \in [Caller -> {"idle", "waiting", "woken"}]
        /\ \A x \in Caller : caller'[x] = "woken" => caller[x] = "woken"
    BY <1>1, <1>5 DEF ThreadOK
  <1>7. ThreadOK'
    BY <1>1, <1>5, <1>6, SignalledIs DEF ThreadOK
  <1>8. StatusIsThere'
    BY <1>1, <1>5, <1>6, SignalledIs DEF StatusIsThere
  <1> QED
    BY <1>1, <1>4, <1>7, <1>8 DEF CommandInv

(* A tone or a voice volume, for which nobody waits.                       *)
LEMMA ToneCommandKeeps ==
    ASSUME CommandInv, NEW c \in Caller, NEW r \in Request, ToneCommand(c, r)
    PROVE  CommandInv'
  <1>1. /\ InsertCommand(r, 0, NULL) /\ Len(mAudioCommands') <= MaxPending
        /\ pc' = Signalled
        /\ UNCHANGED <<waitTime, current, caller, deleted, exitPending>>
    BY DEF ToneCommand
  <1>2. QueueOK'
    BY <1>1, InsertQueue
  <1>3. ThreadOK /\ StatusIsThere
    BY DEF CommandInv
  <1>4. ThreadOK'
    BY <1>1, <1>3, SignalledIs DEF ThreadOK
  <1>5. StatusIsThere'
    BY <1>1, <1>3, SignalledIs DEF StatusIsThere
  <1> QED
    BY <1>1, <1>2, <1>4, <1>5 DEF CommandInv

(* The woken caller reads the status and lets the thread go on.            *)
LEMMA ReadStatusKeeps ==
    ASSUME CommandInv, NEW c \in Caller, ReadStatus(c)
    PROVE  CommandInv'
  <1>1. /\ caller[c] = "woken" /\ caller' = [caller EXCEPT ![c] = "idle"]
        /\ deleted' = deleted \ {c}
        /\ IF pc = "answer" /\ current = c
           THEN pc' = "unlocked" /\ current' = NULL
           ELSE UNCHANGED <<pc, current>>
        /\ UNCHANGED <<mAudioCommands, waitTime, exitPending>>
    BY DEF ReadStatus
  <1>2. ThreadOK /\ StatusIsThere
    BY DEF CommandInv
  <1>3. /\ caller' \in [Caller -> {"idle", "waiting", "woken"}]
        /\ \A x \in Caller : caller'[x] = IF x = c THEN "idle" ELSE caller[x]
    BY <1>1, <1>2 DEF ThreadOK
  <1>4. QueueOK' /\ Len(mAudioCommands') <= MaxPending
    BY <1>1, <1>3, QueueStays
  <1>5. ThreadOK'
    BY <1>1, <1>2, <1>3 DEF ThreadOK
  <1>6. StatusIsThere'
    BY <1>1, <1>2, <1>3 DEF StatusIsThere
  <1> QED
    BY <1>4, <1>5, <1>6 DEF CommandInv

(* The thread takes the command at the head off the queue and runs it.     *)
LEMMA ExecuteKeeps ==
    ASSUME CommandInv, Execute
    PROVE  CommandInv'
  <1> DEFINE by == Head(mAudioCommands).by
  <1>1. /\ pc = "run" /\ mAudioCommands # <<>>
        /\ mAudioCommands' = Tail(mAudioCommands)
        /\ UNCHANGED <<waitTime, deleted, exitPending>>
    BY DEF Execute, Due
  <1>2. \/ by = NULL /\ UNCHANGED <<pc, current, caller>>
        \/ /\ by # NULL /\ caller' = [caller EXCEPT ![by] = "woken"]
           /\ pc' = "answer" /\ current' = by
    BY DEF Execute, Answer
  <1>3. QueueOK' /\ Len(mAudioCommands') <= MaxPending
    BY <1>1, <1>2, TailQueue
  <1>4. ThreadOK /\ StatusIsThere
    BY DEF CommandInv
  <1>5. by \in Caller \cup {NULL}
    <2>1. mAudioCommands \in Seq(Command)
      BY DEF CommandInv, QueueOK
    <2>2. Head(mAudioCommands) \in Command
      BY <1>1, <2>1, HeadTailProperties
    <2> QED
      BY <2>2 DEF Command
  <1> HIDE DEF by
  <1>6. ThreadOK'
    BY <1>1, <1>2, <1>4, <1>5 DEF ThreadOK
  <1>7. StatusIsThere'
    <2>1. \A c \in Caller : caller[c] = "woken" => c \in deleted
      BY <1>1, <1>4 DEF StatusIsThere
    <2>2. CASE by = NULL /\ UNCHANGED <<pc, current, caller>>
      BY <2>1, <2>2, <1>1 DEF StatusIsThere
    <2>3. CASE /\ by # NULL /\ caller' = [caller EXCEPT ![by] = "woken"]
               /\ pc' = "answer" /\ current' = by
      <3>1. \A c \in Caller : c # by => caller'[c] = caller[c]
        BY <2>3, <1>4 DEF ThreadOK
      <3> QED
        BY <3>1, <2>1, <2>3, <1>1 DEF StatusIsThere
    <2> QED
      BY <2>2, <2>3, <1>2
  <1> QED
    BY <1>3, <1>6, <1>7 DEF CommandInv

(* Every step of the callers and of the thread keeps the invariant.        *)
LEMMA CommandInvNext == CommandInv /\ [Next]_vars => CommandInv'
  <1> SUFFICES ASSUME CommandInv, [Next]_vars PROVE CommandInv'
    OBVIOUS
  <1>0. ThreadOK /\ StatusIsThere
    BY DEF CommandInv
  <1>1. CASE Top \/ Relock \/ Sleep \/ WakeUp
    <2>1. /\ UNCHANGED <<mAudioCommands, current, caller, deleted,
                         exitPending>>
          /\ pc # "answer"
          /\ pc' \in {"done", "run", "sleep", "top"}
      BY <1>1 DEF Top, Relock, Sleep, WakeUp
    <2>2. waitTime' \in Nat \cup {Forever}
      <3>1. CASE Sleep
        <4>1. CASE mAudioCommands = <<>>
          BY <3>1, <4>1 DEF Sleep
        <4>2. CASE mAudioCommands # <<>>
          <5>1. mAudioCommands \in Seq(Command)
            BY DEF CommandInv, QueueOK
          <5>2. Head(mAudioCommands) \in Command
            BY <4>2, <5>1, HeadTailProperties
          <5>3. Head(mAudioCommands).time \in Nat
            BY <5>2 DEF Command
          <5> QED
            BY <3>1, <4>2, <5>3 DEF Sleep
        <4> QED
          BY <4>1, <4>2
      <3>2. CASE Top \/ Relock \/ WakeUp
        BY <3>2, <1>0 DEF Top, Relock, WakeUp, ThreadOK
      <3> QED
        BY <1>1, <3>1, <3>2
    <2>3. QueueOK' /\ Len(mAudioCommands') <= MaxPending
      BY <2>1, QueueStays
    <2>4. ThreadOK'
      BY <2>1, <2>2, <1>0 DEF ThreadOK
    <2>5. StatusIsThere'
      BY <2>1, <1>0 DEF StatusIsThere
    <2> QED
      BY <2>3, <2>4, <2>5 DEF CommandInv
  <1>2. CASE ExecuteTone
    <2>1. /\ pc = "run" /\ pc' = "unlocked" /\ mAudioCommands # <<>>
          /\ mAudioCommands' = Tail(mAudioCommands)
          /\ UNCHANGED <<waitTime, current, caller, deleted, exitPending>>
          /\ Head(mAudioCommands).kind \in {"START_TONE", "STOP_TONE"}
      BY <1>2 DEF ExecuteTone, Due
    <2>2. Head(mAudioCommands).by = NULL
      <3>1. /\ mAudioCommands \in Seq(Command)
            /\ WaitsIn(mAudioCommands, caller)
        BY DEF CommandInv, QueueOK
      <3>2. /\ Len(mAudioCommands) \in Nat \ {0}
            /\ Head(mAudioCommands) = mAudioCommands[1]
        BY <2>1, <3>1, EmptySeq, HeadTailProperties
      <3>3. 1 \in 1..Len(mAudioCommands)
        BY <3>2
      <3> QED
        BY <2>1, <3>1, <3>2, <3>3 DEF WaitsIn, Tones
    <2>3. QueueOK' /\ Len(mAudioCommands') <= MaxPending
      BY <2>1, <2>2, TailQueue
    <2>4. ThreadOK'
      BY <2>1, <1>0 DEF ThreadOK
    <2>5. StatusIsThere'
      BY <2>1, <1>0 DEF StatusIsThere
    <2> QED
      BY <2>3, <2>4, <2>5 DEF CommandInv
  <1>3. CASE Execute
    BY <1>3, ExecuteKeeps
  <1>4. CASE AnswerTimesOut
    <2>1. /\ pc = "answer" /\ pc' = "run" /\ current' = NULL
          /\ deleted' = deleted \cup {current}
          /\ UNCHANGED <<mAudioCommands, waitTime, caller, exitPending>>
      BY <1>4 DEF AnswerTimesOut
    <2>2. QueueOK' /\ Len(mAudioCommands') <= MaxPending
      BY <2>1, QueueStays
    <2>3. ThreadOK'
      BY <2>1, <1>0 DEF ThreadOK
    <2>4. StatusIsThere'
      BY <2>1, <1>0 DEF StatusIsThere
    <2> QED
      BY <2>2, <2>3, <2>4 DEF CommandInv
  <1>5. CASE Tick
    <2>1. UNCHANGED <<pc, current, caller, deleted, exitPending>>
      BY <1>5 DEF Tick
    <2>2. waitTime' \in Nat \cup {Forever}
      BY <1>0, <1>5 DEF Tick, Less, ThreadOK, Forever
    <2>3. ThreadOK'
      BY <2>1, <2>2, <1>0 DEF ThreadOK
    <2>4. StatusIsThere'
      BY <2>1, <1>0 DEF StatusIsThere
    <2> QED
      BY <2>3, <2>4, <1>5, TickQueue DEF CommandInv
  <1>6. CASE Exit
    <2>1. /\ UNCHANGED <<mAudioCommands, waitTime, current, caller, deleted>>
          /\ pc' = Signalled /\ exitPending' = TRUE
      BY <1>6 DEF Exit
    <2>2. QueueOK' /\ Len(mAudioCommands') <= MaxPending
      BY <2>1, QueueStays
    <2>3. ThreadOK'
      BY <2>1, <1>0, SignalledIs DEF ThreadOK
    <2>4. StatusIsThere'
      BY <2>1, <1>0, SignalledIs DEF StatusIsThere
    <2> QED
      BY <2>2, <2>3, <2>4 DEF CommandInv
  <1>7. CASE \E c \in Caller : ReadStatus(c)
    BY <1>7, ReadStatusKeeps
  <1>8. CASE \E c \in Caller, r \in Request : ToneCommand(c, r)
    BY <1>8, ToneCommandKeeps
  <1>9. CASE \E c \in Caller, r \in Request, delay \in Delays :
                \/ VolumeCommand(c, r, delay)
                \/ ParametersCommand(c, r, delay)
                \/ VoiceVolumeCommand(c, r, delay)
    BY <1>9, StatusCommandKeeps
       DEF VolumeCommand, ParametersCommand, VoiceVolumeCommand, Tones
  <1>10. CASE UNCHANGED vars
    <2>1. UNCHANGED <<mAudioCommands, pc, waitTime, current, caller, deleted,
                      exitPending>>
      BY <1>10 DEF vars
    <2>2. QueueOK' /\ Len(mAudioCommands') <= MaxPending
      BY <2>1, QueueStays
    <2>3. ThreadOK' /\ StatusIsThere'
      BY <2>1, <1>0 DEF ThreadOK, StatusIsThere
    <2> QED
      BY <2>2, <2>3 DEF CommandInv
  <1> QED
    BY <1>1, <1>2, <1>3, <1>4, <1>5, <1>6, <1>7, <1>8, <1>9, <1>10
       DEF Next, ThreadStep

(* The invariant holds in every reachable state.                           *)
LEMMA CommandInvAlways == Spec => []CommandInv
  BY CommandInvInit, CommandInvNext, PTL DEF Spec, Safety

-----------------------------------------------------------------------------
(* Every variable of the command thread keeps its type, in particular the  *)
(* queue holds commands only, whatever insertCommand_l() merges.           *)
THEOREM CommandTypeCorrect == Spec => []TypeOK
  <1>1. CommandInv => TypeOK
    BY DEF CommandInv, QueueOK, ThreadOK, TypeOK
  <1> QED
    BY <1>1, CommandInvAlways, PTL

(* Of the commands that set one stream or key of one handle, the one asked *)
(* for last is executed last, for any requests, delays and length of the   *)
(* queue: where insertCommand_l() leaves it out of order, too.             *)
THEOREM CommandLastWins == Spec => []NewestLast
  <1>1. CommandInv => NewestLast
    <2> SUFFICES ASSUME CommandInv PROVE NewestLast
      OBVIOUS
    <2>1. mAudioCommands \in Seq(Command) /\ NewestIn(mAudioCommands)
      BY DEF CommandInv, QueueOK
    <2>2. DOMAIN mAudioCommands = 1..Len(mAudioCommands)
      BY <2>1, LenProperties
    <2> QED
      BY <2>1, <2>2 DEF NewestIn, NewestLast
  <1> QED
    BY <1>1, CommandInvAlways, PTL

(* insertCommand_l() never drops a command whose caller waits for its      *)
(* status, and a waiting caller has exactly one command in the queue.      *)
THEOREM CommandWaiterQueued == Spec => []WaiterIsQueued
  <1>1. CommandInv => WaiterIsQueued
    <2> SUFFICES ASSUME CommandInv, NEW c \in Caller
                 PROVE  Cardinality({i \in DOMAIN mAudioCommands :
                                       mAudioCommands[i].by = c})
                          = IF caller[c] = "waiting" THEN 1 ELSE 0
      BY DEF WaiterIsQueued
    <2> DEFINE q == mAudioCommands
               S == {i \in DOMAIN q : q[i].by = c}
    <2>1. q \in Seq(Command) /\ WaitsIn(q, caller) /\ c # NULL
      BY AudioCommandAssumption DEF CommandInv, QueueOK
    <2>2. DOMAIN q = 1..Len(q)
      BY <2>1, LenProperties
    <2>3. CASE caller[c] = "waiting"
      <3>1. PICK i \in 1..Len(q) : q[i].by = c
        BY <2>1, <2>3 DEF WaitsIn
      <3>2. \A j \in 1..Len(q) : q[j].by = c => j = i
        BY <2>1, <3>1 DEF WaitsIn
      <3>3. S = {i}
        BY <3>1, <3>2, <2>2, Zenon
      <3> HIDE DEF S
      <3>4. Cardinality(S) = 1
        BY <3>3, FS_Singleton
      <3> QED
        BY <3>4, <2>3 DEF S
    <2>4. CASE caller[c] # "waiting"
      <3>1. \A i \in 1..Len(q) : q[i].by # c
        BY <2>1, <2>4 DEF WaitsIn
      <3>2. S = {}
        BY <3>1, <2>2, Zenon
      <3> HIDE DEF S
      <3>3. Cardinality(S) = 0
        BY <3>2, FS_EmptySet
      <3> QED
        BY <3>3, <2>4 DEF S
    <2> QED
      BY <2>3, <2>4
  <1> QED
    BY <1>1, CommandInvAlways, PTL

(* A caller that threadLoop() has woken finds its status: the command is   *)
(* kept until it has been read, unless the time-out has passed.            *)
THEOREM CommandStatusThere == Spec => []StatusIsThere
  <1>1. CommandInv => StatusIsThere
    BY DEF CommandInv
  <1> QED
    BY <1>1, CommandInvAlways, PTL
=============================================================================
