--------------------------- MODULE MonoPipeProofs ---------------------------
EXTENDS MonoPipe, TLAPS

-----------------------------------------------------------------------------
(* Remainders.  The moduli are constants of any value, which puts them out *)
(* of linear arithmetic: these lemmas bring the facts back into it.        *)

(* % and \div are division with a remainder between 0 and n - 1.           *)
LEMMA ModRange ==
    ASSUME NEW x \in Int, NEW n \in Nat \ {0}
    PROVE  /\ x % n \in 0..(n - 1)
           /\ x \div n \in Int
           /\ x = n * (x \div n) + (x % n)
  BY SMT

(* The remainder is unique.                                                *)
LEMMA ModUnique ==
    ASSUME NEW n \in Nat \ {0}, NEW q \in Int, NEW r \in 0..(n - 1)
    PROVE  (n * q + r) % n = r
  <1> DEFINE x == n * q + r
             d == q - (x \div n)
  <1>1. x \in Int
    OBVIOUS
  <1>2. /\ x % n \in 0..(n - 1) /\ x \div n \in Int
        /\ x = n * (x \div n) + (x % n)
    BY <1>1, ModRange
  <1>3. n * d = (x % n) - r
    BY <1>2
  <1>4. ASSUME d >= 1 PROVE FALSE
    <2>1. n * d >= n
      BY <1>4, <1>2
    <2> QED
      BY <2>1, <1>3, <1>2
  <1>5. ASSUME d <= -1 PROVE FALSE
    <2>1. n * d <= -n
      BY <1>5, <1>2
    <2> QED
      BY <2>1, <1>3, <1>2
  <1> QED
    BY <1>2, <1>3, <1>4, <1>5

(* Within one turn of the modulus, % adds or subtracts it once.            *)
LEMMA ModNear ==
    ASSUME NEW n \in Nat \ {0}, NEW r \in 0..(n - 1)
    PROVE  r % n = r /\ (n + r) % n = r /\ (r - n) % n = r
  <1>1. r = n * 0 + r /\ n + r = n * 1 + r /\ r - n = n * (-1) + r
    OBVIOUS
  <1>2. (n * 0 + r) % n = r /\ (n * 1 + r) % n = r /\ (n * (-1) + r) % n = r
    BY ModUnique
  <1> QED
    BY <1>1, <1>2

(* Multiples of the modulus do not matter.                                 *)
LEMMA ModShift ==
    ASSUME NEW n \in Nat \ {0}, NEW q \in Int, NEW x \in Int
    PROVE  (n * q + x) % n = x % n
  <1> DEFINE j == x \div n
             r == x % n
  <1>1. j \in Int /\ r \in 0..(n - 1) /\ x = n * j + r
    BY ModRange
  <1> HIDE DEF j, r
  <1>2. n * q + x = n * (q + j) + r /\ q + j \in Int
    BY <1>1
  <1>3. (n * (q + j) + r) % n = r
    BY <1>1, <1>2, ModUnique
  <1> QED
    BY <1>2, <1>3 DEF r

(* A counter that wraps at a multiple w of n is still right modulo n.      *)
LEMMA ModOfMod ==
    ASSUME NEW n \in Nat \ {0}, NEW w \in Nat \ {0}, w % n = 0,
           NEW x \in Int, NEW k \in Int
    PROVE  ((x % w) + k) % n = (x + k) % n
  <1> DEFINE h == w \div n
             j == x \div w
             r == x % w
  <1>1. h \in Int /\ w = n * h
    BY ModRange
  <1>2. j \in Int /\ r \in Int /\ x = w * j + r
    BY ModRange
  <1> HIDE DEF h, j, r
  <1>3. x + k = n * (h * j) + (r + k) /\ h * j \in Int /\ r + k \in Int
    BY <1>1, <1>2
  <1>4. (n * (h * j) + (r + k)) % n = (r + k) % n
    BY <1>3, ModShift
  <1> QED
    BY <1>3, <1>4 DEF r

(* Numbers less than the modulus apart have different remainders.          *)
LEMMA ModApart ==
    ASSUME NEW n \in Nat \ {0}, NEW x \in Int, NEW e \in 1..(n - 1)
    PROVE  (x + e) % n # x % n
  <1> DEFINE j == x \div n
             r == x % n
  <1>1. j \in Int /\ r \in 0..(n - 1) /\ x = n * j + r
    BY ModRange
  <1> HIDE DEF j, r
  <1>2. x + e = n * j + (r + e) /\ r + e \in Int
    BY <1>1
  <1>3. (x + e) % n = (r + e) % n
    BY <1>1, <1>2, ModShift
  <1>4. CASE r + e < n
    <2>1. (r + e) % n = r + e
      BY <1>1, <1>4, ModNear
    <2> QED
      BY <2>1, <1>1, <1>3 DEF r
  <1>5. CASE r + e >= n
    <2>1. r + e - n \in 0..(n - 1) /\ n + (r + e - n) = r + e
      BY <1>1, <1>5
    <2>2. (r + e) % n = r + e - n
      BY <2>1, ModNear
    <2> QED
      BY <2>2, <1>1, <1>3 DEF r
  <1> QED
    BY <1>4, <1>5, <1>1

-----------------------------------------------------------------------------
(* The counters and the buffer positions.                                  *)

(* The constants, as arithmetic uses them.                                 *)
LEMMA Moduli ==
    /\ mMaxFrames \in Nat \ {0} /\ W \in Nat \ {0} /\ SeqMod \in Nat \ {0, 1}
    /\ W > mMaxFrames
  BY MonoPipeAssumption

(* The distance of two counters, without %.                                *)
LEMMA MinusIs ==
    ASSUME NEW a \in Counter, NEW b \in Counter
    PROVE  /\ Minus(a, b) = IF a >= b THEN a - b ELSE a - b + W
           /\ Minus(a, b) \in Counter
  <1> USE Moduli DEF Counter
  <1>1. CASE a >= b
    <2>1. (a - b) % W = a - b
      BY <1>1, ModNear
    <2> QED
      BY <1>1, <2>1 DEF Minus
  <1>2. CASE ~(a >= b)
    <2>1. a - b + W \in 0..(W - 1) /\ (a - b + W) - W = a - b
      BY <1>2
    <2>2. (a - b) % W = a - b + W
      BY <2>1, ModNear
    <2> QED
      BY <1>2, <2>1, <2>2 DEF Minus
  <1> QED
    BY <1>1, <1>2

(* The empty sequence is one over every set.                               *)
LEMMA EmptySeq == ASSUME NEW S PROVE <<>> \in Seq(S)
  OBVIOUS

(* A counter moved on by at most mMaxFrames, without %.                    *)
LEMMA MovedIs ==
    ASSUME NEW a \in Counter, NEW n \in 0..mMaxFrames
    PROVE  /\ (n + a) % W = IF n + a < W THEN n + a ELSE n + a - W
           /\ (n + a) % W \in Counter
  <1> USE Moduli DEF Counter
  <1>1. CASE n + a < W
    <2>1. (n + a) % W = n + a
      BY <1>1, ModNear
    <2> QED
      BY <1>1, <2>1
  <1>2. CASE n + a >= W
    <2>1. n + a - W \in 0..(W - 1) /\ W + (n + a - W) = n + a
      BY <1>2
    <2>2. (n + a) % W = n + a - W
      BY <2>1, ModNear
    <2> QED
      BY <1>2, <2>1, <2>2
  <1> QED
    BY <1>1, <1>2

(* Moving the rear adds to the distance, also across the wrap ...          *)
LEMMA RearMoves ==
    ASSUME NEW a \in Counter, NEW b \in Counter, NEW n \in 0..mMaxFrames,
           Minus(a, b) + n <= mMaxFrames
    PROVE  Minus((n + a) % W, b) = Minus(a, b) + n
  <1>1. (n + a) % W \in Counter
    BY MovedIs
  <1>2. Minus((n + a) % W, b)
            = IF (n + a) % W >= b THEN ((n + a) % W) - b
              ELSE ((n + a) % W) - b + W
    BY <1>1, MinusIs
  <1> DEFINE m == (n + a) % W
  <1>3. /\ m = IF n + a < W THEN n + a ELSE n + a - W
        /\ Minus(m, b) = IF m >= b THEN m - b ELSE m - b + W
        /\ Minus(a, b) = IF a >= b THEN a - b ELSE a - b + W
    BY <1>2, MinusIs, MovedIs
  <1> HIDE DEF m
  <1>4. Minus(m, b) = Minus(a, b) + n
    BY <1>3, Moduli DEF Counter
  <1> QED
    BY <1>4 DEF m

(* ... and moving the front, by no more than there is, takes away.         *)
LEMMA FrontMoves ==
    ASSUME NEW a \in Counter, NEW b \in Counter, NEW n \in 0..mMaxFrames,
           n <= Minus(a, b)
    PROVE  Minus(a, (n + b) % W) = Minus(a, b) - n
  <1> DEFINE m == (n + b) % W
  <1>1. m \in Counter
    BY MovedIs
  <1>2. /\ m = IF n + b < W THEN n + b ELSE n + b - W
        /\ Minus(a, m) = IF a >= m THEN a - m ELSE a - m + W
        /\ Minus(a, b) = IF a >= b THEN a - b ELSE a - b + W
    BY <1>1, MinusIs, MovedIs
  <1> HIDE DEF m
  <1>3. Minus(a, m) = Minus(a, b) - n
    BY <1>1, <1>2, Moduli DEF Counter
  <1> QED
    BY <1>3 DEF m

(* A masked counter is a position of the buffer.                           *)
LEMMA IndexRange ==
    ASSUME NEW x \in Int
    PROVE  Index(x) \in 0..(mMaxFrames - 1)
  BY ModRange, Moduli DEF Index

(* Masking commutes with the wrap of the counter, since W is a multiple of *)
(* the capacity ...                                                        *)
LEMMA IndexMoved ==
    ASSUME NEW x \in Int, NEW k \in Int
    PROVE  Index((x % W) + k) = Index(x + k)
  <1>1. mMaxFrames \in Nat \ {0} /\ W \in Nat \ {0} /\ W % mMaxFrames = 0
    BY MonoPipeAssumption
  <1>2. ((x % W) + k) % mMaxFrames = (x + k) % mMaxFrames
    BY <1>1, ModOfMod, Zenon
  <1> QED
    BY <1>2 DEF Index

(* ... so that a position counted from the rear is one counted from the    *)
(* front ...                                                               *)
LEMMA IndexFromFront ==
    ASSUME NEW a \in Counter, NEW b \in Counter, NEW k \in Int
    PROVE  Index(a + k) = Index(b + Minus(a, b) + k)
  <1>1. CASE a >= b
    <2>1. b + Minus(a, b) = a
      BY <1>1, MinusIs, Moduli DEF Counter
    <2> QED
      BY <2>1
  <1>2. CASE ~(a >= b)
    <2>1. b + Minus(a, b) = a + W /\ a \in 0..(W - 1) /\ W + a = a + W
      BY <1>2, MinusIs, Moduli DEF Counter
    <2>2. (a + W) % W = a
      BY <2>1, ModNear, Moduli
    <2>3. a + W \in Int
      BY Moduli DEF Counter
    <2>4. Index(((a + W) % W) + k) = Index((a + W) + k)
      BY <2>3, IndexMoved
    <2> QED
      BY <2>1, <2>2, <2>4
  <1> QED
    BY <1>1, <1>2

(* ... and counters less than the capacity apart are at different ones.    *)
LEMMA IndexApart ==
    ASSUME NEW x \in Int, NEW y \in Int, y - x \in 1..(mMaxFrames - 1)
    PROVE  Index(y) # Index(x)
  <1>1. y = x + (y - x)
    OBVIOUS
  <1> QED
    BY <1>1, ModApart, Moduli DEF Index

-----------------------------------------------------------------------------
(* The frames in the pipe, as the two counters tell.                       *)
Fill == Minus(mRear, mFront)

(* The room that write() found, and the frames that read() found, are      *)
(* still there when they are used: the other side only gives more.         *)
RoomInv ==
    /\ Fill <= mMaxFrames
    /\ wpc \in {"part1", "part2", "publish"} => avail + Fill <= mMaxFrames
    /\ red <= Fill

(* during stays below SeqMod, where it could no longer be told from the    *)
(* sequence number.                                                        *)
LapInv ==
    Observing => /\ during <= SeqMod - 1
                 /\ rpc \in {"part1", "part2", "seq"} => during < SeqMod - 1

PipeInv == TypeOK /\ RoomInv /\ LapInv

(* The distance of the two counters is a counter.                          *)
LEMMA FillRange == ASSUME TypeOK PROVE Fill \in 0..(W - 1)
  BY MinusIs DEF TypeOK, Fill, Counter

(* A write takes no more than it was offered and no more than there was    *)
(* room for.                                                               *)
LEMMA WrittenRange ==
    ASSUME TypeOK
    PROVE  /\ Written \in 0..mMaxFrames
           /\ Written <= avail /\ Written <= Len(wbuf)
  BY Moduli DEF TypeOK, Written, Lesser

(* The first of the two copies ends at the end of the buffer at the        *)
(* latest, and at its end when there is a second.                          *)
LEMMA Part1Range ==
    ASSUME NEW c \in Counter, NEW n \in 0..mMaxFrames
    PROVE  /\ Part1(c, n) \in 0..n
           /\ Part1(c, n) <= mMaxFrames - Index(c)
           /\ Part1(c, n) # n => Part1(c, n) = mMaxFrames - Index(c)
           /\ n > 0 => Part1(c, n) > 0
  <1>1. Index(c) \in 0..(mMaxFrames - 1)
    BY IndexRange, Moduli DEF Counter
  <1> QED
    BY <1>1, Moduli DEF Part1, Lesser

(* memcpy writes members of the source.                                    *)
LEMMA CopyInType ==
    ASSUME TypeOK, NEW src \in Seq(Counter), NEW base, NEW from \in Nat,
           NEW to \in 0..Len(src)
    PROVE  CopyIn(src, base, from, to) \in [0..(mMaxFrames - 1) -> Counter]
  <1> SUFFICES ASSUME NEW i \in DOMAIN mBuffer,
                      NEW k \in (from + 1)..to
               PROVE  src[k] \in Counter
    BY DEF CopyIn, TypeOK
  <1> QED
    OBVIOUS

(* The second part of a concatenation.                                     *)
LEMMA ConcatIsSeq ==
    ASSUME NEW S, NEW s \in Seq(S), NEW t \in Seq(S)
    PROVE  /\ s \o t \in Seq(S)
           /\ \A k \in (Len(s) + 1)..(Len(s) + Len(t)) :
                 (s \o t)[k] = t[k - Len(s)]
  OBVIOUS

(* A function on 1..n is a sequence of n elements.                         *)
LEMMA FunctionIsSeq ==
    ASSUME NEW S, NEW n \in Nat, NEW f \in [1..n -> S]
    PROVE  f \in Seq(S) /\ Len(f) = n
  OBVIOUS

(* The lengths of the parts of both copies.                                *)
LEMMA Parts ==
    ASSUME TypeOK
    PROVE  /\ Part1(mRear, Written) \in 0..Written
           /\ Part1(mFront, red) \in 0..red
           /\ Part1(mFront, red) <= mMaxFrames - Index(mFront)
           /\ Index(mFront) \in 0..(mMaxFrames - 1)
  <1>1. mRear \in Counter /\ mFront \in Counter /\ red \in 0..mMaxFrames
    BY DEF TypeOK
  <1>2. mFront \in Int /\ Written \in 0..mMaxFrames
    BY <1>1, Moduli, WrittenRange DEF Counter
  <1> QED
    BY <1>1, <1>2, Part1Range, IndexRange

(* The frames that read() copies from the buffer.                          *)
LEMMA CopyOutType ==
    ASSUME TypeOK
    PROVE  /\ [k \in 1..Part1(mFront, red) |-> mBuffer[Index(mFront) + k - 1]]
                 \in [1..Part1(mFront, red) -> Counter]
           /\ [k \in 1..(red - Part1(mFront, red)) |-> mBuffer[k - 1]]
                 \in [1..(red - Part1(mFront, red)) -> Counter]
  <1>1. /\ mBuffer \in [0..(mMaxFrames - 1) -> Counter]
        /\ red \in 0..mMaxFrames
    BY DEF TypeOK
  <1>2. ASSUME NEW k \in 1..Part1(mFront, red)
        PROVE  mBuffer[Index(mFront) + k - 1] \in Counter
    <2>1. Index(mFront) + k - 1 \in 0..(mMaxFrames - 1)
      BY Parts, Moduli
    <2> QED
      BY <2>1, <1>1
  <1>3. ASSUME NEW k \in 1..(red - Part1(mFront, red))
        PROVE  mBuffer[k - 1] \in Counter
    <2>1. k - 1 \in 0..(mMaxFrames - 1)
      BY <1>1, Parts, Moduli
    <2> QED
      BY <2>1, <1>1
  <1> QED
    BY <1>2, <1>3

(* The invariant of the counters and the calls holds at first.             *)
LEMMA PipeInvInit == Init => PipeInv
  <1> SUFFICES ASSUME Init PROVE PipeInv
    OBVIOUS
  <1>1. 0 \in Counter /\ 0 \in 0..mMaxFrames /\ 0 \in 0..SeqMod
          /\ 0 \in 0..(SeqMod - 1)
    BY Moduli DEF Counter
  <1>2. mBuffer \in [0..(mMaxFrames - 1) -> Counter]
    BY <1>1 DEF Init
  <1>3. /\ mUpdateSeq \in [busy : BOOLEAN, n : 0..(SeqMod - 1)]
        /\ seqOne \in [busy : BOOLEAN, n : 0..(SeqMod - 1)]
    BY <1>1 DEF Init, NoSeq
  <1>4. TypeOK
    BY <1>1, <1>2, <1>3, EmptySeq DEF Init, TypeOK, Timestamps
  <1>5. Fill = 0
    BY <1>1, MinusIs DEF Init, Fill
  <1> QED
    BY <1>4, <1>5, Moduli DEF PipeInv, RoomInv, LapInv, Observing, Init

(* Every step of writer and reader keeps it.                               *)
LEMMA PipeInvNext == PipeInv /\ [Next]_vars => PipeInv'
  <1> SUFFICES ASSUME PipeInv, [Next]_vars PROVE PipeInv'
    OBVIOUS
  <1>0. /\ Fill \in 0..(W - 1)
        /\ Written \in 0..mMaxFrames
        /\ Written <= avail /\ Written <= Len(wbuf)
        /\ Part1(mRear, Written) \in 0..Written
        /\ Part1(mFront, red) \in 0..red
        /\ Part1(mFront, red) <= mMaxFrames - Index(mFront)
        /\ Index(mFront) \in 0..(mMaxFrames - 1)
    BY FillRange, WrittenRange, Parts DEF PipeInv
  <1>a. /\ mRear \in Counter /\ mFront \in Counter
        /\ wpc = "publish" => Fill + Written <= mMaxFrames
        /\ MaxCount \in Nat
    BY <1>0, Moduli, MonoPipeAssumption DEF PipeInv, RoomInv, TypeOK
  <1>b. /\ [k \in 1..Part1(mFront, red) |-> mBuffer[Index(mFront) + k - 1]]
              \in Seq(Counter)
        /\ [k \in 1..(red - Part1(mFront, red)) |-> mBuffer[k - 1]]
              \in Seq(Counter)
    <2>1. Part1(mFront, red) \in Nat /\ red - Part1(mFront, red) \in Nat
      BY <1>0 DEF PipeInv, TypeOK
    <2> QED
      BY <2>1, CopyOutType, FunctionIsSeq DEF PipeInv
  <1>c. wpc = "publish"
          => Minus((Written + mRear) % W, mFront) = Fill + Written
    BY <1>0, <1>a, RearMoves DEF Fill
  <1> USE Moduli DEF PipeInv, RoomInv, LapInv, Observing, TypeOK, shared,
                     writer, reader, observer
  <1>1. ASSUME NEW n \in 1..MaxCount, Write(n) PROVE PipeInv'
    <2>1. ASSUME NEW k \in 1..n PROVE (mRear + k - 1) % W \in Counter
      <3>1. mRear + k - 1 \in Int
        BY MonoPipeAssumption DEF Counter
      <3> QED
        BY <3>1, ModRange DEF Counter
    <2>2. wbuf' \in Seq(Counter)
      BY <1>1, <2>1, MonoPipeAssumption DEF Write
    <2> QED
      BY <1>1, <2>2 DEF Write, Fill
  <1>2. CASE WriteAvail
    <2>1. Fill' = Fill /\ avail' = mMaxFrames - Fill
      BY <1>2 DEF WriteAvail, Fill
    <2> QED
      BY <1>2, <1>0, <2>1 DEF WriteAvail
  <1>3. CASE WritePart1
    <2>1. mBuffer' \in [0..(mMaxFrames - 1) -> Counter]
      <3>1. Part1(mRear, Written) \in 0..Len(wbuf)
        BY <1>0
      <3> QED
        BY <1>3, <3>1, CopyInType DEF WritePart1
    <2>2. Fill' = Fill
      BY <1>3 DEF WritePart1, Fill
    <2> QED
      BY <1>3, <2>1, <2>2 DEF WritePart1
  <1>4. CASE WritePart2
    <2>1. mBuffer' \in [0..(mMaxFrames - 1) -> Counter]
      <3>1. Part1(mRear, Written) \in Nat /\ Written \in 0..Len(wbuf)
        BY <1>0
      <3> QED
        BY <1>4, <3>1, CopyInType DEF WritePart2
    <2>2. Fill' = Fill
      BY <1>4 DEF WritePart2, Fill
    <2> QED
      BY <1>4, <2>1, <2>2 DEF WritePart2
  <1>5. CASE WritePublish
    <2>1. Written \in 0..mMaxFrames /\ Written <= avail
      BY <1>0
    <2>2. mRear' \in Counter
      BY <1>5, <2>1, MovedIs DEF WritePublish
    <2>3. Fill' = Fill + Written
      BY <1>5, <1>c DEF WritePublish, Fill
    <2>4. wbuf' \in Seq(Counter)
      BY <1>5, <2>1 DEF WritePublish
    <2> QED
      <3>1. TypeOK'
        BY <1>5, <2>2, <2>4 DEF WritePublish
      <3>2. RoomInv'
        BY <1>5, <1>0, <1>a, <2>3 DEF WritePublish
      <3>3. LapInv'
        BY <1>5 DEF WritePublish
      <3> QED
        BY <3>1, <3>2, <3>3
  <1>6. CASE WriteCheck
    <2>1. CASE ~mWriteCanBlock \/ mIsShutdown \/ wbuf = <<>>
      <3>1. wbuf' \in Seq(Counter)
        BY <1>6, <2>1, EmptySeq DEF WriteCheck
      <3> QED
        BY <1>6, <2>1, <3>1 DEF WriteCheck, Fill
    <2>2. CASE ~(~mWriteCanBlock \/ mIsShutdown \/ wbuf = <<>>)
      BY <1>6, <2>2 DEF WriteCheck, Fill
    <2> QED
      BY <2>1, <2>2
  <1>7. CASE Shutdown
    BY <1>7 DEF Shutdown, Fill
  <1>8. ASSUME NEW n \in 0..MaxCount, NEW pts \in PTS \cup {kInvalidPTS},
               Read(n, pts)
        PROVE  PipeInv'
    <2>1. nextReadPTS' \in Timestamps
      BY <1>8, MonoPipeAssumption DEF Read, OffsetTimestamp, Timestamps
    <2>2. red' \in 0..mMaxFrames /\ red' <= Fill
      BY <1>8, <1>0, <1>a DEF Read, Lesser, Fill
    <2>3. Fill' = Fill
      BY <1>8 DEF Read, Fill
    <2> QED
      BY <1>8, <2>1, <2>2, <2>3 DEF Read, ObservationNotLapped
  <1>9. CASE ReadPart1
    <2>1. rbuf' \in Seq(Counter)
      BY <1>9, <1>b DEF ReadPart1
    <2> QED
      BY <1>9, <2>1 DEF ReadPart1, Fill
  <1>10. CASE ReadPart2
    <2>1. rbuf' \in Seq(Counter)
      <3>1. rbuf \in Seq(Counter)
        OBVIOUS
      <3> QED
        BY <1>10, <1>b, <3>1, ConcatIsSeq DEF ReadPart2
    <2> QED
      BY <1>10, <2>1 DEF ReadPart2, Fill
  <1>11. CASE UpdateSeq
    <2>1. mUpdateSeq' \in [busy : BOOLEAN, n : 0..(SeqMod - 1)]
      BY <1>11 DEF UpdateSeq
    <2> QED
      BY <1>11, <2>1 DEF UpdateSeq, Fill
  <1>12. CASE UpdateFront
    <2>1. mFront' \in Counter
      BY <1>12, MovedIs DEF UpdateFront
    <2>2. Fill' = Fill - red
      BY <1>12, FrontMoves DEF UpdateFront, Fill
    <2> QED
      BY <1>12, <1>0, <2>1, <2>2 DEF UpdateFront
  <1>13. CASE UpdatePTS
    BY <1>13 DEF UpdatePTS, Fill, Timestamps
  <1>14. CASE UpdateUnseq
    <2>1. mUpdateSeq.n + 1 \in Int
      OBVIOUS
    <2>2. (mUpdateSeq.n + 1) % SeqMod \in 0..(SeqMod - 1)
      BY <2>1, ModRange
    <2> QED
      BY <1>14, <2>2 DEF UpdateUnseq, Fill
  <1>15. CASE ObserveSeqOne \/ ObserveFront \/ ObservePTS
    BY <1>15 DEF ObserveSeqOne, ObserveFront, ObservePTS, Fill
  <1>16. CASE ObserveSeqTwo
    BY <1>16 DEF ObserveSeqTwo, Fill, NoSeq, Timestamps, Counter
  <1>17. CASE UNCHANGED vars
    BY <1>17 DEF vars, Fill
  <1> QED
    BY <1>1, <1>2, <1>3, <1>4, <1>5, <1>6, <1>7, <1>8, <1>9, <1>10, <1>11,
       <1>12, <1>13, <1>14, <1>15, <1>16, <1>17
    DEF Next, Writer, Reader, Update, Observer

(* It holds in every reachable state.                                      *)
LEMMA PipeInvAlways == Safety => []PipeInv
  BY PipeInvInit, PipeInvNext, PTL DEF Safety

(* Every variable of the pipe keeps its type, for every capacity and every *)
(* width of the counters that the capacity divides: in particular the room *)
(* and the frames that availableToWrite() and read() compute from counters *)
(* that wrap are between 0 and mMaxFrames.                                 *)
THEOREM PipeTypeCorrect == Safety => []TypeOK
  BY PipeInvAlways, PTL DEF PipeInv

(* It implies that the pipe is never filled over its size.                 *)
LEMMA PipeInvNeverOverrun == PipeInv => NeverOverrun
  <1> SUFFICES ASSUME PipeInv PROVE NeverOverrun
    OBVIOUS
  <1>1. /\ mRear \in Counter /\ mFront \in Counter
        /\ mRear \in Int /\ mFront \in Int
        /\ Fill \in 0..mMaxFrames /\ red \in 0..Fill
        /\ Written \in 0..mMaxFrames
        /\ wpc \in {"part1", "part2"} => Written + Fill <= mMaxFrames
    <2>1. TypeOK /\ RoomInv
      BY DEF PipeInv
    <2>2. Written \in 0..mMaxFrames /\ Written <= avail /\ Fill \in 0..(W - 1)
      BY <2>1, WrittenRange, FillRange
    <2> QED
      BY <2>1, <2>2, Moduli DEF TypeOK, RoomInv, Counter
  <1>2. Filling \cap Draining = {}
    <2> SUFFICES ASSUME NEW k \in 0..(Written - 1), NEW j \in 0..(red - 1),
                        wpc \in {"part1", "part2"},
                        Index(mRear + k) = Index(mFront + j)
                 PROVE  FALSE
      BY DEF Filling, Draining
    <2>1. Index(mRear + k) = Index(mFront + Fill + k)
      BY <1>1, IndexFromFront DEF Fill
    <2>2. /\ mFront + j \in Int /\ mFront + Fill + k \in Int
          /\ (mFront + Fill + k) - (mFront + j) \in 1..(mMaxFrames - 1)
      BY <1>1, Moduli
    <2>3. Index(mFront + Fill + k) # Index(mFront + j)
      BY <2>2, IndexApart
    <2> QED
      BY <2>1, <2>3
  <1> QED
    BY <1>1, <1>2 DEF NeverOverrun, Fill

(* For every capacity, width of the counters and number of frames per      *)
(* call, and however the two threads interleave: the counters never        *)
(* separate by more than mMaxFrames, and write() never fills a position    *)
(* that read() has still to copy.                                          *)
THEOREM PipeNeverOverrun == Safety => []NeverOverrun
  BY PipeInvAlways, PipeInvNeverOverrun, PTL

-----------------------------------------------------------------------------
(* The sequence lock.  mUpdateSeq is marked while the reader stores the    *)
(* pair; an observation that began unmarked knows from the number how many *)
(* updates were finished since, and with none begun has seen a still pair. *)
Finished == IF mUpdateSeq.busy THEN during - 1 ELSE during

SeqLockInv ==
    /\ mUpdateSeq.busy <=> rpc \in {"front", "pts", "unseq"}
    /\ Observing => tsUsable
    /\ Observing /\ ~seqOne.busy =>
          /\ mUpdateSeq.busy => during >= 1
          /\ mUpdateSeq.n = (seqOne.n + Finished) % SeqMod
          /\ during = 0 =>
                /\ opc \in {"pts", "seqTwo"} => outFront = mFront
                /\ opc = "seqTwo" => outPTS = mNextRdPTS

ObsInv == PipeInv /\ SeqLockInv

(* The invariant of the timestamp's sequence counter holds at first.       *)
LEMMA SeqLockInit == Init => SeqLockInv
  BY DEF Init, SeqLockInv, Observing, NoSeq

(* The number of finished updates goes up by one with UpdateUnseq only.    *)
LEMMA SeqCounts ==
    ASSUME NEW a \in 0..(SeqMod - 1), NEW d \in Nat
    PROVE  (((a + d) % SeqMod) + 1) % SeqMod = (a + (d + 1)) % SeqMod
  <1>1. SeqMod \in Nat \ {0} /\ SeqMod = SeqMod * 1 + 0
          /\ 0 \in 0..(SeqMod - 1)
    BY Moduli
  <1>2. SeqMod % SeqMod = 0
    BY <1>1, ModUnique
  <1>3. ASSUME NEW x \in Int, NEW k \in Int
        PROVE  ((x % SeqMod) + k) % SeqMod = (x + k) % SeqMod
    BY <1>1, <1>2, ModOfMod, Zenon
  <1>4. a + d \in Int /\ (a + d) + 1 = a + (d + 1)
    BY Moduli
  <1> QED
    BY <1>3, <1>4

(* Every step keeps it.                                                    *)
LEMMA SeqLockNext == ObsInv /\ [Next]_vars => SeqLockInv'
  <1> SUFFICES ASSUME ObsInv, [Next]_vars PROVE SeqLockInv'
    OBVIOUS
  <1>0. /\ mUpdateSeq \in [busy : BOOLEAN, n : 0..(SeqMod - 1)]
        /\ seqOne \in [busy : BOOLEAN, n : 0..(SeqMod - 1)]
        /\ during \in Nat
        /\ SeqMod \in Nat \ {0, 1}
    BY Moduli DEF ObsInv, PipeInv, TypeOK
  <1>1. SeqLockInv
    BY DEF ObsInv
  <1> USE DEF SeqLockInv, Observing, Finished
  <1>2. CASE UNCHANGED <<rpc, mFront, mNextRdPTS, mUpdateSeq, observer>>
    BY <1>2, <1>1 DEF observer
  <1>3. CASE \E n \in 1..MaxCount : Write(n)
    BY <1>2, <1>3 DEF Write, shared, reader
  <1>4. CASE Writer \/ Shutdown
    BY <1>2, <1>4 DEF Writer, WriteAvail, WritePart1, WritePart2,
       WritePublish, WriteCheck, Shutdown, shared, reader
  <1>5. ASSUME NEW n \in 0..MaxCount, NEW pts \in PTS \cup {kInvalidPTS},
               Read(n, pts)
        PROVE  SeqLockInv'
    BY <1>5, <1>1 DEF Read, shared, observer
  <1>6. CASE ReadPart1 \/ ReadPart2
    BY <1>6, <1>1 DEF ReadPart1, ReadPart2, shared, observer
  <1>7. CASE UpdateSeq
    <2>1. /\ mUpdateSeq'.busy /\ mUpdateSeq'.n = mUpdateSeq.n
          /\ ~mUpdateSeq.busy
      BY <1>7, <1>1, <1>0 DEF UpdateSeq
    <2> QED
      BY <1>7, <1>1, <1>0, <2>1 DEF UpdateSeq
  <1>8. CASE UpdateFront
    BY <1>8, <1>1, <1>0 DEF UpdateFront, observer
  <1>9. CASE UpdatePTS
    BY <1>9, <1>1, <1>0 DEF UpdatePTS, observer
  <1>10. CASE UpdateUnseq
    <2>1. /\ ~mUpdateSeq'.busy /\ mUpdateSeq.busy
          /\ mUpdateSeq'.n = (mUpdateSeq.n + 1) % SeqMod
      BY <1>10, <1>1, <1>0 DEF UpdateUnseq
    <2>2. ASSUME Observing, ~seqOne.busy
          PROVE  mUpdateSeq'.n = (seqOne.n + during) % SeqMod
      <3>1. during - 1 \in Nat /\ seqOne.n \in 0..(SeqMod - 1)
              /\ (during - 1) + 1 = during
        BY <2>1, <2>2, <1>1, <1>0
      <3>2. mUpdateSeq.n = (seqOne.n + (during - 1)) % SeqMod
        BY <2>1, <2>2, <1>1
      <3>3. (((seqOne.n + (during - 1)) % SeqMod) + 1) % SeqMod
              = (seqOne.n + during) % SeqMod
        BY <3>1, SeqCounts, Zenon
      <3> QED
        BY <2>1, <3>2, <3>3
    <2> QED
      BY <1>10, <1>1, <1>0, <2>1, <2>2 DEF UpdateUnseq, observer
  <1>11. CASE ObserveSeqOne
    <2>1. seqOne' = mUpdateSeq /\ UNCHANGED mUpdateSeq /\ during' = 0
      BY <1>11 DEF ObserveSeqOne, shared
    <2>2. mUpdateSeq.n = (mUpdateSeq.n + 0) % SeqMod
      BY <1>0, ModNear
    <2> QED
      BY <1>11, <1>1, <1>0, <2>1, <2>2 DEF ObserveSeqOne, shared, reader
  <1>12. CASE ObserveFront
    BY <1>12, <1>1 DEF ObserveFront, shared, reader
  <1>13. CASE ObservePTS
    BY <1>13, <1>1 DEF ObservePTS, shared, reader
  <1>14. CASE ObserveSeqTwo
    BY <1>14, <1>1 DEF ObserveSeqTwo, shared, reader
  <1>15. CASE UNCHANGED vars
    BY <1>15, <1>2 DEF vars, shared, reader
  <1> QED
    BY <1>3, <1>4, <1>5, <1>6, <1>7, <1>8, <1>9, <1>10, <1>11, <1>12, <1>13,
       <1>14, <1>15 DEF Next, Reader, Update, Observer

(* Both invariants hold in every reachable state.                          *)
LEMMA ObsInvAlways == Safety => []ObsInv
  <1>1. Init => ObsInv
    BY PipeInvInit, SeqLockInit DEF ObsInv
  <1>2. ObsInv /\ [Next]_vars => ObsInv'
    BY PipeInvNext, SeqLockNext DEF ObsInv
  <1> QED
    BY <1>1, <1>2, PTL DEF Safety

(* What an observation that may end has seen.                              *)
LEMMA ConsistentIsStill ==
    ASSUME ObsInv, opc = "seqTwo", Consistent
    PROVE  outFront = mFront /\ outPTS = mNextRdPTS /\ tsUsable
  <1>1. SeqLockInv /\ LapInv /\ TypeOK
    BY DEF ObsInv, PipeInv
  <1>2. /\ mUpdateSeq.n \in 0..(SeqMod - 1) /\ during \in 0..(SeqMod - 1)
        /\ ~mUpdateSeq.busy /\ ~seqOne.busy /\ seqOne.n = mUpdateSeq.n
        /\ Observing
    BY <1>1, Moduli DEF TypeOK, LapInv, Observing, Consistent
  <1>3. mUpdateSeq.n = (mUpdateSeq.n + during) % SeqMod
    BY <1>1, <1>2 DEF SeqLockInv, Finished
  <1>4. mUpdateSeq.n % SeqMod = mUpdateSeq.n
    BY <1>2, ModNear, Moduli
  <1>5. during = 0
    <2> SUFFICES ASSUME during \in 1..(SeqMod - 1) PROVE FALSE
      BY <1>2, Moduli
    <2>1. (mUpdateSeq.n + during) % SeqMod # mUpdateSeq.n % SeqMod
      BY <1>2, ModApart, Moduli
    <2> QED
      BY <2>1, <1>3, <1>4
  <1> QED
    BY <1>1, <1>2, <1>5 DEF SeqLockInv

(* For every SeqMod of at least 2: a getNextWriteTimestamp() that leaves   *)
(* its loop has the front and the timestamp of one and the same read.      *)
THEOREM PipeObservesOneRead == Safety => ObservesOneRead
  <1> DEFINE A == (ObserveSeqTwo /\ Consistent)
                     => outFront = mFront /\ outPTS = mNextRdPTS
  <1>1. ObsInv /\ [Next]_vars => [A]_vars
    BY ConsistentIsStill DEF ObserveSeqTwo
  <1> QED
    BY <1>1, ObsInvAlways, PTL DEF Safety, ObservesOneRead

(* The timestamp it then returns is the next read's plus the frames in the *)
(* pipe, unless every position of the buffer is in use.                    *)
THEOREM PipeTimestampCounts == Safety => TimestampCountsPending
  <1> DEFINE A == (ObserveSeqTwo /\ Consistent /\ mNextRdPTS # kInvalidPTS
                       /\ Minus(mRear, mFront) < mMaxFrames)
                     => Returned = mNextRdPTS + Minus(mRear, mFront)
  <1>1. ObsInv /\ [Next]_vars => [A]_vars
    <2> SUFFICES ASSUME ObsInv, opc = "seqTwo", Consistent,
                        mNextRdPTS # kInvalidPTS,
                        Minus(mRear, mFront) < mMaxFrames
                 PROVE  Returned = mNextRdPTS + Minus(mRear, mFront)
      BY DEF ObserveSeqTwo
    <2>1. outFront = mFront /\ outPTS = mNextRdPTS /\ tsUsable
      BY ConsistentIsStill
    <2>2. Minus(mRear, mFront) \in 0..(mMaxFrames - 1)
      <3>1. Fill \in 0..(W - 1)
        BY FillRange DEF ObsInv, PipeInv
      <3> QED
        BY <3>1, Moduli DEF Fill
    <2>3. Index(Minus(mRear, mFront)) = Minus(mRear, mFront)
      BY <2>2, ModNear, Moduli DEF Index
    <2> QED
      BY <2>1, <2>3 DEF Returned, PendingFrames, OffsetTimestamp
  <1> QED
    BY <1>1, ObsInvAlways, PTL DEF Safety, TimestampCountsPending

-----------------------------------------------------------------------------
(* The copies.                                                             *)

(* memcpy puts frame k of the source at the masked position of base + k    *)
(* - 1, as long as it copies no more than the buffer holds ...             *)
LEMMA CopyInHits ==
    ASSUME mBuffer \in [0..(mMaxFrames - 1) -> Counter],
           NEW src, NEW base \in Int, NEW from \in Nat, NEW to \in Int,
           to - from <= mMaxFrames, NEW k \in (from + 1)..to
    PROVE  CopyIn(src, base, from, to)[Index(base + k - 1)] = src[k]
  <1> DEFINE i == Index(base + k - 1)
             c == CHOOSE l \in (from + 1)..to : Index(base + l - 1) = i
  <1>1. i \in DOMAIN mBuffer
    BY IndexRange
  <1>2. c \in (from + 1)..to /\ Index(base + c - 1) = i
    OBVIOUS
  <1>3. CopyIn(src, base, from, to)[i] = src[c]
    BY <1>1, <1>2 DEF CopyIn
  <1> HIDE DEF c
  <1>4. c = k
    <2>1. ASSUME c < k PROVE FALSE
      <3>1. (base + k - 1) - (base + c - 1) \in 1..(mMaxFrames - 1)
        BY <1>2, <2>1, Moduli
      <3> QED
        BY <3>1, <1>2, IndexApart
    <2>2. ASSUME k < c PROVE FALSE
      <3>1. (base + c - 1) - (base + k - 1) \in 1..(mMaxFrames - 1)
        BY <1>2, <2>2, Moduli
      <3> QED
        BY <3>1, <1>2, IndexApart
    <2> QED
      BY <1>2, <2>1, <2>2
  <1> QED
    BY <1>3, <1>4

(* ... and leaves the other positions alone.                               *)
LEMMA CopyInMisses ==
    ASSUME NEW src, NEW base, NEW from, NEW to, NEW i \in DOMAIN mBuffer,
           \A k \in (from + 1)..to : Index(base + k - 1) # i
    PROVE  CopyIn(src, base, from, to)[i] = mBuffer[i]
  BY DEF CopyIn

(* What write() copies to is not among the frames in the pipe.             *)
LEMMA PendingKept ==
    ASSUME PipeInv, wpc \in {"part1", "part2"},
           NEW from \in Nat, NEW to \in 0..Written, NEW j \in 1..Fill
    PROVE  CopyIn(wbuf, mRear, from, to)[Index(mFront + j - 1)]
             = mBuffer[Index(mFront + j - 1)]
  <1>1. TypeOK /\ RoomInv
    BY DEF PipeInv
  <1>2. /\ mRear \in Counter /\ mFront \in Counter
        /\ mRear \in Int /\ mFront \in Int
        /\ mBuffer \in [0..(mMaxFrames - 1) -> Counter]
        /\ Fill \in 0..mMaxFrames /\ Written \in Nat
        /\ Written + Fill <= mMaxFrames
    <2>1. Fill \in 0..(W - 1) /\ Written \in 0..mMaxFrames /\ Written <= avail
      BY <1>1, FillRange, WrittenRange
    <2> QED
      BY <1>1, <2>1, Moduli DEF TypeOK, RoomInv, Counter
  <1>3. ASSUME NEW k \in (from + 1)..to
        PROVE  Index(mRear + k - 1) # Index(mFront + j - 1)
    <2>1. mRear + (k - 1) = mRear + k - 1 /\ k - 1 \in Int
      BY <1>2
    <2>2. Index(mRear + k - 1) = Index(mFront + Fill + (k - 1))
      BY <1>2, <2>1, IndexFromFront DEF Fill
    <2>3. (mFront + Fill + (k - 1)) - (mFront + j - 1) \in 1..(mMaxFrames - 1)
      BY <1>2, Moduli
    <2>4. mFront + Fill + (k - 1) \in Int /\ mFront + j - 1 \in Int
      BY <1>2
    <2> QED
      BY <2>2, <2>3, <2>4, IndexApart
  <1>4. Index(mFront + j - 1) \in DOMAIN mBuffer
    <2>1. mFront + j - 1 \in Int
      BY <1>2
    <2> QED
      BY <1>2, <2>1, IndexRange
  <1> QED
    BY <1>3, <1>4, CopyInMisses

(* How far both sides have copied.                                         *)
WriterCopied(n) ==
    \A k \in 1..n : mBuffer[Index(mRear + k - 1)] = wbuf[k]

ReaderCopied(n) ==
    /\ Len(rbuf) = n
    /\ \A k \in 1..n : rbuf[k] = mBuffer[Index(mFront + k - 1)]

CopyInv ==
    /\ wpc = "idle" => wbuf = <<>>
    /\ wpc = "part2" => WriterCopied(Part1(mRear, Written))
    /\ wpc = "publish" => Written > 0 /\ WriterCopied(Written)
    /\ rpc = "part2" => ReaderCopied(Part1(mFront, red))
    /\ rpc \in {"seq", "front"} => ReaderCopied(red)
    /\ rpc = "part2" => Part1(mFront, red) < red
    /\ wpc = "part2" => Part1(mRear, Written) < Written

FifoInv == PipeInv /\ CopyInv

(* The first part of read()'s copy does not wrap and the second starts at  *)
(* the beginning of the buffer: both are at the masked counter.            *)
LEMMA PartIndex ==
    ASSUME NEW c \in Counter, NEW n \in 0..mMaxFrames, NEW k \in 1..n
    PROVE  /\ k <= Part1(c, n) => Index(c + k - 1) = Index(c) + k - 1
           /\ k > Part1(c, n) => Index(c + k - 1) = k - Part1(c, n) - 1
  <1> DEFINE j == c \div mMaxFrames
             r == c % mMaxFrames
             p == Part1(c, n)
  <1>0. c \in Int /\ mMaxFrames \in Nat \ {0}
    BY Moduli DEF Counter
  <1>1. j \in Int /\ r \in 0..(mMaxFrames - 1) /\ c = mMaxFrames * j + r
    BY <1>0, ModRange
  <1>2. Index(c) = r /\ p \in 0..n /\ p <= mMaxFrames - r
          /\ (p # n => p = mMaxFrames - r)
    BY Part1Range DEF Index
  <1>3. Index(c + k - 1) = (c + k - 1) % mMaxFrames
    BY DEF Index
  <1> HIDE DEF j, r, p
  <1>4. c + k - 1 = mMaxFrames * j + (r + k - 1) /\ r + k - 1 \in Int
    BY <1>0, <1>1
  <1>5. (c + k - 1) % mMaxFrames = (r + k - 1) % mMaxFrames
    BY <1>0, <1>1, <1>4, ModShift
  <1>6. ASSUME k <= p PROVE Index(c + k - 1) = Index(c) + k - 1
    <2>1. r + k - 1 \in 0..(mMaxFrames - 1)
      BY <1>6, <1>0, <1>1, <1>2
    <2>2. (r + k - 1) % mMaxFrames = r + k - 1
      BY <2>1, <1>0, ModNear
    <2> QED
      BY <2>2, <1>2, <1>3, <1>5
  <1>7. ASSUME k > p PROVE Index(c + k - 1) = k - p - 1
    <2>1. /\ k - p - 1 \in 0..(mMaxFrames - 1)
          /\ mMaxFrames + (k - p - 1) = r + k - 1
      BY <1>7, <1>0, <1>1, <1>2
    <2>2. (mMaxFrames + (k - p - 1)) % mMaxFrames = k - p - 1
      BY <2>1, <1>0, ModNear
    <2> QED
      BY <2>1, <2>2, <1>3, <1>5
  <1> QED
    BY <1>6, <1>7 DEF p

(* The invariant of the frames copied so far holds at first.               *)
LEMMA CopyInvInit == Init => CopyInv
  BY DEF Init, CopyInv

(* write()'s first copy ...                                                *)
LEMMA WritesPart1 ==
    ASSUME PipeInv, WritePart1
    PROVE  WriterCopied(Part1(mRear, Written))'
  <1>1. TypeOK
    BY DEF PipeInv
  <1>2. /\ mRear \in Int /\ mBuffer \in [0..(mMaxFrames - 1) -> Counter]
        /\ Part1(mRear, Written) \in 0..mMaxFrames
    <2>1. Part1(mRear, Written) \in 0..Written /\ Written \in 0..mMaxFrames
      BY <1>1, Parts, WrittenRange
    <2> QED
      BY <1>1, <2>1, Moduli DEF TypeOK, Counter
  <1>3. /\ UNCHANGED <<mRear, wbuf, avail>>
        /\ mBuffer' = CopyIn(wbuf, mRear, 0, Part1(mRear, Written))
    BY DEF WritePart1
  <1>4. Part1(mRear, Written)' = Part1(mRear, Written)
    BY <1>3 DEF Written
  <1>5. ASSUME NEW k \in 1..Part1(mRear, Written)
        PROVE  mBuffer'[Index(mRear + k - 1)] = wbuf[k]
    <2>1. /\ 0 \in Nat /\ Part1(mRear, Written) \in Int
          /\ Part1(mRear, Written) - 0 <= mMaxFrames
          /\ k \in (0 + 1)..Part1(mRear, Written)
      BY <1>2
    <2>2. CopyIn(wbuf, mRear, 0, Part1(mRear, Written))[Index(mRear + k - 1)]
            = wbuf[k]
      BY <1>2, <2>1, CopyInHits
    <2> QED
      BY <2>2, <1>3
  <1> QED
    BY <1>3, <1>4, <1>5 DEF WriterCopied

(* ... and its second one, which keeps the first.                          *)
LEMMA WritesPart2 ==
    ASSUME FifoInv, WritePart2
    PROVE  WriterCopied(Written)' /\ Written' > 0
  <1> DEFINE p == Part1(mRear, Written)
  <1>1. TypeOK /\ CopyInv
    BY DEF PipeInv, FifoInv
  <1>2. /\ mRear \in Int /\ mBuffer \in [0..(mMaxFrames - 1) -> Counter]
        /\ p \in 0..Written /\ Written \in 0..mMaxFrames /\ p < Written
    <2>1. p \in 0..Written /\ Written \in 0..mMaxFrames
      BY <1>1, Parts, WrittenRange
    <2> QED
      BY <1>1, <2>1, Moduli DEF TypeOK, Counter, CopyInv, WritePart2
  <1>3. /\ UNCHANGED <<mRear, wbuf, avail>>
        /\ mBuffer' = CopyIn(wbuf, mRear, p, Written)
    BY DEF WritePart2
  <1>4. Written' = Written
    BY <1>3 DEF Written
  <1>5. \A k \in 1..p : mBuffer[Index(mRear + k - 1)] = wbuf[k]
    BY <1>1 DEF CopyInv, WriterCopied, WritePart2
  <1> HIDE DEF p
  <1>6. ASSUME NEW k \in 1..Written
        PROVE  mBuffer'[Index(mRear + k - 1)] = wbuf[k]
    <2>1. CASE k > p
      <3>1. /\ p \in Nat /\ Written \in Int /\ Written - p <= mMaxFrames
            /\ k \in (p + 1)..Written
        BY <1>2, <2>1, Moduli
      <3>2. CopyIn(wbuf, mRear, p, Written)[Index(mRear + k - 1)] = wbuf[k]
        BY <1>2, <3>1, CopyInHits
      <3> QED
        BY <3>2, <1>3
    <2>2. CASE k <= p
      <3>1. Index(mRear + k - 1) \in DOMAIN mBuffer
        <4>1. mRear + k - 1 \in Int
          BY <1>2
        <4> QED
          BY <4>1, <1>2, IndexRange
      <3>2. ASSUME NEW l \in (p + 1)..Written
            PROVE  Index(mRear + l - 1) # Index(mRear + k - 1)
        <4>1. /\ (mRear + l - 1) - (mRear + k - 1) \in 1..(mMaxFrames - 1)
              /\ mRear + l - 1 \in Int /\ mRear + k - 1 \in Int
          BY <1>2, <2>2, Moduli
        <4> QED
          BY <4>1, IndexApart
      <3>3. mBuffer'[Index(mRear + k - 1)] = mBuffer[Index(mRear + k - 1)]
        BY <1>3, <3>1, <3>2, CopyInMisses
      <3> QED
        BY <3>3, <2>2, <1>2, <1>5
    <2> QED
      BY <2>1, <2>2, <1>2
  <1> QED
    BY <1>2, <1>3, <1>4, <1>6 DEF WriterCopied

(* read()'s first copy ...                                                 *)
LEMMA ReadsPart1 ==
    ASSUME PipeInv, ReadPart1
    PROVE  ReaderCopied(Part1(mFront, red))'
  <1> DEFINE p == Part1(mFront, red)
  <1>1. TypeOK
    BY DEF PipeInv
  <1>2. mFront \in Counter /\ red \in 0..mMaxFrames /\ p \in 0..red
    BY <1>1, Parts DEF TypeOK
  <1>3. /\ UNCHANGED <<mFront, mBuffer, red>>
        /\ rbuf' = [k \in 1..p |-> mBuffer[Index(mFront) + k - 1]]
    BY DEF ReadPart1, shared
  <1>4. ASSUME NEW k \in 1..p
        PROVE  Index(mFront + k - 1) = Index(mFront) + k - 1
    BY <1>2, PartIndex
  <1>5. Len(rbuf') = p
    <2>1. p \in Nat /\ rbuf' \in [1..p -> Counter]
      BY <1>1, <1>2, <1>3, CopyOutType
    <2> QED
      BY <2>1, FunctionIsSeq
  <1>6. \A k \in 1..p : rbuf'[k] = mBuffer[Index(mFront + k - 1)]
    BY <1>3, <1>4
  <1> QED
    BY <1>3, <1>5, <1>6 DEF ReaderCopied

(* ... and its second one, appended to the first.                          *)
LEMMA ReadsPart2 ==
    ASSUME FifoInv, ReadPart2
    PROVE  ReaderCopied(red)'
  <1> DEFINE p == Part1(mFront, red)
             t == [k \in 1..(red - p) |-> mBuffer[k - 1]]
  <1>1. TypeOK /\ CopyInv
    BY DEF PipeInv, FifoInv
  <1>2. /\ mFront \in Counter /\ red \in 0..mMaxFrames /\ p \in 0..red
        /\ rbuf \in Seq(Counter)
    BY <1>1, Parts DEF TypeOK
  <1>3. /\ UNCHANGED <<mFront, mBuffer, red>>
        /\ rbuf' = rbuf \o t
    BY DEF ReadPart2, shared
  <1>4. /\ Len(rbuf) = p
        /\ \A k \in 1..p : rbuf[k] = mBuffer[Index(mFront + k - 1)]
    BY <1>1 DEF CopyInv, ReaderCopied, ReadPart2
  <1>5. t \in Seq(Counter) /\ Len(t) = red - p
    <2>1. red - p \in Nat /\ t \in [1..(red - p) -> Counter]
      BY <1>1, <1>2, CopyOutType
    <2> QED
      BY <2>1, FunctionIsSeq
  <1>6. ASSUME NEW k \in 1..red, k > p
        PROVE  mBuffer[Index(mFront + k - 1)] = t[k - p]
    <2>1. Index(mFront + k - 1) = k - p - 1
      BY <1>2, <1>6, PartIndex
    <2> QED
      BY <2>1, <1>2, <1>6
  <1> HIDE DEF p, t
  <1>7. Len(rbuf') = red
    BY <1>2, <1>3, <1>4, <1>5
  <1>8. ASSUME NEW k \in 1..red
        PROVE  rbuf'[k] = mBuffer[Index(mFront + k - 1)]
    BY <1>2, <1>3, <1>4, <1>5, <1>6
  <1> QED
    BY <1>3, <1>7, <1>8 DEF ReaderCopied

(* Every step keeps it: neither side overwrites what the other has copied. *)
LEMMA CopyInvNext == FifoInv /\ [Next]_vars => CopyInv'
  <1> SUFFICES ASSUME FifoInv, [Next]_vars PROVE CopyInv'
    OBVIOUS
  <1>0. /\ PipeInv /\ CopyInv
        /\ wbuf \in Seq(Counter)
        /\ Written \in 0..mMaxFrames /\ Part1(mRear, Written) \in 0..Written
        /\ red \in 0..mMaxFrames /\ red <= Fill /\ Fill \in 0..mMaxFrames
        /\ Part1(mFront, red) \in 0..red
    <2>1. PipeInv /\ CopyInv /\ TypeOK /\ RoomInv
      BY DEF FifoInv, PipeInv
    <2>2. /\ Written \in 0..mMaxFrames /\ Part1(mRear, Written) \in 0..Written
          /\ Part1(mFront, red) \in 0..red /\ Fill \in 0..(W - 1)
      BY <2>1, WrittenRange, Parts, FillRange
    <2> QED
      BY <2>1, <2>2, Moduli DEF TypeOK, RoomInv
  <1> DEFINE RInv == /\ rpc = "part2" => ReaderCopied(Part1(mFront, red))
                     /\ rpc \in {"seq", "front"} => ReaderCopied(red)
                     /\ rpc = "part2" => Part1(mFront, red) < red
             WInv == /\ wpc = "idle" => wbuf = <<>>
                     /\ wpc = "part2" => WriterCopied(Part1(mRear, Written))
                     /\ wpc = "publish" => Written > 0 /\ WriterCopied(Written)
                     /\ wpc = "part2" => Part1(mRear, Written) < Written
  <1>1. RInv /\ WInv
    BY <1>0 DEF CopyInv
  <1>2. RInv' /\ WInv' => CopyInv'
    BY DEF CopyInv
  (* Each side keeps what the other says of the buffer.                    *)
  <1>3. UNCHANGED <<reader, mFront, mBuffer>> => RInv'
    BY <1>1 DEF ReaderCopied, reader
  <1>4. UNCHANGED <<writer, mRear, mBuffer>> => WInv'
    BY <1>1 DEF WriterCopied, writer, Written
  <1>5. ASSUME UNCHANGED <<reader, mFront>>,
               \A j \in 1..Fill : mBuffer'[Index(mFront + j - 1)]
                                    = mBuffer[Index(mFront + j - 1)]
        PROVE  RInv'
    <2>1. \A j \in 1..red : mBuffer'[Index(mFront + j - 1)]
                              = mBuffer[Index(mFront + j - 1)]
      BY <1>5, <1>0
    <2> QED
      BY <1>0, <1>1, <1>5, <2>1 DEF ReaderCopied, reader
  <1>6. ASSUME NEW n \in 1..MaxCount, Write(n) PROVE CopyInv'
    <2>1. RInv'
      BY <1>3, <1>6 DEF Write, shared
    <2>2. WInv'
      BY <1>6 DEF Write
    <2> QED
      BY <2>1, <2>2, <1>2
  <1>7. CASE WriteAvail
    <2>1. RInv'
      BY <1>3, <1>7 DEF WriteAvail, shared
    <2>2. WInv'
      BY <1>7 DEF WriteAvail
    <2> QED
      BY <2>1, <2>2, <1>2
  <1>8. CASE WritePart1
    <2>1. RInv'
      <3>1. 0 \in Nat /\ Part1(mRear, Written) \in 0..Written
              /\ wpc \in {"part1", "part2"}
        BY <1>0, <1>8 DEF WritePart1
      <3>2. \A j \in 1..Fill : mBuffer'[Index(mFront + j - 1)]
                                 = mBuffer[Index(mFront + j - 1)]
        BY <3>1, <1>0, <1>8, PendingKept DEF WritePart1
      <3> QED
        BY <1>5, <1>8, <3>2 DEF WritePart1
    <2>2. WriterCopied(Part1(mRear, Written))'
      BY <1>0, <1>8, WritesPart1
    <2>3. Written' = Written /\ Part1(mRear, Written)' = Part1(mRear, Written)
      BY <1>8 DEF WritePart1, Written
    <2>4. WInv'
      <3>1. CASE Written = 0
        BY <1>8, <3>1 DEF WritePart1
      <3>2. CASE Written # 0 /\ Part1(mRear, Written) < Written
        BY <1>8, <3>2, <2>2, <2>3 DEF WritePart1
      <3>3. CASE Written # 0 /\ ~(Part1(mRear, Written) < Written)
        <4>1. Part1(mRear, Written) = Written /\ Written > 0
          BY <1>0, <3>3
        <4>2. WriterCopied(Written)'
          BY <2>2, <2>3, <4>1 DEF WriterCopied
        <4> QED
          BY <1>8, <3>3, <4>1, <4>2, <2>3 DEF WritePart1
      <3> QED
        BY <3>1, <3>2, <3>3
    <2> QED
      BY <2>1, <2>4, <1>2
  <1>9. CASE WritePart2
    <2>1. RInv'
      <3>1. Part1(mRear, Written) \in Nat /\ Written \in 0..Written
              /\ wpc \in {"part1", "part2"}
        BY <1>0, <1>9 DEF WritePart2
      <3>2. \A j \in 1..Fill : mBuffer'[Index(mFront + j - 1)]
                                 = mBuffer[Index(mFront + j - 1)]
        BY <3>1, <1>0, <1>9, PendingKept DEF WritePart2
      <3> QED
        BY <1>5, <1>9, <3>2 DEF WritePart2
    <2>2. WInv'
      BY <1>9, WritesPart2 DEF WritePart2
    <2> QED
      BY <2>1, <2>2, <1>2
  <1>10. CASE WritePublish
    <2>1. RInv'
      BY <1>3, <1>10 DEF WritePublish
    <2>2. WInv'
      BY <1>10 DEF WritePublish
    <2> QED
      BY <2>1, <2>2, <1>2
  <1>11. CASE WriteCheck
    <2>1. RInv'
      BY <1>3, <1>11 DEF WriteCheck, shared
    <2>2. WInv'
      BY <1>11 DEF WriteCheck
    <2> QED
      BY <2>1, <2>2, <1>2
  <1>12. ASSUME NEW n \in 0..MaxCount, NEW pts \in PTS \cup {kInvalidPTS},
                Read(n, pts)
         PROVE  CopyInv'
    <2>1. WInv'
      BY <1>4, <1>12 DEF Read, shared
    <2>2. CASE Fill = 0
      <3>1. rpc' = "seq" /\ red' = 0 /\ rbuf' = <<>>
        BY <1>12, <2>2, MonoPipeAssumption DEF Read, Fill, Lesser
      <3>2. ReaderCopied(red)'
        BY <3>1 DEF ReaderCopied
      <3> QED
        BY <2>1, <3>1, <3>2, <1>2
    <2>3. CASE Fill # 0
      <3>1. rpc' \in {"idle", "part1"}
        BY <1>12, <2>3 DEF Read, Fill
      <3> QED
        BY <2>1, <3>1, <1>2
    <2> QED
      BY <2>2, <2>3
  <1>13. CASE ReadPart1
    <2>1. WInv'
      BY <1>4, <1>13 DEF ReadPart1, shared
    <2>2. ReaderCopied(Part1(mFront, red))'
      BY <1>0, <1>13, ReadsPart1
    <2>3. red' = red /\ Part1(mFront, red)' = Part1(mFront, red)
      BY <1>13 DEF ReadPart1, shared
    <2>4. CASE Part1(mFront, red) < red
      BY <1>13, <2>1, <2>2, <2>3, <2>4, <1>2 DEF ReadPart1
    <2>5. CASE ~(Part1(mFront, red) < red)
      <3>1. Part1(mFront, red) = red
        BY <1>0, <2>5
      <3>2. ReaderCopied(red)'
        BY <2>2, <2>3, <3>1 DEF ReaderCopied
      <3> QED
        BY <1>13, <2>1, <2>5, <3>2, <1>2 DEF ReadPart1
    <2> QED
      BY <2>4, <2>5
  <1>14. CASE ReadPart2
    <2>1. WInv'
      BY <1>4, <1>14 DEF ReadPart2, shared
    <2>2. ReaderCopied(red)'
      BY <1>14, ReadsPart2
    <2> QED
      BY <1>14, <2>1, <2>2, <1>2 DEF ReadPart2
  <1>15. CASE UpdateSeq
    <2>1. WInv'
      BY <1>4, <1>15 DEF UpdateSeq
    <2>2. ReaderCopied(red)'
      BY <1>1, <1>15 DEF UpdateSeq, ReaderCopied
    <2> QED
      BY <1>15, <2>1, <2>2, <1>2 DEF UpdateSeq
  <1>16. CASE UpdateFront \/ UpdatePTS \/ UpdateUnseq
    <2>1. WInv'
      BY <1>4, <1>16 DEF UpdateFront, UpdatePTS, UpdateUnseq
    <2> QED
      BY <1>16, <2>1, <1>2 DEF UpdateFront, UpdatePTS, UpdateUnseq
  <1>17. CASE Shutdown \/ Observer \/ UNCHANGED vars
    <2>1. UNCHANGED <<reader, writer, mFront, mRear, mBuffer>>
      BY <1>17 DEF Shutdown, Observer, ObserveSeqOne, ObserveFront,
         ObservePTS, ObserveSeqTwo, vars, shared
    <2> QED
      BY <2>1, <1>2, <1>3, <1>4
  <1> QED
    BY <1>6, <1>7, <1>8, <1>9, <1>10, <1>11, <1>12, <1>13, <1>14, <1>15,
       <1>16, <1>17 DEF Next, Writer, Reader, Update

(* Both invariants hold in every reachable state.                          *)
LEMMA FifoInvAlways == Safety => []FifoInv
  <1>1. Init => FifoInv
    BY PipeInvInit, CopyInvInit DEF FifoInv
  <1>2. FifoInv /\ [Next]_vars => FifoInv'
    BY PipeInvNext, CopyInvNext DEF FifoInv
  <1> QED
    BY <1>1, <1>2, PTL DEF Safety

-----------------------------------------------------------------------------
(* The pipe implements the bounded queue FrameFifo.                        *)

PendingView ==
    /\ Pending \in Seq(Counter) /\ Len(Pending) = Fill
    /\ \A k \in 1..Fill : Pending[k] = mBuffer[Index(mFront + k - 1)]

(* The frames pending are those between the two counters, in their order.  *)
LEMMA PendingIs == PipeInv => PendingView
  <1> SUFFICES ASSUME PipeInv PROVE PendingView
    OBVIOUS
  <1>1. TypeOK
    BY DEF PipeInv
  <1>2. /\ mFront \in Int /\ mBuffer \in [0..(mMaxFrames - 1) -> Counter]
        /\ Fill \in Nat
    BY <1>1, FillRange, Moduli DEF TypeOK, Counter
  <1>3. ASSUME NEW k \in 1..Fill
        PROVE  mBuffer[Index(mFront + k - 1)] \in Counter
    <2>1. mFront + k - 1 \in Int
      BY <1>2
    <2> QED
      BY <2>1, <1>2, IndexRange
  <1>4. Pending = [k \in 1..Fill |-> mBuffer[Index(mFront + k - 1)]]
    BY DEF Pending, Fill
  <1>5. Pending \in [1..Fill -> Counter]
    BY <1>3, <1>4
  <1> QED
    BY <1>2, <1>4, <1>5, FunctionIsSeq DEF PendingView

(* Sequences of the same length with the same elements are the same.       *)
LEMMA SameSeq ==
    ASSUME NEW S, NEW s \in Seq(S), NEW t \in Seq(S), Len(s) = Len(t),
           \A k \in 1..Len(s) : s[k] = t[k]
    PROVE  s = t
  OBVIOUS

(* The first state is one of the abstract queue.                           *)
LEMMA FifoInit == Init => Fifo!Init
  <1> SUFFICES ASSUME Init PROVE Fifo!Init
    OBVIOUS
  <1>1. PipeInv
    BY PipeInvInit
  <1>2. 0 \in Counter
    BY Moduli DEF Counter
  <1>3. Fill = 0
    BY <1>2, MinusIs DEF Init, Fill
  <1>4. Pending = <<>>
    BY <1>1, <1>3, PendingIs DEF PendingView
  <1> QED
    BY <1>4 DEF Fifo!Init, Init

(* Publishing the rear appends to the queue what write() copied ...        *)
LEMMA PublishAppends ==
    ASSUME FifoInv, PipeInv', WritePublish
    PROVE  /\ Pending' = Pending \o SubSeq(wbuf, 1, Written)
           /\ Len(Pending) + Written <= mMaxFrames
           /\ Written \in 1..Len(wbuf)
  <1> DEFINE c == SubSeq(wbuf, 1, Written)
  <1>1. PipeInv /\ TypeOK /\ RoomInv /\ CopyInv
    BY DEF FifoInv, PipeInv
  <1>2. /\ Written \in 1..mMaxFrames /\ Written <= avail
        /\ Written <= Len(wbuf) /\ Fill \in Nat
    <2>1. Written \in 0..mMaxFrames /\ Written <= avail /\ Written <= Len(wbuf)
            /\ Fill \in 0..(W - 1)
      BY <1>1, WrittenRange, FillRange
    <2> QED
      BY <1>1, <2>1, Moduli DEF CopyInv, WritePublish
  <1>3. /\ mRear \in Counter /\ mFront \in Counter /\ mFront \in Int
        /\ wbuf \in Seq(Counter) /\ Fill + Written <= mMaxFrames
    BY <1>1, <1>2, Moduli DEF TypeOK, RoomInv, WritePublish, Counter
  <1>4. Fill' = Fill + Written
    BY <1>2, <1>3, RearMoves DEF Fill, WritePublish
  <1>5. /\ Pending \in Seq(Counter) /\ Len(Pending) = Fill
        /\ \A k \in 1..Fill : Pending[k] = mBuffer[Index(mFront + k - 1)]
    BY <1>1, PendingIs DEF PendingView
  <1>6. /\ Pending' \in Seq(Counter) /\ Len(Pending') = Fill'
        /\ \A k \in 1..Fill' : Pending'[k] = mBuffer'[Index(mFront' + k - 1)]
    <2>1. PendingView'
      BY PendingIs, PTL
    <2> QED
      BY <2>1 DEF PendingView
  <1>7. UNCHANGED <<mBuffer, mFront>>
    BY DEF WritePublish
  <1>8. /\ c \in Seq(Counter) /\ Len(c) = Written
        /\ \A k \in 1..Written : c[k] = wbuf[k]
    BY <1>2, <1>3
  <1>9. \A k \in 1..Written : wbuf[k] = mBuffer[Index(mFront + (Fill + k) - 1)]
    <2> SUFFICES ASSUME NEW k \in 1..Written
                 PROVE  wbuf[k] = mBuffer[Index(mFront + (Fill + k) - 1)]
      OBVIOUS
    <2>1. wbuf[k] = mBuffer[Index(mRear + k - 1)]
      BY <1>1 DEF CopyInv, WriterCopied, WritePublish
    <2>2. k - 1 \in Int /\ mRear + (k - 1) = mRear + k - 1
           /\ mFront + Fill + (k - 1) = mFront + (Fill + k) - 1
      BY <1>2, <1>3, Moduli DEF Counter
    <2>3. Index(mRear + (k - 1)) = Index(mFront + Fill + (k - 1))
      BY <1>3, <2>2, IndexFromFront DEF Fill
    <2> QED
      BY <2>1, <2>2, <2>3
  <1> HIDE DEF c
  <1>10. ASSUME NEW k \in 1..(Fill + Written)
         PROVE  Pending'[k] = (Pending \o c)[k]
    <2>0. k \in Nat /\ Fill \in Nat /\ Written \in Nat /\ k <= Fill + Written
            /\ k >= 1
      BY <1>2, Moduli
    <2>1. Pending'[k] = mBuffer[Index(mFront + k - 1)]
      BY <1>4, <1>6, <1>7
    <2>2. CASE k <= Fill
      <3>1. (Pending \o c)[k] = Pending[k] /\ k \in 1..Fill
        BY <1>2, <1>5, <1>8, <2>2
      <3> QED
        BY <2>1, <3>1, <1>5
    <2>3. CASE k > Fill
      <3>1. k - Fill \in 1..Written /\ Fill + (k - Fill) = k
        BY <2>0, <2>3
      <3>2. k \in (Len(Pending) + 1)..(Len(Pending) + Len(c))
        BY <2>0, <1>5, <1>8, <2>3
      <3>3. (Pending \o c)[k] = c[k - Len(Pending)]
        BY <3>2, <1>5, <1>8, ConcatIsSeq, Zenon
      <3>4. (Pending \o c)[k] = c[k - Fill]
        BY <3>3, <1>5
      <3> QED
        BY <2>1, <3>1, <3>4, <1>8, <1>9
    <2>4. k <= Fill \/ k > Fill
      BY <2>0
    <2> QED
      BY <2>2, <2>3, <2>4
  <1>11. Pending' = Pending \o c
    <2>1. Pending \o c \in Seq(Counter) /\ Len(Pending \o c) = Fill + Written
      BY <1>2, <1>5, <1>8, Moduli
    <2> QED
      BY <2>1, <1>4, <1>6, <1>10, SameSeq
  <1> QED
    BY <1>11, <1>2, <1>3, <1>5 DEF c

(* ... and moving the front removes what read() copied.                    *)
LEMMA FrontDelivers ==
    ASSUME FifoInv, PipeInv', UpdateFront, red > 0
    PROVE  /\ out' = SubSeq(Pending, 1, red)
           /\ Pending' = SubSeq(Pending, red + 1, Len(Pending))
           /\ red \in 1..Len(Pending)
  <1> DEFINE d == SubSeq(Pending, red + 1, Len(Pending))
             h == SubSeq(Pending, 1, red)
  <1>1. PipeInv /\ TypeOK /\ RoomInv /\ CopyInv
    BY DEF FifoInv, PipeInv
  <1>2. /\ mRear \in Counter /\ mFront \in Counter /\ mFront \in Int
        /\ red \in 1..mMaxFrames /\ red <= Fill /\ Fill \in Nat
        /\ rbuf \in Seq(Counter)
    <2>1. Fill \in 0..(W - 1)
      BY <1>1, FillRange
    <2> QED
      BY <1>1, <2>1, Moduli DEF TypeOK, RoomInv, Counter
  <1>3. Fill' = Fill - red
    BY <1>2, FrontMoves DEF Fill, UpdateFront
  <1>4. /\ Pending \in Seq(Counter) /\ Len(Pending) = Fill
        /\ \A k \in 1..Fill : Pending[k] = mBuffer[Index(mFront + k - 1)]
    BY <1>1, PendingIs DEF PendingView
  <1>5. /\ Pending' \in Seq(Counter) /\ Len(Pending') = Fill'
        /\ \A k \in 1..Fill' : Pending'[k] = mBuffer'[Index(mFront' + k - 1)]
    <2>1. PendingView'
      BY PendingIs, PTL
    <2> QED
      BY <2>1 DEF PendingView
  <1>6. mBuffer' = mBuffer /\ mFront' = (red + mFront) % W /\ out' = rbuf
    BY DEF UpdateFront
  <1>7. /\ d \in Seq(Counter) /\ Len(d) = Fill - red
        /\ \A k \in 1..(Fill - red) : d[k] = Pending[red + k]
    BY <1>2, <1>4
  <1>8. /\ h \in Seq(Counter) /\ Len(h) = red
        /\ \A k \in 1..red : h[k] = Pending[k]
    BY <1>2, <1>4
  <1>9. ASSUME NEW k \in 1..(Fill - red)
        PROVE  Pending'[k] = d[k]
    <2>1. Pending'[k] = mBuffer[Index(mFront' + k - 1)]
      BY <1>3, <1>5, <1>6
    <2>2. /\ red + mFront \in Int /\ k - 1 \in Int
          /\ mFront + (red + k) - 1 = (red + mFront) + (k - 1)
          /\ red + k \in 1..Fill
      BY <1>2
    <2>3. mFront' \in Int /\ mFront' + (k - 1) = mFront' + k - 1
      <3>1. mFront' \in Counter
        BY <1>2, <1>6, MovedIs
      <3> QED
        BY <3>1, <2>2, Moduli DEF Counter
    <2>4. Index(mFront' + (k - 1)) = Index((red + mFront) + (k - 1))
      BY <2>2, <1>6, IndexMoved
    <2> QED
      BY <2>1, <2>2, <2>3, <2>4, <1>4, <1>7
  <1>10. /\ Len(rbuf) = red
         /\ \A k \in 1..red : rbuf[k] = mBuffer[Index(mFront + k - 1)]
    BY <1>1 DEF CopyInv, ReaderCopied, UpdateFront
  <1> HIDE DEF d, h
  <1>11. Pending' = d
    BY <1>3, <1>5, <1>7, <1>9, SameSeq
  <1>12. rbuf = h
    <2>1. \A k \in 1..red : rbuf[k] = h[k]
      BY <1>2, <1>4, <1>8, <1>10
    <2> QED
      BY <2>1, <1>2, <1>8, <1>10, SameSeq
  <1> QED
    BY <1>2, <1>4, <1>6, <1>11, <1>12 DEF d, h

(* A step that leaves the counters and the frames between them leaves the  *)
(* queue.                                                                  *)
LEMMA PendingSame ==
    ASSUME FifoInv, UNCHANGED <<mFront, mRear>>,
           \A j \in 1..Fill : mBuffer'[Index(mFront + j - 1)]
                                = mBuffer[Index(mFront + j - 1)]
    PROVE  Pending' = Pending
  BY DEF Pending, Fill

(* Every step is a step of the abstract queue, or none.                    *)
LEMMA FifoStep == FifoInv /\ FifoInv' /\ [Next]_vars => [Fifo!Next]_(Fifo!vars)
  <1> SUFFICES ASSUME FifoInv, FifoInv', [Next]_vars
               PROVE  [Fifo!Next]_(Fifo!vars)
    OBVIOUS
  <1>0. /\ PipeInv /\ PipeInv' /\ CopyInv
        /\ Written \in 0..mMaxFrames /\ Part1(mRear, Written) \in 0..Written
        /\ mRear \in Counter /\ mFront \in Counter
    <2>1. PipeInv /\ PipeInv' /\ CopyInv /\ TypeOK
      BY DEF FifoInv, PipeInv
    <2>2. Written \in 0..mMaxFrames /\ Part1(mRear, Written) \in 0..Written
      BY <2>1, WrittenRange, Parts
    <2> QED
      BY <2>1, <2>2 DEF TypeOK
  <1>1. UNCHANGED <<wbuf, Pending, out>> => UNCHANGED Fifo!vars
    BY DEF Fifo!vars
  <1>2. UNCHANGED <<mFront, mRear, mBuffer>> => Pending' = Pending
    BY PendingSame
  <1>3. ASSUME UNCHANGED <<Pending, out>>, wbuf = <<>> \/ wbuf' = <<>>
        PROVE  Fifo!Next
    BY <1>3 DEF Fifo!Next, Fifo!Offer
  <1>4. ASSUME NEW n \in 1..MaxCount, Write(n) PROVE Fifo!Next
    <2>1. wbuf = <<>> /\ UNCHANGED <<Pending, out>>
      BY <1>0, <1>2, <1>4 DEF Write, CopyInv, shared, reader
    <2> QED
      BY <2>1, <1>3
  <1>5. CASE WritePart1
    <2>1. 0 \in Nat /\ wpc \in {"part1", "part2"}
      BY <1>5 DEF WritePart1
    <2>2. \A j \in 1..Fill : mBuffer'[Index(mFront + j - 1)]
                               = mBuffer[Index(mFront + j - 1)]
      BY <2>1, <1>0, <1>5, PendingKept DEF WritePart1
    <2> QED
      BY <2>2, <1>1, <1>5, PendingSame DEF WritePart1, reader
  <1>6. CASE WritePart2
    <2>1. Part1(mRear, Written) \in Nat /\ Written \in 0..Written
            /\ wpc \in {"part1", "part2"}
      BY <1>0, <1>6 DEF WritePart2
    <2>2. \A j \in 1..Fill : mBuffer'[Index(mFront + j - 1)]
                               = mBuffer[Index(mFront + j - 1)]
      BY <2>1, <1>0, <1>6, PendingKept DEF WritePart2
    <2> QED
      BY <2>2, <1>1, <1>6, PendingSame DEF WritePart2, reader
  <1>7. CASE WritePublish
    <2>1. /\ Pending' = Pending \o SubSeq(wbuf, 1, Written)
          /\ Len(Pending) + Written <= mMaxFrames
          /\ Written \in 1..Len(wbuf)
      BY <1>0, <1>7, PublishAppends
    <2>2. wbuf' = SubSeq(wbuf, Written + 1, Len(wbuf)) /\ out' = out
      BY <1>7 DEF WritePublish, reader
    <2>3. Fifo!Accept
      BY <2>1, <2>2 DEF Fifo!Accept, Fifo!Drop
    <2> QED
      BY <2>3 DEF Fifo!Next
  <1>8. CASE WriteCheck
    <2>1. UNCHANGED <<Pending, out>> /\ (wbuf' = <<>> \/ wbuf' = wbuf)
      BY <1>2, <1>8 DEF WriteCheck, shared, reader
    <2> QED
      BY <2>1, <1>1, <1>3
  <1>9. CASE UpdateFront
    <2>1. CASE red > 0
      <3>1. /\ out' = SubSeq(Pending, 1, red)
            /\ Pending' = SubSeq(Pending, red + 1, Len(Pending))
            /\ red \in 1..Len(Pending)
        BY <1>0, <1>9, <2>1, FrontDelivers
      <3>2. wbuf' = wbuf
        BY <1>9 DEF UpdateFront, writer
      <3>3. Fifo!Deliver
        BY <3>1, <3>2 DEF Fifo!Deliver, Fifo!Drop
      <3> QED
        BY <3>3 DEF Fifo!Next
    <2>2. CASE ~(red > 0)
      <3>1. red = 0 /\ 0 \in 0..mMaxFrames
        BY <1>0, <2>2, Moduli DEF PipeInv, TypeOK
      <3>2. mFront' = mFront
        <4>1. mFront' = IF 0 + mFront < W THEN 0 + mFront ELSE 0 + mFront - W
          BY <1>0, <1>9, <3>1, MovedIs DEF UpdateFront
        <4> QED
          BY <4>1, <1>0, Moduli DEF Counter
      <3> QED
        BY <3>1, <3>2, <1>1, <1>2, <1>9 DEF UpdateFront, writer
    <2> QED
      BY <2>1, <2>2
  <1>10. ASSUME UNCHANGED <<mFront, mRear, mBuffer, wbuf, out>>
         PROVE  UNCHANGED Fifo!vars
    BY <1>10, <1>1, <1>2
  <1>11. ASSUME NEW n \in 0..MaxCount, NEW pts \in PTS \cup {kInvalidPTS},
                Read(n, pts)
         PROVE  UNCHANGED Fifo!vars
    BY <1>10, <1>11 DEF Read, shared, writer
  <1>12. CASE WriteAvail \/ Shutdown \/ Observer \/ UNCHANGED vars
    <2>1. UNCHANGED <<mFront, mRear, mBuffer, wbuf, out>>
      BY <1>12 DEF WriteAvail, Shutdown, Observer, ObserveSeqOne,
         ObserveFront, ObservePTS, ObserveSeqTwo, vars, shared, writer, reader
    <2> QED
      BY <2>1, <1>10
  <1>13. CASE ReadPart1 \/ ReadPart2 \/ UpdateSeq \/ UpdatePTS \/ UpdateUnseq
    <2>1. UNCHANGED <<mFront, mRear, mBuffer, wbuf, out>>
      BY <1>13 DEF ReadPart1, ReadPart2, UpdateSeq, UpdatePTS, UpdateUnseq,
         shared, writer
    <2> QED
      BY <2>1, <1>10
  <1> QED
    BY <1>4, <1>5, <1>6, <1>7, <1>8, <1>9, <1>11, <1>12, <1>13
    DEF Next, Writer, Reader, Update

(* For every capacity, width of the counters and number of frames per      *)
(* call: the pipe is a bounded queue, and no frame is lost, repeated,      *)
(* reordered or overwritten before read() has copied it.                   *)
THEOREM PipeImplementsFifo == Safety => ImplementsFifo
  <1>1. FifoInv /\ FifoInv' /\ [Next]_vars => [Fifo!Next]_(Fifo!vars)
    BY FifoStep
  <1> QED
    BY <1>1, FifoInit, FifoInvAlways, PTL DEF Safety, ImplementsFifo, Fifo!Spec

=============================================================================
