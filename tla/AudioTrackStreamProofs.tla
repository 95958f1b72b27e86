----------------------- MODULE AudioTrackStreamProofs -----------------------
(***************************************************************************)
(* Proofs about AudioTrackStream for any buffer size, any width of the     *)
(* counters above twice that size, any requests and any starting position. *)
(*                                                                         *)
(* The width need not be a multiple of the buffer size: what keeps both    *)
(* sides in step is the base each index carries along (StepBase).          *)
(*                                                                         *)
(* BaseInv puts each side within its own round of the buffer, through      *)
(* every reset().  RingInv relates the two sides, and CopyInv what they    *)
(* hold to what is in the buffer; these need NoLoop, that no step of the   *)
(* server has ended at UINT_MAX, where stepServer() sees the end of a loop *)
(* nobody set.  EvenInv shows a case where NoLoop is certain.  All of them *)
(* end where a client met the stores of a reset() (ResetRaced), after      *)
(* which the specification takes no further step (RacedStays).             *)
(***************************************************************************)
EXTENDS AudioTrackStream, TLAPS

-----------------------------------------------------------------------------
(* Remainders.  The moduli are constants of any value, which puts them out *)
(* of linear arithmetic: these lemmas bring the facts back into it.        *)

(* % and \div are division with a remainder between 0 and n - 1.           *)
LEMMA ModRange ==
    ASSUME NEW x \in Int, NEW n \in Nat \ {0}
    PROVE  /\ x % n \in 0..(n - 1)
           /\ x \div n \in Int
           /\ x = n * (x \div n) + (x % n)
  BY SMT

(* The remainder is unique.                                                *)
LEMMA ModUnique ==
    ASSUME NEW n \in Nat \ {0}, NEW q \in Int, NEW r \in 0..(n - 1)
    PROVE  (n * q + r) % n = r
  <1> DEFINE x == n * q + r
             d == q - (x \div n)
  <1>1. x \in Int
    OBVIOUS
  <1>2. /\ x % n \in 0..(n - 1) /\ x \div n \in Int
        /\ x = n * (x \div n) + (x % n)
    BY <1>1, ModRange
  <1>3. n * d = (x % n) - r
    BY <1>2
  <1>4. ASSUME d >= 1 PROVE FALSE
    <2>1. n * d >= n
      BY <1>4, <1>2
    <2> QED
      BY <2>1, <1>3, <1>2
  <1>5. ASSUME d <= -1 PROVE FALSE
    <2>1. n * d <= -n
      BY <1>5, <1>2
    <2> QED
      BY <2>1, <1>3, <1>2
  <1> QED
    BY <1>2, <1>3, <1>4, <1>5

(* Within one turn of the modulus, % adds or subtracts it once.            *)
LEMMA ModNear ==
    ASSUME NEW n \in Nat \ {0}, NEW r \in 0..(n - 1)
    PROVE  r % n = r /\ (n + r) % n = r /\ (r - n) % n = r
  <1>1. r = n * 0 + r /\ n + r = n * 1 + r /\ r - n = n * (-1) + r
    OBVIOUS
  <1>2. (n * 0 + r) % n = r /\ (n * 1 + r) % n = r /\ (n * (-1) + r) % n = r
    BY ModUnique
  <1> QED
    BY <1>1, <1>2

-----------------------------------------------------------------------------
(* Counters.                                                               *)

(* The constants, as arithmetic uses them.                                 *)
LEMMA Sizes ==
    /\ mFrameCount \in Nat \ {0} /\ W \in Nat \ {0}
    /\ W > mFrameCount + mFrameCount /\ UINT_MAX = W - 1
    /\ Counter = 0..(W - 1) /\ Counter \subseteq Int
  BY SharedAssumption DEF UINT_MAX, Counter

(* A counter moved forward wraps at most once, ...                         *)
LEMMA PlusIs ==
    ASSUME NEW a \in Counter, NEW n \in 0..mFrameCount
    PROVE  /\ Plus(a, n) = IF a + n < W THEN a + n ELSE a + n - W
           /\ Plus(a, n) \in Counter
  <1>1. CASE a + n < W
    <2>1. a + n \in 0..(W - 1)
      BY <1>1, Sizes
    <2> QED
      BY <1>1, <2>1, Sizes, ModNear DEF Plus
  <1>2. CASE ~(a + n < W)
    <2>1. a + n - W \in 0..(W - 1) /\ W + (a + n - W) = a + n
      BY <1>2, Sizes
    <2> QED
      BY <1>2, <2>1, Sizes, ModNear DEF Plus
  <1> QED
    BY <1>1, <1>2

(* ... and so does the distance between two of them.                       *)
LEMMA MinusIs ==
    ASSUME NEW a \in Counter, NEW b \in Counter
    PROVE  /\ Minus(a, b) = IF a >= b THEN a - b ELSE a - b + W
           /\ Minus(a, b) \in Counter
  <1>1. CASE a >= b
    <2>1. a - b \in 0..(W - 1)
      BY <1>1, Sizes
    <2> QED
      BY <1>1, <2>1, Sizes, ModNear DEF Minus
  <1>2. CASE ~(a >= b)
    <2>1. a - b + W \in 0..(W - 1) /\ (a - b + W) - W = a - b
      BY <1>2, Sizes
    <2> QED
      BY <1>2, <2>1, Sizes, ModNear DEF Minus
  <1> QED
    BY <1>1, <1>2

(* The base of an index that moves up to the end of its round: it follows  *)
(* exactly there, whether or not one of the two wraps meanwhile.           *)
LEMMA Advance ==
    ASSUME NEW base \in Counter, NEW x \in Counter,
           Minus(x, base) \in Offsets, NEW n \in 0..mFrameCount,
           Minus(x, base) + n <= mFrameCount
    PROVE  LET y == Plus(x, n)
               b == StepBase(base, y)
           IN  /\ y \in Counter /\ b \in Counter
               /\ Minus(y, b) = IF Minus(x, base) + n = mFrameCount THEN 0
                                ELSE Minus(x, base) + n
  <1> DEFINE y == Plus(x, n)
             b == StepBase(base, y)
             o == Minus(x, base)
             e == Plus(base, mFrameCount)
  <1>1. /\ y \in Counter /\ y = IF x + n < W THEN x + n ELSE x + n - W
        /\ e \in Counter
        /\ e = IF base + mFrameCount < W THEN base + mFrameCount
               ELSE base + mFrameCount - W
        /\ o = IF x >= base THEN x - base ELSE x - base + W
        /\ o \in 0..(mFrameCount - 1) /\ o + n <= mFrameCount
    BY Sizes, PlusIs, MinusIs DEF Offsets
  <1>2. b = IF y >= mFrameCount
            THEN IF y - mFrameCount >= base THEN e ELSE base
            ELSE IF y >= e THEN e ELSE base
    BY DEF StepBase
  <1> HIDE DEF y, b, o, e
  <1>3. b = IF o + n = mFrameCount THEN y ELSE base
    BY <1>1, <1>2, Sizes
  <1>4. b \in Counter
    BY <1>1, <1>3
  <1>5. Minus(y, b) = IF y >= b THEN y - b ELSE y - b + W
    BY <1>1, <1>4, MinusIs
  <1>6. Minus(y, b) = IF o + n = mFrameCount THEN 0 ELSE o + n
    BY <1>1, <1>3, <1>5, Sizes
  <1> QED
    BY <1>1, <1>4, <1>6 DEF y, b, o

(* What is left of its round, as both sides compute it.                    *)
LEMMA ToTheEnd ==
    ASSUME NEW base \in Counter, NEW x \in Counter, Minus(x, base) \in Offsets
    PROVE  Minus(Plus(base, mFrameCount), x) = mFrameCount - Minus(x, base)
  <1> DEFINE o == Minus(x, base)
             e == Plus(base, mFrameCount)
  <1>1. /\ e \in Counter
        /\ e = IF base + mFrameCount < W THEN base + mFrameCount
               ELSE base + mFrameCount - W
        /\ o = IF x >= base THEN x - base ELSE x - base + W
        /\ o \in 0..(mFrameCount - 1)
    BY Sizes, PlusIs, MinusIs DEF Offsets
  <1>2. Minus(e, x) = IF e >= x THEN e - x ELSE e - x + W
    BY <1>1, MinusIs
  <1> HIDE DEF o, e
  <1>3. Minus(e, x) = mFrameCount - o
    BY <1>1, <1>2, Sizes
  <1> QED
    BY <1>3 DEF o, e

(* The room that framesAvailable() computes.                               *)
LEMMA Room ==
    ASSUME NEW u \in Counter, NEW s \in Counter, Minus(u, s) <= mFrameCount
    PROVE  Minus(Plus(s, mFrameCount), u) = mFrameCount - Minus(u, s)
  <1> DEFINE f == Minus(u, s)
             e == Plus(s, mFrameCount)
  <1>1. /\ e \in Counter
        /\ e = IF s + mFrameCount < W THEN s + mFrameCount
               ELSE s + mFrameCount - W
        /\ f = IF u >= s THEN u - s ELSE u - s + W
        /\ f \in Counter /\ f <= mFrameCount
    BY Sizes, PlusIs, MinusIs
  <1>2. Minus(e, u) = IF e >= u THEN e - u ELSE e - u + W
    BY <1>1, MinusIs
  <1> HIDE DEF f, e
  <1>3. Minus(e, u) = mFrameCount - f
    BY <1>1, <1>2, Sizes
  <1> QED
    BY <1>3 DEF f, e

(* The distance of user and server when one of them moves.                 *)
LEMMA UserMoves ==
    ASSUME NEW u \in Counter, NEW s \in Counter, NEW n \in 0..mFrameCount,
           Minus(u, s) + n <= mFrameCount
    PROVE  Minus(Plus(u, n), s) = Minus(u, s) + n
  <1> DEFINE f == Minus(u, s)
             v == Plus(u, n)
  <1>1. /\ v \in Counter /\ v = IF u + n < W THEN u + n ELSE u + n - W
        /\ f = IF u >= s THEN u - s ELSE u - s + W
        /\ f \in Counter /\ f + n <= mFrameCount
    BY Sizes, PlusIs, MinusIs
  <1>2. Minus(v, s) = IF v >= s THEN v - s ELSE v - s + W
    BY <1>1, MinusIs
  <1> HIDE DEF f, v
  <1>3. Minus(v, s) = f + n
    BY <1>1, <1>2, Sizes
  <1> QED
    BY <1>3 DEF f, v

(* The same for the server.                                                *)
LEMMA ServerMoves ==
    ASSUME NEW u \in Counter, NEW s \in Counter, NEW n \in 0..mFrameCount,
           n <= Minus(u, s)
    PROVE  Minus(u, Plus(s, n)) = Minus(u, s) - n
  <1> DEFINE f == Minus(u, s)
             v == Plus(s, n)
  <1>1. /\ v \in Counter /\ v = IF s + n < W THEN s + n ELSE s + n - W
        /\ f = IF u >= s THEN u - s ELSE u - s + W
        /\ f \in Counter /\ n <= f
    BY Sizes, PlusIs, MinusIs
  <1>2. Minus(u, v) = IF u >= v THEN u - v ELSE u - v + W
    BY <1>1, MinusIs
  <1> HIDE DEF f, v
  <1>3. Minus(u, v) = f - n
    BY <1>1, <1>2, Sizes
  <1> QED
    BY <1>3 DEF f, v

-----------------------------------------------------------------------------
(* What the methods of the control block do.                               *)

(* A loop was never set: the points of one stay at UINT_MAX.               *)
NoLoopPoints(c) == c.loopStart = UINT_MAX /\ c.loopEnd = UINT_MAX

(* stepUser() moves user up to the end of its round.                       *)
LEMMA StepUserIs ==
    ASSUME NEW c \in Cblk, UserOffset(c) \in Offsets,
           NEW n \in 0..mFrameCount, UserOffset(c) + n <= mFrameCount
    PROVE  LET d == StepUser(c, n)
           IN  /\ d \in Cblk
               /\ d.user = Plus(c.user, n)
               /\ d.server = c.server
               /\ d.serverBase = c.serverBase /\ d.loopStart = c.loopStart
               /\ d.loopEnd = c.loopEnd /\ d.loopCount = c.loopCount
               /\ UserOffset(d) = IF UserOffset(c) + n = mFrameCount THEN 0
                                  ELSE UserOffset(c) + n
  <1> DEFINE y == Plus(c.user, n)
             b == StepBase(c.userBase, y)
             d == StepUser(c, n)
  <1>1. c.user \in Counter /\ c.userBase \in Counter
    BY DEF Cblk
  <1>2. /\ y \in Counter /\ b \in Counter
        /\ Minus(y, b) = IF Minus(c.user, c.userBase) + n = mFrameCount THEN 0
                         ELSE Minus(c.user, c.userBase) + n
    BY <1>1, Advance DEF UserOffset
  <1>3. d = [c EXCEPT !.user = y, !.userBase = b]
    BY DEF StepUser
  <1> HIDE DEF y, b, d
  <1>4. /\ d \in Cblk /\ d.user = y /\ d.userBase = b /\ d.server = c.server
        /\ d.serverBase = c.serverBase /\ d.loopStart = c.loopStart
        /\ d.loopEnd = c.loopEnd /\ d.loopCount = c.loopCount
    BY <1>2, <1>3 DEF Cblk
  <1> QED
    BY <1>2, <1>4 DEF UserOffset, y, d

(* stepServer() does the same to server: a step that ends at UINT_MAX is   *)
(* taken for the end of a loop, and jumps to where it is.  A server that   *)
(* finds itself at user stays there.                                       *)
LEMMA StepServerIs ==
    ASSUME NEW c \in Cblk, NoLoopPoints(c), ServerOffset(c) \in Offsets,
           NEW n \in 0..mFrameCount, ServerOffset(c) + n <= mFrameCount
    PROVE  LET d == StepServer(c, n)
               m == IF c.server = c.user THEN 0 ELSE n
           IN  /\ d \in Cblk /\ NoLoopPoints(d)
               /\ d.server = Plus(c.server, m)
               /\ d.user = c.user /\ d.userBase = c.userBase
               /\ ServerOffset(d) = IF ServerOffset(c) + m = mFrameCount THEN 0
                                    ELSE ServerOffset(c) + m
               /\ d.loopCount = IF d.server = UINT_MAX THEN c.loopCount - 1
                                ELSE c.loopCount
  <1> DEFINE m == IF c.server = c.user THEN 0 ELSE n
             y == Plus(c.server, m)
             b == StepBase(c.serverBase, y)
             d == StepServer(c, n)
             k == IF y = UINT_MAX THEN c.loopCount - 1 ELSE c.loopCount
  <1>1. /\ c.server \in Counter /\ c.serverBase \in Counter
        /\ c.user \in Counter /\ c.loopCount \in Int
        /\ c.loopStart = UINT_MAX /\ c.loopEnd = UINT_MAX
    BY DEF Cblk, NoLoopPoints
  <1>2. /\ m \in 0..mFrameCount /\ ServerOffset(c) \in Offsets
        /\ ServerOffset(c) + m <= mFrameCount
    BY Sizes DEF Offsets
  <1> HIDE DEF m
  <1>3. /\ y \in Counter /\ b \in Counter
        /\ Minus(y, b)
             = IF Minus(c.server, c.serverBase) + m = mFrameCount THEN 0
               ELSE Minus(c.server, c.serverBase) + m
    BY <1>1, <1>2, Advance DEF ServerOffset
  <1>4. c.server = c.user => y = c.server
    <2>1. ASSUME c.server = c.user PROVE m = 0 /\ 0 \in 0..mFrameCount
      BY <2>1, Sizes DEF m
    <2>2. ASSUME c.server = c.user
          PROVE  y = IF c.server + 0 < W THEN c.server + 0
                     ELSE c.server + 0 - W
      BY <1>1, <2>1, <2>2, PlusIs
    <2> QED
      BY <1>1, <2>2, Sizes
  <1>5. (IF c.server = c.user THEN c.user ELSE Plus(c.server, n)) = y
    BY <1>4 DEF m
  <1> HIDE DEF y
  <1>6. /\ y >= c.loopEnd <=> y = UINT_MAX
        /\ (IF y >= c.loopEnd THEN c.loopStart ELSE y) = y
    BY <1>1, <1>3, Sizes
  <1>7. d = [c EXCEPT !.server = y, !.serverBase = b, !.loopCount = k,
                      !.loopStart = UINT_MAX, !.loopEnd = UINT_MAX]
    BY <1>1, <1>5, <1>6 DEF StepServer, Cblk
  <1>8. k \in Int /\ UINT_MAX \in Counter
    BY <1>1, Sizes
  <1> HIDE DEF b, d, k
  <1>9. /\ d \in Cblk /\ d.user = c.user /\ d.userBase = c.userBase
        /\ d.server = y /\ d.serverBase = b /\ d.loopStart = UINT_MAX
        /\ d.loopEnd = UINT_MAX /\ d.loopCount = k
    BY <1>3, <1>7, <1>8 DEF Cblk
  <1> QED
    BY <1>3, <1>9 DEF ServerOffset, NoLoopPoints, m, y, d, k

(* obtainBuffer() stays within the request, the room and the round.        *)
LEMMA ObtainFramesIs ==
    ASSUME NEW c \in Cblk, UserOffset(c) \in Offsets,
           NEW req \in Nat, NEW avail \in Counter
    PROVE  LET g == ObtainFrames(c, req, avail)
           IN  /\ g \in 0..mFrameCount /\ g <= req /\ g <= avail
               /\ UserOffset(c) + g <= mFrameCount
               /\ g \in {req, avail, mFrameCount - UserOffset(c)}
  <1>1. c.user \in Counter /\ c.userBase \in Counter
    BY DEF Cblk
  <1>2. Minus(Plus(c.userBase, mFrameCount), c.user)
          = mFrameCount - UserOffset(c)
    BY <1>1, ToTheEnd DEF UserOffset
  <1> QED
    BY <1>2, Sizes DEF ObtainFrames, Lesser, Offsets

(* getNextBuffer() stays within the request, what is ready and the round.  *)
LEMMA NextBufferFramesIs ==
    ASSUME NEW c \in Cblk, NoLoopPoints(c), ServerOffset(c) \in Offsets,
           NEW req \in Nat, NEW ready \in Counter
    PROVE  LET n == NextBufferFrames(c, req, ready)
           IN  /\ n \in 0..mFrameCount /\ n <= req /\ n <= ready
               /\ ServerOffset(c) + n <= mFrameCount
               /\ n \in {req, ready, mFrameCount - ServerOffset(c)}
  <1>1. c.server \in Counter /\ c.serverBase \in Counter
    BY DEF Cblk
  <1>2. Minus(Plus(c.serverBase, mFrameCount), c.server)
          = mFrameCount - ServerOffset(c)
    BY <1>1, ToTheEnd DEF ServerOffset
  <1>3. Lesser(c.loopEnd, Plus(c.serverBase, mFrameCount))
          = Plus(c.serverBase, mFrameCount)
    <2>1. mFrameCount \in 0..mFrameCount
      BY Sizes
    <2>2. Plus(c.serverBase, mFrameCount) \in Counter
      BY <1>1, <2>1, PlusIs
    <2> QED
      BY <2>2, Sizes DEF Lesser, NoLoopPoints
  <1>4. NextBufferFrames(c, req, ready)
          = Lesser(Lesser(req, ready), mFrameCount - ServerOffset(c))
    BY <1>2, <1>3 DEF NextBufferFrames
  <1> QED
    BY <1>4, Sizes DEF Lesser, Offsets

(* framesReady() is a counter, and without a loop the distance, or nothing *)
(* while the lock is busy.                                                 *)
LEMMA FramesReadyIs ==
    ASSUME NEW c \in Cblk, NoLoopPoints(c), NEW locked \in BOOLEAN
    PROVE  /\ FramesReady(c, locked) \in Counter
           /\ c.loopCount = 0
                 => /\ FramesReady(c, locked) <= Minus(c.user, c.server)
                    /\ FramesReady(c, locked) \in {0, Minus(c.user, c.server)}
  <1>1. /\ c.user \in Counter /\ c.server \in Counter /\ c.loopCount \in Int
        /\ c.loopStart = UINT_MAX /\ c.loopEnd = UINT_MAX
    BY DEF Cblk, NoLoopPoints
  <1>2. Minus(c.user, c.server) \in Counter
    BY <1>1, MinusIs
  <1>3. (c.loopEnd - c.loopStart) * c.loopCount + c.user - c.server
          = c.user - c.server
    BY <1>1, Sizes
  <1>4. FramesReady(c, locked)
          = IF c.user < c.loopEnd THEN Minus(c.user, c.server)
            ELSE IF ~locked THEN 0
            ELSE IF c.loopCount >= 0 THEN Minus(c.user, c.server)
            ELSE UINT_MAX
    BY <1>3 DEF FramesReady, Minus
  <1>5. 0 \in Counter /\ UINT_MAX \in Counter /\ 0 <= Minus(c.user, c.server)
        /\ Minus(c.user, c.server) <= Minus(c.user, c.server)
    BY <1>2, Sizes
  <1>6. CASE c.user < c.loopEnd
    BY <1>4, <1>5, <1>2, <1>6
  <1>7. CASE ~(c.user < c.loopEnd) /\ ~locked
    BY <1>4, <1>5, <1>2, <1>7
  <1>8. CASE ~(c.user < c.loopEnd) /\ locked
    BY <1>4, <1>5, <1>2, <1>8
  <1> QED
    BY <1>6, <1>7, <1>8

(* framesAvailable() is a counter, and what the distance leaves.           *)
LEMMA FramesAvailableIs ==
    ASSUME NEW c \in Cblk, NoLoopPoints(c)
    PROVE  /\ FramesAvailable(c) \in Counter
           /\ Minus(c.user, c.server) <= mFrameCount
                => FramesAvailable(c) = mFrameCount - Minus(c.user, c.server)
  <1>1. /\ c.user \in Counter /\ c.server \in Counter
        /\ mFrameCount \in 0..mFrameCount
    BY Sizes DEF Cblk
  <1>2. Lesser(c.server, c.loopStart) = c.server
    BY <1>1, Sizes DEF Lesser, NoLoopPoints
  <1>3. FramesAvailable(c) = Minus(Plus(c.server, mFrameCount), c.user)
    BY <1>2 DEF FramesAvailable
  <1>4. Plus(c.server, mFrameCount) \in Counter
    BY <1>1, PlusIs
  <1> QED
    BY <1>1, <1>3, <1>4, MinusIs, Room

-----------------------------------------------------------------------------
(* Each side within its own round.  This part holds also for a stream that *)
(* has started a loop by ending a step at UINT_MAX.  A behaviour that has  *)
(* met the race with reset() is only followed as far as its types.         *)

UserOff   == UserOffset(cblk)
ServerOff == ServerOffset(cblk)

(* What obtainBuffer() granted stays granted until it is released, within  *)
(* the round it was granted in and, after a reset(), the first round.      *)
UserInv ==
    /\ UserOff \in Offsets /\ region \in Offsets
    /\ UserOff + granted <= mFrameCount /\ region + granted <= mFrameCount
    /\ wpc \notin {"copy", "release"} => granted = 0
    /\ wpc = "idle" => wbuf = <<>>

(* The block getNextBuffer() handed out is held until the step over it is  *)
(* made, also while that step is owed.                                     *)
ServerInv ==
    /\ ServerOff \in Offsets
    /\ ServerOff + Len(block) <= mFrameCount
    /\ block = <<>> <=> spc \notin {"mix", "step"} /\ ~mStepServerFailed
    /\ spc \in {"mix", "step"} => ~mStepServerFailed

(* The mixer does not mix a track it does not have, and a track the client *)
(* has active is not reset.                                                *)
TrackInv ==
    /\ ~listed => spc \notin {"mix", "step"}
    /\ mActive => mState = "ACTIVE"
    /\ spc = "reset" => ~mActive

BaseInv ==
    TypeOK /\ NoLoopPoints(cblk) /\ UserInv /\ ServerInv /\ TrackInv

(* After the race nothing moves.                                           *)
RacedInv == raced => mLock = "raced" /\ spc = "raced"

(* A function on 1..n is a sequence of n elements.                         *)
LEMMA FunctionIsSeq ==
    ASSUME NEW S, NEW n \in Nat, NEW f \in [1..n -> S]
    PROVE  f \in Seq(S) /\ Len(f) = n
  OBVIOUS

(* The empty sequence is one over every set, and the only one of length 0. *)
LEMMA EmptySeq ==
    ASSUME NEW S
    PROVE  <<>> \in Seq(S) /\ Len(<<>>) = 0
           /\ \A s \in Seq(S) : Len(s) = 0 => s = <<>>
  OBVIOUS

(* What is left of a batch after its first n frames.                       *)
LEMMA DropIs ==
    ASSUME NEW S, NEW s \in Seq(S), NEW n \in 0..Len(s)
    PROVE  /\ Drop(s, n) \in Seq(S) /\ Len(Drop(s, n)) = Len(s) - n
           /\ n = Len(s) => Drop(s, n) = <<>>
  BY DEF Drop

(* The offset k - 1 frames after o, without %.                             *)
LEMMA OffsetIs ==
    ASSUME NEW o \in Offsets, NEW k \in 1..mFrameCount
    PROVE  /\ (o + k - 1) % mFrameCount \in Offsets
           /\ (o + k - 1) % mFrameCount
                = IF o + k - 1 < mFrameCount THEN o + k - 1
                  ELSE o + k - 1 - mFrameCount
  <1>1. CASE o + k - 1 < mFrameCount
    <2>1. o + k - 1 \in 0..(mFrameCount - 1)
      BY <1>1, Sizes DEF Offsets
    <2> QED
      BY <1>1, <2>1, Sizes, ModNear DEF Offsets
  <1>2. CASE ~(o + k - 1 < mFrameCount)
    <2>1. /\ o + k - 1 - mFrameCount \in 0..(mFrameCount - 1)
          /\ mFrameCount + (o + k - 1 - mFrameCount) = o + k - 1
      BY <1>2, Sizes DEF Offsets
    <2> QED
      BY <1>2, <2>1, Sizes, ModNear DEF Offsets
  <1> QED
    BY <1>1, <1>2

(* What the mixer reads of the buffer.                                     *)
LEMMA ReadBlockIs ==
    ASSUME TypeOK, ServerOff \in Offsets, NEW n \in 0..mFrameCount
    PROVE  /\ ReadBlock(cblk, n) \in Seq(Frames)
           /\ Len(ReadBlock(cblk, n)) = n
           /\ \A k \in 1..n : ReadBlock(cblk, n)[k]
                                = buffer[(ServerOff + k - 1) % mFrameCount]
  <1> DEFINE f == ReadBlock(cblk, n)
  <1>1. f = [k \in 1..n |-> buffer[(ServerOff + k - 1) % mFrameCount]]
    BY DEF ReadBlock, ServerOff
  <1>2. ASSUME NEW k \in 1..n
        PROVE  buffer[(ServerOff + k - 1) % mFrameCount] \in Frames
    <2>1. k \in 1..mFrameCount
      BY Sizes
    <2>2. (ServerOff + k - 1) % mFrameCount \in Offsets
      BY <2>1, OffsetIs
    <2> QED
      BY <2>2 DEF TypeOK
  <1> HIDE DEF f
  <1>3. f \in [1..n -> Frames]
    BY <1>1, <1>2
  <1>4. f \in Seq(Frames) /\ Len(f) = n
    BY <1>3, FunctionIsSeq
  <1> QED
    BY <1>1, <1>4 DEF f

(* The first state of a stream, whatever position it starts from.          *)
LEMMA BaseInvInit == Init => BaseInv /\ RacedInv
  <1> SUFFICES ASSUME Init PROVE BaseInv /\ RacedInv
    OBVIOUS
  <1>1. PICK p \in Counter : cblk = NewCblk(p)
    BY StreamAssumption DEF Init
  <1>2. cblk \in Cblk /\ NoLoopPoints(cblk)
    BY <1>1, Sizes DEF NewCblk, Cblk, NoLoopPoints
  <1>3. Minus(p, p) = 0
    BY MinusIs, Sizes
  <1>4. UserOff = 0 /\ ServerOff = 0 /\ 0 \in Offsets
    BY <1>1, <1>3, Sizes
       DEF NewCblk, UserOff, ServerOff, UserOffset, ServerOffset, Offsets
  <1>5. 0 \in Counter /\ 0 \in 0..0 /\ 0 \in 0..MaxWritten /\ 0 \in Frames
    BY Sizes, StreamAssumption DEF Frames
  <1>6. TypeOK
    BY <1>2, <1>5, EmptySeq DEF Init, TypeOK
  <1>7. UserInv /\ ServerInv /\ TrackInv /\ RacedInv
    BY <1>4, EmptySeq, Sizes
       DEF Init, UserInv, ServerInv, TrackInv, RacedInv, raced
  <1> QED
    BY <1>2, <1>6, <1>7 DEF BaseInv

-----------------------------------------------------------------------------
(* reset()                                                                 *)

(* It leaves both sides at the start of the first round and nothing        *)
(* between them.                                                           *)
LEMMA ResetCblkIs ==
    ASSUME NEW c \in Cblk
    PROVE  LET d == ResetCblk(c)
           IN  /\ d \in Cblk /\ d.user = 0 /\ d.server = 0
               /\ d.loopStart = c.loopStart /\ d.loopEnd = c.loopEnd
               /\ d.loopCount = c.loopCount
               /\ UserOffset(d) = 0 /\ ServerOffset(d) = 0
               /\ Minus(d.user, d.server) = 0
  <1> DEFINE d == ResetCblk(c)
  <1>1. 0 \in Counter /\ Minus(0, 0) = 0
    BY Sizes, MinusIs
  <1>2. /\ d \in Cblk /\ d.user = 0 /\ d.server = 0 /\ d.userBase = 0
        /\ d.serverBase = 0
        /\ d.loopStart = c.loopStart /\ d.loopEnd = c.loopEnd
        /\ d.loopCount = c.loopCount
    BY <1>1 DEF ResetCblk, Cblk
  <1> HIDE DEF d
  <1> QED
    BY <1>1, <1>2 DEF UserOffset, ServerOffset, d

(* A step that resets, as the stream sees it.                              *)
ResetStep ==
    /\ cblk' = ResetCblk(cblk) /\ block' = <<>> /\ mStepServerFailed' = FALSE
    /\ spc' \notin {"mix", "step"}
    /\ UNCHANGED <<buffer, wpc, wbuf, framesAvail, region, granted, delivered>>

(* The steps that end the track reset it, or leave the stream alone.       *)
LEMMA EndSteps ==
    ASSUME TrackInv, StopTrack \/ Flush \/ ResetTrack
    PROVE  /\ ~mActive'
           /\ \/ ResetStep
              \/ ~ResetTrack /\ UNCHANGED <<cblk, buffer, wpc, wbuf,
                        framesAvail, region, granted, spc, block,
                        mStepServerFailed, delivered>>
  <1>1. ASSUME NEW s, EndTo(s), UNCHANGED spc
        PROVE  \/ /\ cblk' = ResetCblk(cblk) /\ block' = <<>>
                  /\ mStepServerFailed' = FALSE /\ spc' \notin {"mix", "step"}
               \/ UNCHANGED <<cblk, block, mStepServerFailed, spc>>
    BY <1>1 DEF EndTo, ResetTo, TrackInv
  <1>2. CASE StopTrack
    <2>1. EndTo("STOPPED") /\ UNCHANGED spc /\ ~mActive'
      BY <1>2 DEF StopTrack
    <2>2. /\ UNCHANGED <<buffer, wpc, wbuf, framesAvail, region, granted,
                         delivered>>
          /\ mActive
      BY <1>2 DEF StopTrack
    <2>3. ~ResetTrack \/ ResetStep
      BY <2>1, <2>2 DEF ResetTrack, TrackInv
    <2> QED
      BY <1>1, <2>1, <2>2, <2>3 DEF ResetStep
  <1>3. CASE Flush
    <2>1. EndTo("FLUSHED") /\ UNCHANGED spc
      BY <1>3 DEF Flush
    <2>2. /\ UNCHANGED <<buffer, wpc, wbuf, framesAvail, region, granted,
                         delivered>>
          /\ ~mActive'
      BY <1>3 DEF Flush, client
    <2>3. ~ResetTrack
      BY <2>1 DEF ResetTrack, EndTo, ThreadLockFree
    <2> QED
      BY <1>1, <2>1, <2>2, <2>3 DEF ResetStep
  <1>4. CASE ResetTrack
    BY <1>4 DEF ResetTrack, ResetTo, ResetStep, TrackInv, client, writer
  <1> QED
    BY <1>2, <1>3, <1>4

(* stepUser() is a counter's business whatever it finds.                   *)
LEMMA StepUserType ==
    ASSUME NEW c \in Cblk, NEW n \in Nat
    PROVE  StepUser(c, n) \in Cblk
  <1> DEFINE u == Plus(c.user, n)
             b == StepBase(c.userBase, u)
  <1>1. c.user \in Int /\ c.userBase \in Int /\ c.userBase \in Counter
    BY Sizes DEF Cblk
  <1>2. ASSUME NEW x \in Int, NEW y \in Int PROVE Plus(x, y) \in Counter
    <2>1. x + y \in Int
      OBVIOUS
    <2> QED
      BY <2>1, ModRange, Sizes DEF Plus
  <1>3. u \in Counter /\ Plus(c.userBase, mFrameCount) \in Counter
    <2>1. n \in Int /\ mFrameCount \in Int
      BY Sizes
    <2> QED
      BY <1>1, <1>2, <2>1
  <1>4. b \in Counter
    BY <1>1, <1>3 DEF StepBase
  <1>5. StepUser(c, n) = [c EXCEPT !.user = u, !.userBase = b]
    BY DEF StepUser
  <1> HIDE DEF u, b
  <1> QED
    BY <1>3, <1>4, <1>5 DEF Cblk

(* Whatever the race leaves is of the right type.                          *)
LEMMA RaceType == TypeOK /\ ResetRaced => TypeOK' /\ RacedInv' /\ raced'
  <1> SUFFICES ASSUME TypeOK, ResetRaced PROVE TypeOK' /\ RacedInv' /\ raced'
    OBVIOUS
  <1>1. cblk \in Cblk /\ granted \in Nat
    BY DEF TypeOK
  <1>2. PICK u \in {cblk.user, 0}, s \in {cblk.server, 0},
             b \in {cblk.userBase, 0} :
          LET seen == [cblk EXCEPT !.user = u, !.server = s, !.userBase = b]
          IN  cblk' = IF wpc = "release" THEN StepUser(seen, granted) ELSE seen
    BY DEF ResetRaced
  <1> DEFINE seen == [cblk EXCEPT !.user = u, !.server = s, !.userBase = b]
  <1>3. seen \in Cblk
    <2>1. u \in Counter /\ s \in Counter /\ b \in Counter
      BY <1>1, Sizes DEF Cblk
    <2> QED
      BY <1>1, <2>1 DEF Cblk
  <1>4. cblk' = StepUser(seen, granted) \/ cblk' = seen
    BY <1>2
  <1> HIDE DEF seen
  <1>5. cblk' \in Cblk
    BY <1>1, <1>3, <1>4, StepUserType
  <1>6. /\ wpc' = "raced" /\ spc' = "raced" /\ mLock' = "raced"
        /\ UNCHANGED <<buffer, lock, disabled, mActive, wbuf, caller,
                       framesAvail, region, granted, signalled, total, track,
                       block, mStepServerFailed, delivered>>
    BY DEF ResetRaced
  <1> QED
    BY <1>5, <1>6 DEF TypeOK, RacedInv, raced, track

(* After the race there are no more steps.                                 *)
LEMMA RacedStays == raced /\ RacedInv /\ [Next]_vars => UNCHANGED vars
  <1> SUFFICES ASSUME raced, RacedInv, [Next]_vars PROVE UNCHANGED vars
    OBVIOUS
  <1>1. wpc = "raced" /\ mLock = "raced" /\ spc = "raced"
    BY DEF raced, RacedInv
  <1> QED
    BY <1>1 DEF Next, WriterStep, Mixer, Start, StopTrack, StopLoop, Pause,
       Flush, Write, ObtainEnter, ObtainLock, ObtainAvailable, ObtainRecheck,
       ObtainGrant, ObtainSleep, ObtainWoken, ObtainTimeout, ObtainResume,
       CopyFrames, ReleaseFrames, GetNextBuffer, MixBlock, StepOwed, StepDone,
       PrepareShort, EndPaused, EndStopped, DropTrack, ResetTrack, ResetRaced,
       Finished

(* Only the race leads there.                                              *)
LEMMA NoNewRace == ~raced /\ [Next]_vars /\ ~ResetRaced => ~raced'
  BY DEF raced, Next, WriterStep, Mixer, Start, StopTrack, StopLoop, Pause,
     Flush, Write, ObtainEnter, ObtainLock, ObtainAvailable, ObtainRecheck,
     ObtainGrant, ObtainSleep, ObtainWoken, ObtainTimeout, ObtainResume,
     CopyFrames, ReleaseFrames, GetNextBuffer, MixBlock, StepOwed, StepDone,
     PrepareShort, EndPaused, EndStopped, DropTrack, ResetTrack, Finished,
     vars, writer

-----------------------------------------------------------------------------
(* The Track is only changed with the playback thread's mLock held.        *)
LEMMA TrackInvNext == TypeOK /\ TrackInv /\ Next => TrackInv'
  <1> SUFFICES ASSUME TypeOK, TrackInv, Next PROVE TrackInv'
    OBVIOUS
  <1>1. ASSUME StartTrack, UNCHANGED spc PROVE TrackInv'
    BY <1>1 DEF TrackInv, StartTrack, ThreadLockFree
  <1>2. ASSUME UNCHANGED <<mState, listed, spc, mActive>> PROVE TrackInv'
    BY <1>2 DEF TrackInv
  <1>3. CASE Start
    BY <1>1, <1>3 DEF Start, mixer
  <1>4. CASE StopTrack \/ Pause \/ Flush
    BY <1>4 DEF TrackInv, StopTrack, Pause, Flush, EndTo, ResetTo, client,
       mixer, ThreadLockFree
  <1>5. CASE ObtainResume
    BY <1>1, <1>2, <1>5 DEF ObtainResume, mixer, track
  <1>6. CASE ReleaseFrames
    BY <1>1, <1>2, <1>6 DEF ReleaseFrames, mixer, track, client
  <1>7. CASE \/ StopLoop \/ \E n \in Requests : Write(n)
             \/ ObtainEnter \/ ObtainLock \/ ObtainAvailable \/ ObtainRecheck
             \/ ObtainGrant \/ ObtainSleep \/ ObtainWoken \/ ObtainTimeout
             \/ CopyFrames \/ Finished
    BY <1>2, <1>7 DEF StopLoop, Write, ObtainEnter, ObtainLock,
       ObtainAvailable, ObtainRecheck, ObtainGrant, ObtainSleep, ObtainWoken,
       ObtainTimeout, CopyFrames, Finished, vars, track, mixer, client
  <1>8. CASE (\E n \in Requests : GetNextBuffer(n)) \/ MixBlock \/ StepOwed
             \/ StepDone \/ PrepareShort \/ DropTrack \/ EndPaused
             \/ EndStopped \/ ResetTrack \/ ResetRaced
    BY <1>8 DEF TrackInv, GetNextBuffer, MixBlock, StepOwed, StepDone,
       PrepareShort, DropTrack, EndPaused, EndStopped, ResetTrack, ResetRaced,
       track, mixer, client
  <1> QED
    BY <1>3, <1>4, <1>5, <1>6, <1>7, <1>8 DEF Next, WriterStep, Mixer

(* Types of what the server keeps of the Track.                            *)
TrackType ==
    /\ mState \in {"IDLE", "ACTIVE", "PAUSED", "STOPPED", "FLUSHED"}
    /\ listed \in BOOLEAN /\ mResetDone \in BOOLEAN

LEMMA StartType == TypeOK /\ (StartTrack \/ UNCHANGED track) => TrackType'
  BY DEF TypeOK, StartTrack, TrackType, track

LEMMA EndType ==
    ASSUME TypeOK, NEW s \in {"STOPPED", "FLUSHED"}, EndTo(s)
    PROVE  TrackType'
  BY DEF TypeOK, EndTo, ResetTo, TrackType

(* A region granted: within the rest of the round, and of the batch.       *)
LEMMA GrantIs ==
    ASSUME BaseInv
    PROVE  LET g == ObtainFrames(cblk, Len(wbuf), framesAvail)
           IN  /\ g \in 0..Len(wbuf) /\ g \in 0..mFrameCount
               /\ g <= framesAvail /\ UserOff + g <= mFrameCount
  <1>1. /\ cblk \in Cblk /\ Len(wbuf) \in Nat /\ framesAvail \in Counter
        /\ UserOff \in Offsets
    BY DEF BaseInv, TypeOK, UserInv
  <1> DEFINE g == ObtainFrames(cblk, Len(wbuf), framesAvail)
  <1>2. /\ g \in 0..mFrameCount /\ g <= Len(wbuf) /\ g <= framesAvail
        /\ UserOff + g <= mFrameCount
    BY <1>1, ObtainFramesIs DEF UserOff
  <1> HIDE DEF g
  <1>3. g \in 0..Len(wbuf)
    BY <1>1, <1>2, Sizes
  <1> QED
    BY <1>2, <1>3 DEF g

(* Every step but the race keeps it.                                       *)
LEMMA BaseInvNext ==
    ASSUME BaseInv, [Next]_vars, ~ResetRaced
    PROVE  BaseInv'
  <1>0. TypeOK /\ NoLoopPoints(cblk) /\ UserInv /\ ServerInv /\ TrackInv
    BY DEF BaseInv
  <1>1. ASSUME UNCHANGED cblk
        PROVE  /\ cblk' \in Cblk /\ NoLoopPoints(cblk)'
               /\ UserOff' = UserOff /\ ServerOff' = ServerOff
    BY <1>0, <1>1 DEF TypeOK, UserOff, ServerOff, NoLoopPoints
  <1>2. ASSUME UNCHANGED <<cblk, block, mStepServerFailed>>,
               spc = spc' \/ {spc, spc'} \subseteq {"idle", "short", "reset"}
        PROVE  ServerInv'
    BY <1>0, <1>1, <1>2 DEF ServerInv
  <1>3. ASSUME UNCHANGED <<cblk, wpc, wbuf, region, granted>> PROVE UserInv'
    BY <1>0, <1>1, <1>3 DEF UserInv
  <1>4. TrackInv'
    BY <1>0, TrackInvNext DEF vars, client, track, mixer, TrackInv
  <1>5. CASE \/ Start \/ Pause \/ PrepareShort \/ DropTrack \/ EndPaused
             \/ EndStopped
    <2>1. /\ UNCHANGED <<cblk, wpc, wbuf, region, granted, block,
                         mStepServerFailed>>
          /\ spc = spc' \/ {spc, spc'} \subseteq {"idle", "short", "reset"}
      BY <1>5 DEF Start, Pause, PrepareShort, DropTrack, EndPaused,
         EndStopped, writer, mixer
    <2>2. TypeOK'
      <3>1. CASE Start
        BY <1>0, <3>1, StartType DEF TypeOK, TrackType, Start, writer, mixer
      <3>2. CASE \/ Pause \/ PrepareShort \/ DropTrack \/ EndPaused
                 \/ EndStopped
        <4>1. /\ UNCHANGED <<cblk, buffer, lock, mLock, wpc, wbuf, caller,
                              framesAvail, region, granted, total, mResetDone,
                              block, mStepServerFailed, delivered>>
              /\ mState' \in {mState, "PAUSED"}
              /\ spc' \in {spc, "idle", "short", "reset"}
          BY <3>2 DEF Pause, PrepareShort, DropTrack, EndPaused, EndStopped,
             writer, mixer, track, client
        <4>2. /\ signalled' \in BOOLEAN /\ disabled' \in BOOLEAN
              /\ mActive' \in BOOLEAN /\ listed' \in BOOLEAN
          BY <1>0, <3>2 DEF TypeOK, Pause, Signal, PrepareShort, DropTrack,
             EndPaused, EndStopped, writer, track, client
        <4> QED
          BY <1>0, <4>1, <4>2 DEF TypeOK
      <3> QED
        BY <1>5, <3>1, <3>2
    <2> QED
      BY <2>1, <2>2, <1>1, <1>2, <1>3, <1>4 DEF BaseInv
  <1>6. CASE StopTrack \/ Flush \/ ResetTrack
    <2>1. TypeOK'
      <3>1. cblk' \in Cblk /\ block' \in Seq(Frames) /\ TrackType'
            /\ mStepServerFailed' \in BOOLEAN /\ spc' \in {spc, "idle"}
        <4>1. cblk' \in {cblk, ResetCblk(cblk)} /\ block' \in {block, <<>>}
              /\ mStepServerFailed' \in {mStepServerFailed, FALSE}
              /\ spc' \in {spc, "idle"}
          BY <1>6 DEF StopTrack, Flush, ResetTrack, EndTo, ResetTo
        <4>2. TrackType'
          BY <1>0, <1>6, EndType DEF StopTrack, Flush, ResetTrack, ResetTo,
             TrackType, TypeOK
        <4>3. cblk \in Cblk /\ ResetCblk(cblk) \in Cblk
              /\ block \in Seq(Frames) /\ <<>> \in Seq(Frames)
              /\ mStepServerFailed \in BOOLEAN
          BY <1>0, ResetCblkIs, EmptySeq DEF TypeOK
        <4> QED
          BY <4>1, <4>2, <4>3
      <3>2. UNCHANGED <<buffer, lock, disabled, wpc, wbuf, caller,
                        framesAvail, region, granted, total, delivered>>
            /\ signalled' \in BOOLEAN /\ mActive' \in BOOLEAN
            /\ mLock' \in {mLock, "stopper"}
        BY <1>0, <1>6 DEF StopTrack, Flush, ResetTrack, client, writer,
           Signal, TypeOK
      <3> QED
        BY <1>0, <3>1, <3>2 DEF TypeOK, TrackType
    <2>2. CASE UNCHANGED <<cblk, buffer, wpc, wbuf, framesAvail, region,
                           granted, spc, block, mStepServerFailed, delivered>>
      BY <2>1, <2>2, <1>1, <1>2, <1>3, <1>4 DEF BaseInv
    <2>3. CASE ResetStep
      <3>1. cblk \in Cblk /\ cblk' = ResetCblk(cblk)
        BY <1>0, <2>3 DEF TypeOK, ResetStep
      <3>2. UserOff' = 0 /\ ServerOff' = 0 /\ NoLoopPoints(cblk)'
        BY <1>0, <3>1, ResetCblkIs DEF UserOff, ServerOff, NoLoopPoints
      <3>3. /\ region \in Offsets /\ granted \in Nat
            /\ region + granted <= mFrameCount
        BY <1>0 DEF UserInv, TypeOK
      <3>4. UserOff' \in Offsets /\ UserOff' + granted <= mFrameCount
            /\ ServerOff' \in Offsets
        BY <3>2, <3>3, Sizes DEF Offsets
      <3>5. UserInv'
        BY <1>0, <2>3, <3>4 DEF UserInv, ResetStep
      <3>6. /\ block' = <<>> /\ Len(block') = 0 /\ ~mStepServerFailed'
            /\ spc' \notin {"mix", "step"}
        BY <2>3, EmptySeq DEF ResetStep
      <3>7. ServerOff' + Len(block') <= mFrameCount
        BY <3>2, <3>6, Sizes
      <3>8. ServerInv'
        BY <3>4, <3>6, <3>7, Zenon DEF ServerInv
      <3> QED
        BY <1>4, <2>1, <3>2, <3>5, <3>8 DEF BaseInv
    <2> QED
      BY <1>0, <1>6, <2>2, <2>3, EndSteps
  <1>7. CASE StopLoop
    <2>1. cblk \in Cblk
      BY <1>0 DEF TypeOK
    <2>2. /\ cblk' \in Cblk /\ NoLoopPoints(cblk)'
          /\ UserOff' = UserOff /\ ServerOff' = ServerOff
      <3>1. cblk' = CancelLoop(cblk)
        BY <1>7 DEF StopLoop
      <3>2. /\ cblk' \in Cblk /\ NoLoopPoints(cblk')
            /\ cblk'.user = cblk.user /\ cblk'.userBase = cblk.userBase
            /\ cblk'.server = cblk.server
            /\ cblk'.serverBase = cblk.serverBase
        <4>1. UINT_MAX \in Counter /\ 0 \in Int
          BY Sizes
        <4> QED
          BY <2>1, <3>1, <4>1 DEF CancelLoop, Cblk, NoLoopPoints
      <3> QED
        BY <3>2 DEF UserOff, ServerOff, UserOffset, ServerOffset
    <2>3. TypeOK'
      BY <1>0, <1>7, <2>2 DEF TypeOK, StopLoop, writer, mixer, track
    <2>4. UserInv' /\ ServerInv'
      BY <1>0, <1>7, <2>2 DEF UserInv, ServerInv, StopLoop, writer, mixer
    <2> QED
      BY <1>4, <2>2, <2>3, <2>4 DEF BaseInv
  <1>8. ASSUME NEW n \in Requests, Write(n) PROVE BaseInv'
    <2>1. n \in Nat /\ total \in 0..MaxWritten /\ total + n <= MaxWritten
      BY <1>0, <1>8, StreamAssumption DEF TypeOK, Write
    <2>2. ASSUME NEW k \in 1..n PROVE total + k \in Frames
      BY <2>1, StreamAssumption DEF Frames
    <2>3. wbuf' \in [1..n -> Frames]
      BY <1>8, <2>2 DEF Write
    <2>4. wbuf' \in Seq(Frames) /\ Len(wbuf') \in Nat
      BY <2>1, <2>3, FunctionIsSeq
    <2>5. TypeOK'
      <3>1. total' \in 0..MaxWritten
        BY <1>8, <2>1, StreamAssumption DEF Write
      <3>2. granted' = 0
        BY <1>0, <1>8 DEF UserInv, Write
      <3>3. granted' \in 0..Len(wbuf')
        BY <2>4, <3>2
      <3> QED
        <4>1. /\ UNCHANGED <<cblk, buffer, lock, disabled, mLock, mActive,
                              caller, framesAvail, region, signalled, mState,
                              listed, mResetDone, spc, block,
                              mStepServerFailed, delivered>>
              /\ wpc' = "enter"
          BY <1>8 DEF Write, client, mixer, track
        <4> QED
          BY <1>0, <2>4, <3>1, <3>3, <4>1 DEF TypeOK
    <2>6. UserInv'
      BY <1>0, <1>1, <1>8 DEF UserInv, Write
    <2> QED
      BY <2>5, <2>6, <1>1, <1>2, <1>4, <1>8 DEF BaseInv, Write, mixer
  <1>9. CASE ObtainEnter \/ ObtainLock \/ ObtainSleep \/ ObtainWoken
             \/ ObtainTimeout
    <2>1. TypeOK'
      <3>1. /\ UNCHANGED <<cblk, buffer, disabled, mActive, wbuf, caller,
                            framesAvail, region, granted, total, mState,
                            listed, mResetDone, spc, block,
                            mStepServerFailed, delivered>>
            /\ wpc' \in {"avail", "availLocked", "recheck", "waiting",
                           "woken", "timedOut"}
            /\ lock' \in {lock, "free", "writer"}
            /\ mLock' \in {mLock, "writer"}
        BY <1>9 DEF ObtainEnter, ObtainLock, ObtainSleep, ObtainWoken,
           ObtainTimeout, client, mixer, track
      <3>2. signalled' \in BOOLEAN
        BY <1>0, <1>9 DEF TypeOK, ObtainEnter, ObtainLock, ObtainSleep,
           ObtainWoken, ObtainTimeout
      <3> QED
        BY <1>0, <3>1, <3>2 DEF TypeOK
    <2>2. UserInv'
      BY <1>0, <1>1, <1>9 DEF UserInv, ObtainEnter, ObtainLock, ObtainSleep,
         ObtainWoken, ObtainTimeout, client, mixer
    <2> QED
      BY <2>1, <2>2, <1>1, <1>2, <1>4, <1>9 DEF BaseInv, ObtainEnter,
         ObtainLock, ObtainSleep, ObtainWoken, ObtainTimeout, mixer
  <1>10. CASE ObtainAvailable
    <2>1. FramesAvailable(cblk) \in Counter
      BY <1>0, FramesAvailableIs DEF TypeOK
    <2>2. TypeOK'
      BY <1>0, <1>10, <2>1 DEF TypeOK, ObtainAvailable, mixer, track, client
    <2>3. UserInv'
      BY <1>0, <1>1, <1>10 DEF UserInv, ObtainAvailable
    <2> QED
      BY <2>2, <2>3, <1>1, <1>2, <1>4, <1>10
         DEF BaseInv, ObtainAvailable, mixer
  <1>11. CASE ObtainRecheck
    <2>1. FramesAvailable(cblk) \in Counter
      BY <1>0, FramesAvailableIs DEF TypeOK
    <2>2. /\ wpc' \in {"idle", "grant", "sleep"} /\ mLock' \in {mLock, "free"}
          /\ lock' \in {lock, "free"} /\ granted = 0 /\ granted' = 0
          /\ wbuf' = wbuf \/ wbuf' = <<>>
          /\ wpc' = "idle" => wbuf' = <<>>
      BY <1>0, <1>11 DEF ObtainRecheck, UserInv
    <2>3. wbuf' \in Seq(Frames) /\ granted' \in 0..Len(wbuf')
      <3>1. wbuf \in Seq(Frames) /\ <<>> \in Seq(Frames)
        BY <1>0, EmptySeq DEF TypeOK
      <3>2. wbuf' \in Seq(Frames)
        BY <2>2, <3>1
      <3>3. Len(wbuf') \in Nat
        BY <3>2
      <3> QED
        BY <2>2, <3>2, <3>3
    <2>4. TypeOK'
      BY <1>0, <1>11, <2>1, <2>2, <2>3
         DEF TypeOK, ObtainRecheck, mixer, track
    <2>5. UserInv'
      BY <1>0, <1>1, <1>11, <2>2 DEF UserInv, ObtainRecheck
    <2> QED
      BY <2>4, <2>5, <1>1, <1>2, <1>4, <1>11 DEF BaseInv, ObtainRecheck, mixer
  <1>12. CASE ObtainGrant
    <2> DEFINE g == ObtainFrames(cblk, Len(wbuf), framesAvail)
    <2>1. /\ g \in 0..Len(wbuf) /\ g \in 0..mFrameCount
          /\ UserOff + g <= mFrameCount
      BY GrantIs
    <2>2. /\ cblk \in Cblk /\ UserOff \in Offsets /\ wbuf \in Seq(Frames)
          /\ region \in Offsets /\ granted = 0 /\ UNCHANGED cblk
          /\ Len(wbuf) \in Nat /\ UserOff \in Counter /\ 0 \in Counter
          /\ region \in Counter
      <3>1. UserOff \in Offsets /\ granted = 0 /\ region \in Offsets
        BY <1>0, <1>12 DEF UserInv, ObtainGrant
      <3>2. UserOff \in Counter /\ 0 \in Counter
        BY <3>1, Sizes DEF Offsets
      <3> QED
        BY <1>0, <1>12, <3>1, <3>2 DEF TypeOK, ObtainGrant
    <2>3. CASE mActive \/ ~StopsOnStopped
      <3>1. /\ granted' = g /\ wpc' = "copy" /\ wbuf' = wbuf
            /\ mLock' = "free" /\ framesAvail' = 0 /\ region' = UserOff
        BY <1>12, <2>3 DEF ObtainGrant, g, UserOff
      <3> HIDE DEF g
      <3>2. TypeOK'
        BY <1>0, <1>12, <2>1, <2>2, <3>1 DEF TypeOK, ObtainGrant, mixer, track
      <3>3. UserInv'
        BY <1>1, <2>1, <2>2, <3>1 DEF UserInv
      <3> QED
        BY <3>2, <3>3, <1>1, <1>2, <1>4, <1>12 DEF BaseInv, ObtainGrant, mixer
    <2>4. CASE ~(mActive \/ ~StopsOnStopped)
      <3>1. /\ granted' = 0 /\ wpc' = "idle" /\ wbuf' = <<>>
            /\ mLock' = "free" /\ framesAvail' = 0 /\ region' = region
            /\ wbuf' \in Seq(Frames) /\ Len(wbuf') = 0
        BY <1>12, <2>2, <2>4, EmptySeq DEF ObtainGrant
      <3>2. TypeOK'
        BY <1>0, <1>12, <2>2, <3>1 DEF TypeOK, ObtainGrant, mixer, track
      <3>3. UserInv'
        BY <1>0, <1>1, <2>2, <3>1 DEF UserInv
      <3> QED
        BY <3>2, <3>3, <1>1, <1>2, <1>4, <1>12 DEF BaseInv, ObtainGrant, mixer
    <2> QED
      BY <2>3, <2>4
  <1>13. CASE ObtainResume
    <2>1. wpc \in {"woken", "timedOut"} /\ granted = 0
      BY <1>0, <1>13 DEF ObtainResume, UserInv
    <2>2. /\ wpc' \in {"idle", "release", "relock"}
          /\ mLock' \in {mLock, "writer"} /\ granted' = 0
          /\ wbuf' = wbuf \/ (wbuf' = <<>> /\ wpc' = "idle")
          /\ wpc' = "idle" => wbuf' = <<>>
      BY <1>13, <2>1 DEF ObtainResume
    <2>3. wbuf' \in Seq(Frames) /\ granted' \in 0..Len(wbuf')
      <3>1. wbuf \in Seq(Frames) /\ <<>> \in Seq(Frames)
        BY <1>0, EmptySeq DEF TypeOK
      <3>2. wbuf' \in Seq(Frames)
        BY <2>2, <3>1
      <3>3. Len(wbuf') \in Nat
        BY <3>2
      <3> QED
        BY <2>2, <3>2, <3>3
    <2>4. TrackType'
      BY <1>0, <1>13, StartType DEF ObtainResume
    <2>5. TypeOK'
      BY <1>0, <1>13, <2>2, <2>3, <2>4
         DEF TypeOK, TrackType, ObtainResume, mixer
    <2>6. UserInv'
      BY <1>0, <1>1, <1>13, <2>1, <2>2 DEF UserInv, ObtainResume
    <2> QED
      BY <2>5, <2>6, <1>1, <1>2, <1>4, <1>13 DEF BaseInv, ObtainResume, mixer
  <1>14. CASE CopyFrames
    <2>1. ASSUME NEW i \in Offsets, region <= i, i < region + granted
          PROVE  wbuf[i - region + 1] \in Frames
      <3>1. /\ wbuf \in Seq(Frames) /\ Len(wbuf) \in Nat
            /\ granted \in 0..Len(wbuf) /\ region \in Offsets
        BY <1>0 DEF TypeOK, UserInv
      <3>2. i - region + 1 \in 1..Len(wbuf)
        BY <2>1, <3>1, Sizes DEF Offsets
      <3> QED
        BY <3>1, <3>2
    <2>2. buffer' \in [Offsets -> Frames]
      BY <1>0, <1>14, <2>1 DEF TypeOK, CopyFrames
    <2>3. TypeOK'
      BY <1>0, <1>14, <2>2 DEF TypeOK, CopyFrames, client, mixer, track
    <2>4. UserInv'
      BY <1>0, <1>1, <1>14 DEF UserInv, CopyFrames
    <2> QED
      BY <2>3, <2>4, <1>1, <1>2, <1>4, <1>14 DEF BaseInv, CopyFrames, mixer
  <1>15. CASE ReleaseFrames
    <2>1. /\ cblk \in Cblk /\ UserOff \in Offsets /\ granted \in 0..mFrameCount
          /\ UserOff + granted <= mFrameCount /\ granted \in 0..Len(wbuf)
          /\ wbuf \in Seq(Frames) /\ Len(wbuf) \in Nat
      <3>1. /\ cblk \in Cblk /\ UserOff \in Offsets
            /\ UserOff + granted <= mFrameCount /\ granted \in 0..Len(wbuf)
            /\ wbuf \in Seq(Frames) /\ Len(wbuf) \in Nat
        BY <1>0 DEF TypeOK, UserInv
      <3> QED
        BY <3>1, Sizes DEF Offsets
    <2>2. cblk' = StepUser(cblk, granted)
      BY <1>15 DEF ReleaseFrames
    <2>3. /\ cblk' \in Cblk /\ cblk'.server = cblk.server
          /\ cblk'.serverBase = cblk.serverBase
          /\ cblk'.loopStart = cblk.loopStart /\ cblk'.loopEnd = cblk.loopEnd
          /\ UserOffset(cblk') = IF UserOffset(cblk) + granted = mFrameCount
                                 THEN 0 ELSE UserOffset(cblk) + granted
      BY <2>1, <2>2, StepUserIs DEF UserOff
    <2>4. /\ NoLoopPoints(cblk)' /\ UserOff' \in Offsets
          /\ ServerOff' = ServerOff
      BY <1>0, <2>1, <2>3, Sizes
         DEF NoLoopPoints, UserOff, ServerOff, ServerOffset, Offsets
    <2>5. /\ wbuf' = Drop(wbuf, granted)
          /\ wpc' = IF granted < Len(wbuf) THEN "enter" ELSE "idle"
          /\ granted' = 0 /\ region' = 0
      BY <1>15 DEF ReleaseFrames
    <2>6. /\ wbuf' \in Seq(Frames) /\ (wpc' = "idle" => wbuf' = <<>>)
          /\ wpc' \in {"idle", "enter"} /\ Len(wbuf') \in Nat
      <3>1. wbuf' \in Seq(Frames) /\ (granted = Len(wbuf) => wbuf' = <<>>)
        BY <2>1, <2>5, DropIs
      <3>2. wpc' = "idle" => granted = Len(wbuf)
        BY <2>1, <2>5
      <3> QED
        BY <3>1, <3>2, <2>5
    <2>7. TypeOK'
      <3>1. TrackType' /\ disabled' \in BOOLEAN
        BY <1>0, <1>15, StartType DEF ReleaseFrames, TypeOK, track
      <3>2. granted' \in 0..Len(wbuf') /\ region' \in Counter
        BY <2>5, <2>6, Sizes
      <3> QED
        BY <1>0, <1>15, <2>3, <2>6, <3>1, <3>2
           DEF TypeOK, TrackType, ReleaseFrames, client, mixer
    <2>8. UserInv' /\ ServerInv'
      <3>1. 0 \in Offsets /\ \A o \in Offsets : o + 0 <= mFrameCount
        BY Sizes DEF Offsets
      <3>2. UserOff' + granted' <= mFrameCount
            /\ region' + granted' <= mFrameCount /\ region' \in Offsets
        BY <2>4, <2>5, <3>1, Zenon
      <3> QED
        BY <1>0, <1>15, <2>4, <2>5, <2>6, <3>2
           DEF UserInv, ServerInv, ReleaseFrames, mixer
    <2> QED
      BY <1>4, <2>4, <2>7, <2>8 DEF BaseInv
  <1>16. ASSUME NEW req \in Requests, GetNextBuffer(req) PROVE BaseInv'
    <2> DEFINE ready == FramesReady(cblk, lock = "free")
               n == NextBufferFrames(cblk, req, ready)
    <2>1. req \in Nat /\ ready \in Counter /\ ServerOff \in Offsets
      BY <1>0, StreamAssumption, FramesReadyIs DEF TypeOK, ServerInv
    <2> HIDE DEF ready
    <2>2. n \in 0..mFrameCount /\ ServerOff + n <= mFrameCount
      BY <1>0, <2>1, NextBufferFramesIs DEF TypeOK, ServerOff
    <2>3. n > 0 /\ block' = ReadBlock(cblk, n)
      BY <1>16 DEF GetNextBuffer, n, ready
    <2> HIDE DEF n
    <2>4. block' \in Seq(Frames) /\ Len(block') = n /\ block' # <<>>
      <3>1. block' \in Seq(Frames) /\ Len(block') = n
        BY <1>0, <2>1, <2>2, <2>3, ReadBlockIs
      <3> QED
        BY <3>1, <2>3, EmptySeq
    <2>5. TypeOK'
      BY <1>0, <1>16, <2>4 DEF TypeOK, GetNextBuffer, client, writer, track
    <2>6. ServerInv'
      BY <1>0, <1>1, <1>16, <2>2, <2>4 DEF ServerInv, GetNextBuffer
    <2> QED
      BY <2>5, <2>6, <1>1, <1>3, <1>4, <1>16 DEF BaseInv, GetNextBuffer, writer
  <1>17. CASE MixBlock \/ StepOwed
    <2>1. TypeOK'
      BY <1>0, <1>17 DEF TypeOK, MixBlock, StepOwed, client, writer, track
    <2>2. ServerInv'
      BY <1>0, <1>1, <1>17 DEF ServerInv, MixBlock, StepOwed
    <2> QED
      BY <2>1, <2>2, <1>1, <1>3, <1>4, <1>17
         DEF BaseInv, MixBlock, StepOwed, writer
  <1>18. CASE StepDone
    <2>1. /\ cblk \in Cblk /\ ServerOff \in Offsets /\ block \in Seq(Frames)
          /\ Len(block) \in 0..mFrameCount
          /\ ServerOff + Len(block) <= mFrameCount
      <3>1. /\ cblk \in Cblk /\ ServerOff \in Offsets /\ block \in Seq(Frames)
            /\ ServerOff + Len(block) <= mFrameCount /\ Len(block) \in Nat
        BY <1>0 DEF TypeOK, ServerInv
      <3> QED
        BY <3>1, Sizes DEF Offsets
    <2>2. cblk' = StepServer(cblk, Len(block))
      BY <1>18 DEF StepDone, StepLocked
    <2>3. /\ cblk' \in Cblk /\ NoLoopPoints(cblk')
          /\ cblk'.user = cblk.user /\ cblk'.userBase = cblk.userBase
          /\ ServerOffset(cblk') \in Offsets
      <3> DEFINE m == IF cblk.server = cblk.user THEN 0 ELSE Len(block)
      <3>1. /\ cblk' \in Cblk /\ NoLoopPoints(cblk')
            /\ cblk'.user = cblk.user /\ cblk'.userBase = cblk.userBase
            /\ ServerOffset(cblk') = IF ServerOff + m = mFrameCount THEN 0
                                     ELSE ServerOff + m
        BY <1>0, <2>1, <2>2, StepServerIs DEF ServerOff
      <3>2. m \in 0..mFrameCount /\ ServerOff + m <= mFrameCount
        BY <2>1, Sizes DEF Offsets
      <3> HIDE DEF m
      <3> QED
        BY <3>1, <3>2, <2>1, Sizes DEF Offsets
    <2>4. UserOff' = UserOff /\ ServerOff' \in Offsets
      BY <2>3 DEF UserOff, UserOffset, ServerOff
    <2>5. TypeOK'
      <3>1. /\ UNCHANGED <<buffer, lock, disabled, mLock, mActive, wpc, wbuf,
                            caller, framesAvail, region, granted, total,
                            mState, listed, mResetDone>>
            /\ spc' = "idle"
        BY <1>18 DEF StepDone, client, track
      <3>2. /\ block' \in Seq(Frames) /\ delivered' \in Seq(Frames)
            /\ signalled' \in BOOLEAN /\ mStepServerFailed' \in BOOLEAN
        BY <1>18, <2>1, EmptySeq DEF StepDone, StepLocked, Signal
      <3> QED
        BY <1>0, <2>3, <3>1, <3>2 DEF TypeOK
    <2>6. UserInv'
      BY <1>0, <1>18, <2>4 DEF UserInv, StepDone
    <2>7. ServerInv'
      <3>1. /\ block' = <<>> /\ Len(block') = 0 /\ spc' = "idle"
            /\ ~mStepServerFailed'
        BY <1>18, EmptySeq DEF StepDone
      <3>2. ServerOff' + Len(block') <= mFrameCount
        <4>1. ServerOff' + 0 <= mFrameCount
          <5>1. \A o \in Offsets : o + 0 <= mFrameCount
            BY Sizes DEF Offsets
          <5> QED
            BY <2>4, <5>1, Zenon
        <4> QED
          BY <3>1, <4>1, Zenon
      <3> QED
        BY <3>1, <3>2, <2>4, Zenon DEF ServerInv
    <2> QED
      BY <1>4, <2>3, <2>5, <2>6, <2>7 DEF BaseInv
  <1>19. CASE Finished \/ UNCHANGED vars
    <2>1. UNCHANGED vars
      BY <1>19 DEF Finished
    <2>2. TypeOK'
      BY <1>0, <2>1 DEF TypeOK, vars, client, writer, mixer, track
    <2> QED
      BY <2>1, <2>2, <1>1, <1>2, <1>3, <1>4 DEF BaseInv, vars, writer, mixer
  <1> QED
    BY <1>5, <1>6, <1>7, <1>8, <1>9, <1>10, <1>11, <1>12, <1>13, <1>14,
       <1>15, <1>16, <1>17, <1>18, <1>19 DEF Next, WriterStep, Mixer

(* Hence, unless the race was met, it holds in every reachable state.      *)
StreamBase == TypeOK /\ RacedInv /\ (raced \/ BaseInv)

LEMMA StreamBaseAlways == Safety => []StreamBase
  <1>1. Init => StreamBase
    BY BaseInvInit DEF StreamBase, BaseInv
  <1>2. StreamBase /\ [Next]_vars => StreamBase'
    <2> SUFFICES ASSUME StreamBase, [Next]_vars PROVE StreamBase'
      OBVIOUS
    <2>1. CASE raced
      <3>1. UNCHANGED vars
        BY <2>1, RacedStays DEF StreamBase
      <3>2. TypeOK' /\ RacedInv' /\ raced'
        BY <2>1, <3>1 DEF StreamBase, TypeOK, RacedInv, raced, vars, client,
           writer, mixer, track
      <3> QED
        BY <3>2 DEF StreamBase
    <2>2. CASE ~raced /\ ResetRaced
      BY <2>2, RaceType DEF StreamBase
    <2>3. CASE ~raced /\ ~ResetRaced
      <3>1. BaseInv' /\ ~raced'
        BY <2>3, BaseInvNext, NoNewRace DEF StreamBase
      <3> QED
        BY <3>1 DEF StreamBase, RacedInv, BaseInv
    <2> QED
      BY <2>1, <2>2, <2>3
  <1> QED
    BY <1>1, <1>2, PTL DEF Safety

(* For every buffer size, width of the counters, request and starting      *)
(* position: the control block and the variables of both sides stay in     *)
(* their ranges, also when a step has ended at UINT_MAX and when reset()   *)
(* stores to the indexes the client is using.                              *)
THEOREM StreamTypeCorrect == Safety => []TypeOK
  <1>1. StreamBase => TypeOK
    BY DEF StreamBase
  <1> QED
    BY <1>1, StreamBaseAlways, PTL

-----------------------------------------------------------------------------
(* The two sides together, as long as no loop has been started: a step of  *)
(* the server that ends at UINT_MAX is counted as the end of a loop, after *)
(* which framesReady() promises frames that are not there.                 *)

NoLoop == cblk.loopCount = 0

(* The frames in the buffer, as the two counters tell.                     *)
Fill == Minus(cblk.user, cblk.server)

(* The room obtainBuffer() found and the frames getNextBuffer() found are  *)
(* still there when they are used, and the two sides, each with a base of  *)
(* its own, agree on where in the buffer they are.  A region granted       *)
(* before a reset() is elsewhere, but then nothing has been written since. *)
RingInv ==
    /\ granted + Fill <= mFrameCount
    /\ wpc = "grant" => framesAvail + Fill <= mFrameCount
    /\ Len(block) <= Fill
    /\ \/ Fill = UserOff - ServerOff
       \/ Fill = UserOff - ServerOff + mFrameCount
    /\ granted = 0 \/ region = UserOff \/ Fill = 0

(* The types the arithmetic below needs.                                   *)
LEMMA BaseTypes ==
    ASSUME BaseInv
    PROVE  /\ cblk \in Cblk /\ cblk.user \in Counter /\ cblk.server \in Counter
           /\ Fill \in Counter /\ Fill \in Int /\ granted \in 0..mFrameCount
           /\ UserOff \in 0..(mFrameCount - 1)
           /\ ServerOff \in 0..(mFrameCount - 1)
           /\ region \in 0..(mFrameCount - 1)
           /\ wbuf \in Seq(Frames) /\ block \in Seq(Frames)
           /\ Len(wbuf) \in Nat /\ Len(block) \in 0..mFrameCount
           /\ UserOff + granted <= mFrameCount /\ granted <= Len(wbuf)
           /\ region + granted <= mFrameCount
           /\ ServerOff + Len(block) <= mFrameCount
  <1>1. /\ cblk \in Cblk /\ granted \in 0..Len(wbuf)
        /\ wbuf \in Seq(Frames) /\ block \in Seq(Frames)
        /\ Len(wbuf) \in Nat /\ Len(block) \in Nat
    BY DEF BaseInv, TypeOK
  <1>2. cblk.user \in Counter /\ cblk.server \in Counter
    BY <1>1 DEF Cblk
  <1>3. Fill \in Counter /\ Fill \in Int
    BY <1>2, MinusIs, Sizes DEF Fill
  <1>4. /\ UserOff \in 0..(mFrameCount - 1)
        /\ ServerOff \in 0..(mFrameCount - 1)
        /\ ServerOff + Len(block) <= mFrameCount
        /\ region \in 0..(mFrameCount - 1)
        /\ UserOff + granted <= mFrameCount /\ region + granted <= mFrameCount
    BY DEF BaseInv, UserInv, ServerInv, Offsets
  <1> QED
    BY <1>1, <1>2, <1>3, <1>4, Sizes

(* A stream starts with an empty buffer.                                   *)
LEMMA RingInvInit == Init => RingInv
  <1> SUFFICES ASSUME Init PROVE RingInv
    OBVIOUS
  <1>1. PICK p \in Counter : cblk = NewCblk(p)
    BY StreamAssumption DEF Init
  <1>2. Minus(p, p) = 0
    BY MinusIs, Sizes
  <1>3. UserOff = 0 /\ ServerOff = 0 /\ Fill = 0
    BY <1>1, <1>2
       DEF NewCblk, UserOff, ServerOff, UserOffset, ServerOffset, Fill
  <1> QED
    BY <1>3, EmptySeq, Sizes DEF RingInv, Init

(* releaseBuffer() of the client: user moves over what was granted.        *)
LEMMA ReleaseMoves ==
    ASSUME BaseInv, RingInv, ReleaseFrames
    PROVE  /\ Fill' = Fill + granted /\ ServerOff' = ServerOff
           /\ UserOff' = IF UserOff + granted = mFrameCount THEN 0
                         ELSE UserOff + granted
           /\ cblk'.loopCount = cblk.loopCount
  <1>1. cblk' = StepUser(cblk, granted)
    BY DEF ReleaseFrames
  <1>2. UserOff \in Offsets
    BY DEF BaseInv, UserInv
  <1>3. /\ cblk'.user = Plus(cblk.user, granted) /\ cblk'.server = cblk.server
        /\ cblk'.serverBase = cblk.serverBase
        /\ cblk'.loopCount = cblk.loopCount
        /\ UserOffset(cblk') = IF UserOffset(cblk) + granted = mFrameCount
                               THEN 0 ELSE UserOffset(cblk) + granted
    BY <1>1, <1>2, BaseTypes, StepUserIs DEF UserOff
  <1>4. Minus(cblk.user, cblk.server) + granted <= mFrameCount
    BY BaseTypes, Sizes DEF RingInv, Fill
  <1>5. Minus(Plus(cblk.user, granted), cblk.server)
          = Minus(cblk.user, cblk.server) + granted
    BY <1>4, BaseTypes, UserMoves
  <1> QED
    BY <1>3, <1>5 DEF UserOff, ServerOff, ServerOffset, Fill

(* step(): server moves over the block.                                    *)
LEMMA StepMoves ==
    ASSUME BaseInv, RingInv, StepDone
    PROVE  /\ Fill' = Fill - Len(block) /\ UserOff' = UserOff
           /\ Len(block) \in 1..mFrameCount
           /\ ServerOff' = IF ServerOff + Len(block) = mFrameCount THEN 0
                           ELSE ServerOff + Len(block)
           /\ cblk'.server = Plus(cblk.server, Len(block))
           /\ cblk'.loopCount = IF cblk'.server = UINT_MAX
                                THEN cblk.loopCount - 1 ELSE cblk.loopCount
  <1>1. cblk' = StepServer(cblk, Len(block))
    BY DEF StepDone, StepLocked
  <1>2. /\ ServerOff \in Offsets /\ NoLoopPoints(cblk)
        /\ block # <<>>
    BY DEF BaseInv, ServerInv, StepDone
  <1>3. Len(block) \in 1..mFrameCount
    <2>1. Len(block) # 0
      BY <1>2, BaseTypes, EmptySeq
    <2> QED
      BY <2>1, BaseTypes
  <1>4. cblk.server # cblk.user
    <2>1. Fill >= 1
      BY <1>3, BaseTypes, Sizes DEF RingInv
    <2>2. cblk.server = cblk.user => Fill = 0
      <3>1. cblk.user \in Int /\ cblk.server \in Int
        BY BaseTypes, Sizes
      <3>2. Fill = IF cblk.user >= cblk.server THEN cblk.user - cblk.server
                   ELSE cblk.user - cblk.server + W
        BY BaseTypes, MinusIs DEF Fill
      <3> QED
        BY <3>1, <3>2
    <2> QED
      BY <2>1, <2>2
  <1>5. /\ cblk'.server = Plus(cblk.server, Len(block))
        /\ cblk'.user = cblk.user /\ cblk'.userBase = cblk.userBase
        /\ ServerOffset(cblk')
              = IF ServerOffset(cblk) + Len(block) = mFrameCount THEN 0
                ELSE ServerOffset(cblk) + Len(block)
        /\ cblk'.loopCount = IF cblk'.server = UINT_MAX
                             THEN cblk.loopCount - 1 ELSE cblk.loopCount
    BY <1>1, <1>2, <1>4, BaseTypes, StepServerIs DEF ServerOff
  <1>6. Len(block) <= Minus(cblk.user, cblk.server)
    BY DEF RingInv, Fill
  <1>7. Minus(cblk.user, Plus(cblk.server, Len(block)))
          = Minus(cblk.user, cblk.server) - Len(block)
    BY <1>6, BaseTypes, ServerMoves
  <1> QED
    BY <1>3, <1>5, <1>7 DEF UserOff, UserOffset, ServerOff, Fill

(* reset() leaves both at the start and nothing in the buffer.             *)
LEMMA ResetMoves ==
    ASSUME BaseInv, ResetStep
    PROVE  /\ Fill' = 0 /\ UserOff' = 0 /\ ServerOff' = 0
           /\ cblk'.loopCount = cblk.loopCount
           /\ cblk'.user = 0 /\ cblk'.server = 0
  BY ResetCblkIs DEF BaseInv, TypeOK, ResetStep, Fill, UserOff, ServerOff

(* The steps that may move one side or both.                               *)
Ends  == StopTrack \/ Flush \/ ResetTrack
Moves == ReleaseFrames \/ StepDone \/ Ends \/ ResetRaced

(* Every other step leaves them where they are.                            *)
LEMMA SidesStay ==
    ASSUME BaseInv, [Next]_vars, ~Moves
    PROVE  /\ UNCHANGED <<Fill, UserOff, ServerOff, cblk.user, cblk.server>>
           /\ cblk'.loopCount \in {cblk.loopCount, 0}
  <1>0. cblk \in Cblk
    BY DEF BaseInv, TypeOK
  <1>1. CASE UNCHANGED cblk
    BY <1>1 DEF Fill, UserOff, ServerOff
  <1>2. CASE StopLoop
    <2>1. cblk' = CancelLoop(cblk)
      BY <1>2 DEF StopLoop
    <2>2. /\ cblk'.user = cblk.user /\ cblk'.userBase = cblk.userBase
          /\ cblk'.server = cblk.server /\ cblk'.serverBase = cblk.serverBase
          /\ cblk'.loopCount = 0
      BY <1>0, <2>1 DEF CancelLoop, Cblk
    <2> QED
      BY <2>2 DEF Fill, UserOff, ServerOff, UserOffset, ServerOffset
  <1> QED
    BY <1>1, <1>2 DEF Moves, Ends, Next, WriterStep, Mixer, Start, Pause,
       Write, ObtainEnter, ObtainLock, ObtainAvailable, ObtainRecheck,
       ObtainGrant, ObtainSleep, ObtainWoken, ObtainTimeout, ObtainResume,
       CopyFrames, GetNextBuffer, MixBlock, StepOwed, PrepareShort,
       DropTrack, EndPaused, EndStopped, Finished, vars

(* The room obtainBuffer() finds ...                                       *)
LEMMA RoomIs ==
    ASSUME BaseInv, RingInv
    PROVE  FramesAvailable(cblk) = mFrameCount - Fill
  <1>1. Minus(cblk.user, cblk.server) <= mFrameCount
    BY BaseTypes, Sizes DEF RingInv, Fill
  <1> QED
    BY <1>1, BaseTypes, FramesAvailableIs DEF BaseInv, Fill

(* ... is still there when it grants a region: the server only gives more. *)
LEMMA GrantFits ==
    ASSUME BaseInv, RingInv, ObtainGrant
    PROVE  /\ granted' \in Nat /\ granted' + Fill <= mFrameCount
           /\ granted' = 0 \/ region' = UserOff
  <1> DEFINE g == ObtainFrames(cblk, Len(wbuf), framesAvail)
  <1>1. g \in 0..mFrameCount /\ g <= framesAvail
    BY GrantIs
  <1>2. framesAvail \in Int /\ framesAvail + Fill <= mFrameCount
    BY Sizes DEF BaseInv, TypeOK, RingInv, ObtainGrant
  <1>3. granted = 0
    BY DEF BaseInv, UserInv, ObtainGrant
  <1> HIDE DEF g
  <1>4. (granted' = g /\ region' = UserOff) \/ granted' = granted
    BY DEF ObtainGrant, UserOff, g
  <1>5. Fill \in Int /\ granted + Fill <= mFrameCount
    BY BaseTypes DEF RingInv
  <1> QED
    BY <1>1, <1>2, <1>3, <1>4, <1>5, Sizes

(* What getNextBuffer() hands out is there.                                *)
LEMMA BlockFits ==
    ASSUME BaseInv, RingInv, NoLoop, NEW req \in Requests, GetNextBuffer(req)
    PROVE  /\ Len(block') \in 1..mFrameCount /\ Len(block') <= Fill
           /\ ServerOff + Len(block') <= mFrameCount
           /\ \A k \in 1..Len(block') :
                 block'[k] = buffer[(ServerOff + k - 1) % mFrameCount]
  <1> DEFINE ready == FramesReady(cblk, lock = "free")
             n == NextBufferFrames(cblk, req, ready)
  <1>1. req \in Nat /\ ServerOff \in Offsets /\ TypeOK /\ NoLoopPoints(cblk)
    BY StreamAssumption DEF BaseInv, ServerInv
  <1>2. ready \in Counter /\ ready <= Fill
    BY <1>1, BaseTypes, FramesReadyIs DEF NoLoop, Fill
  <1>3. n > 0 /\ block' = ReadBlock(cblk, n)
    BY DEF GetNextBuffer
  <1> HIDE DEF ready
  <1>4. n \in 0..mFrameCount /\ n <= ready /\ ServerOff + n <= mFrameCount
    BY <1>1, <1>2, BaseTypes, NextBufferFramesIs DEF ServerOff
  <1> HIDE DEF n
  <1>5. /\ Len(block') = n
        /\ \A k \in 1..n : block'[k]
                             = buffer[(ServerOff + k - 1) % mFrameCount]
    BY <1>1, <1>3, <1>4, ReadBlockIs
  <1> QED
    BY <1>2, <1>3, <1>4, <1>5, BaseTypes, Sizes

(* Every step but the race keeps the two sides in step.                    *)
LEMMA RingInvNext ==
    ASSUME BaseInv, RingInv, NoLoop, [Next]_vars, ~ResetRaced
    PROVE  RingInv'
  <1>0. /\ Fill \in Int /\ granted \in 0..mFrameCount
        /\ UserOff \in 0..(mFrameCount - 1)
        /\ ServerOff \in 0..(mFrameCount - 1)
        /\ Len(block) \in 0..mFrameCount
        /\ UserOff + granted <= mFrameCount
        /\ ServerOff + Len(block) <= mFrameCount
        /\ framesAvail \in Int
    BY BaseTypes, Sizes DEF BaseInv, TypeOK
  <1>1. CASE ReleaseFrames
    <2>1. /\ Fill' = Fill + granted /\ ServerOff' = ServerOff
          /\ UserOff' = IF UserOff + granted = mFrameCount THEN 0
                        ELSE UserOff + granted
      BY <1>1, ReleaseMoves
    <2>2. granted' = 0 /\ block' = block /\ wpc' # "grant"
      BY <1>1 DEF ReleaseFrames, mixer
    <2> QED
      BY <1>0, <2>1, <2>2, Sizes DEF RingInv
  <1>2. CASE StepDone
    <2>1. /\ Fill' = Fill - Len(block) /\ UserOff' = UserOff
          /\ Len(block) \in 1..mFrameCount
          /\ ServerOff' = IF ServerOff + Len(block) = mFrameCount THEN 0
                          ELSE ServerOff + Len(block)
      BY <1>2, StepMoves
    <2>2. /\ UNCHANGED <<granted, region, wpc, framesAvail>>
          /\ Len(block') = 0
      BY <1>2, EmptySeq DEF StepDone
    <2> QED
      BY <1>0, <2>1, <2>2, Sizes DEF RingInv
  <1>3. CASE ResetStep
    <2>1. /\ Fill' = 0 /\ UserOff' = 0 /\ ServerOff' = 0
          /\ UNCHANGED <<granted, wpc, framesAvail>> /\ Len(block') = 0
      BY <1>3, ResetMoves, EmptySeq DEF ResetStep
    <2>2. wpc = "grant" => framesAvail <= mFrameCount
      <3>1. Fill >= 0
        BY BaseTypes, Sizes
      <3> QED
        BY <1>0, <3>1, Sizes DEF RingInv
    <2> QED
      BY <1>0, <2>1, <2>2, Sizes DEF RingInv
  <1>4. ASSUME NEW req \in Requests, GetNextBuffer(req) PROVE RingInv'
    <2>1. Len(block') \in 1..mFrameCount /\ Len(block') <= Fill
      BY <1>4, BlockFits
    <2>2. /\ UNCHANGED <<granted, region, wpc, framesAvail>>
          /\ Fill' = Fill /\ UserOff' = UserOff /\ ServerOff' = ServerOff
      BY <1>4 DEF GetNextBuffer, writer, Fill, UserOff, ServerOff
    <2> QED
      BY <1>0, <2>1, <2>2 DEF RingInv
  <1>5. ASSUME UNCHANGED <<Fill, UserOff, ServerOff, block>>,
               UNCHANGED <<granted, region>>
                  \/ /\ granted' + Fill <= mFrameCount
                     /\ granted' = 0 \/ region' = UserOff,
               UNCHANGED <<wpc, framesAvail>> \/ wpc' # "grant"
                  \/ framesAvail' + Fill <= mFrameCount
        PROVE  RingInv'
    BY <1>5 DEF RingInv
  <1>6. CASE ObtainAvailable \/ ObtainRecheck
    <2>1. UNCHANGED <<Fill, UserOff, ServerOff, block, granted, region>>
      BY <1>6 DEF ObtainAvailable, ObtainRecheck, mixer, Fill, UserOff,
         ServerOff
    <2>2. framesAvail' = mFrameCount - Fill
      BY <1>6, RoomIs DEF ObtainAvailable, ObtainRecheck
    <2>3. framesAvail' + Fill <= mFrameCount
      BY <2>2, <1>0, Sizes
    <2> QED
      BY <2>1, <2>3, <1>5
  <1>7. CASE ObtainGrant
    <2>1. /\ UNCHANGED <<Fill, UserOff, ServerOff, block>>
          /\ wpc' # "grant"
      BY <1>7 DEF ObtainGrant, mixer, Fill, UserOff, ServerOff
    <2> QED
      BY <2>1, <1>5, <1>7, GrantFits
  <1>8. CASE Ends
    <2>1. CASE UNCHANGED <<cblk, wpc, framesAvail, region, granted, block>>
      BY <2>1, <1>5 DEF Fill, UserOff, ServerOff
    <2> QED
      BY <1>3, <1>8, <2>1, EndSteps DEF Ends, BaseInv
  <1>9. CASE \/ Start \/ Pause \/ StopLoop
             \/ \E n \in Requests : Write(n)
             \/ ObtainEnter \/ ObtainLock \/ ObtainSleep \/ ObtainWoken
             \/ ObtainTimeout \/ ObtainResume \/ CopyFrames
             \/ MixBlock \/ StepOwed \/ PrepareShort \/ DropTrack
             \/ EndPaused \/ EndStopped \/ Finished \/ UNCHANGED vars
    <2>1. /\ UNCHANGED <<granted, region, block>>
          /\ UNCHANGED <<wpc, framesAvail>> \/ wpc' # "grant"
      BY <1>9 DEF Start, Pause, StopLoop, Write, ObtainEnter, ObtainLock,
         ObtainSleep, ObtainWoken, ObtainTimeout, ObtainResume, CopyFrames,
         MixBlock, StepOwed, PrepareShort, DropTrack, EndPaused, EndStopped,
         Finished, vars, writer, mixer
    <2>2. CASE Moves
      BY <2>2, <1>1, <1>2, <1>8 DEF Moves
    <2>3. CASE ~Moves
      <3>1. UNCHANGED <<Fill, UserOff, ServerOff>>
        BY <2>3, SidesStay
      <3> QED
        BY <3>1, <2>1, <1>5
    <2> QED
      BY <2>2, <2>3
  <1> QED
    BY <1>1, <1>2, <1>3, <1>4, <1>6, <1>7, <1>8, <1>9
       DEF Ends, Next, WriterStep, Mixer

(* The invariant rules the overlap out.                                    *)
LEMMA RingSeparates == BaseInv /\ RingInv => RegionsApart
  <1> SUFFICES ASSUME BaseInv, RingInv PROVE RegionsApart
    OBVIOUS
  <1>0. /\ Fill \in Int /\ granted \in 0..mFrameCount
        /\ UserOff \in 0..(mFrameCount - 1)
        /\ region \in 0..(mFrameCount - 1)
        /\ ServerOff \in 0..(mFrameCount - 1)
        /\ Len(block) \in 0..mFrameCount
        /\ region + granted <= mFrameCount
        /\ ServerOff + Len(block) <= mFrameCount
    BY BaseTypes
  <1>1. /\ ClientRegion \subseteq region..(region + granted - 1)
        /\ ServerRegion \subseteq ServerOff..(ServerOff + Len(block) - 1)
    BY DEF ClientRegion, ServerRegion, ServerOff
  <1>2. ASSUME NEW i \in region..(region + granted - 1)
        PROVE  /\ i \in Offsets
               /\ i \notin ServerOff..(ServerOff + Len(block) - 1)
    BY <1>0, Sizes DEF RingInv, Offsets
  <1>3. ASSUME NEW i \in ServerOff..(ServerOff + Len(block) - 1)
        PROVE  i \in Offsets
    BY <1>0, Sizes DEF Offsets
  <1> QED
    BY <1>1, <1>2, <1>3 DEF RegionsApart

-----------------------------------------------------------------------------
(* The track implements the bounded queue FrameFifo.                       *)

(* Before releaseBuffer() the granted region holds the first frames of the *)
(* batch; the block in the mixer's hands is still what the buffer holds.   *)
CopyInv ==
    /\ wpc = "release"
          => \A k \in 1..granted : buffer[region + k - 1] = wbuf[k]
    /\ \A k \in 1..Len(block) :
          block[k] = buffer[(ServerOff + k - 1) % mFrameCount]

StreamInv == BaseInv /\ RingInv /\ CopyInv

(* The frames between the counters lie outside what the client writes.     *)
LEMMA PendingOutside ==
    ASSUME BaseInv, RingInv, NEW k \in 1..Fill
    PROVE  LET i == (ServerOff + k - 1) % mFrameCount
           IN  i \in Offsets /\ ~(region <= i /\ i < region + granted)
  <1>0. /\ Fill \in Int /\ granted \in 0..mFrameCount
        /\ UserOff \in 0..(mFrameCount - 1)
        /\ region \in 0..(mFrameCount - 1)
        /\ ServerOff \in 0..(mFrameCount - 1)
        /\ region + granted <= mFrameCount
        /\ granted + Fill <= mFrameCount
    BY BaseTypes DEF RingInv
  <1>1. k \in 1..mFrameCount /\ ServerOff \in Offsets
    BY <1>0, Sizes DEF Offsets
  <1> DEFINE i == (ServerOff + k - 1) % mFrameCount
  <1>2. /\ i \in Offsets
        /\ i = IF ServerOff + k - 1 < mFrameCount THEN ServerOff + k - 1
               ELSE ServerOff + k - 1 - mFrameCount
    BY <1>1, OffsetIs
  <1> HIDE DEF i
  <1>3. ~(region <= i /\ i < region + granted)
    BY <1>0, <1>1, <1>2, Sizes DEF RingInv
  <1> QED
    BY <1>2, <1>3 DEF i

(* memcpy leaves them alone.                                               *)
LEMMA CopyLeavesPending ==
    ASSUME BaseInv, RingInv, CopyFrames, NEW k \in 1..Fill
    PROVE  buffer'[(ServerOff + k - 1) % mFrameCount]
             = buffer[(ServerOff + k - 1) % mFrameCount]
  <1> DEFINE i == (ServerOff + k - 1) % mFrameCount
  <1>1. i \in Offsets /\ ~(region <= i /\ i < region + granted)
    BY PendingOutside
  <1> HIDE DEF i
  <1>2. buffer'[i] = buffer[i]
    BY <1>1 DEF CopyFrames
  <1> QED
    BY <1>2 DEF i

(* A new stream has nothing granted and no block.                          *)
LEMMA CopyInvInit == Init => CopyInv
  BY EmptySeq DEF Init, CopyInv

(* Every step but the race keeps what was copied.                          *)
LEMMA CopyInvNext ==
    ASSUME BaseInv, RingInv, CopyInv, NoLoop, [Next]_vars, ~ResetRaced
    PROVE  CopyInv'
  <1> DEFINE Copied == wpc = "release"
                         => \A k \in 1..granted :
                               buffer[region + k - 1] = wbuf[k]
             Held == \A k \in 1..Len(block) :
                        block[k] = buffer[(ServerOff + k - 1) % mFrameCount]
  <1>0. Copied /\ Held /\ (Copied' /\ Held' => CopyInv')
    BY DEF CopyInv
  <1>1. CASE ReleaseFrames
    <2>1. Copied'
      BY <1>1 DEF ReleaseFrames
    <2>2. ServerOff' = ServerOff /\ UNCHANGED <<block, buffer>>
      BY <1>1, ReleaseMoves DEF ReleaseFrames, mixer
    <2>3. Held'
      BY <1>0, <2>2
    <2> QED
      BY <1>0, <2>1, <2>3
  <1>2. CASE StepDone
    <2>1. UNCHANGED <<wpc, region, granted, buffer, wbuf>>
      BY <1>2 DEF StepDone
    <2>2. Copied'
      BY <1>0, <2>1
    <2>3. Len(block') = 0
      BY <1>2, EmptySeq DEF StepDone
    <2>4. Held'
      BY <2>3
    <2> QED
      BY <1>0, <2>2, <2>4
  <1>3. ASSUME NEW req \in Requests, GetNextBuffer(req) PROVE CopyInv'
    <2>1. \A k \in 1..Len(block') :
             block'[k] = buffer[(ServerOff + k - 1) % mFrameCount]
      BY <1>3, BlockFits
    <2>2. /\ ServerOff' = ServerOff
          /\ UNCHANGED <<wpc, region, granted, buffer, wbuf>>
      BY <1>3 DEF GetNextBuffer, writer, ServerOff
    <2>3. Copied'
      BY <1>0, <2>2
    <2>4. Held'
      BY <2>1, <2>2
    <2> QED
      BY <1>0, <2>3, <2>4
  <1>4. CASE CopyFrames
    <2>1. /\ ServerOff' = ServerOff
          /\ UNCHANGED <<region, granted, wbuf, block>>
      BY <1>4 DEF CopyFrames, mixer, ServerOff
    <2>2. ASSUME NEW k \in 1..granted
          PROVE  buffer'[region + k - 1] = wbuf[k]
      <3>1. /\ granted \in 0..mFrameCount /\ region \in 0..(mFrameCount - 1)
            /\ region + granted <= mFrameCount
        BY BaseTypes
      <3>2. /\ region + k - 1 \in Offsets /\ region <= region + k - 1
            /\ region + k - 1 < region + granted
            /\ (region + k - 1) - region + 1 = k
        BY <3>1, Sizes DEF Offsets
      <3> QED
        BY <1>4, <3>2 DEF CopyFrames
    <2>3. Copied'
      BY <2>1, <2>2
    <2>4. ASSUME NEW k \in 1..Len(block)
          PROVE  block[k] = buffer'[(ServerOff + k - 1) % mFrameCount]
      <3>1. k \in 1..Fill
        BY BaseTypes DEF RingInv
      <3> QED
        BY <1>0, <1>4, <3>1, CopyLeavesPending
    <2>5. Held'
      BY <2>1, <2>4
    <2> QED
      BY <1>0, <2>3, <2>5
  <1>5. ASSUME UNCHANGED <<ServerOff, block>> \/ Len(block') = 0,
               UNCHANGED buffer,
               \/ wpc' # "release" \/ granted' = 0
               \/ UNCHANGED <<wpc, region, granted, wbuf>>
        PROVE  CopyInv'
    <2>1. Held'
      <3>1. CASE UNCHANGED <<ServerOff, block>>
        BY <1>0, <1>5, <3>1
      <3>2. CASE Len(block') = 0
        BY <3>2
      <3> QED
        BY <1>5, <3>1, <3>2
    <2>2. Copied'
      <3>1. CASE wpc' # "release"
        BY <3>1
      <3>2. CASE granted' = 0
        BY <3>2
      <3>3. CASE UNCHANGED <<wpc, region, granted, wbuf>>
        BY <3>3, <1>0, <1>5
      <3> QED
        BY <1>5, <3>1, <3>2, <3>3
    <2> QED
      BY <1>0, <2>1, <2>2
  <1> HIDE DEF Copied, Held
  <1>6. CASE Ends
    <2>1. /\ UNCHANGED <<buffer, wpc, region, granted, wbuf>>
          /\ UNCHANGED <<cblk, block>> \/ block' = <<>>
      BY <1>6, EndSteps DEF Ends, BaseInv, ResetStep
    <2> QED
      BY <2>1, <1>5, EmptySeq DEF ServerOff
  <1>7. CASE ~Moves /\ ~CopyFrames /\ ~\E req \in Requests : GetNextBuffer(req)
    <2>1. UNCHANGED ServerOff
      BY <1>7, SidesStay
    <2>2. CASE \/ \E n \in Requests : Write(n)
               \/ ObtainEnter \/ ObtainLock \/ ObtainAvailable \/ ObtainRecheck
               \/ ObtainGrant \/ ObtainSleep \/ ObtainWoken \/ ObtainTimeout
      <3>1. UNCHANGED <<block, buffer>> /\ wpc' # "release"
        BY <2>2 DEF Write, ObtainEnter, ObtainLock, ObtainAvailable,
           ObtainRecheck, ObtainGrant, ObtainSleep, ObtainWoken,
           ObtainTimeout, mixer
      <3> QED
        BY <3>1, <2>1, <1>5
    <2>3. CASE ObtainResume
      <3>1. granted = 0
        BY <2>3 DEF ObtainResume, BaseInv, UserInv
      <3>2. UNCHANGED <<block, buffer>> /\ granted' = 0
        BY <2>3, <3>1 DEF ObtainResume, mixer
      <3> QED
        BY <3>2, <2>1, <1>5
    <2>4. CASE \/ Start \/ Pause \/ StopLoop \/ MixBlock \/ StepOwed
               \/ PrepareShort \/ DropTrack \/ EndPaused \/ EndStopped
               \/ Finished \/ UNCHANGED vars
      <3>1. UNCHANGED <<block, buffer, wpc, region, granted, wbuf>>
        BY <2>4 DEF Start, Pause, StopLoop, MixBlock, StepOwed, PrepareShort,
           DropTrack, EndPaused, EndStopped, Finished, vars, writer, mixer
      <3> QED
        BY <3>1, <2>1, <1>5
    <2> QED
      BY <1>7, <2>2, <2>3, <2>4 DEF Moves, Ends, Next, WriterStep, Mixer
  <1> QED
    BY <1>1, <1>2, <1>3, <1>4, <1>6, <1>7 DEF Moves

(* Without a loop and until the race the whole invariant holds.            *)
LEMMA StreamInvNext ==
    ASSUME StreamInv, NoLoop, [Next]_vars, ~ResetRaced
    PROVE  StreamInv'
  BY BaseInvNext, RingInvNext, CopyInvNext DEF StreamInv

LEMMA StreamInvAlways ==
    Safety /\ []NoLoop => [](RacedInv /\ (raced \/ StreamInv))
  <1>1. Init => RacedInv /\ StreamInv
    BY BaseInvInit, RingInvInit, CopyInvInit DEF StreamInv
  <1>2. (raced \/ StreamInv) /\ RacedInv /\ NoLoop /\ [Next]_vars
          => (raced \/ StreamInv)'
    <2> SUFFICES ASSUME raced \/ StreamInv, RacedInv, NoLoop, [Next]_vars
                 PROVE  raced' \/ StreamInv'
      OBVIOUS
    <2>1. CASE raced
      BY <2>1, RacedStays DEF vars, writer, raced
    <2>2. CASE ResetRaced
      BY <2>2 DEF ResetRaced, raced
    <2>3. CASE ~raced /\ ~ResetRaced
      BY <2>3, StreamInvNext
    <2> QED
      BY <2>1, <2>2, <2>3
  <1>3. StreamBase => RacedInv
    BY DEF StreamBase
  <1> QED
    BY <1>1, <1>2, <1>3, StreamBaseAlways, PTL DEF Safety

PendingView ==
    /\ Pending \in Seq(Frames) /\ Len(Pending) = Fill
    /\ \A k \in 1..Fill :
          Pending[k] = buffer[(ServerOff + k - 1) % mFrameCount]

(* The frames pending are those between the two counters, in their order.  *)
LEMMA PendingIs == BaseInv /\ RingInv => PendingView
  <1> SUFFICES ASSUME BaseInv, RingInv PROVE PendingView
    OBVIOUS
  <1>1. /\ buffer \in [Offsets -> Frames] /\ Fill \in Nat
    BY BaseTypes, Sizes DEF BaseInv, TypeOK
  <1>2. ASSUME NEW k \in 1..Fill
        PROVE  buffer[(ServerOff + k - 1) % mFrameCount] \in Frames
    BY <1>1, PendingOutside
  <1>3. Pending
          = [k \in 1..Fill |-> buffer[(ServerOff + k - 1) % mFrameCount]]
    BY DEF Pending, Fill, ServerOff
  <1>4. Pending \in [1..Fill -> Frames]
    BY <1>2, <1>3
  <1> QED
    BY <1>1, <1>3, <1>4, FunctionIsSeq DEF PendingView

(* Sequences of the same length with the same elements are the same.       *)
LEMMA SameSeq ==
    ASSUME NEW S, NEW s \in Seq(S), NEW t \in Seq(S), Len(s) = Len(t),
           \A k \in 1..Len(s) : s[k] = t[k]
    PROVE  s = t
  OBVIOUS

(* The first n elements of a sequence ...                                  *)
LEMMA FrontOfSeq ==
    ASSUME NEW S, NEW s \in Seq(S), NEW n \in 0..Len(s)
    PROVE  /\ SubSeq(s, 1, n) \in Seq(S) /\ Len(SubSeq(s, 1, n)) = n
           /\ \A k \in 1..n : SubSeq(s, 1, n)[k] = s[k]
  OBVIOUS

(* ... and the others.                                                     *)
LEMMA BackOfSeq ==
    ASSUME NEW S, NEW s \in Seq(S), NEW n \in 0..Len(s)
    PROVE  /\ SubSeq(s, n + 1, Len(s)) \in Seq(S)
           /\ Len(SubSeq(s, n + 1, Len(s))) = Len(s) - n
           /\ \A k \in 1..(Len(s) - n) :
                 SubSeq(s, n + 1, Len(s))[k] = s[n + k]
  OBVIOUS

(* The second part of a concatenation.                                     *)
LEMMA ConcatIsSeq ==
    ASSUME NEW S, NEW s \in Seq(S), NEW t \in Seq(S)
    PROVE  /\ s \o t \in Seq(S)
           /\ \A k \in (Len(s) + 1)..(Len(s) + Len(t)) :
                 (s \o t)[k] = t[k - Len(s)]
  OBVIOUS

(* A stream starts as an empty queue.                                      *)
LEMMA FifoInit == Init => Fifo!Init
  <1> SUFFICES ASSUME Init PROVE Fifo!Init
    OBVIOUS
  <1>1. BaseInv /\ RingInv
    BY BaseInvInit, RingInvInit
  <1>2. PICK p \in Counter : cblk = NewCblk(p)
    BY StreamAssumption DEF Init
  <1>3. Minus(p, p) = 0
    BY MinusIs, Sizes
  <1>4. Fill = 0
    BY <1>2, <1>3 DEF NewCblk, Fill
  <1>5. Pending = <<>>
    BY <1>1, <1>4, PendingIs DEF PendingView
  <1> QED
    BY <1>5 DEF Fifo!Init, Init

(* releaseBuffer() of the client appends what it copied, if no reset() has *)
(* come between ...                                                        *)
LEMMA ReleaseAppends ==
    ASSUME StreamInv, StreamInv', ReleaseFrames, granted > 0,
           region = UserOff
    PROVE  /\ Pending' = Pending \o SubSeq(wbuf, 1, granted)
           /\ Len(Pending) + granted <= mFrameCount
           /\ granted \in 1..Len(wbuf)
  <1> DEFINE c == SubSeq(wbuf, 1, granted)
  <1>1. BaseInv /\ RingInv /\ CopyInv /\ BaseInv' /\ RingInv'
    BY DEF StreamInv
  <1>2. /\ Fill \in Nat /\ granted \in 1..mFrameCount
        /\ granted \in 1..Len(wbuf) /\ granted + Fill <= mFrameCount
        /\ wbuf \in Seq(Frames)
        /\ UserOff \in 0..(mFrameCount - 1)
        /\ ServerOff \in 0..(mFrameCount - 1)
        /\ UserOff + granted <= mFrameCount
    BY <1>1, BaseTypes, Sizes DEF RingInv
  <1>3. /\ Fill' = Fill + granted /\ ServerOff' = ServerOff
        /\ buffer' = buffer
    BY <1>1, ReleaseMoves DEF ReleaseFrames
  <1>4. /\ Pending \in Seq(Frames) /\ Len(Pending) = Fill
        /\ \A k \in 1..Fill :
              Pending[k] = buffer[(ServerOff + k - 1) % mFrameCount]
    BY <1>1, PendingIs DEF PendingView
  <1>5. /\ Pending' \in Seq(Frames) /\ Len(Pending') = Fill'
        /\ \A k \in 1..Fill' :
              Pending'[k] = buffer'[(ServerOff' + k - 1) % mFrameCount]
    <2>1. (BaseInv /\ RingInv)' => PendingView'
      BY PendingIs, PTL
    <2> QED
      BY <1>1, <2>1 DEF PendingView
  <1>6. /\ c \in Seq(Frames) /\ Len(c) = granted
        /\ \A k \in 1..granted : c[k] = wbuf[k]
    <2>1. granted \in 0..Len(wbuf)
      BY <1>2
    <2> QED
      BY <2>1, <1>2, FrontOfSeq
  <1>7. ASSUME NEW k \in 1..granted
        PROVE  wbuf[k] = buffer[(ServerOff + (Fill + k) - 1) % mFrameCount]
    <2>1. wbuf[k] = buffer[UserOff + k - 1]
      BY <1>1 DEF CopyInv, ReleaseFrames
    <2>2. ServerOff \in Offsets /\ Fill + k \in 1..mFrameCount
      BY <1>2, Sizes DEF Offsets
    <2>3. (ServerOff + (Fill + k) - 1) % mFrameCount
            = IF ServerOff + (Fill + k) - 1 < mFrameCount
              THEN ServerOff + (Fill + k) - 1
              ELSE ServerOff + (Fill + k) - 1 - mFrameCount
      BY <2>2, OffsetIs
    <2>4. (IF ServerOff + (Fill + k) - 1 < mFrameCount
           THEN ServerOff + (Fill + k) - 1
           ELSE ServerOff + (Fill + k) - 1 - mFrameCount) = UserOff + k - 1
      BY <1>1, <1>2, Sizes DEF RingInv
    <2> QED
      BY <2>1, <2>3, <2>4
  <1> HIDE DEF c
  <1>8. ASSUME NEW k \in 1..(Fill + granted)
        PROVE  Pending'[k] = (Pending \o c)[k]
    <2>0. /\ k \in Nat /\ Fill \in Nat /\ granted \in Nat
          /\ k <= Fill + granted /\ k >= 1
      BY <1>2, Sizes
    <2>1. Pending'[k] = buffer[(ServerOff + k - 1) % mFrameCount]
      BY <1>3, <1>5
    <2>2. CASE k <= Fill
      <3>1. (Pending \o c)[k] = Pending[k] /\ k \in 1..Fill
        BY <2>0, <1>4, <1>6, <2>2
      <3> QED
        BY <2>1, <3>1, <1>4
    <2>3. CASE k > Fill
      <3>1. k - Fill \in 1..granted /\ Fill + (k - Fill) = k
        BY <2>0, <2>3
      <3>2. k \in (Len(Pending) + 1)..(Len(Pending) + Len(c))
        BY <2>0, <1>4, <1>6, <2>3
      <3>3. (Pending \o c)[k] = c[k - Len(Pending)]
        BY <3>2, <1>4, <1>6, ConcatIsSeq, Zenon
      <3>4. (Pending \o c)[k] = c[k - Fill]
        BY <3>3, <1>4
      <3>5. wbuf[k - Fill] = buffer[(ServerOff + k - 1) % mFrameCount]
        BY <3>1, <1>7
      <3> QED
        BY <2>1, <3>1, <3>4, <3>5, <1>6
    <2>4. k <= Fill \/ k > Fill
      BY <2>0
    <2> QED
      BY <2>2, <2>3, <2>4
  <1>9. Pending' = Pending \o c
    <2>1. Pending \o c \in Seq(Frames) /\ Len(Pending \o c) = Fill + granted
      <3>1. \A s, t \in Seq(Frames) :
               s \o t \in Seq(Frames) /\ Len(s \o t) = Len(s) + Len(t)
        OBVIOUS
      <3> QED
        BY <3>1, <1>4, <1>6, Zenon
    <2> QED
      BY <2>1, <1>3, <1>5, <1>8, SameSeq
  <1> QED
    BY <1>9, <1>2, <1>4 DEF c

(* ... and step() delivers the block the mixer has read.                   *)
LEMMA StepDelivers ==
    ASSUME StreamInv, StreamInv', StepDone
    PROVE  /\ delivered' = SubSeq(Pending, 1, Len(block))
           /\ Pending' = SubSeq(Pending, Len(block) + 1, Len(Pending))
           /\ Len(block) \in 1..Len(Pending)
  <1> DEFINE n == Len(block)
             d == SubSeq(Pending, n + 1, Len(Pending))
             h == SubSeq(Pending, 1, n)
  <1>1. BaseInv /\ RingInv /\ CopyInv /\ BaseInv' /\ RingInv'
    BY DEF StreamInv
  <1>2. /\ Fill' = Fill - n /\ n \in 1..mFrameCount
        /\ ServerOff' = IF ServerOff + n = mFrameCount THEN 0
                        ELSE ServerOff + n
        /\ buffer' = buffer /\ delivered' = block
    BY <1>1, StepMoves DEF StepDone
  <1>3. /\ n <= Fill /\ Fill \in 0..mFrameCount /\ block \in Seq(Frames)
        /\ ServerOff \in 0..(mFrameCount - 1) /\ ServerOff + n <= mFrameCount
    BY <1>1, BaseTypes, Sizes DEF RingInv
  <1>4. /\ Pending \in Seq(Frames) /\ Len(Pending) = Fill
        /\ \A k \in 1..Fill :
              Pending[k] = buffer[(ServerOff + k - 1) % mFrameCount]
    BY <1>1, PendingIs DEF PendingView
  <1>5. /\ Pending' \in Seq(Frames) /\ Len(Pending') = Fill'
        /\ \A k \in 1..Fill' :
              Pending'[k] = buffer'[(ServerOff' + k - 1) % mFrameCount]
    <2>1. (BaseInv /\ RingInv)' => PendingView'
      BY PendingIs, PTL
    <2> QED
      BY <1>1, <2>1 DEF PendingView
  <1>6. \A k \in 1..n : block[k] = Pending[k]
    <2> SUFFICES ASSUME NEW k \in 1..n PROVE block[k] = Pending[k]
      OBVIOUS
    <2>1. block[k] = buffer[(ServerOff + k - 1) % mFrameCount]
      BY <1>1 DEF CopyInv
    <2>2. k \in 1..Fill
      BY <1>2, <1>3
    <2> QED
      BY <2>1, <2>2, <1>4
  <1> HIDE DEF n
  <1>7. /\ d \in Seq(Frames) /\ Len(d) = Fill - n
        /\ \A k \in 1..(Fill - n) : d[k] = Pending[n + k]
    <2>1. n \in 0..Len(Pending)
      BY <1>2, <1>3, <1>4, Sizes
    <2> QED
      BY <2>1, <1>4, BackOfSeq
  <1>8. /\ h \in Seq(Frames) /\ Len(h) = n
        /\ \A k \in 1..n : h[k] = Pending[k]
    <2>1. n \in 0..Len(Pending)
      BY <1>2, <1>3, <1>4, Sizes
    <2> QED
      BY <2>1, <1>4, FrontOfSeq
  <1>9. ASSUME NEW k \in 1..(Fill - n) PROVE Pending'[k] = d[k]
    <2>1. Pending'[k] = buffer[(ServerOff' + k - 1) % mFrameCount]
      BY <1>2, <1>5
    <2>2. /\ ServerOff \in Offsets /\ n + k \in 1..mFrameCount
          /\ ServerOff' \in Offsets /\ k \in 1..mFrameCount
          /\ n + k \in 1..Fill
      BY <1>2, <1>3, Sizes DEF Offsets
    <2>3. /\ (ServerOff + (n + k) - 1) % mFrameCount
               = IF ServerOff + (n + k) - 1 < mFrameCount
                 THEN ServerOff + (n + k) - 1
                 ELSE ServerOff + (n + k) - 1 - mFrameCount
          /\ (ServerOff' + k - 1) % mFrameCount
               = IF ServerOff' + k - 1 < mFrameCount THEN ServerOff' + k - 1
                 ELSE ServerOff' + k - 1 - mFrameCount
      BY <2>2, OffsetIs
    <2>4. (ServerOff + (n + k) - 1) % mFrameCount
            = (ServerOff' + k - 1) % mFrameCount
      <3> DEFINE a == (ServerOff + (n + k) - 1) % mFrameCount
                 b == (ServerOff' + k - 1) % mFrameCount
      <3>1. /\ a = IF ServerOff + (n + k) - 1 < mFrameCount
                   THEN ServerOff + (n + k) - 1
                   ELSE ServerOff + (n + k) - 1 - mFrameCount
            /\ b = IF ServerOff' + k - 1 < mFrameCount THEN ServerOff' + k - 1
                   ELSE ServerOff' + k - 1 - mFrameCount
        BY <2>3
      <3> HIDE DEF a, b
      <3>2. a = b
        BY <3>1, <2>2, <1>2, <1>3, Sizes DEF Offsets
      <3> QED
        BY <3>2 DEF a, b
    <2> QED
      BY <2>1, <2>2, <2>4, <1>4, <1>7
  <1> HIDE DEF d, h
  <1>10. Pending' = d
    BY <1>2, <1>5, <1>7, <1>9, SameSeq
  <1>11. block = h
    <2>1. Len(block) = n
      BY DEF n
    <2> QED
      BY <2>1, <1>3, <1>6, <1>8, SameSeq
  <1>12. n \in 1..Len(Pending)
    BY <1>2, <1>3, <1>4
  <1> QED
    BY <1>2, <1>10, <1>11, <1>12 DEF d, h, n

(* Every other step is a step of the queue, or none.                       *)
LEMMA FifoStep ==
    ASSUME StreamInv, StreamInv', [Next]_vars, ~ResetRaced
    PROVE  Discards \/ Misplaces \/ [Fifo!Next]_(Fifo!vars)
  <1>0. BaseInv /\ RingInv /\ cblk \in Cblk
    BY BaseTypes DEF StreamInv
  <1>1. ASSUME UNCHANGED <<Fill, ServerOff>>,
               \A k \in 1..Fill : buffer'[(ServerOff + k - 1) % mFrameCount]
                                    = buffer[(ServerOff + k - 1) % mFrameCount]
        PROVE  Pending' = Pending
    BY <1>1 DEF Pending, Fill, ServerOff
  <1>2. ASSUME UNCHANGED <<Fill, ServerOff, buffer, delivered>>,
               wbuf' = wbuf \/ wbuf = <<>> \/ wbuf' = <<>>
        PROVE  [Fifo!Next]_(Fifo!vars)
    <2>1. Pending' = Pending
      BY <1>1, <1>2
    <2> QED
      BY <1>2, <2>1 DEF Fifo!Next, Fifo!Offer, Fifo!vars
  <1>3. CASE ReleaseFrames
    <2>1. CASE granted > 0 /\ region = UserOff
      <3>1. /\ Pending' = Pending \o SubSeq(wbuf, 1, granted)
            /\ Len(Pending) + granted <= mFrameCount
            /\ granted \in 1..Len(wbuf)
        BY <1>3, <2>1, ReleaseAppends
      <3>2. wbuf' = SubSeq(wbuf, granted + 1, Len(wbuf))
              /\ delivered' = delivered
        BY <1>3 DEF ReleaseFrames, Drop, mixer
      <3>3. Fifo!Accept
        BY <3>1, <3>2 DEF Fifo!Accept, Fifo!Drop
      <3> QED
        BY <3>3 DEF Fifo!Next
    <2>2. CASE ~(granted > 0)
      <3>1. granted = 0 /\ wbuf \in Seq(Frames) /\ Fill \in Int
        BY <1>0, <2>2, BaseTypes, Sizes
      <3>2. Fill' = Fill /\ ServerOff' = ServerOff
        BY <1>0, <1>3, <3>1, ReleaseMoves
      <3>3. wbuf' = wbuf
        <4>1. wbuf' = SubSeq(wbuf, 1, Len(wbuf))
          BY <1>3, <3>1 DEF ReleaseFrames, Drop
        <4> QED
          BY <4>1, <3>1
      <3> QED
        BY <3>2, <3>3, <1>2, <1>3 DEF ReleaseFrames, mixer
    <2>3. CASE region # UserOff
      BY <1>3, <2>3 DEF Misplaces, UserOff, ReleaseFrames
    <2> QED
      BY <2>1, <2>2, <2>3
  <1>4. CASE StepDone
    <2>1. /\ delivered' = SubSeq(Pending, 1, Len(block))
          /\ Pending' = SubSeq(Pending, Len(block) + 1, Len(Pending))
          /\ Len(block) \in 1..Len(Pending)
      BY <1>4, StepDelivers
    <2>2. wbuf' = wbuf
      BY <1>4 DEF StepDone
    <2>3. Fifo!Deliver
      BY <2>1, <2>2 DEF Fifo!Deliver, Fifo!Drop
    <2> QED
      BY <2>3 DEF Fifo!Next
  <1>5. CASE CopyFrames
    <2>1. UNCHANGED <<Fill, ServerOff, wbuf, delivered>>
      BY <1>5 DEF CopyFrames, mixer, Fill, ServerOff
    <2>2. Pending' = Pending
      BY <1>0, <1>1, <1>5, <2>1, CopyLeavesPending
    <2> QED
      BY <2>1, <2>2 DEF Fifo!vars
  <1>6. CASE Ends
    <2>1. CASE UNCHANGED <<cblk, buffer, wbuf, delivered>>
      BY <2>1, <1>2 DEF Fill, ServerOff
    <2>2. CASE ResetStep /\ ~mActive'
      <3>1. Fill' = 0 /\ UNCHANGED <<wbuf, delivered>>
        BY <1>0, <2>2, ResetMoves DEF ResetStep
      <3>2. Pending' \in Seq(Frames) /\ Len(Pending') = Fill'
        <4>1. (BaseInv /\ RingInv)' => PendingView'
          BY PendingIs, PTL
        <4> QED
          BY <4>1 DEF PendingView, StreamInv
      <3>3. Pending' = <<>>
        BY <3>1, <3>2, EmptySeq
      <3> QED
        BY <2>2, <3>1, <3>3 DEF Discards
    <2> QED
      BY <1>0, <1>6, <2>1, <2>2, EndSteps DEF Ends, BaseInv
  <1>7. CASE ~Moves /\ ~CopyFrames
    <2>1. UNCHANGED <<Fill, ServerOff>>
      BY <1>0, <1>7, SidesStay
    <2>2. UNCHANGED <<buffer, delivered>>
      BY <1>7 DEF Moves, Ends, Next, WriterStep, Mixer, Start, StopLoop,
         Pause, Write, ObtainEnter, ObtainLock, ObtainAvailable,
         ObtainRecheck, ObtainGrant, ObtainSleep, ObtainWoken, ObtainTimeout,
         ObtainResume, GetNextBuffer, MixBlock, StepOwed, PrepareShort,
         DropTrack, EndPaused, EndStopped, Finished, vars, mixer
    <2>3. wbuf' = wbuf \/ wbuf = <<>> \/ wbuf' = <<>>
      <3>1. ASSUME NEW n \in Requests, Write(n) PROVE wbuf = <<>>
        BY <1>0, <3>1 DEF Write, BaseInv, UserInv
      <3> QED
        BY <1>7, <3>1 DEF Moves, Ends, Next, WriterStep, Mixer, Start,
         StopLoop, Pause, ObtainEnter, ObtainLock, ObtainAvailable,
         ObtainRecheck, ObtainGrant, ObtainSleep, ObtainWoken, ObtainTimeout,
         ObtainResume, GetNextBuffer, MixBlock, StepOwed, PrepareShort,
         DropTrack, EndPaused, EndStopped, Finished, vars, writer
    <2> QED
      BY <2>1, <2>2, <2>3, <1>2
  <1> QED
    BY <1>3, <1>4, <1>5, <1>6, <1>7 DEF Moves

-----------------------------------------------------------------------------
(* For every buffer size, width of the counters, request and starting      *)
(* position, as long as no step of the server ends at UINT_MAX and is      *)
(* taken for a loop: client and server never use the same part of the      *)
(* shared buffer, and neither goes beyond it, also when a reset() puts the *)
(* indexes back under a granted region; only a client that met the stores  *)
(* of that reset() is excepted ...                                         *)
THEOREM StreamRegionsApart == Safety /\ []NoLoop => []RegionsApart
  <1>1. raced \/ StreamInv => RegionsApart
    BY RingSeparates DEF StreamInv, RegionsApart
  <1> QED
    BY <1>1, StreamInvAlways, PTL

(* ... and the track is a bounded queue: what the mixer is handed is what  *)
(* write() was given, no frame lost, repeated, reordered or overwritten,   *)
(* whatever the lock and the timeouts do; except that a reset() empties    *)
(* the queue of an inactive track, and that a region granted before it is  *)
(* released at another place.                                              *)
THEOREM StreamPlays == Safety /\ []NoLoop => PlaysWhatWasWritten
  <1> DEFINE I == RacedInv /\ (raced \/ StreamInv)
             A == raced' \/ Discards \/ Misplaces \/ [Fifo!Next]_(Fifo!vars)
  <1>1. I /\ I' /\ [Next]_vars => A
    <2> SUFFICES ASSUME I, I', [Next]_vars, ~raced' PROVE A
      OBVIOUS
    <2>1. ~ResetRaced
      BY DEF ResetRaced, raced
    <2>2. ~raced
      BY RacedStays DEF vars, writer, raced
    <2> QED
      BY <2>1, <2>2, FifoStep
  <1>2. Safety /\ []NoLoop => []I
    BY StreamInvAlways
  <1> HIDE DEF I
  <1>3. I /\ I' /\ [Next]_vars => [A]_vars
    BY <1>1
  <1> QED
    BY <1>2, <1>3, FifoInit, PTL DEF Safety, PlaysWhatWasWritten

-----------------------------------------------------------------------------
(* A case where no loop can start: when the sizes of the buffer and of all *)
(* requests are even, as is the starting position, no counter is ever      *)
(* UINT_MAX, which is odd.                                                 *)

Even(x) == x % 2 = 0

EvenSizes ==
    /\ Even(W) /\ Even(mFrameCount)
    /\ \A p \in Starts : Even(p)
    /\ \A n \in Requests : Even(n)

(* Sums and differences of even numbers are even.                          *)
LEMMA EvenSums ==
    ASSUME NEW x \in Int, NEW y \in Int, Even(x), Even(y)
    PROVE  Even(x + y) /\ Even(x - y)
  BY DEF Even

(* The numbers the steps begin and end with.                               *)
LEMMA EvenEnds ==
    /\ Even(0)
    /\ EvenSizes => ~Even(UINT_MAX)
  BY Sizes DEF Even, EvenSizes

(* The counters' own addition and subtraction keep that.                   *)
LEMMA EvenCounters ==
    ASSUME EvenSizes, NEW a \in Counter, Even(a)
    PROVE  /\ \A n \in 0..mFrameCount : Even(n) => Even(Plus(a, n))
           /\ \A b \in Counter : Even(b) => Even(Minus(a, b))
  <1>1. Even(W) /\ W \in Int /\ a \in Int
    BY Sizes DEF EvenSizes
  <1>2. ASSUME NEW n \in 0..mFrameCount, Even(n) PROVE Even(Plus(a, n))
    <2>1. n \in Int /\ a + n \in Int /\ Even(a + n)
      BY <1>1, <1>2, EvenSums
    <2>2. Even(a + n - W)
      BY <1>1, <2>1, EvenSums
    <2>3. Plus(a, n) = a + n \/ Plus(a, n) = a + n - W
      BY PlusIs
    <2> QED
      BY <2>1, <2>2, <2>3
  <1>3. ASSUME NEW b \in Counter, Even(b) PROVE Even(Minus(a, b))
    <2>1. b \in Int /\ a - b \in Int /\ Even(a - b)
      BY <1>1, <1>3, EvenSums, Sizes
    <2>2. Even(a - b + W)
      BY <1>1, <2>1, EvenSums
    <2>3. Minus(a, b) = a - b \/ Minus(a, b) = a - b + W
      BY MinusIs
    <2> QED
      BY <2>1, <2>2, <2>3
  <1> QED
    BY <1>2, <1>3

(* Every position and every amount under way is even.                      *)
EvenInv ==
    /\ Even(cblk.user) /\ Even(cblk.server)
    /\ Even(UserOff) /\ Even(ServerOff)
    /\ Even(Len(wbuf)) /\ Even(granted) /\ Even(Len(block))
    /\ Even(framesAvail)

(* So it is at first ...                                                   *)
LEMMA EvenInvInit == EvenSizes /\ Init => EvenInv /\ NoLoop
  <1> SUFFICES ASSUME EvenSizes, Init PROVE EvenInv /\ NoLoop
    OBVIOUS
  <1>1. PICK p \in Starts : cblk = NewCblk(p)
    BY DEF Init
  <1>2. p \in Counter /\ Even(p) /\ Minus(p, p) = 0
    BY StreamAssumption, MinusIs, Sizes DEF EvenSizes
  <1>3. UserOff = 0 /\ ServerOff = 0 /\ cblk.user = p /\ cblk.server = p
          /\ cblk.loopCount = 0
    BY <1>1, <1>2
       DEF NewCblk, UserOff, ServerOff, UserOffset, ServerOffset
  <1> QED
    BY <1>2, <1>3, EvenEnds, EmptySeq DEF EvenInv, NoLoop, Init

(* ... and stays through every step but the race, which therefore starts   *)
(* no loop.                                                                *)
LEMMA EvenInvNext ==
    ASSUME EvenSizes, BaseInv, RingInv, NoLoop, EvenInv, [Next]_vars,
           ~ResetRaced
    PROVE  EvenInv' /\ NoLoop'
  <1>0. /\ cblk \in Cblk /\ cblk.user \in Counter /\ cblk.server \in Counter
        /\ Fill \in Int /\ granted \in 0..mFrameCount /\ granted \in Int
        /\ UserOff \in Int /\ ServerOff \in Int /\ Len(block) \in Int
        /\ wbuf \in Seq(Frames) /\ Len(wbuf) \in Int /\ mFrameCount \in Int
        /\ Len(block) \in 0..mFrameCount /\ Len(wbuf) \in Nat
        /\ granted \in 0..Len(wbuf)
    BY BaseTypes, Sizes
  <1>1. Even(Fill) /\ Even(mFrameCount) /\ Even(0)
    BY <1>0, EvenCounters, EvenEnds DEF EvenInv, EvenSizes, Fill
  <1>2. CASE ReleaseFrames
    <2>1. /\ ServerOff' = ServerOff
          /\ UserOff' = IF UserOff + granted = mFrameCount THEN 0
                        ELSE UserOff + granted
          /\ cblk'.loopCount = cblk.loopCount
      BY <1>2, ReleaseMoves
    <2>2. Even(UserOff + granted) /\ Even(Len(wbuf) - granted)
      BY <1>0, EvenSums DEF EvenInv
    <2>3. Even(UserOff')
      BY <1>1, <2>1, <2>2
    <2>4. cblk'.user = Plus(cblk.user, granted) /\ cblk'.server = cblk.server
      BY <1>0, <1>2 DEF ReleaseFrames, StepUser, Cblk
    <2>5. Even(cblk'.user)
      BY <1>0, <2>4, EvenCounters DEF EvenInv
    <2>6. Len(wbuf') = Len(wbuf) - granted
      BY <1>0, <1>2, DropIs DEF ReleaseFrames
    <2>7. granted' = 0 /\ UNCHANGED <<block, framesAvail>>
      BY <1>2 DEF ReleaseFrames, mixer
    <2> QED
      BY <1>1, <2>1, <2>2, <2>3, <2>4, <2>5, <2>6, <2>7 DEF EvenInv, NoLoop
  <1>3. CASE StepDone
    <2>1. /\ UserOff' = UserOff
          /\ ServerOff' = IF ServerOff + Len(block) = mFrameCount THEN 0
                          ELSE ServerOff + Len(block)
          /\ cblk'.server = Plus(cblk.server, Len(block))
          /\ cblk'.loopCount = IF cblk'.server = UINT_MAX
                               THEN cblk.loopCount - 1 ELSE cblk.loopCount
      BY <1>3, StepMoves
    <2>2. Even(ServerOff + Len(block))
      BY <1>0, EvenSums DEF EvenInv
    <2>3. Even(ServerOff')
      BY <1>1, <2>1, <2>2
    <2>4. Even(cblk'.server)
      BY <1>0, <2>1, EvenCounters DEF EvenInv
    <2>5. NoLoop'
      BY <2>1, <2>4, EvenEnds DEF NoLoop
    <2>6. cblk'.user = cblk.user
      BY <1>0, <1>3 DEF StepDone, StepLocked, StepServer, Cblk
    <2>7. Len(block') = 0 /\ UNCHANGED <<granted, wbuf, framesAvail>>
      BY <1>3, EmptySeq DEF StepDone
    <2> QED
      BY <1>1, <2>1, <2>3, <2>4, <2>5, <2>6, <2>7 DEF EvenInv
  <1>4. CASE ResetStep
    <2>1. /\ UserOff' = 0 /\ ServerOff' = 0 /\ cblk'.user = 0
          /\ cblk'.server = 0 /\ cblk'.loopCount = cblk.loopCount
          /\ UNCHANGED <<wbuf, granted, framesAvail>> /\ Len(block') = 0
      BY <1>4, ResetMoves, EmptySeq DEF ResetStep
    <2> QED
      BY <1>1, <2>1 DEF EvenInv, NoLoop
  <1>5. CASE Ends
    <2>1. CASE UNCHANGED <<cblk, wbuf, framesAvail, granted, block>>
      BY <2>1 DEF EvenInv, NoLoop, UserOff, ServerOff
    <2> QED
      BY <1>4, <1>5, <2>1, EndSteps DEF Ends, BaseInv
  <1>6. CASE ~Moves
    <2>1. /\ UNCHANGED <<UserOff, ServerOff, cblk.user, cblk.server>>
          /\ cblk'.loopCount \in {cblk.loopCount, 0}
      BY <1>6, SidesStay
    <2>2. NoLoop'
      BY <2>1 DEF NoLoop
    <2>3. ASSUME Even(Len(wbuf')), Even(granted'), Even(Len(block')),
                 Even(framesAvail')
          PROVE  EvenInv' /\ NoLoop'
      BY <2>1, <2>2, <2>3 DEF EvenInv
    <2>4. /\ Even(Len(wbuf)) /\ Even(granted) /\ Even(Len(block))
          /\ Even(framesAvail) /\ Even(Len(<<>>))
      BY <1>1, EmptySeq DEF EvenInv
    <2>5. ASSUME NEW n \in Requests, Write(n) PROVE Even(Len(wbuf'))
      <3>1. n \in Nat /\ Even(n)
        BY StreamAssumption DEF EvenSizes
      <3>2. wbuf' = [k \in 1..n |-> total + k]
        BY <2>5 DEF Write
      <3>3. Len(wbuf') = n
        BY <3>1, <3>2
      <3> QED
        BY <3>1, <3>3
    <2>6. ASSUME ObtainGrant PROVE Even(granted')
      <3> DEFINE g == ObtainFrames(cblk, Len(wbuf), framesAvail)
      <3>1. Even(mFrameCount - UserOff)
        BY <1>0, <1>1, EvenSums DEF EvenInv
      <3>2. UserOffset(cblk) \in Offsets /\ framesAvail \in Counter
        BY DEF BaseInv, TypeOK, UserInv, UserOff
      <3>3. g \in {Len(wbuf), framesAvail, mFrameCount - UserOff}
        BY <3>2, <1>0, ObtainFramesIs DEF UserOff
      <3> HIDE DEF g
      <3>4. granted' = g \/ granted' = granted
        BY <2>6 DEF ObtainGrant, g
      <3> QED
        BY <3>1, <3>3, <3>4, <2>4
    <2>7. ASSUME NEW req \in Requests, GetNextBuffer(req)
          PROVE  Even(Len(block'))
      <3> DEFINE ready == FramesReady(cblk, lock = "free")
                 n == NextBufferFrames(cblk, req, ready)
      <3>1. req \in Nat /\ Even(req) /\ ServerOff \in Offsets /\ TypeOK
              /\ NoLoopPoints(cblk)
        BY StreamAssumption DEF EvenSizes, BaseInv, ServerInv
      <3>2. ready \in Counter /\ ready \in {0, Fill}
        BY <3>1, <1>0, FramesReadyIs DEF NoLoop, Fill
      <3>3. block' = ReadBlock(cblk, n)
        BY <2>7 DEF GetNextBuffer
      <3> HIDE DEF ready
      <3>4. n \in 0..mFrameCount /\ n \in {req, ready, mFrameCount - ServerOff}
        BY <3>1, <3>2, <1>0, NextBufferFramesIs DEF ServerOff
      <3> HIDE DEF n
      <3>5. Len(block') = n
        BY <3>1, <3>3, <3>4, ReadBlockIs
      <3>6. Even(mFrameCount - ServerOff)
        BY <1>0, <1>1, EvenSums DEF EvenInv
      <3> QED
        BY <3>1, <3>2, <3>4, <3>5, <3>6, <1>1
    <2>8. Even(Len(wbuf'))
      <3>1. wbuf' = wbuf \/ wbuf' = <<>> \/ \E n \in Requests : Write(n)
        BY <1>6 DEF Moves, Ends, Next, WriterStep, Mixer, Start, Pause,
           StopLoop, ObtainEnter, ObtainLock, ObtainAvailable, ObtainRecheck,
           ObtainGrant, ObtainSleep, ObtainWoken, ObtainTimeout, ObtainResume,
           CopyFrames, GetNextBuffer, MixBlock, StepOwed, PrepareShort,
           DropTrack, EndPaused, EndStopped, Finished,
           vars, writer
      <3> QED
        BY <3>1, <2>4, <2>5, Zenon
    <2>9. Even(granted')
      <3>1. granted' = granted \/ ObtainGrant
        BY <1>6 DEF Moves, Ends, Next, WriterStep, Mixer, Start, Pause,
           StopLoop, Write, ObtainEnter, ObtainLock, ObtainAvailable,
           ObtainRecheck, ObtainSleep, ObtainWoken, ObtainTimeout,
           ObtainResume, CopyFrames, GetNextBuffer, MixBlock, StepOwed,
           PrepareShort, DropTrack, EndPaused, EndStopped, Finished,
           vars, writer
      <3> QED
        BY <3>1, <2>4, <2>6
    <2>10. Even(Len(block'))
      <3>1. block' = block \/ \E req \in Requests : GetNextBuffer(req)
        BY <1>6 DEF Moves, Ends, Next, WriterStep, Mixer, Start, Pause,
           StopLoop, Write, ObtainEnter, ObtainLock, ObtainAvailable,
           ObtainRecheck, ObtainGrant, ObtainSleep, ObtainWoken,
           ObtainTimeout, ObtainResume, CopyFrames, MixBlock, StepOwed,
           PrepareShort, DropTrack, EndPaused, EndStopped, Finished,
           vars, mixer
      <3> QED
        BY <3>1, <2>4, <2>7
    <2>11. Even(framesAvail')
      <3>1. framesAvail' \in {framesAvail, 0, FramesAvailable(cblk)}
        BY <1>6 DEF Moves, Ends, Next, WriterStep, Mixer, Start, Pause,
           StopLoop, Write, ObtainEnter, ObtainLock, ObtainAvailable,
           ObtainRecheck, ObtainGrant, ObtainSleep, ObtainWoken,
           ObtainTimeout, ObtainResume, CopyFrames, GetNextBuffer, MixBlock,
           StepOwed, PrepareShort, DropTrack, EndPaused, EndStopped, Finished,
           vars, writer
      <3>2. Even(FramesAvailable(cblk))
        BY <1>0, <1>1, RoomIs, EvenSums
      <3> QED
        BY <1>1, <2>4, <3>1, <3>2
    <2> QED
      BY <2>3, <2>8, <2>9, <2>10, <2>11
  <1> QED
    BY <1>2, <1>3, <1>5, <1>6 DEF Moves

(* The race starts no loop either.                                         *)
LEMMA RaceNoLoop == TypeOK /\ NoLoop /\ ResetRaced => NoLoop'
  <1> SUFFICES ASSUME TypeOK, NoLoop, ResetRaced PROVE NoLoop'
    OBVIOUS
  <1>1. PICK u \in {cblk.user, 0}, s \in {cblk.server, 0},
             b \in {cblk.userBase, 0} :
          LET seen == [cblk EXCEPT !.user = u, !.server = s, !.userBase = b]
          IN  cblk' = IF wpc = "release" THEN StepUser(seen, granted) ELSE seen
    BY DEF ResetRaced
  <1> QED
    BY <1>1 DEF TypeOK, Cblk, StepUser, NoLoop

(* For every even buffer size and even requests, from any even position:   *)
(* the properties hold without any assumption on the behaviour.            *)
THEOREM EvenStreamPlays ==
    EvenSizes /\ Safety => []RegionsApart /\ PlaysWhatWasWritten
  <1> DEFINE I == NoLoop /\ (raced \/ (BaseInv /\ RingInv /\ EvenInv))
  <1>1. EvenSizes /\ Init => I
    BY BaseInvInit, RingInvInit, EvenInvInit
  <1>2. EvenSizes /\ StreamBase /\ I /\ [Next]_vars => I'
    <2> SUFFICES ASSUME EvenSizes, StreamBase, I, [Next]_vars PROVE I'
      OBVIOUS
    <2>1. CASE raced
      BY <2>1, RacedStays DEF StreamBase, vars, writer, raced, NoLoop
    <2>2. CASE ResetRaced
      BY <2>2, RaceType, RaceNoLoop DEF StreamBase
    <2>3. CASE ~raced /\ ~ResetRaced
      BY <2>3, BaseInvNext, RingInvNext, EvenInvNext
    <2> QED
      BY <2>1, <2>2, <2>3
  <1>3. EvenSizes => EvenSizes'
    BY DEF EvenSizes, Even
  <1>4. EvenSizes /\ Safety => []NoLoop
    BY <1>1, <1>2, <1>3, StreamBaseAlways, PTL DEF Safety
  <1> QED
    BY <1>4, StreamRegionsApart, StreamPlays, PTL
=============================================================================
