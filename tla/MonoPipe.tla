------------------------------ MODULE MonoPipe ------------------------------
(***************************************************************************)
(* The pipe from the normal mixer thread (writer) to the fast mixer thread *)
(* (reader): libs/libnbaio/MonoPipe.cpp and MonoPipeReader.cpp.            *)
(*                                                                         *)
(* mFront and mRear are free-running counters of width W (2^32 in the      *)
(* code); a buffer index is the counter masked with mMaxFrames - 1.  Every *)
(* shared load, store and memcpy is a step of its own.  A frame is named   *)
(* by its position in the stream, so a misplaced, lost or overwritten one  *)
(* shows.  The throttle's sleep is a stutter; negotiation has succeeded.   *)
(***************************************************************************)
EXTENDS Integers, Sequences

CONSTANTS
    mMaxFrames,     \* capacity, roundup(reqFrames)
    W,              \* the counters wrap at W
    SeqMod,         \* mUpdateSeq wraps at SeqMod (2^31 in the code)
    MaxCount,       \* bound: frames per read or write call
    PTS,            \* bound: read timestamps the reader passes
    kInvalidPTS,
    mWriteCanBlock, \* constructor argument
    tsUsable        \* the constructor found a ratio of local time to frames

ASSUME MonoPipeAssumption ==
    /\ mMaxFrames \in Nat \ {0} /\ W \in Nat /\ W % mMaxFrames = 0
    /\ W >= 2 * mMaxFrames
    /\ MaxCount \in Nat /\ SeqMod \in Nat \ {0, 1}
    /\ PTS \subseteq Nat /\ kInvalidPTS \notin Nat
    /\ mWriteCanBlock \in BOOLEAN /\ tsUsable \in BOOLEAN

VARIABLES
    mBuffer, mFront, mRear, mNextRdPTS, mUpdateSeq, mIsShutdown,
    wpc, wbuf, avail,                           \* write()
    rpc, red, rbuf, nextReadPTS, out,           \* read()
    opc, seqOne, outFront, outPTS,              \* getNextWriteTimestamp()
    during                                      \* updates since seqOne

shared   == <<mBuffer, mFront, mRear, mNextRdPTS, mUpdateSeq, mIsShutdown>>
writer   == <<wpc, wbuf, avail>>
reader   == <<rpc, red, rbuf, nextReadPTS, out>>
observer == <<opc, seqOne, outFront, outPTS, during>>
vars     == <<shared, writer, reader, observer>>

Counter   == 0..(W - 1)
Index(c)  == c % mMaxFrames
Minus(a, b) == (a - b) % W
Lesser(a, b) == IF a < b THEN a ELSE b
NoSeq == [busy |-> FALSE, n |-> 0]
Timestamps == Nat \cup {kInvalidPTS}

TypeOK ==
    /\ mBuffer \in [0..(mMaxFrames - 1) -> Counter]
    /\ mFront \in Counter /\ mRear \in Counter
    /\ mNextRdPTS \in Timestamps /\ nextReadPTS \in Timestamps
    /\ mUpdateSeq \in [busy : BOOLEAN, n : 0..(SeqMod - 1)]
    /\ mIsShutdown \in BOOLEAN
    /\ wpc \in {"idle", "avail", "part1", "part2", "publish", "check"}
    /\ wbuf \in Seq(Counter) /\ avail \in 0..mMaxFrames
    /\ rpc \in {"idle", "part1", "part2", "seq", "front", "pts", "unseq"}
    /\ red \in 0..mMaxFrames
    /\ rbuf \in Seq(Counter) /\ out \in Seq(Counter)
    /\ opc \in {"idle", "retry", "front", "pts", "seqTwo"}
    /\ seqOne \in [busy : BOOLEAN, n : 0..(SeqMod - 1)]
    /\ outFront \in Counter /\ outPTS \in Timestamps
    /\ during \in 0..SeqMod

Init ==
    /\ mBuffer = [i \in 0..(mMaxFrames - 1) |-> 0]
    /\ mFront = 0 /\ mRear = 0 /\ mNextRdPTS = kInvalidPTS
    /\ mUpdateSeq = NoSeq /\ mIsShutdown = FALSE
    /\ wpc = "idle" /\ wbuf = <<>> /\ avail = 0
    /\ rpc = "idle" /\ red = 0 /\ rbuf = <<>> /\ out = <<>>
    /\ nextReadPTS = kInvalidPTS
    /\ opc = "idle" /\ seqOne = NoSeq /\ outFront = 0
    /\ outPTS = kInvalidPTS /\ during = 0

(* offsetTimestampByAudioFrames(), with a frame as the unit of local time. *)
OffsetTimestamp(ts, frames) ==
    IF ~tsUsable \/ ts = kInvalidPTS THEN kInvalidPTS ELSE ts + frames

(* memcpy of src, frames from+1 .. to, to the masked positions after base. *)
CopyIn(src, base, from, to) ==
    [i \in DOMAIN mBuffer |->
        IF \E k \in (from + 1)..to : Index(base + k - 1) = i
        THEN src[CHOOSE k \in (from + 1)..to : Index(base + k - 1) = i]
        ELSE mBuffer[i]]

(* The number of frames before the end of the buffer, at most n.           *)
Part1(c, n) == Lesser(mMaxFrames - Index(c), n)

-----------------------------------------------------------------------------
(* write(buffer, count): the caller is the thread that also calls          *)
(* getNextWriteTimestamp, so the two never overlap.                        *)

Write(n) ==
    /\ wpc = "idle" /\ opc = "idle"
    /\ wbuf' = [k \in 1..n |-> (mRear + k - 1) % W]
    /\ wpc' = "avail"
    /\ UNCHANGED <<shared, avail, reader, observer>>

WriteAvailOverfull ==
    /\ wpc = "avail"
    /\ avail' = mMaxFrames + 1 - Minus(mRear, mFront)
    /\ wpc' = "part1"
    /\ UNCHANGED <<shared, wbuf, reader, observer>>

(* availableToWrite()                                                      *)
WriteAvail ==
    /\ wpc = "avail"
    /\ avail' = mMaxFrames - Minus(mRear, mFront)
    /\ wpc' = "part1"
    /\ UNCHANGED <<shared, wbuf, reader, observer>>

Written == Lesser(avail, Len(wbuf))

WritePart1 ==
    /\ wpc = "part1"
    /\ mBuffer' = CopyIn(wbuf, mRear, 0, Part1(mRear, Written))
    /\ wpc' = IF Written = 0 THEN "check"
              ELSE IF Part1(mRear, Written) < Written THEN "part2"
              ELSE "publish"
    /\ UNCHANGED <<mFront, mRear, mNextRdPTS, mUpdateSeq, mIsShutdown, wbuf,
                   avail, reader, observer>>

WritePart2Omitted ==
    /\ wpc = "part2"
    /\ wpc' = "publish"
    /\ UNCHANGED <<shared, wbuf, avail, reader, observer>>

WritePart2 ==
    /\ wpc = "part2"
    /\ mBuffer' = CopyIn(wbuf, mRear, Part1(mRear, Written), Written)
    /\ wpc' = "publish"
    /\ UNCHANGED <<mFront, mRear, mNextRdPTS, mUpdateSeq, mIsShutdown, wbuf,
                   avail, reader, observer>>

WritePublish ==
    /\ wpc = "publish"
    /\ mRear' = (Written + mRear) % W
    /\ wbuf' = SubSeq(wbuf, Written + 1, Len(wbuf))
    /\ wpc' = "check"
    /\ UNCHANGED <<mBuffer, mFront, mNextRdPTS, mUpdateSeq, mIsShutdown,
                   avail, reader, observer>>

WriteCheckDeaf ==
    /\ wpc = "check"
    /\ IF ~mWriteCanBlock \/ wbuf = <<>>
       THEN wpc' = "idle" /\ wbuf' = <<>> /\ avail' = 0
       ELSE wpc' = "avail" /\ UNCHANGED <<wbuf, avail>>
    /\ UNCHANGED <<shared, reader, observer>>

(* Return, or sleep and go round again for the rest.                       *)
WriteCheck ==
    /\ wpc = "check"
    /\ IF ~mWriteCanBlock \/ mIsShutdown \/ wbuf = <<>>
       THEN wpc' = "idle" /\ wbuf' = <<>> /\ avail' = 0
       ELSE wpc' = "avail" /\ UNCHANGED <<wbuf, avail>>
    /\ UNCHANGED <<shared, reader, observer>>

(* shutdown(newState), by any thread.                                      *)
Shutdown ==
    /\ mIsShutdown' = ~mIsShutdown
    /\ UNCHANGED <<mBuffer, mFront, mRear, mNextRdPTS, mUpdateSeq, writer,
                   reader, observer>>

-----------------------------------------------------------------------------
(* read(buffer, count, readPTS)                                            *)

(* Environment: an observation is not overtaken by SeqMod updates (2^31    *)
(* reads between two loads of one getNextWriteTimestamp call).             *)
Observing == opc \in {"front", "pts", "seqTwo"}
ObservationNotLapped == Observing => during < SeqMod - 1

Read(n, readPTS) ==
    LET available == Minus(mRear, mFront) IN
    /\ rpc = "idle" /\ ObservationNotLapped
    /\ nextReadPTS' = OffsetTimestamp(readPTS, n)
    /\ rbuf' = <<>>
    /\ red' = Lesser(available, n)
    /\ rpc' = IF available = 0 THEN "seq"
              ELSE IF n = 0 THEN "idle" ELSE "part1"
    /\ UNCHANGED <<shared, writer, out, observer>>

ReadPart1 ==
    /\ rpc = "part1"
    /\ rbuf' = [k \in 1..Part1(mFront, red) |-> mBuffer[Index(mFront) + k - 1]]
    /\ rpc' = IF Part1(mFront, red) < red THEN "part2" ELSE "seq"
    /\ UNCHANGED <<shared, writer, red, nextReadPTS, out, observer>>

ReadPart2 ==
    /\ rpc = "part2"
    /\ rbuf' = rbuf \o [k \in 1..(red - Part1(mFront, red)) |-> mBuffer[k - 1]]
    /\ rpc' = "seq"
    /\ UNCHANGED <<shared, writer, red, nextReadPTS, out, observer>>

UpdateSeqUnmarked ==
    /\ rpc = "seq"
    /\ rpc' = "front"
    /\ during' = IF Observing THEN during + 1 ELSE 0
    /\ UNCHANGED <<shared, writer, red, rbuf, nextReadPTS, out, opc, seqOne,
                   outFront, outPTS>>

(* updateFrontAndNRPTS(): mark the sequence number ...                     *)
UpdateSeq ==
    /\ rpc = "seq"
    /\ mUpdateSeq' = [mUpdateSeq EXCEPT !.busy = TRUE]
    /\ rpc' = "front"
    /\ during' = IF Observing THEN during + 1 ELSE 0
    /\ UNCHANGED <<mBuffer, mFront, mRear, mNextRdPTS, mIsShutdown, writer,
                   red, rbuf, nextReadPTS, out, opc, seqOne, outFront,
                   outPTS>>

(* ... store the pair; the caller has the frames once mFront has moved ... *)
UpdateFront ==
    /\ rpc = "front"
    /\ mFront' = (red + mFront) % W
    /\ out' = IF red > 0 THEN rbuf ELSE out
    /\ rpc' = "pts" /\ rbuf' = <<>> /\ red' = 0
    /\ UNCHANGED <<mBuffer, mRear, mNextRdPTS, mUpdateSeq, mIsShutdown,
                   writer, nextReadPTS, observer>>

UpdatePTS ==
    /\ rpc = "pts"
    /\ mNextRdPTS' = nextReadPTS
    /\ rpc' = "unseq" /\ nextReadPTS' = kInvalidPTS
    /\ UNCHANGED <<mBuffer, mFront, mRear, mUpdateSeq, mIsShutdown, writer,
                   red, rbuf, out, observer>>

(* ... and count the update.                                               *)
UpdateUnseq ==
    /\ rpc = "unseq"
    /\ mUpdateSeq' = [busy |-> FALSE, n |-> (mUpdateSeq.n + 1) % SeqMod]
    /\ rpc' = "idle"
    /\ UNCHANGED <<mBuffer, mFront, mRear, mNextRdPTS, mIsShutdown, writer,
                   red, rbuf, nextReadPTS, out, observer>>

-----------------------------------------------------------------------------
(* getNextWriteTimestamp() and observeFrontAndNRPTS()                      *)

ObserveSeqOne ==
    /\ opc \in {"idle", "retry"} /\ wpc = "idle" /\ tsUsable
    /\ seqOne' = mUpdateSeq
    /\ during' = 0
    /\ opc' = "front"
    /\ UNCHANGED <<shared, writer, reader, outFront, outPTS>>

ObserveFront ==
    /\ opc = "front"
    /\ outFront' = mFront
    /\ opc' = "pts"
    /\ UNCHANGED <<shared, writer, reader, seqOne, outPTS, during>>

ObservePTS ==
    /\ opc = "pts"
    /\ outPTS' = mNextRdPTS
    /\ opc' = "seqTwo"
    /\ UNCHANGED <<shared, writer, reader, seqOne, outFront, during>>

PendingFramesReversed == Index(Minus(outFront, mRear))

(* Frames that getNextWriteTimestamp takes to be waiting in the pipe.      *)
PendingFrames == Index(Minus(mRear, outFront))

(* The loop's exit condition: the sequence number stood still, unmarked.   *)
Consistent == seqOne = mUpdateSeq /\ ~seqOne.busy

(* What getNextWriteTimestamp returns once it has a consistent pair.       *)
Returned == OffsetTimestamp(outPTS, PendingFrames)

ObserveSeqTwo ==
    /\ opc = "seqTwo"
    /\ opc' = IF Consistent THEN "idle" ELSE "retry"
    /\ seqOne' = NoSeq /\ outFront' = 0 /\ outPTS' = kInvalidPTS
    /\ during' = 0
    /\ UNCHANGED <<shared, writer, reader>>

-----------------------------------------------------------------------------
Writer ==
    \/ WriteAvail \/ WritePart1 \/ WritePart2 \/ WritePublish \/ WriteCheck

Update == UpdateSeq \/ UpdateFront \/ UpdatePTS \/ UpdateUnseq

Observer == ObserveSeqOne \/ ObserveFront \/ ObservePTS \/ ObserveSeqTwo

Reader == ReadPart1 \/ ReadPart2 \/ Update

Next ==
    \/ \E n \in 1..MaxCount : Write(n)
    \/ Writer
    \/ Shutdown
    \/ \E n \in 0..MaxCount, pts \in PTS \cup {kInvalidPTS} : Read(n, pts)
    \/ Reader
    \/ Observer

(* A thread inside write() or read() keeps running.                        *)
CallsProgress == WF_vars(Writer) /\ WF_vars(Reader)

Safety == Init /\ [][Next]_vars

Spec == Safety /\ CallsProgress

-----------------------------------------------------------------------------
(* Positions the writer is about to fill and the reader is about to copy.  *)
Filling == IF wpc \in {"part1", "part2"}
           THEN {Index(mRear + k) : k \in 0..(Written - 1)} ELSE {}
Draining == IF rpc \in {"part1", "part2"}
            THEN {Index(mFront + k) : k \in 0..(red - 1)} ELSE {}

(* mFront and mRear never separate by more than mMaxFrames, also across    *)
(* the 32-bit wrap, and the memcpy regions of the two threads are disjoint *)
(* (MonoPipe.h: "mFront and mRear will never be separated by more than     *)
(* mMaxFrames"; the counters are read without a lock).                     *)
NeverOverrun ==
    /\ Minus(mRear, mFront) <= mMaxFrames
    /\ Filling \cap Draining = {}

Pending == [k \in 1..Minus(mRear, mFront) |-> mBuffer[Index(mFront + k - 1)]]

Fifo == INSTANCE FrameFifo WITH
    Capacity <- mMaxFrames, offered <- wbuf, q <- Pending, delivered <- out

(* The pipe is a bounded queue: no frame that write() accepted is lost,    *)
(* repeated, reordered or overwritten before read() has copied it, with    *)
(* the copies of both sides split at the end of the buffer.                *)
ImplementsFifo == Fifo!Spec

(* An observation that ends saw the read position and the timestamp of one *)
(* and the same read: "a successful atomic observation" in                 *)
(* observeFrontAndNRPTS, with the reader updating at any point of it.      *)
ObservesOneRead ==
    [][(ObserveSeqTwo /\ Consistent)
          => outFront = mFront /\ outPTS = mNextRdPTS]_vars

(* shutdown(true) releases a writer even when the reader has stopped: "it  *)
(* will not be an unbounded amount of time" (MonoPipe.h).                  *)
ShutdownUnblocks == []<>(~mIsShutdown) \/ []<>(wpc = "idle")

(* "the value of the last read PTS plus the duration of the amt of data    *)
(* waiting to be read in the MonoPipe" (MonoPipe.h): what a completed      *)
(* getNextWriteTimestamp returns, except that it counts a pipe whose slots *)
(* are all in use as empty (the counters' difference is masked).           *)
TimestampCountsPending ==
    [][(ObserveSeqTwo /\ Consistent /\ mNextRdPTS # kInvalidPTS
            /\ Minus(mRear, mFront) < mMaxFrames)
          => Returned = mNextRdPTS + Minus(mRear, mFront)]_vars
=============================================================================
