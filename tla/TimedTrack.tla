----------------------------- MODULE TimedTrack -----------------------------
(***************************************************************************)
(* A track whose client queues buffers with presentation times:            *)
(* PlaybackThread::TimedTrack in libs/audioflinger/Tracks.cpp.  The client *)
(* trims the queue when it allocates; the mixer takes frames off its head. *)
(*                                                                         *)
(* A frame, a tick of media time and a tick of local time last equally     *)
(* long, so the scale factors are 1 and the offsets remain; a buffer is    *)
(* named by the order of queueing.  Every operation holds                  *)
(* mTimedBufferQueueLock throughout; getNextBuffer takes                   *)
(* mMediaTimeTransformLock anew in every round of its loop, so a round is  *)
(* a step and the transform may change between two of them.                *)
(***************************************************************************)
EXTENDS Integers, Sequences

CONSTANTS
    Sizes,          \* bound: frames in a buffer
    MediaTimes,     \* bound: presentation times the client gives
    Offsets,        \* bound: offsets of media time to the target timeline
    CommonOffset,   \* common time minus local time, while they are in sync
    Requests,       \* bound: frames the mixer asks for
    Continuity,     \* kSampleContinuityThreshold, in frames
    TooFar,         \* 2^31 ticks of local time
    Limit,          \* results of a transform beyond it overflow
    W,              \* mFramesPendingInQueue wraps at W (2^32)
    MaxBuffers,     \* bound: buffers queued over a run
    MaxTime         \* bound: ticks of local time

ASSUME TimedTrackAssumption ==
    /\ Sizes \subseteq Nat \ {0} /\ Requests \subseteq Nat \ {0}
    /\ MediaTimes \subseteq Int /\ Offsets \subseteq Int
    /\ CommonOffset \in Int
    /\ Continuity \in Nat \ {0} /\ TooFar \in Nat /\ Limit \in Nat
    /\ W \in Nat \ {0} /\ MaxBuffers \in Nat /\ MaxTime \in Nat

VARIABLES
    mTimedBufferQueue, mQueueHeadInFlight, mTrimQueueHeadOnRelease,
    mFramesPendingInQueue, mTimedAudioOutputOnTime,
    mMediaTimeTransform, mMediaTimeTransformTarget, mMediaTimeTransformValid,
    now, inSync,            \* local clock; is there a common clock
    call,                   \* the getNextBuffer call in progress
    buffer,                 \* what the mixer holds
    queued,                 \* history: buffers queued
    skipped,                \* history: late frames skipped, wraps at W
    trimmedUnderMixer,      \* history: trimmed behind a head in flight
    played                  \* history: last frame given to the mixer

flags   == <<mQueueHeadInFlight, mTrimQueueHeadOnRelease,
             mTimedAudioOutputOnTime>>
xform   == <<mMediaTimeTransform, mMediaTimeTransformTarget,
             mMediaTimeTransformValid>>
clocks  == <<now, inSync>>
history == <<queued, skipped, trimmedUnderMixer, played>>
vars    == <<mTimedBufferQueue, mFramesPendingInQueue, flags, xform, clocks,
             call, buffer, history>>

Target == {"LOCAL_TIME", "COMMON_TIME"}

(* A pause is a transform with denominator 0.                              *)
LinearTransform == [zero : Offsets, numer : {0, 1}, denom : {0, 1}]

TimedBuffer == [id : 1..MaxBuffers, pts : MediaTimes, size : Sizes,
                position : Nat]
Idle  == [frames |-> 0, pts |-> 0, busy |-> FALSE]
Empty == [raw |-> "NULL", frameCount |-> 0]

TypeOK ==
    /\ mTimedBufferQueue \in Seq(TimedBuffer)
    /\ \A i \in DOMAIN mTimedBufferQueue :
           mTimedBufferQueue[i].position <= mTimedBufferQueue[i].size
    /\ mQueueHeadInFlight \in BOOLEAN /\ mTrimQueueHeadOnRelease \in BOOLEAN
    /\ mFramesPendingInQueue \in 0..(W - 1)
    /\ mTimedAudioOutputOnTime \in BOOLEAN
    /\ mMediaTimeTransform \in LinearTransform
    /\ mMediaTimeTransformTarget \in Target
    /\ mMediaTimeTransformValid \in BOOLEAN
    /\ now \in 0..MaxTime /\ inSync \in BOOLEAN
    /\ call \in [frames : Nat, pts : Int, busy : BOOLEAN]
    /\ buffer \in [raw : {"NULL", "silence", "head"}, frameCount : Nat]
    /\ queued \in 0..MaxBuffers /\ skipped \in 0..(W - 1)
    /\ trimmedUnderMixer \in BOOLEAN
    /\ played \in [id : 0..MaxBuffers, end : Nat]

Init ==
    /\ mTimedBufferQueue = <<>>
    /\ mQueueHeadInFlight = FALSE /\ mTrimQueueHeadOnRelease = FALSE
    /\ mFramesPendingInQueue = 0 /\ mTimedAudioOutputOnTime = FALSE
    /\ mMediaTimeTransform \in LinearTransform
    /\ mMediaTimeTransformTarget \in Target
    /\ mMediaTimeTransformValid = FALSE
    /\ now = 0 /\ inSync \in BOOLEAN
    /\ call = Idle /\ buffer = Empty
    /\ queued = 0 /\ skipped = 0 /\ trimmedUnderMixer = FALSE
    /\ played = [id |-> 0, end |-> 0]

Lesser(a, b) == IF a < b THEN a ELSE b
Abs(n) == IF n < 0 THEN -n ELSE n

(* mTimedBufferQueueLock is free.                                          *)
QueueUnlocked == ~call.busy

-----------------------------------------------------------------------------
(* Clocks and transforms.                                                  *)

Tick ==
    /\ now < MaxTime
    /\ now' = now + 1
    /\ UNCHANGED <<mTimedBufferQueue, mFramesPendingInQueue, flags, xform,
                   inSync, call, buffer, history>>

(* The common clock appears and disappears.                                *)
Sync ==
    /\ inSync' = ~inSync
    /\ UNCHANGED <<mTimedBufferQueue, mFramesPendingInQueue, flags, xform,
                   now, call, buffer, history>>

ForwardFails(pts) == Abs(mMediaTimeTransform.zero
                             + pts * mMediaTimeTransform.numer) > Limit
Forward(pts) ==
    mMediaTimeTransform.zero + pts * mMediaTimeTransform.numer

(* Common time while the transform targets it, otherwise local time.       *)
IsCommon == mMediaTimeTransformTarget = "COMMON_TIME"
TargetOffset == IF IsCommon THEN CommonOffset ELSE 0

(* doReverseTransform of the time now; it fails on a numerator of 0.       *)
MediaTimeKnown ==
    /\ mMediaTimeTransformValid
    /\ IsCommon => inSync
    /\ mMediaTimeTransform.numer # 0
    /\ Abs(now + TargetOffset - mMediaTimeTransform.zero) <= Limit
MediaTimeNow == (now + TargetOffset - mMediaTimeTransform.zero)
                    * mMediaTimeTransform.denom

SetMediaTimeTransform(x, target) ==
    /\ mMediaTimeTransform' = x
    /\ mMediaTimeTransformTarget' = target
    /\ mMediaTimeTransformValid' = TRUE
    /\ UNCHANGED <<mTimedBufferQueue, mFramesPendingInQueue, flags, clocks,
                   call, buffer, history>>

-----------------------------------------------------------------------------
(* The client's operations on the queue.                                   *)

Rest(b) == b.size - b.position

(* Frames left in elements from+1 .. to of q.                              *)
RestOf(q, from, to) ==
    LET sum[k \in Nat] == IF k <= from THEN 0 ELSE sum[k - 1] + Rest(q[k])
    IN  sum[to]

(* The presentation time of the frame after the i-th buffer.               *)
BufEnd(q, i) == IF i < Len(q) THEN q[i + 1].pts ELSE q[i].pts + q[i].size

TrimEnd(q) ==
    CHOOSE k \in 0..Len(q) :
        /\ \A i \in 1..k : BufEnd(q, i) <= MediaTimeNow
        /\ k < Len(q) => BufEnd(q, k + 1) > MediaTimeNow

(* Vector::removeItemsAt(index, count), which refuses to pass the end.     *)
RemoveItemsAt(q, index, count) ==
    IF index + count > Len(q) THEN q
    ELSE SubSeq(q, 1, index) \o SubSeq(q, index + count + 1, Len(q))

TrimsHeadOnReleaseNever(q) == FALSE

(* What trimTimedBufferQueue_l finds: the head in flight is left for       *)
(* releaseBuffer.                                                          *)
TrimsHeadOnRelease(q) ==
    mTrimQueueHeadOnRelease \/ (TrimEnd(q) > 0 /\ mQueueHeadInFlight)
TrimStart(q) == IF TrimsHeadOnRelease(q) THEN 1 ELSE 0

(* allocateTimedBuffer, of which the trimming is all that outlasts the     *)
(* call in this module.                                                    *)
AllocateTimedBuffer ==
    LET q == mTimedBufferQueue
        start == TrimStart(q)
        end == TrimEnd(q)
        trims == start < end
    IN  /\ QueueUnlocked
        /\ MediaTimeKnown
        /\ mTrimQueueHeadOnRelease' = TrimsHeadOnRelease(q)
        /\ mFramesPendingInQueue' = IF trims
               THEN (mFramesPendingInQueue - RestOf(q, start, end)) % W
               ELSE mFramesPendingInQueue
        /\ mTimedBufferQueue' = IF trims THEN RemoveItemsAt(q, start, end)
                                ELSE q
        /\ trimmedUnderMixer' = (trimmedUnderMixer \/ (trims /\ start = 1))
        /\ UNCHANGED <<mQueueHeadInFlight, mTimedAudioOutputOnTime, xform,
                       clocks, call, buffer, queued, skipped, played>>

QueueTimedBuffer(size, pts) ==
    /\ QueueUnlocked
    /\ mMediaTimeTransformValid
    /\ queued < MaxBuffers
    /\ queued' = queued + 1
    /\ mFramesPendingInQueue' = (mFramesPendingInQueue + size) % W
    /\ mTimedBufferQueue' = Append(mTimedBufferQueue,
           [id |-> queued + 1, pts |-> pts, size |-> size, position |-> 0])
    /\ UNCHANGED <<flags, xform, clocks, call, buffer, skipped,
                   trimmedUnderMixer, played>>

-----------------------------------------------------------------------------
(* The mixer: getNextBuffer and releaseBuffer alternate.                   *)

GetNextBufferInvalidPTS ==
    /\ QueueUnlocked /\ buffer = Empty
    /\ mTimedAudioOutputOnTime' = FALSE
    /\ UNCHANGED <<mTimedBufferQueue, mFramesPendingInQueue,
                   mQueueHeadInFlight, mTrimQueueHeadOnRelease, xform, clocks,
                   call, buffer, history>>

(* The mixer works on output that is played now or later.                  *)
GetNextBuffer(frames, pts) ==
    /\ QueueUnlocked /\ buffer = Empty
    /\ call' = [frames |-> frames, pts |-> pts, busy |-> TRUE]
    /\ UNCHANGED <<mTimedBufferQueue, mFramesPendingInQueue, flags, xform,
                   clocks, buffer, history>>

head == Head(mTimedBufferQueue)
InLoop == call.busy /\ mTimedBufferQueue # <<>>
Playing == InLoop /\ mMediaTimeTransform.denom # 0
Located == Playing /\ ~ForwardFails(head.pts) /\ (IsCommon => inSync)

(* The distance in frames from the mixer's position to the head's next one.*)
SampleDelta ==
    Forward(head.pts) - TargetOffset + head.position - call.pts
Near == Located /\ Abs(SampleDelta) < TooFar

(* kSampleStartupThreshold is one frame.                                   *)
Threshold == IF mTimedAudioOutputOnTime THEN Continuity ELSE 1
OnTime == Abs(SampleDelta) <= Threshold

(* trimTimedBufferQueueHead_l                                              *)
TrimHead(q) ==
    /\ mTimedBufferQueue' = Tail(q)
    /\ mFramesPendingInQueue' = (mFramesPendingInQueue - Rest(Head(q))) % W

ReturnNull ==
    /\ call' = Idle
    /\ UNCHANGED buffer

(* No buffer is queued, or common time cannot be converted.                *)
GetFails ==
    /\ \/ call.busy /\ mTimedBufferQueue = <<>>
       \/ Playing /\ ~ForwardFails(head.pts) /\ IsCommon /\ ~inSync
    /\ ReturnNull
    /\ UNCHANGED <<mTimedBufferQueue, mFramesPendingInQueue, flags, xform,
                   clocks, history>>

GetUntransformable ==
    /\ Playing /\ ForwardFails(head.pts)
    /\ TrimHead(mTimedBufferQueue)
    /\ ReturnNull
    /\ UNCHANGED <<flags, xform, clocks, history>>

(* timedYieldSilence_l                                                     *)
YieldSilence(frames) ==
    /\ buffer' = [raw |-> "silence", frameCount |-> Lesser(frames, call.frames)]
    /\ mTimedAudioOutputOnTime' = FALSE
    /\ call' = Idle
    /\ UNCHANGED <<mTimedBufferQueue, mFramesPendingInQueue,
                   mQueueHeadInFlight, mTrimQueueHeadOnRelease, xform, clocks,
                   history>>

GetPaused ==
    /\ InLoop /\ mMediaTimeTransform.denom = 0
    /\ YieldSilence(call.frames)

GetEarly ==
    /\ Near /\ ~OnTime /\ SampleDelta > 0
    /\ YieldSilence(SampleDelta)

(* timedYieldSamples_l, after late frames of the head have been skipped    *)
YieldSamples(late) ==
    LET h == [head EXCEPT !.position = @ + late]
        n == Lesser(Rest(h), call.frames)
    IN  /\ mTimedBufferQueue' = [mTimedBufferQueue EXCEPT ![1] = h]
        /\ buffer' = [raw |-> "head", frameCount |-> n]
        /\ mQueueHeadInFlight' = TRUE
        /\ mTimedAudioOutputOnTime' = TRUE
        /\ call' = Idle
        /\ skipped' = (skipped + late) % W
        /\ played' = [id |-> h.id, end |-> h.position + n]
        /\ UNCHANGED <<mFramesPendingInQueue, mTrimQueueHeadOnRelease, xform,
                       clocks, queued, trimmedUnderMixer>>

GetOnTime ==
    /\ Near /\ OnTime
    /\ YieldSamples(0)

Late == -SampleDelta
PassesHead == head.position + Late > head.size
TooLate == Near /\ ~OnTime /\ Late > 0 /\ PassesHead

GetLate ==
    /\ Near /\ ~OnTime /\ Late > 0 /\ ~PassesHead
    /\ YieldSamples(Late)

(* The whole head is too late, or too far away: drop it and go round.      *)
GetDrop ==
    /\ TooLate \/ (Located /\ Abs(SampleDelta) >= TooFar)
    /\ TrimHead(mTimedBufferQueue)
    /\ mTimedAudioOutputOnTime' = (mTimedAudioOutputOnTime /\ ~TooLate)
    /\ UNCHANGED <<mQueueHeadInFlight, mTrimQueueHeadOnRelease, xform, clocks,
                   call, buffer, history>>

ReleaseSilence ==
    /\ buffer.raw = "silence" /\ QueueUnlocked
    /\ buffer' = Empty
    /\ UNCHANGED <<mTimedBufferQueue, mFramesPendingInQueue, flags, xform,
                   clocks, call, history>>

ConsumedNothing(h) == h

(* What is left of the head after the mixer has used its frames.           *)
Consumed(h) == [h EXCEPT !.position = @ + buffer.frameCount]

ReleaseHeadUncounted ==
    LET h == Consumed(head)
        q == [mTimedBufferQueue EXCEPT ![1] = h]
        pending == mFramesPendingInQueue
    IN  /\ buffer.raw = "head" /\ QueueUnlocked /\ mTimedBufferQueue # <<>>
        /\ buffer' = Empty
        /\ mQueueHeadInFlight' = FALSE
        /\ IF h.position >= h.size \/ mTrimQueueHeadOnRelease
           THEN /\ mTimedBufferQueue' = Tail(q)
                /\ mFramesPendingInQueue' = (pending - Rest(h)) % W
                /\ mTrimQueueHeadOnRelease' = FALSE
           ELSE /\ mTimedBufferQueue' = q
                /\ mFramesPendingInQueue' = pending
                /\ UNCHANGED mTrimQueueHeadOnRelease
        /\ UNCHANGED <<mTimedAudioOutputOnTime, xform, clocks, call, history>>

ReleaseHead ==
    LET h == Consumed(head)
        q == [mTimedBufferQueue EXCEPT ![1] = h]
        pending == mFramesPendingInQueue - buffer.frameCount
    IN  /\ buffer.raw = "head" /\ QueueUnlocked /\ mTimedBufferQueue # <<>>
        /\ buffer' = Empty
        /\ mQueueHeadInFlight' = FALSE
        /\ IF h.position >= h.size \/ mTrimQueueHeadOnRelease
           THEN /\ mTimedBufferQueue' = Tail(q)
                /\ mFramesPendingInQueue' = (pending - Rest(h)) % W
                /\ mTrimQueueHeadOnRelease' = FALSE
           ELSE /\ mTimedBufferQueue' = q
                /\ mFramesPendingInQueue' = pending % W
                /\ UNCHANGED mTrimQueueHeadOnRelease
        /\ UNCHANGED <<mTimedAudioOutputOnTime, xform, clocks, call, history>>

-----------------------------------------------------------------------------
(* One round of getNextBuffer's loop.                                      *)
Round ==
    \/ GetFails \/ GetUntransformable \/ GetPaused \/ GetEarly
    \/ GetOnTime \/ GetLate \/ GetDrop

Next ==
    \/ Tick \/ Sync
    \/ \E x \in LinearTransform, t \in Target : SetMediaTimeTransform(x, t)
    \/ AllocateTimedBuffer
    \/ \E size \in Sizes, pts \in MediaTimes : QueueTimedBuffer(size, pts)
    \/ GetNextBufferInvalidPTS
    \/ \E n \in Requests, pts \in now..(now + 1) : GetNextBuffer(n, pts)
    \/ Round
    \/ ReleaseSilence \/ ReleaseHead

Spec == Init /\ [][Next]_vars

-----------------------------------------------------------------------------
(* Trimming by the client never takes the buffer the mixer reads from, nor *)
(* moves it from the head of the queue; the mixer stays within it; and a   *)
(* trim put off until the release is not applied to a later buffer.        *)
(* releaseBuffer asserts "released buffer not within the head of the timed *)
(* buffer queue" and "Queue head in flight during release of silence       *)
(* buffer".                                                                *)
HeadInFlightStays ==
    /\ mQueueHeadInFlight <=> buffer.raw = "head"
    /\ mTrimQueueHeadOnRelease => mQueueHeadInFlight
    /\ mQueueHeadInFlight =>
           /\ mTimedBufferQueue # <<>> /\ head.id = played.id
           /\ head.position + buffer.frameCount = played.end
           /\ played.end <= head.size

Remaining == RestOf(mTimedBufferQueue, 0, Len(mTimedBufferQueue))

(* framesReady() is the number of frames in the queue plus the late ones   *)
(* that getNextBuffer ever skipped in a head it kept: those are never      *)
(* taken off the count.  True until the queue is trimmed behind a head in  *)
(* flight, where removeItemsAt is given an end for a count.                *)
PendingCountsSkipped ==
    ~trimmedUnderMixer => mFramesPendingInQueue = (Remaining + skipped) % W

(* The mixer is given every frame at most once, in the order of queueing,  *)
(* whatever is skipped, dropped or trimmed between two of its calls.       *)
PlaysForward ==
    [][buffer.raw # "head" /\ buffer'.raw = "head" =>
          \/ played'.id > played.id
          \/ /\ played'.id = played.id
             /\ played'.end - buffer'.frameCount >= played.end]_vars

(* "Bad bookkeeping while updating frames pending.  Should have at least   *)
(* %u queued frames": what updateFramesPendingAfterTrim_l asserts, for the *)
(* head of the queue at any time.                                          *)
PendingCoversHead ==
    mTimedBufferQueue # <<>> => mFramesPendingInQueue >= Rest(head)
=============================================================================
