-------------------------- MODULE AudioTrackShared --------------------------
(***************************************************************************)
(* The control block shared by an AudioTrack client and AudioFlinger, as a *)
(* record, and what the methods of audio_track_cblk_t do to it             *)
(* (libs/libmedia/AudioTrackShared.cpp, output direction).  user, server,  *)
(* their bases and the loop points are unsigned counters that wrap at W.   *)
(***************************************************************************)
EXTENDS Integers

CONSTANTS
    W,              \* 2^32 in the code
    mFrameCount     \* frames in the buffer, not necessarily a power of 2

ASSUME SharedAssumption ==
    mFrameCount \in Nat \ {0} /\ W \in Nat /\ W > 2 * mFrameCount

UINT_MAX == W - 1
Counter  == 0..UINT_MAX

Plus(a, b)   == (a + b) % W
Minus(a, b)  == (a - b) % W
Lesser(a, b) == IF a < b THEN a ELSE b

Cblk == [user : Counter, server : Counter, userBase : Counter,
         serverBase : Counter, loopStart : Counter, loopEnd : Counter,
         loopCount : Int]

(* audio_track_cblk_t(), with the indexes restoreTrack_l() starts from.    *)
NewCblk(position) ==
    [user |-> position, server |-> position, userBase |-> position,
     serverBase |-> position, loopStart |-> UINT_MAX, loopEnd |-> UINT_MAX,
     loopCount |-> 0]

(* The base follows its index around the buffer.                           *)
StepBase(base, x) ==
    IF x >= mFrameCount
    THEN IF x - mFrameCount >= base THEN Plus(base, mFrameCount) ELSE base
    ELSE IF x >= Plus(base, mFrameCount) THEN Plus(base, mFrameCount) ELSE base

StepUser(c, n) ==
    LET u == Plus(c.user, n)
    IN  [c EXCEPT !.user = u, !.userBase = StepBase(@, u)]

(* stepServer(), once it has the lock.                                     *)
StepServer(c, n) ==
    LET flushed == c.server = c.user
        moved   == IF flushed THEN c.user ELSE Plus(c.server, n)
        looped  == moved >= c.loopEnd
        s       == IF looped THEN c.loopStart ELSE moved
        last    == looped /\ c.loopCount - 1 = 0
    IN  [c EXCEPT !.server = s,
                  !.serverBase = StepBase(@, s),
                  !.loopCount = IF looped THEN @ - 1 ELSE @,
                  !.loopStart = IF last THEN UINT_MAX ELSE @,
                  !.loopEnd = IF last THEN UINT_MAX ELSE @]

FramesAvailable(c) ==
    Minus(Plus(Lesser(c.server, c.loopStart), mFrameCount), c.user)

(* framesReady(); beyond the loop end it needs the lock.                   *)
FramesReady(c, locked) ==
    IF c.user < c.loopEnd THEN Minus(c.user, c.server)
    ELSE IF ~locked THEN 0
    ELSE IF c.loopCount >= 0
         THEN ((c.loopEnd - c.loopStart) * c.loopCount + c.user - c.server) % W
         ELSE UINT_MAX

(* setLoop(0, 0, 0)                                                       *)
CancelLoop(c) == [c EXCEPT !.loopStart = UINT_MAX, !.loopEnd = UINT_MAX,
                           !.loopCount = 0]

ObtainFramesUncut(c, req, avail) == Lesser(req, avail)

(* The part of a request obtainBuffer() grants: no more than is free, and  *)
(* not across the end of the buffer.                                       *)
ObtainFrames(c, req, avail) ==
    Lesser(Lesser(req, avail), Minus(Plus(c.userBase, mFrameCount), c.user))

(* The part of a request Track::getNextBuffer() grants: no more than is    *)
(* ready, not across the end of the buffer and not across the loop end.    *)
NextBufferFrames(c, req, ready) ==
    LET wrapAt == Plus(c.serverBase, mFrameCount)
        end    == Lesser(c.loopEnd, wrapAt)
    IN  Lesser(Lesser(req, ready), Minus(end, c.server))

(* Where in the buffer a position lies, seen from each side.               *)
UserOffset(c)   == Minus(c.user, c.userBase)
ServerOffset(c) == Minus(c.server, c.serverBase)
=============================================================================
