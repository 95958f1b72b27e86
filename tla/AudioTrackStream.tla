-------------------------- MODULE AudioTrackStream --------------------------
(***************************************************************************)
(* A streaming AudioTrack: the client's write() with obtainBuffer() and    *)
(* releaseBuffer() (libs/libmedia/AudioTrack.cpp), start(), stop(),        *)
(* pause() and flush() from a second client thread, and on the server the  *)
(* Track (libs/audioflinger/Tracks.cpp) with what the mixer thread does to *)
(* it: getNextBuffer(), releaseBuffer(), and the end of the track in       *)
(* prepareTracks_l() (Threads.cpp), over one control block.                *)
(*                                                                         *)
(* reset() puts the indexes back to 0 without the control block's lock,    *)
(* called by stop() or flush() for a track the mixer no longer has, and by *)
(* the mixer thread for one that has ended.                                *)
(*                                                                         *)
(* Locks are modelled by who holds them.  The server only ever tries the   *)
(* control block's lock.  A frame is named by its number in the stream.    *)
(* No loop is set and the control block is not replaced.                   *)
(***************************************************************************)
EXTENDS AudioTrackShared, Sequences

CONSTANTS
    Starts,         \* positions the control block may start from
    Requests,       \* bound: sizes of write() and getNextBuffer() requests
    MaxWritten,     \* bound: frames written in a behaviour
    Callers         \* who calls obtainBuffer(), see below

(* "write" and "callback" wait without limit (waitCount -1), "timed" is a  *)
(* callback thread with timed events, which waits once (waitCount 1), and  *)
(* "poll" does not wait (waitCount 0).  Only the callback thread treats    *)
(* the status STOPPED as the end of its work.                              *)
ASSUME CallersAssumption ==
    Callers \subseteq {"write", "callback", "timed", "poll"}

ASSUME StreamAssumption ==
    Starts \subseteq Counter /\ Requests \subseteq Nat /\ MaxWritten \in Nat

VARIABLES
    cblk, buffer, lock, disabled,           \* shared memory (CBLK_DISABLED)
    mLock, mActive,                         \* AudioTrack
    wpc, wbuf, caller, framesAvail, region, granted,    \* write()
    signalled, total,
    mState, listed, mResetDone,             \* Track; is it in mActiveTracks
    spc, block, mStepServerFailed, delivered    \* mixer thread

client == <<mLock, mActive>>
writer == <<wpc, wbuf, caller, framesAvail, region, granted, signalled, total>>
track  == <<mState, listed, mResetDone>>
mixer  == <<spc, block, mStepServerFailed, delivered>>
vars   == <<cblk, buffer, lock, disabled, client, writer, track, mixer>>

Offsets == 0..(mFrameCount - 1)
Frames  == 0..MaxWritten        \* 0: nothing has been written there
Drop(s, n) == SubSeq(s, n + 1, Len(s))

(* PAUSED stands for PAUSING too, and ACTIVE for RESUMING.                 *)
TypeOK ==
    /\ cblk \in Cblk /\ buffer \in [Offsets -> Frames]
    /\ lock \in {"free", "writer"}
    /\ mLock \in {"free", "writer", "stopper", "raced"}
    /\ mActive \in BOOLEAN /\ disabled \in BOOLEAN
    /\ wpc \in {"idle", "enter", "avail", "availLocked", "relock", "recheck",
                "grant", "sleep", "waiting", "woken", "timedOut", "copy",
                "release", "raced"}
    /\ wbuf \in Seq(Frames) /\ caller \in Callers
    /\ framesAvail \in Counter /\ region \in Counter
    /\ granted \in 0..Len(wbuf)
    /\ signalled \in BOOLEAN /\ total \in 0..MaxWritten
    /\ mState \in {"IDLE", "ACTIVE", "PAUSED", "STOPPED", "FLUSHED"}
    /\ listed \in BOOLEAN /\ mResetDone \in BOOLEAN
    /\ spc \in {"idle", "mix", "step", "short", "reset", "raced"}
    /\ block \in Seq(Frames) /\ delivered \in Seq(Frames)
    /\ mStepServerFailed \in BOOLEAN

Init ==
    /\ \E p \in Starts : cblk = NewCblk(p)
    /\ buffer = [i \in Offsets |-> 0]
    /\ lock = "free" /\ mLock = "free" /\ mActive = TRUE
    /\ disabled = FALSE
    /\ wpc = "idle" /\ wbuf = <<>> /\ caller \in Callers
    /\ framesAvail = 0 /\ region = 0 /\ granted = 0
    /\ signalled = FALSE /\ total = 0
    /\ mState = "ACTIVE" /\ listed = TRUE /\ mResetDone = FALSE
    /\ spc = "idle" /\ block = <<>> /\ delivered = <<>>
    /\ mStepServerFailed = FALSE

-----------------------------------------------------------------------------
(* The server's Track, called with the playback thread's mLock held: never *)
(* while the mixer thread is in prepareTracks_l().                         *)

ThreadLockFree == spc \in {"idle", "mix", "step"}

(* Track::start() and addTrack_l()                                         *)
StartTrack ==
    /\ ThreadLockFree
    /\ mState' = "ACTIVE"
    /\ listed' = TRUE
    /\ mResetDone' = (listed /\ mResetDone)

(* TrackBase::reset()                                                      *)
ResetCblk(c) ==
    [c EXCEPT !.user = 0, !.server = 0, !.userBase = 0, !.serverBase = 0]

(* Track::reset() for a track that is to be in the given state.  What the  *)
(* mixer still owed is forgotten with the rest.                            *)
ResetTo(state) ==
    /\ ~mResetDone
    /\ cblk' = ResetCblk(cblk)
    /\ mStepServerFailed' = FALSE /\ block' = <<>>
    /\ mResetDone' = TRUE
    /\ mState' = IF state = "FLUSHED" THEN "IDLE" ELSE state

(* Track::stop() and Track::flush(): a track the mixer does not have is    *)
(* reset at once, unless that has been done; otherwise prepareTracks_l()   *)
(* will do it.                                                             *)
EndTo(state) ==
    /\ ThreadLockFree
    /\ \/ ~listed /\ ResetTo(state)
       \/ /\ listed \/ mResetDone
          /\ mState' = state
          /\ UNCHANGED <<cblk, block, mStepServerFailed, mResetDone>>
    /\ UNCHANGED listed

-----------------------------------------------------------------------------
(* Another client thread: start(), stop(), pause() and flush().  Each      *)
(* holds mLock, and none but stop() takes another lock the model tells     *)
(* apart, so that each of the others is one step.                          *)

Start ==
    /\ mLock = "free" /\ lock = "free" /\ ~mActive
    /\ mActive' = TRUE
    /\ disabled' = FALSE
    /\ StartTrack
    /\ UNCHANGED <<cblk, buffer, lock, mLock, writer, mixer>>

Signal == signalled' = (wpc = "waiting" \/ signalled)

(* stop(): the signal is sent without the control block's lock, the Track  *)
(* is stopped, then setLoop_l() takes the lock to cancel any loop.         *)
StopTrack ==
    /\ mLock = "free" /\ mActive
    /\ mActive' = FALSE
    /\ mLock' = "stopper"
    /\ Signal
    /\ EndTo("STOPPED")
    /\ UNCHANGED <<buffer, lock, disabled, wpc, wbuf, caller, framesAvail,
                   region, granted, total, spc, delivered>>

StopLoop ==
    /\ mLock = "stopper" /\ lock = "free"
    /\ cblk' = CancelLoop(cblk)
    /\ mLock' = "free"
    /\ UNCHANGED <<buffer, lock, disabled, mActive, writer, track, mixer>>

Pause ==
    /\ mLock = "free" /\ mActive
    /\ mActive' = FALSE
    /\ Signal
    /\ ThreadLockFree
    /\ mState' = "PAUSED"
    /\ UNCHANGED <<cblk, buffer, lock, disabled, mLock, wpc, wbuf, caller,
                   framesAvail, region, granted, total, listed, mResetDone,
                   mixer>>

Flush ==
    /\ mLock = "free" /\ ~mActive
    /\ EndTo("FLUSHED")
    /\ Signal
    /\ UNCHANGED <<buffer, lock, disabled, client, wpc, wbuf, caller,
                   framesAvail, region, granted, total, spc, delivered>>

-----------------------------------------------------------------------------
(* write(): obtainBuffer(), memcpy, releaseBuffer(), until all is written  *)
(* or obtainBuffer() refuses.                                              *)

Write(n) ==
    /\ wpc = "idle" /\ total + n <= MaxWritten
    /\ wbuf' = [k \in 1..n |-> total + k]
    /\ total' = total + n
    /\ wpc' = "enter"
    /\ UNCHANGED <<cblk, buffer, lock, disabled, client, caller, framesAvail,
                   region, granted, signalled, track, mixer>>

ObtainEnter ==
    /\ wpc = "enter" /\ mLock = "free"
    /\ mLock' = "writer"
    /\ wpc' = "avail"
    /\ UNCHANGED <<cblk, buffer, lock, disabled, mActive, wbuf, caller,
                   framesAvail, region, granted, signalled, total, track,
                   mixer>>

ObtainLock ==
    /\ wpc \in {"avail", "relock"}
    /\ lock = "free"
    /\ lock' = "writer"
    /\ wpc' = IF wpc = "avail" THEN "availLocked" ELSE "recheck"
    /\ UNCHANGED <<cblk, buffer, disabled, client, wbuf, caller, framesAvail,
                   region, granted, signalled, total, track, mixer>>

(* framesAvailable() under the lock; with no room the lock is taken again  *)
(* for the wait loop.                                                      *)
ObtainAvailable ==
    /\ wpc = "availLocked"
    /\ framesAvail' = FramesAvailable(cblk)
    /\ wpc' = IF FramesAvailable(cblk) > 0 THEN "grant" ELSE "relock"
    /\ lock' = "free"
    /\ UNCHANGED <<cblk, buffer, disabled, client, wbuf, caller, region,
                   granted, signalled, total, track, mixer>>

(* The head of the wait loop, with both locks held.                        *)
ObtainRecheck ==
    /\ wpc = "recheck"
    /\ framesAvail' = FramesAvailable(cblk)
    /\ \/ /\ FramesAvailable(cblk) > 0
          /\ wpc' = "grant"
          /\ lock' = "free"
          /\ UNCHANGED <<mLock, wbuf>>
       \/ /\ FramesAvailable(cblk) = 0
          /\ ~mActive \/ caller = "poll"    \* NO_MORE_BUFFERS or WOULD_BLOCK
          /\ wpc' = "idle" /\ wbuf' = <<>>
          /\ lock' = "free" /\ mLock' = "free"
       \/ /\ FramesAvailable(cblk) = 0
          /\ mActive /\ caller # "poll"
          /\ wpc' = "sleep"
          /\ mLock' = "free"
          /\ UNCHANGED <<lock, wbuf>>
    /\ UNCHANGED <<cblk, buffer, disabled, mActive, caller, region, granted,
                   signalled, total, track, mixer>>

StopsOnStopped == caller \in {"callback", "timed"}

(* obtainBuffer() returns a region, chosen with the control block's lock   *)
(* released again; a callback thread that is told STOPPED makes nothing of *)
(* it.                                                                     *)
ObtainGrant ==
    /\ wpc = "grant"
    /\ mLock' = "free" /\ framesAvail' = 0
    /\ \/ /\ mActive \/ ~StopsOnStopped
          /\ granted' = ObtainFrames(cblk, Len(wbuf), framesAvail)
          /\ region' = UserOffset(cblk)
          /\ wpc' = "copy"
          /\ UNCHANGED wbuf
       \/ /\ ~mActive /\ StopsOnStopped
          /\ wpc' = "idle" /\ wbuf' = <<>>
          /\ UNCHANGED <<region, granted>>
    /\ UNCHANGED <<cblk, buffer, lock, disabled, mActive, caller, signalled,
                   total, track, mixer>>

(* cv.waitRelative(): a signal counts only from here on.                   *)
ObtainSleep ==
    /\ wpc = "sleep"
    /\ lock' = "free"
    /\ signalled' = FALSE
    /\ wpc' = "waiting"
    /\ UNCHANGED <<cblk, buffer, disabled, client, wbuf, caller, framesAvail,
                   region, granted, total, track, mixer>>

(* Woken: the lock is taken and given back, then mLock is taken.           *)
ObtainWoken ==
    /\ wpc = "waiting" /\ signalled
    /\ lock = "free"
    /\ wpc' = "woken"
    /\ signalled' = FALSE
    /\ UNCHANGED <<cblk, buffer, lock, disabled, client, wbuf, caller,
                   framesAvail, region, granted, total, track, mixer>>

ObtainTimeoutNever == FALSE /\ UNCHANGED vars

ObtainTimeout ==
    /\ wpc = "waiting" /\ ~signalled
    /\ lock = "free"
    /\ wpc' = "timedOut"
    /\ UNCHANGED <<cblk, buffer, lock, disabled, client, wbuf, caller,
                   framesAvail, region, granted, signalled, total, track,
                   mixer>>

(* Back from the wait: STOPPED if the track is no longer active (write()   *)
(* then releases an empty buffer and tries once more).  After a timeout    *)
(* that was long enough the Track is started again; the caller that waits  *)
(* once returns TIMED_OUT, the others go round.                            *)
ObtainResume ==
    /\ wpc \in {"woken", "timedOut"} /\ mLock = "free"
    /\ \/ UNCHANGED track
       \/ mActive /\ wpc = "timedOut" /\ StartTrack
    /\ \/ /\ IF mActive THEN wpc = "timedOut" /\ caller = "timed"
                        ELSE StopsOnStopped
          /\ wpc' = "idle" /\ wbuf' = <<>>
          /\ UNCHANGED mLock
       \/ /\ ~mActive /\ ~StopsOnStopped
          /\ wpc' = "release"
          /\ UNCHANGED <<mLock, wbuf>>
       \/ /\ mActive /\ ~(wpc = "timedOut" /\ caller = "timed")
          /\ wpc' = "relock" /\ mLock' = "writer"
          /\ UNCHANGED wbuf
    /\ UNCHANGED <<cblk, buffer, lock, disabled, mActive, caller, framesAvail,
                   region, granted, signalled, total, mixer>>

(* memcpy to the granted region.                                           *)
CopyFrames ==
    /\ wpc = "copy"
    /\ buffer' = [i \in Offsets |->
                    IF region <= i /\ i < region + granted
                    THEN wbuf[i - region + 1] ELSE buffer[i]]
    /\ wpc' = "release"
    /\ UNCHANGED <<cblk, lock, disabled, client, wbuf, caller, framesAvail,
                   region, granted, signalled, total, track, mixer>>

(* releaseBuffer(): stepUser(), and a track the mixer has disabled for     *)
(* want of data is started again.                                          *)
ReleaseFrames ==
    /\ wpc = "release" /\ mLock = "free"
    /\ cblk' = StepUser(cblk, granted)
    /\ IF granted > 0 /\ mActive /\ disabled
       THEN StartTrack /\ disabled' = FALSE
       ELSE UNCHANGED <<track, disabled>>
    /\ wbuf' = Drop(wbuf, granted)
    /\ granted' = 0 /\ region' = 0
    /\ wpc' = IF granted < Len(wbuf) THEN "enter" ELSE "idle"
    /\ UNCHANGED <<buffer, lock, client, caller, framesAvail, signalled,
                   total, mixer>>

-----------------------------------------------------------------------------
(* The mixer thread, outside mLock: it mixes a track it has.               *)

(* stepServer(): under the lock, with a signal for the waiting client; or  *)
(* the lock stays busy and the step is owed.                               *)
StepLockedSilent(n) ==
    /\ lock = "free"
    /\ cblk' = StepServer(cblk, n)
    /\ UNCHANGED signalled

StepLocked(n) ==
    /\ lock = "free"
    /\ cblk' = StepServer(cblk, n)
    /\ Signal

ReadBlock(c, n) ==
    [k \in 1..n |-> buffer[(ServerOffset(c) + k - 1) % mFrameCount]]

(* getNextBuffer() and the mixer's reads from the block.  An owed step is  *)
(* made good first.                                                        *)
GetNextBuffer(req) ==
    /\ spc = "idle" /\ listed /\ ~mStepServerFailed
    /\ LET n == NextBufferFrames(cblk, req, FramesReady(cblk, lock = "free"))
       IN  /\ n > 0
           /\ block' = ReadBlock(cblk, n)
    /\ spc' = "mix"
    /\ UNCHANGED <<cblk, buffer, lock, disabled, client, writer, track,
                   mStepServerFailed, delivered>>

(* The block stays in use until the mixer has finished with it.            *)
MixBlock ==
    /\ spc = "mix"
    /\ spc' = "step"
    /\ UNCHANGED <<cblk, buffer, lock, disabled, client, writer, track, block,
                   mStepServerFailed, delivered>>

StepOwedForgotten ==
    /\ spc = "step" /\ lock = "writer"
    /\ spc' = "idle" /\ block' = <<>> /\ delivered' = block
    /\ UNCHANGED <<cblk, buffer, lock, disabled, client, writer, track,
                   mStepServerFailed>>

(* releaseBuffer(): step() could not get the lock.                         *)
StepOwed ==
    /\ spc = "step" /\ lock = "writer"
    /\ mStepServerFailed' = TRUE
    /\ spc' = "idle"
    /\ UNCHANGED <<cblk, buffer, lock, disabled, client, writer, track, block,
                   delivered>>

(* releaseBuffer(), or the retry at the next getNextBuffer(): step() works.*)
StepDone ==
    /\ spc = "step" \/ (spc = "idle" /\ listed /\ mStepServerFailed)
    /\ StepLocked(Len(block))
    /\ spc' = "idle" /\ mStepServerFailed' = FALSE
    /\ delivered' = block /\ block' = <<>>
    /\ UNCHANGED <<buffer, lock, disabled, client, wpc, wbuf, caller,
                   framesAvail, region, granted, total, track>>

-----------------------------------------------------------------------------
(* The mixer thread in prepareTracks_l(), with mLock: a track that is not  *)
(* ready leaves mActiveTracks.  The frames are counted first, while the    *)
(* client goes on writing.                                                 *)

(* Too little for an active track, or nothing for the last block of one    *)
(* that is being paused, for the last time that is tolerated.              *)
PrepareShort ==
    /\ spc = "idle" /\ listed /\ mState \in {"ACTIVE", "PAUSED"}
    /\ FramesReady(cblk, lock = "free")
         < IF mState = "ACTIVE" THEN mFrameCount ELSE 1
    /\ spc' = "short"
    /\ UNCHANGED <<cblk, buffer, lock, disabled, client, writer, track, block,
                   mStepServerFailed, delivered>>

DropTrack ==
    /\ spc = "short"
    /\ listed' = FALSE /\ disabled' = TRUE
    /\ spc' = "idle"
    /\ UNCHANGED <<cblk, buffer, lock, client, writer, mState, mResetDone,
                   block, mStepServerFailed, delivered>>

(* A paused track leaves as it is, ...                                     *)
EndPaused ==
    /\ spc = "idle" /\ listed /\ mState = "PAUSED"
    /\ listed' = FALSE
    /\ UNCHANGED <<cblk, buffer, lock, disabled, client, writer, mState,
                   mResetDone, mixer>>

(* ... a stopped or flushed one when all is consumed and presented, after  *)
(* a reset().                                                              *)
EndStopped ==
    /\ spc = "idle" /\ listed /\ mState \in {"STOPPED", "FLUSHED"}
    /\ FramesReady(cblk, lock = "free") = 0
    /\ spc' = "reset"
    /\ UNCHANGED <<cblk, buffer, lock, disabled, client, writer, track, block,
                   mStepServerFailed, delivered>>

(* reset() and the track leaves, with no regard for the client: it may     *)
(* hold a region, or be about to announce what it wrote there.             *)
ResetTrack ==
    /\ spc = "reset"
    /\ ResetTo(mState)
    /\ listed' = FALSE
    /\ spc' = "idle"
    /\ UNCHANGED <<buffer, lock, disabled, client, writer, delivered>>

(* The client uses the indexes in the middle of the stores of that reset(),*)
(* which take no lock: it may have found each as it was or already 0, and  *)
(* the last store to user and userBase may be either side's.  Nothing is   *)
(* claimed of what follows, and the behaviour is not followed further.     *)
ResetRaced ==
    /\ spc = "reset"
    /\ \/ wpc \in {"availLocked", "recheck", "grant"}
       \/ wpc = "release" /\ mLock = "free"
    /\ \E u \in {cblk.user, 0}, s \in {cblk.server, 0},
          b \in {cblk.userBase, 0} :
          LET seen == [cblk EXCEPT !.user = u, !.server = s, !.userBase = b]
          IN  cblk' = IF wpc = "release" THEN StepUser(seen, granted) ELSE seen
    /\ wpc' = "raced" /\ spc' = "raced" /\ mLock' = "raced"
    /\ UNCHANGED <<buffer, lock, disabled, mActive, wbuf, caller, framesAvail,
                   region, granted, signalled, total, track, block,
                   mStepServerFailed, delivered>>

raced == wpc = "raced"

-----------------------------------------------------------------------------
WriterStep ==
    \/ ObtainEnter \/ ObtainLock \/ ObtainAvailable \/ ObtainRecheck
    \/ ObtainGrant \/ ObtainSleep \/ ObtainWoken \/ ObtainResume
    \/ CopyFrames \/ ReleaseFrames

Mixer == (\E n \in Requests : GetNextBuffer(n)) \/ MixBlock \/ StepDone

(* All is written, and nothing is left to do; or a race has been met.      *)
Finished ==
    /\ raced \/ (wpc = "idle" /\ total + 1 > MaxWritten)
    /\ UNCHANGED vars

Next ==
    \/ Start \/ StopTrack \/ StopLoop \/ Pause \/ Flush
    \/ \E n \in Requests : Write(n)
    \/ WriterStep \/ ObtainTimeout
    \/ Mixer \/ StepOwed
    \/ PrepareShort \/ EndPaused \/ EndStopped
    \/ DropTrack \/ ResetTrack \/ ResetRaced
    \/ Finished

(* Threads inside a call keep running, and so does prepareTracks_l() once  *)
(* it holds mLock.  The mixer thread mixes an active track on every cycle; *)
(* it need not mix a paused one, and nothing obliges it to give a track up.*)
Fairness ==
    /\ WF_vars(WriterStep) /\ WF_vars(StopLoop)
    /\ WF_vars(DropTrack \/ ResetTrack) /\ WF_vars(mActive /\ Mixer)

Safety == Init /\ [][Next]_vars

Spec == Safety /\ Fairness

-----------------------------------------------------------------------------
(* Offsets the client is writing and the server is reading.                *)
ClientRegion == IF wpc \in {"copy", "release"}
    THEN region..(region + granted - 1) ELSE {}
ServerRegion == IF block # <<>>
    THEN ServerOffset(cblk)..(ServerOffset(cblk) + Len(block) - 1) ELSE {}

(* The client's buffer and the server's block lie inside the shared buffer *)
(* (the range check of TrackBase::getBuffer) and never overlap, although   *)
(* each side works from an index the other moves without the lock, and     *)
(* reset() may move both under a region granted before.  Only a client     *)
(* that met the stores of a reset() is promised nothing.                   *)
RegionsApart ==
    \/ raced
    \/ /\ ClientRegion \subseteq Offsets
       /\ ServerRegion \subseteq Offsets
       /\ ClientRegion \cap ServerRegion = {}

Pending == [k \in 1..Minus(cblk.user, cblk.server) |->
               buffer[(ServerOffset(cblk) + k - 1) % mFrameCount]]

Fifo == INSTANCE FrameFifo WITH
    Capacity <- mFrameCount, offered <- wbuf, q <- Pending

(* A reset(): what was not played is discarded, on an inactive track only. *)
Discards == ~mActive' /\ Pending' = <<>> /\ UNCHANGED <<wbuf, delivered>>

(* A region granted before a reset() and released after it: the client     *)
(* wrote at the old place, and what it announces is whatever lies at the   *)
(* new one.                                                                *)
Misplaces == wpc = "release" /\ region # UserOffset(cblk) /\ ReleaseFrames

(* The track plays what was written, in order and each frame once: also    *)
(* when step() cannot get the lock and is made good later, when a request  *)
(* is cut at the end of the buffer, when the counters wrap and when a      *)
(* reset() has put them back to 0.  Frames are lost only to a reset(), and *)
(* wrong ones played only from a region that was granted before it.        *)
PlaysWhatWasWritten ==
    /\ Fifo!Init
    /\ [][raced' \/ Discards \/ Misplaces \/ [Fifo!Next]_(Fifo!vars)]_vars

(* A writer that waits while the buffer is full is woken by the mixer's    *)
(* progress alone, without help from the timeout, as long as the mixer has *)
(* the track: the space it waits for is created under the lock it checked  *)
(* with.                                                                   *)
NoLostWakeup ==
    (wpc = "waiting" /\ FramesAvailable(cblk) = 0)
        ~> (wpc # "waiting" \/ ~mActive \/ ~listed \/ raced)

(* stop() or pause() while a writer is blocked: the signal may come before *)
(* the wait begins and nothing may be played any more, but the writer      *)
(* returns, by timeout at the latest: obtainBuffer()'s wait is a timed one *)
(* and does end.                                                           *)
StopReleasesWriter ==
    WF_vars(ObtainTimeout) => []<>mActive \/ []<>(wpc = "idle") \/ <>raced

=============================================================================
