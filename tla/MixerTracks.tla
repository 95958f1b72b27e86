----------------------------- MODULE MixerTracks -----------------------------
(***************************************************************************)
(* The life of streaming tracks on a mixer thread                          *)
(* (libs/audioflinger/Tracks.cpp and Threads.cpp), driven by AudioTrack    *)
(* clients (libs/libmedia/AudioTrack.cpp).                                 *)
(*                                                                         *)
(* Track operations and prepareTracks_l() run under the thread's mLock;    *)
(* the mixing itself and the clients' writes do not.  Of the control block *)
(* only the number of buffered frames and the flag CBLK_DISABLED are kept. *)
(* Fast tracks, static buffers and effect chains are not part of this      *)
(* module.                                                                 *)
(***************************************************************************)
EXTENDS Integers

CONSTANTS
    Track,
    mFrameCount,                \* frames in a track's buffer
    mNormalFrameCount,          \* frames in a mix buffer
    audioHALFrames,             \* frames the output holds (its latency)
    kMaxTrackRetries, kMaxTrackStartupRetries,
    WriteSizes                  \* bound: frames a client writes at once

ASSUME MixerTracksAssumption ==
    /\ mFrameCount \in Nat \ {0}
    /\ mNormalFrameCount \in 1..mFrameCount
    /\ audioHALFrames \in Nat \ {0}
    /\ kMaxTrackRetries \in Nat \ {0}
    /\ kMaxTrackStartupRetries \in Nat \ {0}
    /\ WriteSizes \subseteq 1..mFrameCount

VARIABLES
    tr,                 \* the tracks
    mTracks,            \* tracks the thread keeps
    mActiveTracks,      \* tracks prepareTracks_l() looks at
    mActive,            \* tracks whose client has started them
    waiting, timedOut,  \* tracks whose client is inside obtainBuffer()
    enabled,            \* tracks enabled in the AudioMixer
    pc, todo, cur, seen, tracksToRemove, mixerStatus,   \* prepareTracks_l()
    mMixerStatus, mStandby, mBytesWritten, sleepTime, woken

vars == <<tr, mTracks, mActiveTracks, mActive, waiting, timedOut, enabled,
          pc, todo, cur, seen, tracksToRemove, mixerStatus, mMixerStatus,
          mStandby, mBytesWritten, sleepTime, woken>>

blocked == <<waiting, timedOut>>
thread  == <<pc, todo, cur, seen, tracksToRemove, mixerStatus, mMixerStatus>>
output  == <<mStandby, mBytesWritten, sleepTime>>

track_state == {"IDLE", "TERMINATED", "FLUSHED", "STOPPED", "RESUMING",
                "ACTIVE", "PAUSING", "PAUSED"}
mixer_state == {"MIXER_IDLE", "MIXER_TRACKS_ENABLED", "MIXER_TRACKS_READY"}

NoTrack == "none"       \* not created yet, or gone
NotMonitoring == -1

(* left is mPresentationCompleteFrames less the frames written so far.     *)
TrackRecord ==
    [mState : track_state \cup {NoTrack},
     frames : 0..mFrameCount,
     mFillingUpStatus : {"FS_INVALID", "FS_FILLING", "FS_FILLED", "FS_ACTIVE"},
     mResetDone : BOOLEAN,
     mRetryCount : 0..kMaxTrackRetries \cup 0..kMaxTrackStartupRetries,
     disabled : BOOLEAN,
     left : {NotMonitoring} \cup 0..audioHALFrames]

TypeOK ==
    /\ tr \in [Track -> TrackRecord]
    /\ mTracks \subseteq Track /\ mActiveTracks \subseteq Track
    /\ mActive \subseteq Track /\ enabled \subseteq Track
    /\ waiting \subseteq Track /\ timedOut \subseteq Track
    /\ todo \subseteq Track /\ cur \subseteq Track
    /\ tracksToRemove \subseteq Track
    /\ pc \in {"loop", "asleep", "prepare", "decide", "mix", "sleepTime"}
    /\ seen \in 0..mFrameCount
    /\ mixerStatus \in mixer_state /\ mMixerStatus \in mixer_state
    /\ mStandby \in BOOLEAN /\ mBytesWritten \in BOOLEAN
    /\ sleepTime \in BOOLEAN /\ woken \in BOOLEAN

FreshRecord(done) ==
    [mState |-> "IDLE", frames |-> 0, mFillingUpStatus |-> "FS_INVALID",
     mResetDone |-> done, mRetryCount |-> 0, disabled |-> FALSE,
     left |-> NotMonitoring]

(* sleepTime and mBytesWritten are kept as "not zero".                     *)
Init ==
    /\ tr = [t \in Track |-> [FreshRecord(FALSE) EXCEPT !.mState = NoTrack]]
    /\ mTracks = {} /\ mActiveTracks = {} /\ mActive = {} /\ enabled = {}
    /\ waiting = {} /\ timedOut = {}
    /\ pc = "loop" /\ todo = {} /\ cur = {} /\ seen = 0 /\ tracksToRemove = {}
    /\ mixerStatus = "MIXER_IDLE" /\ mMixerStatus = "MIXER_IDLE"
    /\ mStandby = TRUE /\ mBytesWritten = FALSE /\ sleepTime = TRUE
    /\ woken = FALSE

Lesser(a, b) == IF a < b THEN a ELSE b

LockFree == pc \notin {"prepare", "decide"}

Stopped(r) == r.mState \in {"STOPPED", "FLUSHED"}

-----------------------------------------------------------------------------
(* Operations on one track.                                                *)

(* Track::reset(): once per activation.                                    *)
Reset(r) ==
    IF r.mResetDone THEN r
    ELSE [r EXCEPT !.frames = 0,
                   !.mFillingUpStatus = "FS_FILLING",
                   !.mResetDone = TRUE,
                   !.mState = IF @ = "FLUSHED" THEN "IDLE" ELSE @]

(* Track::start() and addTrack_l().                                        *)
Started(r, newly) ==
    LET s == [r EXCEPT !.mState = IF @ = "PAUSED" THEN "RESUMING"
                                                  ELSE "ACTIVE",
                       !.mRetryCount = kMaxTrackStartupRetries]
    IN  IF newly THEN [s EXCEPT !.mFillingUpStatus = "FS_FILLING",
                                !.mResetDone = FALSE,
                                !.left = NotMonitoring]
        ELSE s

TrackStart(t, r) ==
    /\ LockFree
    /\ tr' = [tr EXCEPT ![t] = Started(r, t \notin mActiveTracks)]
    /\ mActiveTracks' = mActiveTracks \cup {t}
    /\ woken' = TRUE

-----------------------------------------------------------------------------
(* Clients.                                                                *)

(* createTrack_l().  The constructor leaves mResetDone uninitialized.      *)
Create(t) ==
    /\ LockFree /\ tr[t].mState = NoTrack
    /\ \E done \in BOOLEAN : tr' = [tr EXCEPT ![t] = FreshRecord(done)]
    /\ mTracks' = mTracks \cup {t}
    /\ UNCHANGED <<mActiveTracks, mActive, enabled, blocked, thread,
                   output, woken>>

Usable(t) == tr[t].mState \notin {NoTrack, "TERMINATED"}

(* AudioTrack::start()                                                     *)
Start(t) ==
    /\ Usable(t) /\ t \notin mActive
    /\ mActive' = mActive \cup {t}
    /\ TrackStart(t, [tr[t] EXCEPT !.disabled = FALSE])
    /\ UNCHANGED <<mTracks, enabled, blocked, thread,
                   output>>

StopAtOnce(t) ==
    /\ Usable(t) /\ t \in mActive /\ LockFree
    /\ mActive' = mActive \ {t}
    /\ tr' = [tr EXCEPT ![t] = [Reset(@) EXCEPT !.mState = "STOPPED"]]
    /\ UNCHANGED <<mTracks, mActiveTracks, enabled, blocked, thread,
                   output, woken>>

(* AudioTrack::stop() and Track::stop()                                    *)
Stop(t) ==
    /\ Usable(t) /\ t \in mActive /\ LockFree
    /\ mActive' = mActive \ {t}
    /\ tr' = [tr EXCEPT ![t] =
                IF @.mState \notin {"RESUMING", "ACTIVE", "PAUSING", "PAUSED"}
                THEN @
                ELSE IF t \in mActiveTracks
                THEN [@ EXCEPT !.mState = "STOPPED"]
                ELSE [Reset(@) EXCEPT !.mState = "STOPPED"]]
    /\ UNCHANGED <<mTracks, mActiveTracks, enabled, blocked, thread,
                   output, woken>>

(* AudioTrack::pause() and Track::pause()                                  *)
Pause(t) ==
    /\ Usable(t) /\ t \in mActive /\ LockFree
    /\ mActive' = mActive \ {t}
    /\ tr' = [tr EXCEPT ![t].mState =
                IF @ \in {"ACTIVE", "RESUMING"} THEN "PAUSING" ELSE @]
    /\ UNCHANGED <<mTracks, mActiveTracks, enabled, blocked, thread,
                   output, woken>>

FlushAlways(t) ==
    /\ Usable(t) /\ t \notin mActive /\ LockFree
    /\ tr[t].mState \notin {"ACTIVE", "RESUMING"}
    /\ tr' = [tr EXCEPT ![t] = Reset([@ EXCEPT !.mState = "FLUSHED"])]
    /\ UNCHANGED <<mTracks, mActiveTracks, mActive, enabled, blocked, thread,
                   output, woken>>

(* AudioTrack::flush() and Track::flush(): a track that is still in the    *)
(* active list is reset later, by prepareTracks_l().                       *)
Flush(t) ==
    /\ Usable(t) /\ t \notin mActive /\ LockFree
    /\ tr[t].mState \notin {"ACTIVE", "RESUMING"}
    /\ tr' = [tr EXCEPT ![t] =
                LET r == [@ EXCEPT !.mState = "FLUSHED"]
                IN  IF t \in mActiveTracks THEN r ELSE Reset(r)]
    /\ UNCHANGED <<mTracks, mActiveTracks, mActive, enabled, blocked, thread,
                   output, woken>>

(* The client is no longer inside obtainBuffer().                          *)
Unblocked(t) == waiting' = waiting \ {t} /\ timedOut' = timedOut \ {t}

DestroyAtOnce(t) ==
    /\ Usable(t) /\ LockFree
    /\ mActive' = mActive \ {t}
    /\ tr' = [tr EXCEPT ![t].mState = NoTrack]
    /\ mTracks' = mTracks \ {t}
    /\ Unblocked(t)
    /\ UNCHANGED <<mActiveTracks, enabled, thread, output, woken>>

(* The client lets go of its TrackHandle, or dies: Track::destroy() and    *)
(* destroyTrack_l().                                                       *)
Destroy(t) ==
    /\ Usable(t) /\ LockFree
    /\ mActive' = mActive \ {t}
    /\ tr' = [tr EXCEPT ![t].mState =
                IF t \in mActiveTracks THEN "TERMINATED" ELSE NoTrack]
    /\ mTracks' = IF t \in mActiveTracks THEN mTracks ELSE mTracks \ {t}
    /\ Unblocked(t)
    /\ UNCHANGED <<mActiveTracks, enabled, thread, output, woken>>

(* write(): obtainBuffer() finds space, if need be after a wait, and       *)
(* releaseBuffer() has new frames, and a restart if the server has         *)
(* disabled the track.  write() does not ask whether the track is started. *)
Write(t, n) ==
    /\ Usable(t) /\ tr[t].frames + n <= mFrameCount
    /\ t \notin timedOut
    /\ LET r == [tr[t] EXCEPT !.frames = @ + n]
       IN  \/ /\ t \in mActive /\ tr[t].disabled
              /\ TrackStart(t, [r EXCEPT !.disabled = FALSE])
           \/ /\ ~(t \in mActive /\ tr[t].disabled)
              /\ tr' = [tr EXCEPT ![t] = r]
              /\ UNCHANGED <<mActiveTracks, woken>>
    /\ Unblocked(t)
    /\ UNCHANGED <<mTracks, mActive, enabled, thread, output>>

(* write() on a full buffer of a started track: obtainBuffer() waits.      *)
WriteBlocks(t) ==
    /\ Usable(t) /\ t \in mActive \ (waiting \cup timedOut)
    /\ tr[t].frames = mFrameCount
    /\ waiting' = waiting \cup {t}
    /\ UNCHANGED <<tr, mTracks, mActiveTracks, mActive, timedOut, enabled,
                   thread, output, woken>>

(* The wait has lasted bufferTimeoutMs.                                    *)
WriteTimeout(t) ==
    /\ t \in waiting
    /\ waiting' = waiting \ {t} /\ timedOut' = timedOut \cup {t}
    /\ UNCHANGED <<tr, mTracks, mActiveTracks, mActive, enabled, thread,
                   output, woken>>

(* obtainBuffer() looks for space again.                                   *)
WaitAgain(t) ==
    /\ timedOut' = timedOut \ {t}
    /\ waiting' = IF tr[t].frames = mFrameCount THEN waiting \cup {t}
                                                ELSE waiting

WriteRestartSilent(t) ==
    /\ Usable(t) /\ t \in timedOut /\ t \in mActive
    /\ WaitAgain(t)
    /\ UNCHANGED <<tr, mTracks, mActiveTracks, mActive, enabled, thread,
                   output, woken>>

(* After that timeout obtainBuffer() starts the track again, ...           *)
WriteRestart(t) ==
    /\ Usable(t) /\ t \in timedOut /\ t \in mActive
    /\ TrackStart(t, tr[t])
    /\ WaitAgain(t)
    /\ UNCHANGED <<mTracks, mActive, enabled, thread, output>>

(* ... and after any wait it returns STOPPED if the track is not active.   *)
WriteStopped(t) ==
    /\ t \in (waiting \cup timedOut) \ mActive
    /\ Unblocked(t)
    /\ UNCHANGED <<tr, mTracks, mActiveTracks, mActive, enabled, thread,
                   output, woken>>

-----------------------------------------------------------------------------
(* The mixer thread: threadLoop().                                         *)

(* No track is active and the standby delay is over.                       *)
Standby ==
    /\ pc = "loop" /\ mActiveTracks = {}
    /\ mStandby' = TRUE
    /\ pc' = "asleep" /\ woken' = FALSE
    /\ UNCHANGED <<tr, mTracks, mActiveTracks, mActive, blocked, enabled, todo,
                   cur, seen, tracksToRemove, mixerStatus, mMixerStatus,
                   mBytesWritten, sleepTime>>

Wake ==
    /\ pc = "asleep" /\ woken
    /\ mMixerStatus' = "MIXER_IDLE"
    /\ mBytesWritten' = FALSE
    /\ sleepTime' = TRUE
    /\ pc' = "loop"
    /\ UNCHANGED <<tr, mTracks, mActiveTracks, mActive, blocked, enabled, todo,
                   cur, seen, tracksToRemove, mixerStatus, mStandby, woken>>

(* prepareTracks_l() begins ...                                            *)
Prepare ==
    /\ pc = "loop"
    /\ pc' = "prepare"
    /\ todo' = mActiveTracks
    /\ mixerStatus' = "MIXER_IDLE"
    /\ UNCHANGED <<tr, mTracks, mActiveTracks, mActive, blocked, enabled, cur,
                   seen, tracksToRemove, mMixerStatus, output, woken>>

(* ... and for each active track reads its framesReady(), ...              *)
PrepareRead(t) ==
    /\ pc = "prepare" /\ t \in todo
    /\ seen' = tr[t].frames
    /\ cur' = {t} /\ todo' = todo \ {t}
    /\ pc' = "decide"
    /\ UNCHANGED <<tr, mTracks, mActiveTracks, mActive, blocked, enabled,
                   tracksToRemove, mixerStatus, mMixerStatus, output, woken>>

MinFrames(r) ==
    IF ~Stopped(r) /\ r.mState # "PAUSING"
       /\ mMixerStatus = "MIXER_TRACKS_READY"
    THEN mNormalFrameCount ELSE 1

(* isReady(), with its effect on mFillingUpStatus.                         *)
NeedsFilling(r) ==
    r.mFillingUpStatus = "FS_FILLING" /\ ~Stopped(r) /\ r.mState # "PAUSING"
IsReady(r) == NeedsFilling(r) => r.frames >= mFrameCount
AfterIsReady(r) ==
    IF NeedsFilling(r) /\ IsReady(r)
    THEN [r EXCEPT !.mFillingUpStatus = "FS_FILLED"] ELSE r

Mixable(r) ==
    /\ seen >= MinFrames(r)
    /\ IsReady(r)
    /\ r.mState \notin {"PAUSED", "TERMINATED"}

(* ... mixes it if it has enough, ...                                      *)
PrepareReady(t) ==
    LET r      == AfterIsReady(tr[t])
        filled == r.mFillingUpStatus = "FS_FILLED"
    IN  /\ Mixable(tr[t])
        /\ tr' = [tr EXCEPT ![t] = [r EXCEPT
               !.mFillingUpStatus = IF filled THEN "FS_ACTIVE" ELSE @,
               !.mState = CASE filled /\ @ = "RESUMING" -> "ACTIVE"
                            [] @ = "PAUSING" -> "PAUSED"
                            [] OTHER -> @,
               !.mRetryCount = kMaxTrackRetries]]
        /\ enabled' = enabled \cup {t}
        /\ mixerStatus' =
               IF \/ mMixerStatus # "MIXER_TRACKS_READY"
                  \/ mixerStatus # "MIXER_TRACKS_ENABLED"
               THEN "MIXER_TRACKS_READY" ELSE mixerStatus
        /\ UNCHANGED tracksToRemove

Ending(r) == r.mState \in {"TERMINATED", "STOPPED", "FLUSHED", "PAUSED"}

MonitoredAnew(r) == [r EXCEPT !.left = audioHALFrames]

(* presentationComplete()                                                  *)
Monitored(r) == [r EXCEPT !.left =
                    IF @ = NotMonitoring THEN audioHALFrames ELSE @]

(* ... waits for the end of its presentation if it is ending, and then     *)
(* drops it from the active list, ...                                      *)
PrepareEnding(t) ==
    LET r    == IF seen >= MinFrames(tr[t]) THEN AfterIsReady(tr[t]) ELSE tr[t]
        m    == IF mStandby THEN r ELSE Monitored(r)
        over == mStandby \/ m.left = 0
    IN  /\ ~Mixable(tr[t]) /\ Ending(tr[t])
        /\ tr' = [tr EXCEPT ![t] = IF over /\ Stopped(m) THEN Reset(m) ELSE m]
        /\ tracksToRemove' =
               IF over THEN tracksToRemove \cup {t} ELSE tracksToRemove
        /\ enabled' = enabled \ {t}
        /\ UNCHANGED mixerStatus

PrepareUnderrunSilent(t) ==
    LET n == tr[t].mRetryCount - 1
    IN  /\ ~Mixable(tr[t]) /\ ~Ending(tr[t])
        /\ tr' = [tr EXCEPT ![t].mRetryCount = n]
        /\ tracksToRemove' =
               IF n <= 0 THEN tracksToRemove \cup {t} ELSE tracksToRemove
        /\ enabled' = enabled \ {t}
        /\ mixerStatus' = "MIXER_TRACKS_ENABLED"

(* ... or gives its client a few more chances.                             *)
PrepareUnderrun(t) ==
    LET r == IF seen >= MinFrames(tr[t]) THEN AfterIsReady(tr[t]) ELSE tr[t]
        n == tr[t].mRetryCount - 1
    IN  /\ ~Mixable(tr[t]) /\ ~Ending(tr[t])
        /\ tr' = [tr EXCEPT ![t] =
                     [r EXCEPT !.mRetryCount = n, !.disabled = @ \/ n <= 0]]
        /\ tracksToRemove' =
               IF n <= 0 THEN tracksToRemove \cup {t} ELSE tracksToRemove
        /\ enabled' = enabled \ {t}
        /\ mixerStatus' =
               IF /\ n > 0
                  /\ \/ mMixerStatus = "MIXER_TRACKS_READY"
                     \/ mixerStatus # "MIXER_TRACKS_READY"
               THEN "MIXER_TRACKS_ENABLED" ELSE mixerStatus

PrepareTrack ==
    /\ pc = "decide"
    /\ \E t \in cur :
         PrepareReady(t) \/ PrepareEnding(t) \/ PrepareUnderrun(t)
    /\ cur' = {}
    /\ pc' = "prepare"
    /\ UNCHANGED <<mTracks, mActiveTracks, mActive, blocked, todo, seen,
                   mMixerStatus, output, woken>>

(* The tracks to be removed leave the active list, and destroyed ones are  *)
(* removed for good.                                                       *)
PrepareDone ==
    LET gone == {t \in tracksToRemove : tr[t].mState = "TERMINATED"}
    IN  /\ pc = "prepare" /\ todo = {}
        /\ mActiveTracks' = mActiveTracks \ tracksToRemove
        /\ mTracks' = mTracks \ gone
        /\ tr' = [t \in Track |-> IF t \in gone
                     THEN [tr[t] EXCEPT !.mState = NoTrack] ELSE tr[t]]
        /\ tracksToRemove' = {}
        /\ mMixerStatus' = mixerStatus
        /\ pc' = IF mixerStatus = "MIXER_TRACKS_READY" THEN "mix"
                                                       ELSE "sleepTime"
        /\ UNCHANGED <<mActive, blocked, enabled, todo, cur, seen, mixerStatus,
                       output, woken>>

(* A mix buffer goes to the output: presentations come nearer to an end.   *)
AfterWrite(r) ==
    IF r.left = NotMonitoring THEN r
    ELSE [r EXCEPT !.left = IF @ < mNormalFrameCount THEN 0
                            ELSE @ - mNormalFrameCount]

Written ==
    /\ mBytesWritten' = TRUE /\ mStandby' = FALSE /\ sleepTime' = FALSE

(* threadLoop_mix() and threadLoop_write()                                 *)
Mix ==
    /\ pc = "mix"
    /\ tr' = [t \in Track |-> AfterWrite(
                IF t \in enabled
                THEN [tr[t] EXCEPT !.frames = @ - Lesser(@, mNormalFrameCount)]
                ELSE tr[t])]
    /\ Written
    /\ pc' = "loop"
    /\ UNCHANGED <<mTracks, mActiveTracks, mActive, blocked, enabled, todo,
                   cur, seen, tracksToRemove, mixerStatus, mMixerStatus,
                   woken>>

(* threadLoop_sleepTime(): sleep once, then write silence.                 *)
WritesSilence ==
    sleepTime /\ (mBytesWritten \/ mMixerStatus = "MIXER_TRACKS_ENABLED")

Sleep ==
    /\ pc = "sleepTime"
    /\ \/ /\ WritesSilence
          /\ tr' = [t \in Track |-> AfterWrite(tr[t])]
          /\ Written
       \/ /\ ~WritesSilence
          /\ sleepTime' = TRUE
          /\ UNCHANGED <<tr, mBytesWritten, mStandby>>
    /\ pc' = "loop"
    /\ UNCHANGED <<mTracks, mActiveTracks, mActive, blocked, enabled, todo,
                   cur, seen, tracksToRemove, mixerStatus, mMixerStatus,
                   woken>>

-----------------------------------------------------------------------------
Mixer ==
    \/ Wake \/ Prepare \/ PrepareTrack \/ PrepareDone \/ Mix \/ Sleep
    \/ \E t \in Track : PrepareRead(t)

Next ==
    \/ Mixer \/ Standby
    \/ \E t \in Track :
         \/ Create(t) \/ Start(t) \/ Stop(t) \/ Pause(t) \/ Flush(t)
         \/ Destroy(t) \/ WriteBlocks(t) \/ WriteTimeout(t)
         \/ WriteRestart(t) \/ WriteStopped(t)
         \/ \E n \in WriteSizes : Write(t, n)

Safety == Init /\ [][Next]_vars

(* The mixer thread runs.  Nothing obliges a client to call write(), but   *)
(* once inside obtainBuffer() its wait times out, and the start it then    *)
(* asks for gets the mLock, which the mixer thread gives up in every cycle *)
(* to mix, write or sleep.                                                 *)
Spec ==
    /\ Safety /\ WF_vars(Mixer)
    /\ \A t \in Track : WF_vars(WriteTimeout(t)) /\ SF_vars(WriteRestart(t))

-----------------------------------------------------------------------------
(* The mixer only ever reads tracks that are active and still exist: the   *)
(* removal of a destroyed track waits for prepareTracks_l() to take it off *)
(* the mixer (destroyTrack_l, removeTrack_l).                              *)
MixerReadsLiveTracks ==
    /\ enabled \subseteq mActiveTracks
    /\ mActiveTracks \subseteq mTracks
    /\ \A t \in mTracks : tr[t].mState # NoTrack

(* A track its client has started is either looked at by the mixer thread, *)
(* or carries CBLK_DISABLED, so that the client's next write starts it     *)
(* again.                                                                  *)
DroppedTrackIsDisabled ==
    LockFree => \A t \in mActive \ mActiveTracks : tr[t].disabled

(* No buffer is reset under the mixer: frames of an enabled track only go  *)
(* away by being mixed, or with the track being disabled ("do not reset    *)
(* the track if it is still in the process of being stopped or paused",    *)
(* Track::flush).                                                          *)
NoResetWhileMixing ==
    [][\A t \in enabled \cap enabled' :
          tr'[t].frames < tr[t].frames => pc = "mix"]_vars

(* A client that waits in write() for space in the full buffer of its      *)
(* started track gets some: whatever interleaving of underruns, restarts   *)
(* and standby came before, also when the buffer was filled just as        *)
(* prepareTracks_l() gave the track up.                                    *)
FullTrackPlays ==
    \A t \in Track :
      (t \in mActive \cap (waiting \cup timedOut)
         /\ tr[t].frames = mFrameCount)
        ~> (t \notin mActive \/ tr[t].frames < mFrameCount)

(* A track that was stopped, paused or flushed leaves the active list,     *)
(* unless it is started again or its client keeps writing to it.           *)
EndingTrackLeaves ==
    \A t \in Track :
      \/ []<>~(t \in mActiveTracks /\ Ending(tr[t]))
      \/ []<><<\E n \in WriteSizes : Write(t, n)>>_vars

(* "any data remaining in the buffer is first drained, mixed, and output,  *)
(* and only then is the track marked as stopped" (AudioTrack.h on stop()): *)
(* while the mixer has a track, playing or stopped, only the mixer takes   *)
(* frames out of its buffer, unless it had just seen the buffer empty.     *)
(* Once an underrun has taken the track off the active list, stop() throws *)
(* away what is left.                                                      *)
StopDrains ==
    [][\A t \in mActiveTracks :
          tr'[t].frames < tr[t].frames =>
             \/ tr[t].mState \notin {"ACTIVE", "RESUMING", "STOPPED"}
             \/ pc = "mix"
             \/ pc = "decide" /\ t \in cur /\ seen = 0]_vars
=============================================================================
