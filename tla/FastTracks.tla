----------------------------- MODULE FastTracks -----------------------------
(***************************************************************************)
(* Fast tracks: the fast mixer thread (libs/audioflinger/FastMixer.cpp)    *)
(* reads them directly, in slots that the normal mixer thread              *)
(* (Threads.cpp) hands over and takes back through the state queue.        *)
(*                                                                         *)
(* The queue is used as StateMailbox describes it: draft, latest, fresh    *)
(* and current are that module's draft, latest, fresh and observed.        *)
(* Streaming tracks only.  Slot 0, the normal mixer's own pipe, is never   *)
(* taken back and is left out; so are the output format, which does not    *)
(* change, volumes, and the futex, whose system calls are commented out.   *)
(* A slot's generation counter is only compared for equality: an increment *)
(* gives a value that no state in flight has.  mFastTracksGen moves with   *)
(* any of them and mColdGen with every change to COLD_IDLE, so both follow *)
(* from the rest of the state.  The underrun counters of a slot are kept   *)
(* as the set of those that moved since they were last observed.           *)
(***************************************************************************)
EXTENDS Integers

CONSTANTS
    Track,
    Slot,                       \* fast track indexes other than 0
    NULL,                       \* no buffer provider
    mFrameCount,                \* frames in a track's buffer
    frameCount,                 \* frames in a fast mix buffer
    audioHALFrames,             \* mix buffers the output holds (its latency)
    kMaxTrackRetries, kMaxTrackStartupRetries,
    MIN_WARMUP_CYCLES, MAX_WARMUP_CYCLES,
    WriteSizes                  \* bound: frames a client writes at once

ASSUME FastTracksAssumption ==
    /\ Slot \subseteq Nat \ {0}
    /\ NULL \notin Track
    /\ frameCount \in Nat \ {0}
    /\ mFrameCount \in Nat /\ mFrameCount >= frameCount
    /\ audioHALFrames \in Nat \ {0}
    /\ kMaxTrackRetries \in Nat \ {0}
    /\ kMaxTrackStartupRetries \in Nat \ {0}
    /\ MIN_WARMUP_CYCLES \in 1..MAX_WARMUP_CYCLES
    /\ MAX_WARMUP_CYCLES \in Nat
    /\ WriteSizes \subseteq 1..mFrameCount

VARIABLES
    tr,                         \* the tracks
    mActiveTracks,
    mActive,                    \* tracks whose client has started them
    mFastTrackAvailMask,
    mSuspended, mStandby, woken,
    pc, todo, tracksToRemove, resetMask, didModify, block, fastTracks,
    draft, latest, fresh,       \* the state queue
    current, previousTrackMask, changed,        \* the fast mixer
    generations, provider, enabled,          \* its AudioMixer, by slot
    fpc, isWarm, warmupCycles,
    recent                      \* underrun counters, by slot

clients == <<tr, mActiveTracks, mActive, mFastTrackAvailMask>>
cycle   == <<todo, tracksToRemove, resetMask, didModify, block, fastTracks>>
queue   == <<draft, latest, fresh>>
fast    == <<current, previousTrackMask, changed, generations, provider,
             enabled, fpc, isWarm, warmupCycles>>
vars    == <<clients, mSuspended, mStandby, woken, pc, cycle, queue, fast, recent>>

track_state == {"IDLE", "TERMINATED", "FLUSHED", "STOPPED", "STOPPING_1",
                "STOPPING_2", "RESUMING", "ACTIVE", "PAUSING", "PAUSED"}

NoTrack == "none"       \* not created yet, or gone
NotMonitoring == -1

(* left is the number of mix buffers to be written until the track counts  *)
(* as presented.                                                           *)
TrackRecord ==
    [mState : track_state \cup {NoTrack},
     mFastIndex : Slot \cup {0},
     frames : 0..mFrameCount,
     mResetDone : BOOLEAN,
     mRetryCount : 0..kMaxTrackRetries \cup 0..kMaxTrackStartupRetries,
     disabled : BOOLEAN,
     left : {NotMonitoring} \cup 0..audioHALFrames]

Generation == 0..3      \* one more than the states in flight

FastMixerState ==
    [mTrackMask : SUBSET Slot,
     mBufferProvider : [Slot -> Track \cup {NULL}],
     mGeneration : [Slot -> Generation],
     mCommand : {"INITIAL", "COLD_IDLE", "MIX_WRITE"}]

TypeOK ==
    /\ tr \in [Track -> TrackRecord]
    /\ mActiveTracks \subseteq Track /\ mActive \subseteq Track
    /\ mFastTrackAvailMask \subseteq Slot
    /\ mSuspended \in BOOLEAN /\ mStandby \in BOOLEAN /\ woken \in BOOLEAN
    /\ pc \in {"loop", "standbyPush", "standbyAck", "standing", "asleep",
               "prepare", "push", "ack", "finish", "ready", "idle", "writePush"}
    /\ todo \subseteq Track /\ tracksToRemove \subseteq Track
    /\ resetMask \subseteq Track
    /\ didModify \in BOOLEAN /\ fastTracks \in BOOLEAN
    /\ block \in {"BLOCK_UNTIL_PUSHED", "BLOCK_UNTIL_ACKED"}
    /\ draft \in FastMixerState /\ latest \in FastMixerState
    /\ fresh \in BOOLEAN
    /\ current \in FastMixerState /\ previousTrackMask \subseteq Slot
    /\ changed \in BOOLEAN
    /\ generations \in [Slot -> Generation]
    /\ provider \in [Slot -> Track \cup {NULL}] /\ enabled \subseteq Slot
    /\ fpc \in {"poll", "configure", "check", "process"}
    /\ isWarm \in BOOLEAN /\ warmupCycles \in 0..MAX_WARMUP_CYCLES
    /\ recent \in [Slot -> SUBSET {"Full", "Partial", "Empty"}]

-----------------------------------------------------------------------------
(* The state that FastMixerState's constructor leaves, and the first one   *)
(* pushed, by the MixerThread's constructor.                               *)
InitialState ==
    [mTrackMask |-> {}, mBufferProvider |-> [i \in Slot |-> NULL],
     mGeneration |-> [i \in Slot |-> 0], mCommand |-> "INITIAL"]

FirstState == [InitialState EXCEPT !.mCommand = "COLD_IDLE"]

FreshRecord(i, done) ==
    [mState |-> "IDLE", mFastIndex |-> i, frames |-> 0, mResetDone |-> done,
     mRetryCount |-> 0, disabled |-> FALSE, left |-> NotMonitoring]

Gone == [FreshRecord(0, FALSE) EXCEPT !.mState = NoTrack]

Init ==
    /\ tr = [t \in Track |-> Gone]
    /\ mActiveTracks = {} /\ mActive = {} /\ mFastTrackAvailMask = Slot
    /\ mSuspended = FALSE /\ mStandby = TRUE /\ woken = FALSE
    /\ pc = "loop" /\ todo = {} /\ tracksToRemove = {} /\ resetMask = {}
    /\ didModify = FALSE /\ block = "BLOCK_UNTIL_PUSHED" /\ fastTracks = FALSE
    /\ draft = FirstState /\ latest = FirstState /\ fresh = TRUE
    /\ current = InitialState /\ previousTrackMask = {} /\ changed = FALSE
    /\ generations = [i \in Slot |-> 0]
    /\ provider = [i \in Slot |-> NULL] /\ enabled = {}
    /\ fpc = "poll" /\ isWarm = FALSE /\ warmupCycles = 0
    /\ recent = [i \in Slot |-> {}]

Lesser(a, b) == IF a < b THEN a ELSE b

(* mLock: taken for the first part of a cycle, up to the end of            *)
(* prepareTracks_l(), and given up while the thread waits for work.        *)
LockFree == pc \in {"loop", "asleep", "ready", "idle", "writePush"}

Stopped(r) == r.mState \in {"STOPPED", "FLUSHED"}

-----------------------------------------------------------------------------
(* Clients.                                                                *)

(* Track::reset(): once per activation.                                    *)
Reset(r) ==
    IF r.mResetDone THEN r
    ELSE [r EXCEPT !.frames = 0, !.mResetDone = TRUE,
                   !.mState = IF @ = "FLUSHED" THEN "IDLE" ELSE @]

(* createTrack_l() and the Track constructor: the lowest available slot;   *)
(* mResetDone is left uninitialized.                                       *)
Create(t) ==
    /\ LockFree /\ tr[t].mState = NoTrack
    /\ \E i \in mFastTrackAvailMask, done \in BOOLEAN :
         /\ \A j \in mFastTrackAvailMask : i <= j
         /\ tr' = [tr EXCEPT ![t] = FreshRecord(i, done)]
         /\ recent' = [recent EXCEPT ![i] = {}]
         /\ mFastTrackAvailMask' = mFastTrackAvailMask \ {i}
    /\ UNCHANGED <<mActiveTracks, mActive, mSuspended, mStandby, woken, pc,
                   cycle, queue, fast>>

Usable(t) == tr[t].mState \notin {NoTrack, "TERMINATED"}

(* Track::start() and addTrack_l().                                        *)
TrackStart(t, r) ==
    /\ LockFree
    /\ tr' = [tr EXCEPT ![t] = [r EXCEPT
           !.mState = IF @ = "PAUSED" THEN "RESUMING" ELSE "ACTIVE",
           !.mRetryCount = kMaxTrackStartupRetries,
           !.mResetDone = @ /\ t \in mActiveTracks,
           !.left = IF t \in mActiveTracks THEN @ ELSE NotMonitoring]]
    /\ mActiveTracks' = mActiveTracks \cup {t}
    /\ woken' = TRUE

(* AudioTrack::start()                                                     *)
Start(t) ==
    /\ Usable(t) /\ t \notin mActive
    /\ mActive' = mActive \cup {t}
    /\ TrackStart(t, [tr[t] EXCEPT !.disabled = FALSE])
    /\ UNCHANGED <<mFastTrackAvailMask, mSuspended, mStandby, pc, cycle,
                   queue, fast, recent>>

Change(t, r) ==
    /\ tr' = [tr EXCEPT ![t] = r]
    /\ UNCHANGED <<mActiveTracks, mFastTrackAvailMask, mSuspended, mStandby,
                   woken, pc, cycle, queue, fast, recent>>

(* AudioTrack::stop() and Track::stop()                                    *)
Stop(t) ==
    /\ Usable(t) /\ t \in mActive /\ LockFree
    /\ mActive' = mActive \ {t}
    /\ Change(t, IF tr[t].mState \notin {"RESUMING", "ACTIVE", "PAUSING", "PAUSED"}
                 THEN tr[t]
                 ELSE IF t \in mActiveTracks
                 THEN [tr[t] EXCEPT !.mState = "STOPPING_1"]
                 ELSE [Reset(tr[t]) EXCEPT !.mState = "STOPPED"])

(* AudioTrack::pause() and Track::pause()                                  *)
Pause(t) ==
    /\ Usable(t) /\ t \in mActive /\ LockFree
    /\ mActive' = mActive \ {t}
    /\ Change(t, [tr[t] EXCEPT !.mState =
                    IF @ \in {"ACTIVE", "RESUMING"} THEN "PAUSING" ELSE @])

(* AudioTrack::flush() and Track::flush()                                  *)
Flush(t) ==
    /\ Usable(t) /\ t \notin mActive /\ LockFree
    /\ tr[t].mState \notin {"ACTIVE", "RESUMING"}
    /\ LET r == [tr[t] EXCEPT !.mState = "FLUSHED"]
       IN  Change(t, IF t \in mActiveTracks THEN r ELSE Reset(r))
    /\ UNCHANGED mActive

DestroyAtOnce(t) ==
    /\ Usable(t) /\ LockFree
    /\ mActive' = mActive \ {t}
    /\ tr' = [tr EXCEPT ![t] = Gone]
    /\ mActiveTracks' = mActiveTracks \ {t}
    /\ mFastTrackAvailMask' = mFastTrackAvailMask \cup {tr[t].mFastIndex}
    /\ UNCHANGED <<mSuspended, mStandby, woken, pc, cycle, queue, fast, recent>>

(* The client lets go of the track, or dies: destroyTrack_l(), and for an  *)
(* inactive track removeTrack_l().                                         *)
Destroy(t) ==
    /\ Usable(t) /\ LockFree
    /\ mActive' = mActive \ {t}
    /\ IF t \in mActiveTracks
       THEN /\ tr' = [tr EXCEPT ![t].mState = "TERMINATED"]
            /\ UNCHANGED mFastTrackAvailMask
       ELSE /\ tr' = [tr EXCEPT ![t] = Gone]
            /\ mFastTrackAvailMask' = mFastTrackAvailMask \cup {tr[t].mFastIndex}
    /\ UNCHANGED <<mActiveTracks, mSuspended, mStandby, woken, pc, cycle,
                   queue, fast, recent>>

(* releaseBuffer(): new frames, and a restart if the server has disabled   *)
(* the track.                                                              *)
Write(t, n) ==
    /\ Usable(t) /\ tr[t].frames + n <= mFrameCount
    /\ LET r == [tr[t] EXCEPT !.frames = @ + n]
       IN  \/ /\ t \in mActive /\ tr[t].disabled
              /\ TrackStart(t, [r EXCEPT !.disabled = FALSE])
           \/ /\ ~(t \in mActive /\ tr[t].disabled)
              /\ tr' = [tr EXCEPT ![t] = r]
              /\ UNCHANGED <<mActiveTracks, woken>>
    /\ UNCHANGED <<mActive, mFastTrackAvailMask, mSuspended, mStandby, pc,
                   cycle, queue, fast, recent>>

(* obtainBuffer() has waited bufferTimeoutMs for space: it starts the      *)
(* track again.                                                            *)
WriteTimeout(t) ==
    /\ Usable(t) /\ t \in mActive /\ tr[t].frames = mFrameCount
    /\ TrackStart(t, tr[t])
    /\ UNCHANGED <<mActive, mFastTrackAvailMask, mSuspended, mStandby, pc,
                   cycle, queue, fast, recent>>

(* AudioFlinger::suspendOutput() and restoreOutput()                       *)
Suspend ==
    /\ mSuspended' = ~mSuspended
    /\ UNCHANGED <<clients, mStandby, woken, pc, cycle, queue, fast, recent>>

-----------------------------------------------------------------------------
(* The normal mixer thread: threadLoop().                                  *)

(* The increment of a generation counter: a value of no state in flight.   *)
NewGeneration(used) == CHOOSE g \in Generation : g \notin used

(* StateQueue::push(): the prior state must have been acknowledged.        *)
Publish ==
    /\ ~fresh
    /\ latest' = draft /\ fresh' = TRUE
    /\ UNCHANGED draft

(* threadLoop_standby(), because nothing has been active for a while or    *)
(* because the output is suspended: the fast mixer is idled.               *)
Standby ==
    /\ pc = "loop" /\ ~mStandby
    /\ mActiveTracks = {} \/ mSuspended
    /\ IF draft.mCommand = "COLD_IDLE"
       THEN pc' = "standing" /\ mStandby' = TRUE /\ UNCHANGED draft
       ELSE /\ draft' = [draft EXCEPT !.mCommand = "COLD_IDLE"]
            /\ pc' = "standbyPush" /\ UNCHANGED mStandby
    /\ UNCHANGED <<clients, mSuspended, woken, cycle, latest, fresh, fast, recent>>

StandbyPush ==
    /\ pc = "standbyPush" /\ Publish
    /\ pc' = "standbyAck"
    /\ UNCHANGED <<clients, mSuspended, mStandby, woken, cycle, fast, recent>>

StandbyAcked ==
    /\ pc = "standbyAck" /\ ~fresh
    /\ mStandby' = TRUE
    /\ pc' = "standing"
    /\ UNCHANGED <<clients, mSuspended, woken, cycle, queue, fast, recent>>

(* Nothing to do: wait on mWaitWorkCV.                                     *)
Rest ==
    /\ pc = "standing" \/ (pc = "loop" /\ mStandby)
    /\ mActiveTracks = {}
    /\ pc' = "asleep" /\ woken' = FALSE
    /\ UNCHANGED <<clients, mSuspended, mStandby, cycle, queue, fast, recent>>

Wake ==
    /\ pc = "asleep" /\ woken
    /\ pc' = "loop"
    /\ UNCHANGED <<clients, mSuspended, mStandby, woken, cycle, queue, fast, recent>>

(* prepareTracks_l() begins.                                               *)
Prepare ==
    /\ \/ pc = "loop" /\ (mSuspended => mStandby)
       \/ pc = "standing" /\ mActiveTracks # {}
    /\ pc' = "prepare"
    /\ todo' = mActiveTracks
    /\ UNCHANGED <<clients, mSuspended, mStandby, woken, tracksToRemove, didModify,
                   resetMask, block, fastTracks, queue, fast, recent>>

UnderrunPartialOnly(u) == "Partial" \in u

Underrun(u) == u \cap {"Partial", "Empty"} # {}

(* A playing track: an empty underrun costs a retry.                       *)
Retried(r, u) ==
    LET n == IF u \cap {"Full", "Partial"} # {} THEN kMaxTrackRetries
             ELSE r.mRetryCount
        k == IF "Empty" \in u THEN n - 1 ELSE n
    IN  [r EXCEPT !.mRetryCount = k, !.disabled = @ \/ k <= 0]

MonitoredAnew(r) == [r EXCEPT !.left = audioHALFrames]

(* presentationComplete()                                                  *)
Monitored(r) == [r EXCEPT !.left =
                    IF @ = NotMonitoring THEN audioHALFrames ELSE @]

Ending(r) ==
    r.mState \in {"STOPPING_2", "PAUSED", "TERMINATED", "STOPPED", "FLUSHED"}

(* The track's next state, whether or not it stays active.                 *)
Stepped(r, u) ==
    CASE r.mState = "STOPPING_1" ->
            IF Underrun(u) THEN [r EXCEPT !.mState = "STOPPING_2"] ELSE r
      [] r.mState = "PAUSING"  -> [r EXCEPT !.mState = "PAUSED"]
      [] r.mState = "RESUMING" -> [r EXCEPT !.mState = "ACTIVE"]
      [] r.mState = "ACTIVE"   -> Retried(r, u)
      [] Ending(r) -> IF mStandby THEN r ELSE Monitored(r)
      [] OTHER -> r

(* A stopping, paused or destroyed track stays until it is presented, a    *)
(* playing one while it has retries.                                       *)
Leaves(r, s) ==
    \/ r.mState = "ACTIVE" /\ s.mRetryCount <= 0
    \/ Ending(r) /\ (mStandby \/ s.left = 0)

(* The slot becomes active: no acknowledgement is needed.                  *)
Added(d, i, t) ==
    [d EXCEPT !.mBufferProvider[i] = t, !.mTrackMask = @ \cup {i},
              !.mGeneration[i] = NewGeneration({latest.mGeneration[i],
                                    current.mGeneration[i], generations[i]})]

Removed(d, i) ==
    [d EXCEPT !.mBufferProvider[i] = NULL, !.mTrackMask = @ \ {i},
              !.mGeneration[i] = NewGeneration({latest.mGeneration[i],
                                    current.mGeneration[i], generations[i]})]

(* One fast track.                                                         *)
PrepareTrack(t) ==
    LET i      == tr[t].mFastIndex
        s      == Stepped(tr[t], recent[i])
        leaves == Leaves(tr[t], s)
        was    == i \in draft.mTrackMask
    IN  /\ pc = "prepare" /\ t \in todo
        /\ todo' = todo \ {t}
        /\ recent' = [recent EXCEPT ![i] = {}]
        /\ tr' = [tr EXCEPT ![t] = IF leaves /\ s.mState = "STOPPING_2"
                                   THEN [s EXCEPT !.mState = "STOPPED"] ELSE s]
        /\ \/ /\ ~leaves
              /\ draft' = IF was THEN draft ELSE Added(draft, i, t)
              /\ fastTracks' = TRUE
              /\ UNCHANGED <<tracksToRemove, resetMask, block>>
           \/ /\ leaves
              /\ draft' = IF was THEN Removed(draft, i) ELSE draft
              /\ block' = IF was THEN "BLOCK_UNTIL_ACKED" ELSE block
              /\ resetMask' = IF Ending(tr[t]) /\ Stopped(tr'[t])
                              THEN resetMask \cup {t} ELSE resetMask
              /\ tracksToRemove' = tracksToRemove \cup {t}
              /\ UNCHANGED fastTracks
        /\ didModify' = (didModify \/ was = leaves)
        /\ UNCHANGED <<mActiveTracks, mActive, mFastTrackAvailMask, mSuspended,
                       mStandby, woken, pc, latest, fresh, fast>>

PrepareEnd ==
    /\ pc = "prepare" /\ todo = {}
    /\ pc' = IF didModify THEN "push" ELSE "finish"
    /\ UNCHANGED <<clients, mSuspended, mStandby, woken, cycle, queue, fast, recent>>

PushUnacked ==
    /\ pc = "push" /\ Publish
    /\ pc' = "finish"
    /\ UNCHANGED <<clients, mSuspended, mStandby, woken, cycle, fast, recent>>

Push ==
    /\ pc = "push" /\ Publish
    /\ pc' = IF block = "BLOCK_UNTIL_ACKED" THEN "ack" ELSE "finish"
    /\ UNCHANGED <<clients, mSuspended, mStandby, woken, cycle, fast, recent>>

PushAcked ==
    /\ pc = "ack" /\ ~fresh
    /\ pc' = "finish"
    /\ UNCHANGED <<clients, mSuspended, mStandby, woken, cycle, queue, fast, recent>>

(* The deferred resets, the removals, and the end of prepareTracks_l().    *)
Finish ==
    LET gone     == {t \in tracksToRemove : tr[t].mState = "TERMINATED"}
        after(t) == IF t \in resetMask THEN Reset(tr[t]) ELSE tr[t]
    IN  /\ pc = "finish"
        /\ tr' = [t \in Track |-> IF t \in gone
                     THEN Gone ELSE after(t)]
        /\ mActiveTracks' = mActiveTracks \ tracksToRemove
        /\ mFastTrackAvailMask' =
               mFastTrackAvailMask \cup {tr[t].mFastIndex : t \in gone}
        /\ tracksToRemove' = {} /\ resetMask' = {} /\ didModify' = FALSE
        /\ block' = "BLOCK_UNTIL_PUSHED" /\ fastTracks' = FALSE
        /\ pc' = IF fastTracks THEN "ready" ELSE "idle"
        /\ UNCHANGED <<mActive, mSuspended, mStandby, woken, todo, queue, fast,
                       recent>>

(* threadLoop_write() first sees to it that the fast mixer runs.           *)
WriteBegin ==
    /\ pc \in {"ready", "idle"} /\ ~mSuspended /\ draft.mCommand # "MIX_WRITE"
    /\ draft' = [draft EXCEPT !.mCommand = "MIX_WRITE"]
    /\ pc' = "writePush"
    /\ UNCHANGED <<clients, mSuspended, mStandby, woken, cycle, latest, fresh,
                   fast, recent>>

AfterWrite(r) == [r EXCEPT !.left = IF @ > 0 THEN @ - 1 ELSE @]

(* A mix buffer is written.                                                *)
WriteMix ==
    /\ \/ pc = "writePush" /\ Publish
       \/ pc \in {"ready", "idle"} /\ ~mSuspended /\ draft.mCommand = "MIX_WRITE"
          /\ UNCHANGED queue
    /\ tr' = [t \in Track |-> AfterWrite(tr[t])]
    /\ mStandby' = FALSE
    /\ pc' = "loop"
    /\ UNCHANGED <<mActiveTracks, mActive, mFastTrackAvailMask, mSuspended,
                   woken, cycle, fast, recent>>

(* A suspended output counts the buffer but does not write it.             *)
SkipWrite ==
    /\ pc \in {"ready", "idle"} /\ mSuspended
    /\ tr' = [t \in Track |-> AfterWrite(tr[t])]
    /\ pc' = "loop"
    /\ UNCHANGED <<mActiveTracks, mActive, mFastTrackAvailMask, mSuspended,
                   mStandby, woken, cycle, queue, fast, recent>>

(* Without an active fast track the thread may also sleep: that is up to   *)
(* the normal tracks.                                                      *)
SleepCycle ==
    /\ pc = "idle"
    /\ pc' = "loop"
    /\ UNCHANGED <<clients, mSuspended, mStandby, woken, cycle, queue, fast, recent>>

-----------------------------------------------------------------------------
(* The fast mixer thread: FastMixer::threadLoop().                         *)

FastPollForgetful ==
    /\ fpc = "poll"
    /\ IF fresh
       THEN /\ current' = latest /\ fresh' = FALSE
            /\ changed' = TRUE
            /\ previousTrackMask' = current.mTrackMask
            /\ IF latest.mCommand = "COLD_IDLE" /\ current.mCommand # "COLD_IDLE"
               THEN isWarm' = FALSE /\ warmupCycles' = 0
               ELSE UNCHANGED <<isWarm, warmupCycles>>
       ELSE UNCHANGED <<current, fresh, previousTrackMask, changed, isWarm,
                        warmupCycles>>
    /\ fpc' = IF current'.mCommand = "MIX_WRITE" THEN "configure" ELSE "poll"
    /\ UNCHANGED <<clients, mSuspended, mStandby, woken, pc, cycle, draft, latest,
                   generations, provider, enabled, recent>>

(* poll() acknowledges a new state.  While idle the last non-idle state is *)
(* kept for comparison; a cold idle command is performed once.             *)
FastPoll ==
    /\ fpc = "poll"
    /\ IF fresh
       THEN /\ current' = latest /\ fresh' = FALSE
            /\ changed' = TRUE
            /\ previousTrackMask' = IF current.mCommand = "COLD_IDLE"
                   THEN previousTrackMask ELSE current.mTrackMask
            /\ IF latest.mCommand = "COLD_IDLE" /\ current.mCommand # "COLD_IDLE"
               THEN isWarm' = FALSE /\ warmupCycles' = 0
               ELSE UNCHANGED <<isWarm, warmupCycles>>
       ELSE UNCHANGED <<current, fresh, previousTrackMask, changed, isWarm,
                        warmupCycles>>
    /\ fpc' = IF current'.mCommand = "MIX_WRITE" THEN "configure" ELSE "poll"
    /\ UNCHANGED <<clients, mSuspended, mStandby, woken, pc, cycle, draft, latest,
                   generations, provider, enabled, recent>>

(* Handles a change of state: slots removed, added and modified.           *)
FastConfigure ==
    LET mask     == current.mTrackMask
        removed  == previousTrackMask \ mask
        added    == mask \ previousTrackMask
        modified == {i \in mask \cap previousTrackMask :
                        current.mGeneration[i] # generations[i]}
    IN  /\ fpc = "configure"
        /\ IF changed
           THEN /\ provider' = [i \in Slot |->
                      CASE i \in removed -> NULL
                        [] i \in added \cup modified -> current.mBufferProvider[i]
                        [] OTHER -> provider[i]]
                /\ enabled' = (enabled \ removed) \cup added
                /\ generations' = [i \in Slot |->
                      IF i \in removed \cup added \cup modified
                      THEN current.mGeneration[i] ELSE generations[i]]
           ELSE UNCHANGED <<provider, enabled, generations>>
        /\ changed' = FALSE
        /\ previousTrackMask' = mask
        /\ fpc' = "check"
        /\ UNCHANGED <<clients, mSuspended, mStandby, woken, pc, cycle, queue,
                       current, isWarm, warmupCycles, recent>>

(* How many frames each track has decides whether it is mixed.             *)
Fullness(n) == CASE n = 0 -> "Empty" [] n \in 1..(frameCount - 1) -> "Partial"
                 [] OTHER -> "Full"

FastCheck ==
    LET seen == [i \in current.mTrackMask |->
                    Fullness(tr[current.mBufferProvider[i]].frames)]
    IN  /\ fpc = "check"
        /\ IF isWarm
           THEN /\ recent' = [i \in Slot |-> IF i \in current.mTrackMask
                                 THEN recent[i] \cup {seen[i]} ELSE recent[i]]
                /\ enabled' = (enabled \ current.mTrackMask) \cup
                      {i \in current.mTrackMask : seen[i] # "Empty"}
           ELSE UNCHANGED <<recent, enabled>>
        /\ fpc' = "process"
        /\ UNCHANGED <<clients, mSuspended, mStandby, woken, pc, cycle, queue,
                       current, previousTrackMask, changed, generations,
                       provider, isWarm, warmupCycles>>

(* AudioMixer::process() and the write to the output, which counts towards *)
(* the warmup.                                                             *)
FastProcess ==
    /\ fpc = "process"
    /\ fpc' = "poll"
    /\ \/ /\ isWarm
          /\ LET read == {provider[i] : i \in enabled}
             IN  tr' = [t \in Track |-> IF t \in read
                   THEN [tr[t] EXCEPT !.frames = @ - Lesser(@, frameCount)]
                   ELSE tr[t]]
          /\ UNCHANGED <<isWarm, warmupCycles>>
       \/ /\ ~isWarm
          /\ warmupCycles' = warmupCycles + 1
          /\ \/ isWarm' = TRUE /\ warmupCycles' >= MIN_WARMUP_CYCLES
             \/ isWarm' = FALSE /\ warmupCycles' < MAX_WARMUP_CYCLES
          /\ UNCHANGED tr
    /\ UNCHANGED <<mActiveTracks, mActive, mFastTrackAvailMask, mSuspended, mStandby,
                   woken, pc, cycle, queue, current, previousTrackMask, changed,
                   generations, provider, enabled, recent>>

-----------------------------------------------------------------------------
FastMixer == FastPoll \/ FastConfigure \/ FastCheck \/ FastProcess

Mixer ==
    \/ StandbyPush \/ StandbyAcked \/ Wake \/ Prepare \/ PrepareEnd \/ Push
    \/ PushAcked \/ Finish \/ WriteBegin \/ WriteMix \/ SkipWrite
    \/ \E t \in Track : PrepareTrack(t)

Next ==
    \/ FastMixer \/ Mixer \/ Standby \/ Rest \/ SleepCycle \/ Suspend
    \/ \E t \in Track :
         \/ Create(t) \/ Start(t) \/ Stop(t) \/ Pause(t) \/ Flush(t)
         \/ Destroy(t) \/ WriteTimeout(t)
         \/ \E n \in WriteSizes : Write(t, n)

Safety == Init /\ [][Next]_vars

(* Both threads run; the normal mixer does not wait for its clients except *)
(* when it has nothing to do.                                              *)
Spec == Safety /\ WF_vars(FastMixer)
               /\ WF_vars(Mixer \/ Standby \/ Rest \/ SleepCycle)

-----------------------------------------------------------------------------
(* The fast mixer only ever touches tracks that still exist and that the   *)
(* normal mixer has left in their slots; what its AudioMixer reads is what *)
(* the state it works from says, also after an idle time in which slots    *)
(* changed hands ("we must wait for acknowledgement because we're about to *)
(* decrement the last sp<> on those tracks", prepareTracks_l).             *)
FastMixerReadsLiveTracks ==
    /\ fpc = "check" =>
         \A i \in current.mTrackMask :
           LET t == current.mBufferProvider[i]
           IN  t # NULL /\ tr[t].mState # NoTrack /\ tr[t].mFastIndex = i
    /\ fpc = "process" =>
         \A i \in enabled :
           /\ i \in current.mTrackMask
           /\ provider[i] = current.mBufferProvider[i]
           /\ tr[provider[i]].mState # NoTrack

(* No buffer is reset while the fast mixer may be reading it ("Can't reset *)
(* directly, as fast mixer is still polling this track").                  *)
NoResetWhileFastMixing ==
    [][\A i \in current.mTrackMask :
         current.mCommand = "MIX_WRITE" =>
           LET t == current.mBufferProvider[i]
           IN  tr'[t].frames < tr[t].frames => fpc = "process"]_vars

(* A slot a new track could be given is in no state the fast mixer works   *)
(* from or will work from ("the slot isn't marked available until the end  *)
(* of each cycle").                                                        *)
FreeSlotIsUnused ==
    LockFree => mFastTrackAvailMask \cap (draft.mTrackMask \cup
                    latest.mTrackMask \cup current.mTrackMask) = {}

(* A destroyed track is removed and its slot becomes available, whatever   *)
(* the fast mixer is doing and also while the output is suspended.         *)
DestroyedTrackIsRemoved ==
    \A t \in Track : tr[t].mState = "TERMINATED" ~> tr[t].mState = NoTrack

(* A stopped track drains, underruns and leaves, unless it is started      *)
(* again, the output is suspended, or its client keeps on writing.         *)
StoppedTrackLeaves ==
    \A t \in Track :
      \/ []<>~(t \in mActiveTracks /\ tr[t].mState \in {"STOPPING_1", "STOPPING_2"})
      \/ []<>mSuspended
      \/ []<><<\E n \in WriteSizes : Write(t, n)>>_vars
=============================================================================
