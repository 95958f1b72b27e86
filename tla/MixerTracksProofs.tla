-------------------------- MODULE MixerTracksProofs --------------------------
(***************************************************************************)
(* Proofs that hold for any set of tracks, any buffer sizes and any retry  *)
(* counts.                                                                 *)
(***************************************************************************)
EXTENDS MixerTracks, TLAPS

(* The parts of the inductive invariant.  While prepareTracks_l() holds    *)
(* the lock, an active track is in one of three stages: still to be looked *)
(* at, being looked at, or dealt with, perhaps to be removed.              *)
Stages ==
    /\ todo \cup cur \cup tracksToRemove \subseteq mActiveTracks
    /\ todo \cap cur = {}
    /\ tracksToRemove \cap (todo \cup cur \cup enabled) = {}
    /\ LockFree => tracksToRemove = {}
    /\ pc # "decide" => cur = {}

Kept == mTracks = {t \in Track : tr[t].mState # NoTrack}

(* A track that stays active has a retry left.                             *)
Retries == \A t \in mActiveTracks \ tracksToRemove : tr[t].mRetryCount >= 1

(* A track its client has started plays, and is told when it is dropped.   *)
Driven ==
    \A t \in mActive :
      /\ tr[t].mState \in {"ACTIVE", "RESUMING"}
      /\ t \notin mActiveTracks \/ t \in tracksToRemove => tr[t].disabled

IInv ==
    /\ TypeOK
    /\ enabled \subseteq mActiveTracks
    /\ mActiveTracks \subseteq mTracks
    /\ Stages /\ Kept /\ Retries /\ Driven

-----------------------------------------------------------------------------
(* What the operations on one track return.                                *)

(* Track::reset() keeps the retry count and never ends a track.            *)
LEMMA ResetFacts ==
    ASSUME NEW r \in TrackRecord
    PROVE  /\ Reset(r) \in TrackRecord
           /\ Reset(r).mRetryCount = r.mRetryCount
           /\ r.mState # NoTrack => Reset(r).mState # NoTrack
<1>1. CASE r.mResetDone
  BY <1>1 DEF Reset
<1>2. CASE ~r.mResetDone
  <2>1. 0 \in 0..mFrameCount
    BY MixerTracksAssumption
  <2> QED  BY <1>2, <2>1 DEF Reset, TrackRecord, track_state, NoTrack
<1> QED  BY <1>1, <1>2

(* A new track is a track record.                                          *)
LEMMA FreshFacts ==
    ASSUME NEW done \in BOOLEAN
    PROVE  FreshRecord(done) \in TrackRecord
<1>1. /\ 0 \in 0..mFrameCount
      /\ 0 \in 0..kMaxTrackRetries \cup 0..kMaxTrackStartupRetries
  BY MixerTracksAssumption
<1> QED  BY <1>1 DEF FreshRecord, TrackRecord, NotMonitoring, track_state

(* A started track is active or resuming and has retries.                  *)
LEMMA StartedFacts ==
    ASSUME NEW r \in TrackRecord, NEW newly \in BOOLEAN
    PROVE  /\ Started(r, newly) \in TrackRecord
           /\ Started(r, newly).mRetryCount >= 1
           /\ Started(r, newly).mState \in {"ACTIVE", "RESUMING"}
           /\ Started(r, newly).frames = r.frames
<1>1. /\ kMaxTrackStartupRetries \in
             0..kMaxTrackRetries \cup 0..kMaxTrackStartupRetries
      /\ kMaxTrackStartupRetries >= 1
  BY MixerTracksAssumption
<1>2. CASE newly
  BY <1>1, <1>2 DEF Started, TrackRecord, track_state, NotMonitoring
<1>3. CASE ~newly
  BY <1>1, <1>3 DEF Started, TrackRecord, track_state
<1> QED  BY <1>2, <1>3

(* Track::isReady() changes only the filling status.                       *)
LEMMA AfterIsReadyFacts ==
    ASSUME NEW r \in TrackRecord
    PROVE  /\ AfterIsReady(r) \in TrackRecord
           /\ AfterIsReady(r).mState = r.mState
           /\ AfterIsReady(r).frames = r.frames
           /\ AfterIsReady(r).mRetryCount = r.mRetryCount
           /\ AfterIsReady(r).disabled = r.disabled
  BY DEF AfterIsReady, TrackRecord

(* A write to the output moves only the presentation monitor.              *)
LEMMA AfterWriteFacts ==
    ASSUME NEW r \in TrackRecord
    PROVE  /\ AfterWrite(r) \in TrackRecord
           /\ AfterWrite(r).mState = r.mState
           /\ AfterWrite(r).frames = r.frames
           /\ AfterWrite(r).mRetryCount = r.mRetryCount
           /\ AfterWrite(r).disabled = r.disabled
  BY MixerTracksAssumption DEF AfterWrite, TrackRecord, NotMonitoring

(* presentationComplete() starts only the monitor.                         *)
LEMMA MonitoredFacts ==
    ASSUME NEW r \in TrackRecord
    PROVE  /\ Monitored(r) \in TrackRecord
           /\ Monitored(r).mState = r.mState
           /\ Monitored(r).mRetryCount = r.mRetryCount
  BY MixerTracksAssumption DEF Monitored, TrackRecord, NotMonitoring

-----------------------------------------------------------------------------
(* The invariant holds before the first track.                             *)
LEMMA InitIInv == Init => IInv
<1> SUFFICES ASSUME Init PROVE IInv
  OBVIOUS
<1>1. TypeOK
  <2>1. [FreshRecord(FALSE) EXCEPT !.mState = NoTrack] \in TrackRecord
    BY FreshFacts DEF TrackRecord
  <2>2. 0 \in 0..mFrameCount
    BY MixerTracksAssumption
  <2> QED  BY <2>1, <2>2 DEF Init, TypeOK, mixer_state
<1>2. Kept
  BY DEF Init, Kept, FreshRecord, NoTrack
<1>3. Stages /\ Retries /\ Driven
  BY DEF Init, Stages, Retries, Driven
<1> QED  BY <1>1, <1>2, <1>3 DEF IInv, Init

(* Clients wait for tracks.                                                *)
Waiters == waiting \subseteq Track /\ timedOut \subseteq Track

LEMMA WaitersKept ==
    ASSUME TypeOK, NEW t \in Track,
           Unblocked(t) \/ WaitAgain(t) \/ UNCHANGED blocked
    PROVE  Waiters'
  BY DEF TypeOK, Waiters, Unblocked, WaitAgain, blocked

(* A client operation that starts a track.                                 *)
LEMMA TrackStartIInv ==
    ASSUME IInv, NEW t \in Track, NEW r \in TrackRecord, Usable(t),
           TrackStart(t, r),
           mActive' \in {mActive, mActive \cup {t}}, Waiters',
           UNCHANGED <<mTracks, enabled, thread, output>>
    PROVE  IInv'
<1> DEFINE newly == t \notin mActiveTracks
           s == Started(r, newly)
<1>1. /\ s \in TrackRecord /\ s.mRetryCount >= 1
      /\ s.mState \in {"ACTIVE", "RESUMING"}
  BY StartedFacts
<1>2. /\ tr' = [tr EXCEPT ![t] = s]
      /\ mActiveTracks' = mActiveTracks \cup {t}
      /\ LockFree /\ woken' = TRUE
  BY DEF TrackStart
<1> HIDE DEF s
<1>3. t \in mTracks
  BY DEF IInv, Kept, Usable
<1>4. TypeOK'
  BY <1>1, <1>2 DEF IInv, TypeOK, Waiters, thread, output
<1>5. Kept'
  BY <1>1, <1>2, <1>3 DEF IInv, TypeOK, Kept, NoTrack
<1>6. Stages'
  BY <1>2 DEF IInv, Stages, LockFree, thread
<1>7. tracksToRemove' = {}
  BY <1>2 DEF IInv, Stages, LockFree, thread
<1>8. Retries' /\ Driven'
  BY <1>1, <1>2, <1>7 DEF IInv, TypeOK, Retries, Driven, Stages
<1> QED
  BY <1>2, <1>3, <1>4, <1>5, <1>6, <1>8 DEF IInv

(* A client operation that changes one track and leaves the lists alone.   *)
LEMMA ChangeIInv ==
    ASSUME IInv, NEW t \in Track, NEW x \in TrackRecord, Usable(t),
           tr' = [tr EXCEPT ![t] = x],
           x.mState # NoTrack, x.mRetryCount = tr[t].mRetryCount,
           mActive' \subseteq mActive,
           t \in mActive' => /\ x.mState = tr[t].mState
                              /\ x.disabled = tr[t].disabled,
           Waiters',
           UNCHANGED <<mTracks, mActiveTracks, enabled, thread, output, woken>>
    PROVE  IInv'
<1>1. TypeOK'
  BY DEF IInv, TypeOK, Waiters, thread, output
<1>2. Kept'
  BY DEF IInv, TypeOK, Kept, Usable
<1>3. Stages'
  BY DEF IInv, Stages, LockFree, thread
<1>4. Retries'
  BY DEF IInv, TypeOK, Retries, thread
<1>5. Driven'
  <2> SUFFICES ASSUME NEW u \in mActive'
               PROVE  /\ tr'[u].mState \in {"ACTIVE", "RESUMING"}
                      /\ u \notin mActiveTracks' \/ u \in tracksToRemove'
                            => tr'[u].disabled
    BY DEF Driven
  <2>1. tr'[u].mState = tr[u].mState /\ tr'[u].disabled = tr[u].disabled
    BY DEF IInv, TypeOK
  <2> QED  BY <2>1 DEF IInv, Driven, thread
<1> QED
  BY <1>1, <1>2, <1>3, <1>4, <1>5 DEF IInv

(* prepareTracks_l() has looked at one track.                              *)
LEMMA PrepareTrackIInv == IInv /\ PrepareTrack => IInv'
<1> SUFFICES ASSUME IInv, PrepareTrack PROVE IInv'
  OBVIOUS
<1>1. PICK t \in cur : PrepareReady(t) \/ PrepareEnding(t) \/ PrepareUnderrun(t)
  BY DEF PrepareTrack
<1>2. /\ t \in Track /\ tr[t] \in TrackRecord /\ t \in mActiveTracks
      /\ t \notin tracksToRemove /\ t \notin todo
      /\ pc = "decide" /\ pc' = "prepare" /\ cur' = {} /\ todo' = todo
      /\ UNCHANGED <<mTracks, mActiveTracks, mActive, waiting, timedOut, seen,
                     mMixerStatus, mStandby, mBytesWritten, sleepTime, woken>>
  BY DEF PrepareTrack, IInv, TypeOK, Stages, blocked, output
<1>3. ASSUME NEW x \in TrackRecord, tr' = [tr EXCEPT ![t] = x],
             x.mState # NoTrack,
             t \in mActive => x.mState \in {"ACTIVE", "RESUMING"},
             t \in tracksToRemove' \/ x.mRetryCount >= 1,
             t \in mActive /\ t \in tracksToRemove' => x.disabled,
             tracksToRemove' \in {tracksToRemove, tracksToRemove \cup {t}},
             \/ enabled' = enabled \ {t}
             \/ enabled' = enabled \cup {t} /\ t \notin tracksToRemove',
             mixerStatus' \in mixer_state
      PROVE  IInv'
  <2>1. TypeOK'
    BY <1>2, <1>3 DEF IInv, TypeOK
  <2>2. Kept'
    BY <1>2, <1>3 DEF IInv, TypeOK, Kept
  <2>3. Stages'
    BY <1>2, <1>3 DEF IInv, Stages, LockFree
  <2>4. Retries' /\ Driven'
    BY <1>2, <1>3 DEF IInv, TypeOK, Retries, Driven
  <2> QED  BY <1>2, <1>3, <2>1, <2>2, <2>3, <2>4 DEF IInv
<1> DEFINE a == AfterIsReady(tr[t])
<1>4. /\ a \in TrackRecord /\ a.mState = tr[t].mState
      /\ a.mRetryCount = tr[t].mRetryCount /\ a.disabled = tr[t].disabled
  BY <1>2, AfterIsReadyFacts
<1>5. tr[t].mState # NoTrack /\ tr[t].mRetryCount >= 1
      /\ tr[t].mRetryCount \in Int
  BY <1>2, MixerTracksAssumption DEF IInv, Kept, Retries, TypeOK, TrackRecord
<1>6. t \in mActive => tr[t].mState \in {"ACTIVE", "RESUMING"}
  BY DEF IInv, Driven
<1>7. CASE PrepareReady(t)
  <2> DEFINE x == tr'[t]
             filled == a.mFillingUpStatus = "FS_FILLED"
             st == CASE filled /\ a.mState = "RESUMING" -> "ACTIVE"
                     [] a.mState = "PAUSING" -> "PAUSED"
                     [] OTHER -> a.mState
  <2>1. x = [a EXCEPT
               !.mFillingUpStatus = IF filled THEN "FS_ACTIVE" ELSE @,
               !.mState = st,
               !.mRetryCount = kMaxTrackRetries]
        /\ tr' = [tr EXCEPT ![t] = x]
    BY <1>2, <1>7 DEF PrepareReady, IInv, TypeOK
  <2>2. st \in track_state /\ st # NoTrack
        /\ (t \in mActive => st \in {"ACTIVE", "RESUMING"})
    <3>1. CASE filled /\ a.mState = "RESUMING"
      BY <3>1 DEF track_state, NoTrack
    <3>2. CASE ~(filled /\ a.mState = "RESUMING") /\ a.mState = "PAUSING"
      BY <1>4, <1>6, <3>2 DEF track_state, NoTrack
    <3>3. CASE ~(filled /\ a.mState = "RESUMING") /\ a.mState # "PAUSING"
      BY <1>4, <1>5, <1>6, <3>3 DEF track_state, NoTrack, TrackRecord
    <3> QED  BY <3>1, <3>2, <3>3
  <2>3. kMaxTrackRetries \in 0..kMaxTrackRetries \cup 0..kMaxTrackStartupRetries
        /\ kMaxTrackRetries >= 1
    BY MixerTracksAssumption
  <2> HIDE DEF st, filled, a
  <2>4. x \in TrackRecord /\ x.mState = st /\ x.mRetryCount >= 1
    BY <1>4, <2>1, <2>2, <2>3 DEF TrackRecord
  <2> HIDE DEF x
  <2>5. /\ tracksToRemove' = tracksToRemove /\ enabled' = enabled \cup {t}
        /\ mixerStatus' \in mixer_state
    BY <1>7 DEF PrepareReady, mixer_state, IInv, TypeOK
  <2> QED  BY <1>2, <1>3, <2>1, <2>2, <2>4, <2>5
<1>8. CASE PrepareEnding(t)
  <2> DEFINE r == IF seen >= MinFrames(tr[t]) THEN a ELSE tr[t]
             m == IF mStandby THEN r ELSE Monitored(r)
             over == mStandby \/ m.left = 0
             x == IF over /\ Stopped(m) THEN Reset(m) ELSE m
  <2>1. /\ tr' = [tr EXCEPT ![t] = x]
        /\ tracksToRemove' \in {tracksToRemove, tracksToRemove \cup {t}}
        /\ enabled' = enabled \ {t} /\ mixerStatus' = mixerStatus
    BY <1>8 DEF PrepareEnding
  <2>2. r \in TrackRecord /\ r.mState = tr[t].mState
        /\ r.mRetryCount = tr[t].mRetryCount
    BY <1>2, <1>4
  <2> HIDE DEF r
  <2>3. m \in TrackRecord /\ m.mState = tr[t].mState
        /\ m.mRetryCount = tr[t].mRetryCount
    BY <2>2, MonitoredFacts
  <2> HIDE DEF m
  <2>4. x \in TrackRecord /\ x.mState # NoTrack
        /\ x.mRetryCount = tr[t].mRetryCount
    BY <1>5, <2>3, ResetFacts
  <2> HIDE DEF x
  <2>5. t \notin mActive
    BY <1>6, <1>8 DEF PrepareEnding, Ending
  <2>6. mixerStatus' \in mixer_state
    BY <2>1 DEF IInv, TypeOK
  <2> QED  BY <1>3, <1>5, <2>1, <2>4, <2>5, <2>6
<1>9. CASE PrepareUnderrun(t)
  <2> DEFINE r == IF seen >= MinFrames(tr[t]) THEN a ELSE tr[t]
             n == tr[t].mRetryCount - 1
             x == [r EXCEPT !.mRetryCount = n, !.disabled = @ \/ n <= 0]
  <2>1. /\ tr' = [tr EXCEPT ![t] = x]
        /\ tracksToRemove' =
               IF n <= 0 THEN tracksToRemove \cup {t} ELSE tracksToRemove
        /\ enabled' = enabled \ {t}
    BY <1>9 DEF PrepareUnderrun
  <2>2. r \in TrackRecord /\ r.mState = tr[t].mState
        /\ r.mRetryCount = tr[t].mRetryCount
    BY <1>2, <1>4
  <2>3. /\ n \in 0..kMaxTrackRetries \cup 0..kMaxTrackStartupRetries
        /\ n <= 0 \/ n >= 1
    BY <1>2, <1>5, MixerTracksAssumption DEF TrackRecord
  <2> HIDE DEF r, n
  <2>4. x \in TrackRecord /\ x.mState = tr[t].mState
        /\ x.mRetryCount = n /\ (n <= 0 => x.disabled)
    BY <2>2, <2>3 DEF TrackRecord
  <2> HIDE DEF x
  <2>5. mixerStatus' \in mixer_state
    BY <1>9 DEF PrepareUnderrun, IInv, TypeOK, mixer_state
  <2> QED  BY <1>2, <1>3, <1>5, <1>6, <2>1, <2>3, <2>4, <2>5
<1> QED  BY <1>1, <1>7, <1>8, <1>9

(* Every step of the mixer and of the clients keeps it.                    *)
LEMMA NextIInv == IInv /\ [Next]_vars => IInv'
<1> SUFFICES ASSUME IInv, [Next]_vars PROVE IInv'
  OBVIOUS
<1>1. ASSUME NEW t \in Track, Create(t) PROVE IInv'
  <2>1. PICK done \in BOOLEAN : tr' = [tr EXCEPT ![t] = FreshRecord(done)]
    BY <1>1 DEF Create
  <2>2. FreshRecord(done) \in TrackRecord /\ FreshRecord(done).mState # NoTrack
    BY FreshFacts DEF FreshRecord, NoTrack
  <2> HIDE DEF FreshRecord
  <2>3. t \notin mTracks
    BY <1>1 DEF Create, IInv, Kept
  <2>4. t \notin mActive
    BY <1>1 DEF Create, IInv, Driven, NoTrack
  <2>5. TypeOK'
    BY <1>1, <2>1, <2>2 DEF Create, IInv, TypeOK, blocked, thread, output
  <2>6. Kept'
    BY <1>1, <2>1, <2>2 DEF Create, IInv, TypeOK, Kept
  <2>7. Stages'
    BY <1>1 DEF Create, IInv, Stages, LockFree, thread
  <2>8. Retries' /\ Driven'
    BY <1>1, <2>1, <2>3, <2>4
    DEF Create, IInv, TypeOK, Retries, Driven, thread
  <2> QED  BY <1>1, <2>5, <2>6, <2>7, <2>8 DEF Create, IInv
<1>2. ASSUME NEW t \in Track, Start(t) PROVE IInv'
  <2>1. [tr[t] EXCEPT !.disabled = FALSE] \in TrackRecord
    BY DEF IInv, TypeOK, TrackRecord
  <2> QED  BY <1>2, <2>1, TrackStartIInv, WaitersKept DEF Start, IInv
<1>3. ASSUME NEW t \in Track, Stop(t) PROVE IInv'
  <2>1. tr[t] \in TrackRecord
    BY DEF IInv, TypeOK
  <2> DEFINE x == tr'[t]
  <2>2. tr' = [tr EXCEPT ![t] = x]
    BY <1>3 DEF Stop, IInv, TypeOK
  <2>3. /\ x \in TrackRecord /\ x.mState # NoTrack
        /\ x.mRetryCount = tr[t].mRetryCount
    <3>1. \/ x = tr[t]
          \/ x = [tr[t] EXCEPT !.mState = "STOPPED"]
          \/ x = [Reset(tr[t]) EXCEPT !.mState = "STOPPED"]
      BY <1>3 DEF Stop, IInv, TypeOK
    <3>2. Usable(t)
      BY <1>3 DEF Stop
    <3> QED
      BY <2>1, <3>1, <3>2, ResetFacts
      DEF TrackRecord, track_state, NoTrack, Usable
  <2>4. t \notin mActive' /\ mActive' \subseteq mActive /\ Usable(t)
    BY <1>3 DEF Stop
  <2>5. /\ UNCHANGED <<mTracks, mActiveTracks, enabled, thread, output, woken>>
        /\ Waiters'
    BY <1>3, WaitersKept DEF Stop, IInv
  <2> HIDE DEF x
  <2> QED  BY <2>2, <2>3, <2>4, <2>5, ChangeIInv
<1>4. ASSUME NEW t \in Track, Pause(t) PROVE IInv'
  <2>1. tr[t] \in TrackRecord
    BY DEF IInv, TypeOK
  <2> DEFINE x == [tr[t] EXCEPT !.mState =
                     IF @ \in {"ACTIVE", "RESUMING"} THEN "PAUSING" ELSE @]
  <2>2. tr' = [tr EXCEPT ![t] = x]
    BY <1>4 DEF Pause
  <2>3. /\ x \in TrackRecord /\ x.mState # NoTrack
        /\ x.mRetryCount = tr[t].mRetryCount
    BY <1>4, <2>1 DEF Pause, TrackRecord, track_state, NoTrack, Usable
  <2>4. t \notin mActive' /\ mActive' \subseteq mActive /\ Usable(t)
    BY <1>4 DEF Pause
  <2>5. /\ UNCHANGED <<mTracks, mActiveTracks, enabled, thread, output, woken>>
        /\ Waiters'
    BY <1>4, WaitersKept DEF Pause, IInv
  <2> HIDE DEF x
  <2> QED  BY <2>2, <2>3, <2>4, <2>5, ChangeIInv
<1>5. ASSUME NEW t \in Track, Flush(t) PROVE IInv'
  <2> DEFINE r == [tr[t] EXCEPT !.mState = "FLUSHED"]
             x == IF t \in mActiveTracks THEN r ELSE Reset(r)
  <2>1. r \in TrackRecord /\ r.mState # NoTrack
        /\ r.mRetryCount = tr[t].mRetryCount
    BY DEF IInv, TypeOK, TrackRecord, track_state, NoTrack
  <2>2. tr' = [tr EXCEPT ![t] = x]
    BY <1>5 DEF Flush
  <2> HIDE DEF r
  <2>3. /\ x \in TrackRecord /\ x.mState # NoTrack
        /\ x.mRetryCount = tr[t].mRetryCount
    BY <2>1, ResetFacts
  <2>4. t \notin mActive' /\ mActive' \subseteq mActive /\ Usable(t)
    BY <1>5 DEF Flush
  <2>5. /\ UNCHANGED <<mTracks, mActiveTracks, enabled, thread, output, woken>>
        /\ Waiters'
    BY <1>5, WaitersKept DEF Flush, IInv
  <2> HIDE DEF x
  <2> QED  BY <2>2, <2>3, <2>4, <2>5, ChangeIInv
<1>6. ASSUME NEW t \in Track, Destroy(t) PROVE IInv'
  <2> DEFINE x == [tr[t] EXCEPT !.mState =
                     IF t \in mActiveTracks THEN "TERMINATED" ELSE NoTrack]
  <2>1. /\ x \in TrackRecord
        /\ x.mState = NoTrack <=> t \notin mActiveTracks
        /\ x.mRetryCount = tr[t].mRetryCount
    BY DEF IInv, TypeOK, TrackRecord, track_state, NoTrack
  <2>2. tr' = [tr EXCEPT ![t] = x]
    BY <1>6 DEF Destroy
  <2> HIDE DEF x
  <2>3. TypeOK'
    BY <1>6, <2>1, <2>2 DEF Destroy, Unblocked, IInv, TypeOK, thread, output
  <2>4. Kept'
    BY <1>6, <2>1, <2>2 DEF Destroy, IInv, TypeOK, Kept
  <2>5. Stages'
    BY <1>6 DEF Destroy, IInv, Stages, LockFree, thread
  <2>6. Retries' /\ Driven'
    BY <1>6, <2>1, <2>2 DEF Destroy, IInv, TypeOK, Retries, Driven, thread
  <2> QED  BY <1>6, <2>3, <2>4, <2>5, <2>6 DEF Destroy, IInv
<1>7. ASSUME NEW t \in Track, NEW n \in WriteSizes, Write(t, n) PROVE IInv'
  <2> DEFINE r == [tr[t] EXCEPT !.frames = @ + n]
  <2>1. /\ r \in TrackRecord /\ r.mState = tr[t].mState
        /\ r.mRetryCount = tr[t].mRetryCount /\ r.disabled = tr[t].disabled
        /\ [r EXCEPT !.disabled = FALSE] \in TrackRecord
    <3>1. tr[t] \in TrackRecord
      BY DEF IInv, TypeOK
    <3>2. tr[t].frames \in 0..mFrameCount
      BY <3>1 DEF TrackRecord
    <3>3. n \in Nat /\ tr[t].frames + n <= mFrameCount
      BY <1>7, MixerTracksAssumption DEF Write
    <3>4. tr[t].frames + n \in 0..mFrameCount
      BY <3>2, <3>3, MixerTracksAssumption
    <3>5. r \in TrackRecord
      BY <3>1, <3>4 DEF TrackRecord
    <3> QED  BY <3>1, <3>5 DEF TrackRecord
  <2>2. CASE TrackStart(t, [r EXCEPT !.disabled = FALSE])
    BY <1>7, <2>1, <2>2, TrackStartIInv, WaitersKept DEF Write, IInv
  <2>3. CASE tr' = [tr EXCEPT ![t] = r] /\ UNCHANGED <<mActiveTracks, woken>>
    <3>1. r.mState # NoTrack /\ Usable(t) /\ mActive' = mActive
      BY <1>7, <2>1 DEF Write, Usable
    <3>2. /\ UNCHANGED <<mTracks, mActiveTracks, enabled, thread, output,
                          woken>>
          /\ Waiters'
      BY <1>7, <2>3, WaitersKept DEF Write, IInv
    <3> HIDE DEF r
    <3> QED  BY <2>1, <2>3, <3>1, <3>2, ChangeIInv
  <2> QED  BY <1>7, <2>2, <2>3 DEF Write
<1>8. ASSUME NEW t \in Track,
             WriteRestart(t) \/ WriteBlocks(t) \/ WriteTimeout(t)
                             \/ WriteStopped(t)
      PROVE  IInv'
  <2>1. tr[t] \in TrackRecord
    BY DEF IInv, TypeOK
  <2>2. CASE WriteRestart(t)
    BY <2>1, <2>2, TrackStartIInv, WaitersKept DEF WriteRestart, IInv
  <2>3. CASE WriteBlocks(t) \/ WriteTimeout(t) \/ WriteStopped(t)
    <3>1. /\ UNCHANGED <<tr, mTracks, mActiveTracks, mActive, enabled, thread,
                         output, woken>>
          /\ Waiters'
      BY <2>3 DEF WriteBlocks, WriteTimeout, WriteStopped, Unblocked, Waiters,
         IInv, TypeOK
    <3>2. TypeOK'
      BY <3>1 DEF Waiters, IInv, TypeOK, thread, output
    <3> QED
      BY <3>1, <3>2 DEF IInv, Stages, Kept, Retries, Driven, LockFree, thread
  <2> QED  BY <1>8, <2>2, <2>3
<1>9. CASE Standby \/ Wake
  <2>1. TypeOK'
    BY <1>9 DEF Standby, Wake, IInv, TypeOK, mixer_state, blocked
  <2>2. Stages'
    BY <1>9 DEF Standby, Wake, IInv, Stages, LockFree
  <2>3. Kept' /\ Retries' /\ Driven'
    BY <1>9 DEF Standby, Wake, IInv, Kept, Retries, Driven
  <2> QED  BY <1>9, <2>1, <2>2, <2>3 DEF Standby, Wake, IInv
<1>10. CASE Prepare
  <2>1. TypeOK'
    BY <1>10, Zenon DEF Prepare, IInv, TypeOK, mixer_state, blocked,
       output
  <2>2. Stages'
    BY <1>10 DEF Prepare, IInv, Stages, LockFree
  <2>3. Kept' /\ Retries' /\ Driven'
    BY <1>10 DEF Prepare, IInv, Kept, Retries, Driven
  <2> QED  BY <1>10, <2>1, <2>2, <2>3 DEF Prepare, IInv
<1>11. ASSUME NEW t \in Track, PrepareRead(t) PROVE IInv'
  <2>1. tr[t].frames \in 0..mFrameCount
    BY DEF IInv, TypeOK, TrackRecord
  <2>2. TypeOK'
    BY <1>11, <2>1 DEF PrepareRead, IInv, TypeOK, blocked, output
  <2>3. Stages'
    BY <1>11 DEF PrepareRead, IInv, Stages, LockFree
  <2>4. Kept' /\ Retries' /\ Driven'
    BY <1>11 DEF PrepareRead, IInv, Kept, Retries, Driven
  <2> QED  BY <1>11, <2>2, <2>3, <2>4 DEF PrepareRead, IInv
<1>12. CASE PrepareTrack
  BY <1>12, PrepareTrackIInv
<1>13. CASE PrepareDone
  <2> DEFINE gone == {t \in tracksToRemove : tr[t].mState = "TERMINATED"}
  <2>1. /\ mActiveTracks' = mActiveTracks \ tracksToRemove
        /\ mTracks' = mTracks \ gone
        /\ tr' = [t \in Track |-> IF t \in gone
                     THEN [tr[t] EXCEPT !.mState = NoTrack] ELSE tr[t]]
        /\ tracksToRemove' = {} /\ todo' = {} /\ cur' = {}
        /\ mActive' = mActive /\ enabled' = enabled
    BY <1>13 DEF PrepareDone, IInv, Stages
  <2>2. \A t \in Track : tr'[t] \in TrackRecord
    BY <2>1 DEF IInv, TypeOK, TrackRecord, NoTrack
  <2>3. TypeOK'
    <3>1. tr' \in [Track -> TrackRecord]
      BY <2>1, <2>2
    <3>2. pc' \in {"mix", "sleepTime"}
      BY <1>13 DEF PrepareDone
    <3> QED
      BY <1>13, <2>1, <3>1, <3>2
         DEF PrepareDone, IInv, TypeOK, blocked, output
  <2>4. Kept'
    <3>1. \A t \in Track : tr'[t].mState = IF t \in gone THEN NoTrack
                                                          ELSE tr[t].mState
      BY <2>1 DEF IInv, TypeOK, TrackRecord
    <3> QED  BY <2>1, <3>1 DEF IInv, Kept
  <2>5. Stages'
    BY <1>13, <2>1 DEF PrepareDone, Stages, LockFree
  <2>6. Retries'
    BY <2>1 DEF IInv, TypeOK, Retries
  <2>7. Driven'
    BY <2>1 DEF IInv, TypeOK, Driven
  <2>8. enabled' \subseteq mActiveTracks' /\ mActiveTracks' \subseteq mTracks'
    BY <2>1 DEF IInv, Stages
  <2> QED  BY <2>3, <2>4, <2>5, <2>6, <2>7, <2>8 DEF IInv
<1>14. CASE Mix \/ Sleep
  <2>1. \A t \in Track : /\ tr'[t] \in TrackRecord
                         /\ tr'[t].mState = tr[t].mState
                         /\ tr'[t].mRetryCount = tr[t].mRetryCount
                         /\ tr'[t].disabled = tr[t].disabled
    <3> SUFFICES ASSUME NEW t \in Track
                 PROVE  /\ tr'[t] \in TrackRecord
                        /\ tr'[t].mState = tr[t].mState
                        /\ tr'[t].mRetryCount = tr[t].mRetryCount
                        /\ tr'[t].disabled = tr[t].disabled
      OBVIOUS
    <3> DEFINE m == [tr[t] EXCEPT !.frames = @ - Lesser(@, mNormalFrameCount)]
    <3>1. tr[t] \in TrackRecord
      BY DEF IInv, TypeOK
    <3>2. /\ m \in TrackRecord /\ m.mState = tr[t].mState
          /\ m.mRetryCount = tr[t].mRetryCount /\ m.disabled = tr[t].disabled
      BY <3>1, MixerTracksAssumption DEF TrackRecord, Lesser
    <3>3. tr'[t] \in {AfterWrite(m), AfterWrite(tr[t]), tr[t]}
      BY <1>14 DEF Mix, Sleep
    <3> HIDE DEF m
    <3> QED  BY <3>1, <3>2, <3>3, AfterWriteFacts
  <2>2. /\ tr' \in [Track -> TrackRecord]
        /\ UNCHANGED <<mTracks, mActiveTracks, mActive, waiting, timedOut,
                       enabled, todo, cur, seen, tracksToRemove, mixerStatus,
                       mMixerStatus, woken>>
        /\ pc' = "loop" /\ pc \in {"mix", "sleepTime"}
    BY <1>14, <2>1 DEF Mix, Sleep, IInv, TypeOK, blocked
  <2>3. TypeOK'
    BY <1>14, <2>2 DEF Mix, Sleep, Written, IInv, TypeOK
  <2>4. Stages'
    BY <2>2 DEF IInv, Stages, LockFree
  <2>5. Kept' /\ Retries' /\ Driven'
    BY <2>1, <2>2 DEF IInv, TypeOK, Kept, Retries, Driven
  <2> QED  BY <2>2, <2>3, <2>4, <2>5 DEF IInv
<1>15. CASE UNCHANGED vars
  BY <1>15 DEF vars, IInv, TypeOK, Stages, Kept, Retries, Driven, LockFree
<1> QED
  BY <1>1, <1>2, <1>3, <1>4, <1>5, <1>6, <1>7, <1>8, <1>9, <1>10, <1>11, <1>12,
     <1>13, <1>14, <1>15 DEF Next, Mixer
-----------------------------------------------------------------------------
(* It holds in every reachable state.                                      *)
LEMMA AlwaysIInv == Safety => []IInv
  BY InitIInv, NextIInv, PTL DEF Safety

(* Every variable of the mixer thread and its tracks keeps its type: in    *)
(* particular a track never has more frames than its buffer holds, and its *)
(* retry counter does not pass zero.                                       *)
THEOREM TypeCorrect == Safety => []TypeOK
<1>1. IInv => TypeOK
  BY DEF IInv
<1> QED  BY <1>1, AlwaysIInv, PTL

(* The mixer never reads a track that has been removed (destroyTrack_l,    *)
(* removeTrack_l, prepareTracks_l).                                        *)
THEOREM LiveTracks == Safety => []MixerReadsLiveTracks
<1>1. IInv => MixerReadsLiveTracks
  BY DEF IInv, MixerReadsLiveTracks, Kept
<1> QED  BY <1>1, AlwaysIInv, PTL

(* A started track that the mixer thread no longer looks at is marked, so  *)
(* that its client starts it again (CBLK_DISABLED in prepareTracks_l and   *)
(* releaseBuffer).                                                         *)
THEOREM Dropped == Safety => []DroppedTrackIsDisabled
<1>1. IInv => DroppedTrackIsDisabled
  BY DEF IInv, DroppedTrackIsDisabled, Driven
<1> QED  BY <1>1, AlwaysIInv, PTL

(* What leaves the frames of a track alone.                                *)
LEMMA FramesKept ==
    ASSUME NEW r \in TrackRecord, NEW b \in BOOLEAN
    PROVE  /\ Started(r, b).frames = r.frames
           /\ AfterIsReady(r).frames = r.frames
           /\ AfterIsReady(r) \in TrackRecord
           /\ Monitored(r).frames = r.frames
           /\ AfterWrite(r).frames = r.frames
<1>1. Started(r, b).frames = r.frames
  BY DEF Started, TrackRecord
<1>2. AfterIsReady(r).frames = r.frames /\ AfterIsReady(r) \in TrackRecord
  BY DEF AfterIsReady, TrackRecord
<1>3. Monitored(r).frames = r.frames
  BY DEF Monitored, TrackRecord
<1>4. AfterWrite(r).frames = r.frames
  BY DEF AfterWrite, TrackRecord
<1> QED  BY <1>1, <1>2, <1>3, <1>4

(* Frames of an active track go away only by being mixed, or when          *)
(* prepareTracks_l() deals with an ending track.                           *)
LEMMA FramesTaken ==
    ASSUME IInv, Next, NEW x \in mActiveTracks,
           tr'[x].frames < tr[x].frames, pc # "mix"
    PROVE  pc = "decide" /\ x \in cur /\ PrepareEnding(x)
<1>1. /\ x \in Track /\ x \in mActiveTracks
      /\ tr[x] \in TrackRecord /\ tr[x].frames \in Int
  BY DEF IInv, TypeOK, TrackRecord
<1>2. ASSUME tr'[x].frames = tr[x].frames
      PROVE  FALSE
  BY <1>1, <1>2
<1>3. ASSUME tr' = tr PROVE tr'[x].frames = tr[x].frames
  BY <1>3
<1>4. ASSUME NEW t \in Track, NEW r \in TrackRecord, TrackStart(t, r),
             r.frames = tr[t].frames
      PROVE  tr'[x].frames = tr[x].frames
  BY <1>1, <1>4, FramesKept DEF TrackStart, IInv, TypeOK
<1>5. ASSUME NEW t \in Track, Create(t) PROVE tr'[x].frames = tr[x].frames
  <2>1. x # t
    BY <1>1, <1>5 DEF Create, IInv, Kept
  <2> QED  BY <1>1, <1>5, <2>1 DEF Create, IInv, TypeOK
<1>6. ASSUME NEW t \in Track, Start(t) PROVE tr'[x].frames = tr[x].frames
  <2> DEFINE r == [tr[t] EXCEPT !.disabled = FALSE]
  <2>1. r \in TrackRecord /\ r.frames = tr[t].frames
    BY DEF IInv, TypeOK, TrackRecord
  <2> HIDE DEF r
  <2>2. TrackStart(t, r)
    BY <1>6 DEF Start, r
  <2> QED  BY <1>4, <2>1, <2>2
<1>7. ASSUME NEW t \in Track, Stop(t) \/ Pause(t) \/ Flush(t) \/ Destroy(t)
      PROVE  tr'[x].frames = tr[x].frames
  BY <1>1, <1>7 DEF Stop, Pause, Flush, Destroy, IInv, TypeOK, TrackRecord
<1>8. ASSUME NEW t \in Track,
             WriteRestart(t) \/ WriteBlocks(t) \/ WriteTimeout(t)
                             \/ WriteStopped(t)
      PROVE  tr'[x].frames = tr[x].frames
  BY <1>3, <1>4, <1>8 DEF WriteRestart, WriteBlocks, WriteTimeout,
     WriteStopped, IInv, TypeOK
<1>9. ASSUME NEW t \in Track, NEW n \in WriteSizes, Write(t, n)
      PROVE  FALSE
  <2>1. tr[t] \in TrackRecord /\ n \in Nat /\ tr[t].frames \in Int
    BY MixerTracksAssumption DEF IInv, TypeOK, TrackRecord
  <2>2. PICK f \in Int : f = tr[t].frames + n
    BY <2>1
  <2> DEFINE r == [tr[t] EXCEPT !.frames = @ + n]
             d == [r EXCEPT !.disabled = FALSE]
  <2>3. r.frames = f /\ d.frames = f
    BY <2>1, <2>2 DEF TrackRecord
  <2>4. CASE TrackStart(t, d)
    <3>1. Started(d, t \notin mActiveTracks).frames = f
      BY <2>1, <2>3 DEF Started, TrackRecord
    <3>2. tr' = [tr EXCEPT ![t] = Started(d, t \notin mActiveTracks)]
      BY <2>4 DEF TrackStart
    <3> HIDE DEF d, r
    <3> QED  BY <1>1, <2>1, <2>2, <3>1, <3>2 DEF IInv, TypeOK
  <2>5. CASE tr' = [tr EXCEPT ![t] = r]
    <3> HIDE DEF d, r
    <3> QED  BY <1>1, <2>1, <2>2, <2>3, <2>5 DEF IInv, TypeOK
  <2> QED  BY <1>9, <2>4, <2>5 DEF Write
<1>10. CASE Standby \/ Wake \/ Prepare
  BY <1>2, <1>3, <1>10 DEF Standby, Wake, Prepare
<1>11. ASSUME NEW t \in Track, PrepareRead(t)
       PROVE  tr'[x].frames = tr[x].frames
  BY <1>11 DEF PrepareRead
<1>12. CASE PrepareTrack
  <2>1. PICK t \in cur : \/ PrepareReady(t) \/ PrepareEnding(t)
                         \/ PrepareUnderrun(t)
    BY <1>12 DEF PrepareTrack
  <2>2. t \in Track /\ tr[t] \in TrackRecord /\ pc = "decide"
    BY <1>12 DEF PrepareTrack, IInv, TypeOK
  <2>3. ASSUME PrepareReady(t) PROVE tr'[x].frames = tr[x].frames
    BY <1>1, <2>2, <2>3, FramesKept
       DEF PrepareReady, IInv, TypeOK, TrackRecord
  <2>4. ASSUME PrepareUnderrun(t) PROVE tr'[x].frames = tr[x].frames
    <3> DEFINE r == IF seen >= MinFrames(tr[t]) THEN AfterIsReady(tr[t])
                    ELSE tr[t]
               n == tr[t].mRetryCount - 1
               s == [r EXCEPT !.mRetryCount = n, !.disabled = @ \/ n <= 0]
    <3>1. r \in TrackRecord /\ r.frames = tr[t].frames
      BY <2>2, FramesKept
    <3> HIDE DEF r
    <3>2. s.frames = tr[t].frames
      BY <3>1 DEF TrackRecord
    <3>3. tr' = [tr EXCEPT ![t] = s]
      BY <2>4 DEF PrepareUnderrun, r
    <3> HIDE DEF s
    <3> QED  BY <1>1, <2>2, <3>2, <3>3 DEF IInv, TypeOK
  <2>5. ASSUME PrepareEnding(t), x # t PROVE tr'[x].frames = tr[x].frames
    BY <1>1, <2>2, <2>5 DEF PrepareEnding, IInv, TypeOK
  <2> QED  BY <1>2, <2>1, <2>2, <2>3, <2>4, <2>5
<1>13. CASE PrepareDone
  BY <1>1, <1>2, <1>13 DEF PrepareDone, IInv, TypeOK, TrackRecord
<1>14. CASE Sleep
  BY <1>1, <1>2, <1>14, FramesKept DEF Sleep, IInv, TypeOK
<1>15. CASE Mix
  BY <1>15 DEF Mix
<1> QED
  BY <1>2, <1>5, <1>6, <1>7, <1>8, <1>9, <1>10, <1>11, <1>12, <1>13, <1>14,
     <1>15 DEF Next, Mixer

(* No buffer is reset under the mixer: frames of a track that stays        *)
(* enabled only go away by being mixed (Track::flush, Track::stop and the  *)
(* reset in prepareTracks_l).                                              *)
THEOREM NoReset == Safety => NoResetWhileMixing
<1> DEFINE Step == \A t \in enabled \cap enabled' :
                      tr'[t].frames < tr[t].frames => pc = "mix"
<1>1. ASSUME IInv, [Next]_vars PROVE [Step]_vars
  <2> SUFFICES ASSUME Next, NEW x \in enabled \cap enabled', pc # "mix",
                      tr'[x].frames < tr[x].frames
               PROVE  FALSE
    BY <1>1
  <2>1. PrepareEnding(x)
    BY <1>1, FramesTaken DEF IInv
  <2> QED  BY <2>1 DEF PrepareEnding
<1> QED
  BY <1>1, AlwaysIInv, PTL DEF Safety, NoResetWhileMixing

(* What is left in the buffer of a stopped track is mixed before the track *)
(* goes: while the mixer has a track, playing or stopped, nobody else      *)
(* takes frames from it, unless prepareTracks_l() has just read that there *)
(* are none (AudioTrack::stop, Track::stop, Track::reset).                 *)
THEOREM Drains == Safety => StopDrains
<1> DEFINE Step == \A t \in mActiveTracks :
                      tr'[t].frames < tr[t].frames =>
                         \/ tr[t].mState \notin {"ACTIVE", "RESUMING", "STOPPED"}
                         \/ pc = "mix"
                         \/ pc = "decide" /\ t \in cur /\ seen = 0
<1>1. ASSUME IInv, [Next]_vars PROVE [Step]_vars
  <2> SUFFICES ASSUME Next, NEW x \in mActiveTracks, pc # "mix",
                      tr'[x].frames < tr[x].frames,
                      tr[x].mState \in {"ACTIVE", "RESUMING", "STOPPED"}
               PROVE  pc = "decide" /\ x \in cur /\ seen = 0
    BY <1>1
  <2>1. pc = "decide" /\ x \in cur /\ PrepareEnding(x)
    BY <1>1, FramesTaken
  <2>2. tr[x].mState = "STOPPED" /\ ~Mixable(tr[x])
    BY <2>1 DEF PrepareEnding, Ending
  <2>3. seen \in Nat /\ MinFrames(tr[x]) = 1 /\ IsReady(tr[x])
    BY <1>1, <2>2, MixerTracksAssumption
       DEF IInv, TypeOK, MinFrames, IsReady, NeedsFilling, Stopped
  <2>4. seen < 1
    BY <2>2, <2>3 DEF Mixable
  <2> QED  BY <2>1, <2>3, <2>4
<1> QED
  BY <1>1, AlwaysIInv, PTL DEF Safety, StopDrains
=============================================================================
