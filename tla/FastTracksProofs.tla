-------------------------- MODULE FastTracksProofs --------------------------
EXTENDS FastTracks, TLAPS

-----------------------------------------------------------------------------
(* What the prepared cycle leaves behind: outside it nothing is marked for *)
(* removal or reset; inside it the lock keeps the clients away.            *)
Preparing == pc \in {"prepare", "push", "ack", "finish"}

CycleInv ==
    /\ todo \subseteq mActiveTracks /\ todo \cap tracksToRemove = {}
    /\ tracksToRemove \subseteq mActiveTracks
    /\ resetMask \subseteq tracksToRemove
    /\ pc # "prepare" => todo = {}
    /\ ~Preparing => /\ tracksToRemove = {} /\ ~didModify
                     /\ block = "BLOCK_UNTIL_PUSHED"

(* A slot has at most one owner, and an owned one is not available.        *)
SlotInv ==
    /\ \A t \in Track : tr[t].mState # NoTrack =>
          tr[t].mFastIndex \in Slot \ mFastTrackAvailMask
    /\ \A t, u \in Track : t # u /\ tr[t].mState # NoTrack
                             /\ tr[u].mState # NoTrack
                           => tr[t].mFastIndex # tr[u].mFastIndex
    /\ \A t \in mActiveTracks : tr[t].mState # NoTrack

(* An active, playing track has a retry left.                              *)
RetryInv ==
    \A t \in mActiveTracks \ tracksToRemove :
      tr[t].mState \in {"ACTIVE", "RESUMING"} => tr[t].mRetryCount > 0

(* The slots of a state are owned by the active tracks it names.           *)
Held(s) ==
    \A i \in s.mTrackMask : /\ s.mBufferProvider[i] \in mActiveTracks
                            /\ tr[s.mBufferProvider[i]].mFastIndex = i

(* s takes no slot away that r has, nor gives it to another track.         *)
Extends(r, s) ==
    \A i \in r.mTrackMask : /\ i \in s.mTrackMask
                            /\ s.mBufferProvider[i] = r.mBufferProvider[i]

SameSlots(r, s) ==
    /\ r.mTrackMask = s.mTrackMask /\ r.mBufferProvider = s.mBufferProvider
    /\ r.mGeneration = s.mGeneration

(* The queue: the fast mixer is at most one state behind, and a state that *)
(* takes a slot away is acknowledged before prepareTracks_l() goes on.     *)
QueueInv ==
    /\ Held(draft) /\ Held(latest) /\ Held(current)
    /\ ~fresh => current = latest
    /\ fresh /\ pc # "ack" => Extends(current, latest)
    /\ pc \notin {"prepare", "push", "standbyPush", "writePush"}
          => draft = latest
    /\ pc \in {"standbyPush", "writePush"} => SameSlots(draft, latest)
    /\ pc = "prepare" /\ ~didModify => draft = latest
    /\ pc \in {"prepare", "push"} /\ block = "BLOCK_UNTIL_PUSHED"
          => Extends(latest, draft)
    /\ \A t \in tracksToRemove : tr[t].mFastIndex \notin draft.mTrackMask
    /\ draft.mCommand # "INITIAL" /\ latest.mCommand # "INITIAL"

(* The same slot with the same generation has the same track.              *)
Agree(r, s) ==
    \A i \in r.mTrackMask \cap s.mTrackMask :
      r.mGeneration[i] = s.mGeneration[i]
        => r.mBufferProvider[i] = s.mBufferProvider[i]

(* The slots as the AudioMixer of the fast mixer is set up.                *)
Configured == [mTrackMask |-> previousTrackMask, mBufferProvider |-> provider,
               mGeneration |-> generations]

(* The AudioMixer is set up for the state the fast mixer works from.       *)
UpToDate ==
    /\ previousTrackMask = current.mTrackMask
    /\ \A i \in current.mTrackMask :
         /\ provider[i] = current.mBufferProvider[i]
         /\ generations[i] = current.mGeneration[i]

GenerationInv ==
    /\ Agree(draft, latest) /\ Agree(draft, current) /\ Agree(latest, current)
    /\ Agree(draft, Configured) /\ Agree(latest, Configured)
    /\ Agree(current, Configured)
    /\ enabled \subseteq previousTrackMask
    /\ fpc # "poll" => current.mCommand = "MIX_WRITE"
    /\ \/ fpc \in {"check", "process"}
       \/ fpc = "poll" /\ current.mCommand # "COLD_IDLE"
       \/ fpc = "configure" /\ ~changed
       => UpToDate

(* A fast mixer that is not warm has warmup cycles left.                   *)
WarmInv == isWarm \/ warmupCycles < MAX_WARMUP_CYCLES

FastInv ==
    /\ TypeOK /\ CycleInv /\ SlotInv /\ RetryInv /\ QueueInv /\ GenerationInv
    /\ WarmInv

-----------------------------------------------------------------------------
(* The steps of one track record.                                          *)

Playing(r) == r.mState \in {"ACTIVE", "RESUMING"}

(* r becomes s without losing its slot, and plays on only with a retry.    *)
Keeps(r, s) ==
    /\ s \in TrackRecord
    /\ s.mFastIndex = r.mFastIndex
    /\ s.mState = NoTrack <=> r.mState = NoTrack
    /\ Playing(s) => s.mRetryCount > 0
                       \/ (Playing(r) /\ s.mRetryCount = r.mRetryCount)

(* The constants, as arithmetic uses them.                                 *)
LEMMA Bounds ==
    /\ frameCount \in Nat \ {0} /\ mFrameCount \in Nat
    /\ audioHALFrames \in Nat \ {0}
    /\ kMaxTrackRetries \in Nat \ {0} /\ kMaxTrackStartupRetries \in Nat \ {0}
    /\ MAX_WARMUP_CYCLES \in Nat \ {0}
    /\ WriteSizes \subseteq Nat
    /\ Slot \subseteq Nat \ {0} /\ 0 \notin Slot /\ NULL \notin Track
  BY FastTracksAssumption

(* A new track is idle and has the fast index it was given.                *)
LEMMA FreshIs ==
    ASSUME NEW i \in Slot \cup {0}, NEW done \in BOOLEAN
    PROVE  /\ FreshRecord(i, done) \in TrackRecord
           /\ FreshRecord(i, done).mFastIndex = i
           /\ FreshRecord(i, done).mState = "IDLE"
  BY Bounds DEF FreshRecord, TrackRecord, track_state, NotMonitoring

(* The record of a track that does not exist.                              *)
LEMMA GoneIs == Gone \in TrackRecord /\ Gone.mState = NoTrack
  <1>1. FreshRecord(0, FALSE) \in TrackRecord
    BY FreshIs
  <1> QED
    BY <1>1 DEF Gone, TrackRecord

(* Doing nothing keeps a track.                                            *)
LEMMA KeepsSelf == ASSUME NEW r \in TrackRecord PROVE Keeps(r, r)
  BY DEF Keeps

(* Track::reset() moves the frames and the monitor, never the slot.        *)
LEMMA ResetKeeps ==
    ASSUME NEW r \in TrackRecord
    PROVE  Keeps(r, Reset(r))
  <1>1. CASE r.mResetDone
    BY <1>1, KeepsSelf DEF Reset
  <1>2. CASE ~r.mResetDone
    <2> DEFINE m == IF r.mState = "FLUSHED" THEN "IDLE" ELSE r.mState
    <2>1. /\ m \in track_state \cup {NoTrack}
          /\ m = NoTrack <=> r.mState = NoTrack
          /\ m \in {"ACTIVE", "RESUMING"} => m = r.mState
      BY DEF TrackRecord, track_state, NoTrack
    <2>2. Reset(r) = [r EXCEPT !.frames = 0, !.mResetDone = TRUE, !.mState = m]
      BY <1>2 DEF Reset
    <2> HIDE DEF m
    <2>3. Reset(r) \in TrackRecord
      <3>1. 0 \in 0..mFrameCount
        BY Bounds
      <3> QED
        BY <2>1, <2>2, <3>1 DEF TrackRecord
    <2>4. /\ Reset(r).mState = m /\ Reset(r).mFastIndex = r.mFastIndex
          /\ Reset(r).mRetryCount = r.mRetryCount
      BY <2>2 DEF TrackRecord
    <2> QED
      BY <2>1, <2>3, <2>4 DEF Keeps, Playing
  <1> QED
    BY <1>1, <1>2

(* Track::start() gives a track its startup retries and never its slot.    *)
LEMMA StartKeeps ==
    ASSUME NEW r \in TrackRecord, r.mState # NoTrack, NEW a \in BOOLEAN
    PROVE  Keeps(r, [r EXCEPT
               !.mState = IF @ = "PAUSED" THEN "RESUMING" ELSE "ACTIVE",
               !.mRetryCount = kMaxTrackStartupRetries,
               !.mResetDone = @ /\ a,
               !.left = IF a THEN @ ELSE NotMonitoring])
  <1> DEFINE m == IF r.mState = "PAUSED" THEN "RESUMING" ELSE "ACTIVE"
             d == r.mResetDone /\ a
             l == IF a THEN r.left ELSE NotMonitoring
  <1>1. m \in track_state /\ m # NoTrack
    BY DEF track_state, NoTrack
  <1>2. d \in BOOLEAN
    OBVIOUS
  <1>3. l \in {NotMonitoring} \cup 0..audioHALFrames
    BY DEF TrackRecord
  <1> HIDE DEF m, d, l
  <1> DEFINE s == [r EXCEPT !.mState = m,
                            !.mRetryCount = kMaxTrackStartupRetries,
                            !.mResetDone = d, !.left = l]
  <1>4. s \in TrackRecord
    <2>1. kMaxTrackStartupRetries
            \in 0..kMaxTrackRetries \cup 0..kMaxTrackStartupRetries
      BY Bounds
    <2> QED
      BY <1>1, <1>2, <1>3, <2>1 DEF TrackRecord
  <1>5. /\ s.mState = m /\ s.mFastIndex = r.mFastIndex
        /\ s.mRetryCount = kMaxTrackStartupRetries
    BY DEF TrackRecord
  <1> HIDE DEF s
  <1>6. Keeps(r, s)
    BY <1>1, <1>4, <1>5, Bounds DEF Keeps
  <1> QED
    BY <1>6 DEF m, d, l, s

(* The other steps of a client, which never make a track play.             *)
LEMMA StateKeeps ==
    ASSUME NEW r \in TrackRecord, r.mState # NoTrack,
           NEW m \in track_state, m \notin {"ACTIVE", "RESUMING"}
    PROVE  Keeps(r, [r EXCEPT !.mState = m])
  BY DEF Keeps, TrackRecord, track_state, NoTrack, Playing

(* A client's write or flush changes only how much there is to mix.        *)
LEMMA FramesKeep ==
    ASSUME NEW r \in TrackRecord, NEW n \in 0..mFrameCount
    PROVE  Keeps(r, [r EXCEPT !.frames = n])
  BY DEF Keeps, TrackRecord, Playing

(* A client that clears CBLK_DISABLED touches nothing else.                *)
LEMMA EnabledKeeps ==
    ASSUME NEW r \in TrackRecord
    PROVE  Keeps(r, [r EXCEPT !.disabled = FALSE])
  BY DEF Keeps, TrackRecord, Playing

(* A write to the output moves only the presentation monitor.              *)
LEMMA AfterWriteKeeps ==
    ASSUME NEW r \in TrackRecord
    PROVE  Keeps(r, AfterWrite(r))
  <1>1. (IF r.left > 0 THEN r.left - 1 ELSE r.left)
          \in {NotMonitoring} \cup 0..audioHALFrames
    BY Bounds DEF TrackRecord, NotMonitoring
  <1> QED
    BY <1>1 DEF Keeps, TrackRecord, AfterWrite, Playing

(* What prepareTracks_l() makes of an active track.                        *)
SteppedWell(r, s) ==
    /\ s \in TrackRecord /\ s.mFastIndex = r.mFastIndex
    /\ s.mState # NoTrack /\ s.frames = r.frames
    /\ Playing(s) => s.mRetryCount > 0 \/ Leaves(r, s)

(* A playing fast track, after the underruns seen, still has a retry or    *)
(* leaves the active tracks.                                               *)
LEMMA RetriedIs ==
    ASSUME NEW r \in TrackRecord, r.mState = "ACTIVE", r.mRetryCount > 0, NEW u
    PROVE  SteppedWell(r, Retried(r, u))
  <1> DEFINE n == IF u \cap {"Full", "Partial"} # {} THEN kMaxTrackRetries
                  ELSE r.mRetryCount
             k == IF "Empty" \in u THEN n - 1 ELSE n
             b == r.disabled \/ k <= 0
             s == [r EXCEPT !.mRetryCount = k, !.disabled = b]
  <1>1. n \in (0..kMaxTrackRetries \cup 0..kMaxTrackStartupRetries) /\ n > 0
    BY Bounds DEF TrackRecord
  <1> HIDE DEF n
  <1>2. k \in (0..kMaxTrackRetries \cup 0..kMaxTrackStartupRetries)
    BY <1>1, Bounds
  <1>3. b \in BOOLEAN
    OBVIOUS
  <1> HIDE DEF k, b
  <1>4. s \in TrackRecord
    BY <1>2, <1>3 DEF TrackRecord
  <1>5. /\ s.mState = "ACTIVE" /\ s.mFastIndex = r.mFastIndex
        /\ s.frames = r.frames /\ s.mRetryCount = k
    BY DEF TrackRecord
  <1>6. Retried(r, u) = s
    BY DEF Retried, n, k, b
  <1> HIDE DEF s
  <1>7. k > 0 \/ k <= 0
    BY <1>2, Bounds
  <1> QED
    BY <1>4, <1>5, <1>6, <1>7 DEF SteppedWell, Leaves, NoTrack

(* presentationComplete() starts the monitor and nothing else.             *)
LEMMA MonitoredIs ==
    ASSUME NEW r \in TrackRecord
    PROVE  /\ Monitored(r) \in TrackRecord
           /\ Monitored(r).mState = r.mState
           /\ Monitored(r).mFastIndex = r.mFastIndex
           /\ Monitored(r).frames = r.frames
           /\ Monitored(r).mRetryCount = r.mRetryCount
  <1> DEFINE l == IF r.left = NotMonitoring THEN audioHALFrames ELSE r.left
  <1>1. l \in {NotMonitoring} \cup 0..audioHALFrames
    BY Bounds DEF TrackRecord
  <1>2. Monitored(r) = [r EXCEPT !.left = l]
    BY DEF Monitored
  <1> HIDE DEF l
  <1> QED
    BY <1>1, <1>2 DEF TrackRecord

(* What prepareTracks_l() makes of an active fast track.                   *)
LEMMA SteppedIs ==
    ASSUME NEW r \in TrackRecord, r.mState # NoTrack,
           Playing(r) => r.mRetryCount > 0, NEW u
    PROVE  SteppedWell(r, Stepped(r, u))
  <1>1. r.mState \in track_state
    BY DEF TrackRecord
  <1>2. ASSUME NEW m \in track_state, m # "ACTIVE", m # "RESUMING"
        PROVE  SteppedWell(r, [r EXCEPT !.mState = m])
    <2>1. m # NoTrack
      BY DEF track_state, NoTrack
    <2>2. [r EXCEPT !.mState = m] \in TrackRecord
      BY DEF TrackRecord
    <2>3. /\ [r EXCEPT !.mState = m].mState = m
          /\ [r EXCEPT !.mState = m].mFastIndex = r.mFastIndex
          /\ [r EXCEPT !.mState = m].frames = r.frames
      BY DEF TrackRecord
    <2> QED
      BY <1>2, <2>1, <2>2, <2>3 DEF SteppedWell, Playing
  <1>3. SteppedWell(r, r)
    BY DEF SteppedWell
  <1>4. CASE r.mState = "STOPPING_1"
    <2>1. Stepped(r, u) = r \/ Stepped(r, u) = [r EXCEPT !.mState = "STOPPING_2"]
      BY <1>4 DEF Stepped, Ending
    <2> QED
      BY <2>1, <1>2, <1>3 DEF track_state
  <1>5. CASE r.mState = "PAUSING"
    <2>1. Stepped(r, u) = [r EXCEPT !.mState = "PAUSED"]
      BY <1>5 DEF Stepped, Ending
    <2> QED
      BY <2>1, <1>2 DEF track_state
  <1>6. CASE r.mState = "RESUMING"
    <2> DEFINE s == [r EXCEPT !.mState = "ACTIVE"]
    <2>1. s \in TrackRecord
      BY DEF TrackRecord, track_state
    <2>2. /\ s.mState = "ACTIVE" /\ s.mFastIndex = r.mFastIndex
          /\ s.frames = r.frames /\ s.mRetryCount = r.mRetryCount
      BY DEF TrackRecord
    <2>3. Stepped(r, u) = s
      BY <1>6 DEF Stepped, Ending
    <2> HIDE DEF s
    <2> QED
      BY <2>1, <2>2, <2>3, <1>6 DEF SteppedWell, Playing, NoTrack
  <1>7. CASE r.mState = "ACTIVE"
    <2>1. Stepped(r, u) = Retried(r, u)
      BY <1>7 DEF Stepped, Ending
    <2> QED
      BY <2>1, <1>7, RetriedIs DEF Playing
  <1>8. CASE Ending(r)
    <2>1. Stepped(r, u) = IF mStandby THEN r ELSE Monitored(r)
      BY <1>8 DEF Stepped, Ending
    <2>2. SteppedWell(r, Monitored(r))
      BY MonitoredIs, <1>8 DEF SteppedWell, Playing, Ending
    <2> QED
      BY <2>1, <2>2, <1>3
  <1>9. CASE r.mState = "IDLE"
    <2>1. Stepped(r, u) = r
      BY <1>9 DEF Stepped, Ending
    <2> QED
      BY <2>1, <1>3
  <1> QED
    BY <1>1, <1>4, <1>5, <1>6, <1>7, <1>8, <1>9 DEF track_state, Ending

-----------------------------------------------------------------------------
(* The steps of one state of the queue.                                    *)

(* There is always a generation that no state in flight has.               *)
LEMMA GenerationIsNew ==
    ASSUME NEW a, NEW b, NEW c
    PROVE  /\ NewGeneration({a, b, c}) \in Generation
           /\ NewGeneration({a, b, c}) \notin {a, b, c}
  <1>1. \E g \in Generation : g \notin {a, b, c}
    <2>1. 0 \in Generation /\ 1 \in Generation /\ 2 \in Generation
            /\ 3 \in Generation
      BY DEF Generation
    <2>2. 0 \notin {a, b, c} \/ 1 \notin {a, b, c} \/ 2 \notin {a, b, c}
            \/ 3 \notin {a, b, c}
      OBVIOUS
    <2> QED
      BY <2>1, <2>2
  <1> QED
    BY <1>1 DEF NewGeneration

(* s is d but for slot i, which has a generation that is not in flight.    *)
Renewed(d, i, s) ==
    /\ s \in FastMixerState
    /\ s.mCommand = d.mCommand
    /\ \A j \in Slot \ {i} :
         /\ j \in s.mTrackMask <=> j \in d.mTrackMask
         /\ s.mBufferProvider[j] = d.mBufferProvider[j]
         /\ s.mGeneration[j] = d.mGeneration[j]
    /\ s.mGeneration[i] \notin {latest.mGeneration[i], current.mGeneration[i],
                                generations[i]}

(* Adding a track fills its slot under a new generation and leaves the     *)
(* other slots alone.                                                      *)
LEMMA AddedIs ==
    ASSUME NEW d \in FastMixerState, NEW i \in Slot, NEW t \in Track
    PROVE  /\ Renewed(d, i, Added(d, i, t))
           /\ i \in Added(d, i, t).mTrackMask
           /\ Added(d, i, t).mBufferProvider[i] = t
  <1> DEFINE g == NewGeneration({latest.mGeneration[i], current.mGeneration[i],
                                 generations[i]})
             m == d.mTrackMask \cup {i}
             s == [d EXCEPT !.mBufferProvider[i] = t, !.mTrackMask = m,
                            !.mGeneration[i] = g]
  <1>1. Added(d, i, t) = s
    BY DEF Added
  <1>2. /\ g \in Generation
        /\ g \notin {latest.mGeneration[i], current.mGeneration[i],
                     generations[i]}
    BY GenerationIsNew
  <1>3. /\ m \in SUBSET Slot /\ i \in m
        /\ d.mBufferProvider \in [Slot -> Track \cup {NULL}]
        /\ d.mGeneration \in [Slot -> Generation]
    BY DEF FastMixerState
  <1>4. \A j \in Slot \ {i} : j \in m <=> j \in d.mTrackMask
    OBVIOUS
  <1> HIDE DEF g, m
  <1>5. /\ s \in FastMixerState
        /\ s.mCommand = d.mCommand /\ s.mTrackMask = m
        /\ s.mBufferProvider = [d.mBufferProvider EXCEPT ![i] = t]
        /\ s.mGeneration = [d.mGeneration EXCEPT ![i] = g]
    <2>1. t \in Track \cup {NULL}
      OBVIOUS
    <2>2. s = [d EXCEPT !.mBufferProvider[i] = t, !.mTrackMask = m,
                        !.mGeneration[i] = g]
      OBVIOUS
    <2> HIDE DEF s
    <2> QED
      BY <1>2, <1>3, <2>1, <2>2 DEF FastMixerState
  <1> HIDE DEF s
  <1> QED
    BY <1>1, <1>2, <1>3, <1>4, <1>5 DEF Renewed

(* Removing a track empties its slot under a new generation and leaves the *)
(* other slots alone.                                                      *)
LEMMA RemovedIs ==
    ASSUME NEW d \in FastMixerState, NEW i \in Slot
    PROVE  /\ Renewed(d, i, Removed(d, i))
           /\ i \notin Removed(d, i).mTrackMask
  <1> DEFINE g == NewGeneration({latest.mGeneration[i], current.mGeneration[i],
                                 generations[i]})
             m == d.mTrackMask \ {i}
             s == [d EXCEPT !.mBufferProvider[i] = NULL, !.mTrackMask = m,
                            !.mGeneration[i] = g]
  <1>1. Removed(d, i) = s
    BY DEF Removed
  <1>2. /\ g \in Generation
        /\ g \notin {latest.mGeneration[i], current.mGeneration[i],
                     generations[i]}
    BY GenerationIsNew
  <1>3. /\ m \in SUBSET Slot /\ i \notin m
        /\ d.mBufferProvider \in [Slot -> Track \cup {NULL}]
        /\ d.mGeneration \in [Slot -> Generation]
    BY DEF FastMixerState
  <1>4. \A j \in Slot \ {i} : j \in m <=> j \in d.mTrackMask
    OBVIOUS
  <1> HIDE DEF g, m
  <1>5. /\ s \in FastMixerState
        /\ s.mCommand = d.mCommand /\ s.mTrackMask = m
        /\ s.mBufferProvider = [d.mBufferProvider EXCEPT ![i] = NULL]
        /\ s.mGeneration = [d.mGeneration EXCEPT ![i] = g]
    <2>1. NULL \in Track \cup {NULL}
      OBVIOUS
    <2>2. s = [d EXCEPT !.mBufferProvider[i] = NULL, !.mTrackMask = m,
                        !.mGeneration[i] = g]
      OBVIOUS
    <2> HIDE DEF s
    <2> QED
      BY <1>2, <1>3, <2>1, <2>2 DEF FastMixerState
  <1> HIDE DEF s
  <1> QED
    BY <1>1, <1>2, <1>3, <1>4, <1>5 DEF Renewed

(* A new command leaves every slot alone.                                  *)
LEMMA CommandIs ==
    ASSUME NEW d \in FastMixerState, NEW c \in {"COLD_IDLE", "MIX_WRITE"}
    PROVE  /\ [d EXCEPT !.mCommand = c] \in FastMixerState
           /\ SameSlots([d EXCEPT !.mCommand = c], d)
           /\ [d EXCEPT !.mCommand = c].mCommand = c
  BY DEF FastMixerState, SameSlots

-----------------------------------------------------------------------------
(* Steps that take no slot from a track: those of the clients, except the  *)
(* first and the last, and the counting of frames by both mixers.          *)

TracksKept ==
    tr' \in [Track -> TrackRecord] /\ \A t \in Track : Keeps(tr[t], tr'[t])

ActiveGrows ==
    /\ mActiveTracks \subseteq mActiveTracks' /\ mActiveTracks' \subseteq Track
    /\ \A t \in mActiveTracks' \ mActiveTracks :
         tr[t].mState # NoTrack /\ tr'[t].mRetryCount > 0

(* Two changes that keep a track keep it together.                         *)
LEMMA KeepsTransitive ==
    ASSUME NEW r, NEW s, NEW q, Keeps(r, s), Keeps(s, q)
    PROVE  Keeps(r, q)
  BY DEF Keeps

(* A change to one track that keeps it keeps all of them.                  *)
LEMMA OneKept ==
    ASSUME tr \in [Track -> TrackRecord], NEW t \in Track, NEW r,
           Keeps(tr[t], r), tr' = [tr EXCEPT ![t] = r]
    PROVE  TracksKept /\ tr'[t] = r
  <1>1. r \in TrackRecord
    BY DEF Keeps
  <1>2. ASSUME NEW u \in Track PROVE Keeps(tr[u], tr'[u])
    BY KeepsSelf
  <1> QED
    BY <1>1, <1>2 DEF TracksKept

(* PlaybackThread::addTrack_l() as start() and a writer reach it.          *)
LEMMA TrackStartKeeps ==
    ASSUME TypeOK, NEW t \in Track, NEW r, Keeps(tr[t], r),
           tr[t].mState # NoTrack, TrackStart(t, r)
    PROVE  TracksKept /\ ActiveGrows /\ woken' = TRUE
  <1> DEFINE a == t \in mActiveTracks
             s == [r EXCEPT
                     !.mState = IF @ = "PAUSED" THEN "RESUMING" ELSE "ACTIVE",
                     !.mRetryCount = kMaxTrackStartupRetries,
                     !.mResetDone = @ /\ a,
                     !.left = IF a THEN @ ELSE NotMonitoring]
  <1>1. r \in TrackRecord /\ r.mState # NoTrack /\ a \in BOOLEAN
    BY DEF Keeps
  <1>2. Keeps(r, s)
    BY <1>1, StartKeeps
  <1>3. tr' = [tr EXCEPT ![t] = s] /\ mActiveTracks' = mActiveTracks \cup {t}
          /\ woken' = TRUE
    BY DEF TrackStart
  <1>4. s.mRetryCount > 0
    <2>1. s.mRetryCount = kMaxTrackStartupRetries
      BY <1>1 DEF TrackRecord
    <2> QED
      BY <2>1, Bounds
  <1> HIDE DEF s, a
  <1>5. Keeps(tr[t], s)
    BY <1>2, KeepsTransitive
  <1>6. tr \in [Track -> TrackRecord] /\ mActiveTracks \subseteq Track
    BY DEF TypeOK
  <1>7. TracksKept /\ tr'[t] = s
    BY <1>3, <1>5, <1>6, OneKept
  <1> QED
    BY <1>3, <1>4, <1>6, <1>7 DEF ActiveGrows

ClientStep(t) ==
    \/ Start(t) \/ Stop(t) \/ Pause(t) \/ Flush(t) \/ WriteTimeout(t)
    \/ \E n \in WriteSizes : Write(t, n)
    \/ Destroy(t) /\ t \in mActiveTracks

ClientFrame ==
    /\ TracksKept /\ ActiveGrows /\ mActive' \subseteq Track
    /\ woken' \in BOOLEAN
    /\ UNCHANGED <<mFastTrackAvailMask, mSuspended, mStandby, pc, cycle, queue,
                   fast, recent>>

(* No call of a client takes a track from the mixer's sets or moves it to  *)
(* another slot.                                                           *)
LEMMA ClientKeeps ==
    ASSUME TypeOK, NEW t \in Track, ClientStep(t)
    PROVE  ClientFrame
  <1>0. /\ tr \in [Track -> TrackRecord] /\ tr[t] \in TrackRecord
        /\ mActiveTracks \subseteq Track /\ mActive \subseteq Track
        /\ woken \in BOOLEAN
    BY DEF TypeOK
  <1>1. tr[t].mState # NoTrack /\ Usable(t)
    BY DEF ClientStep, Start, Stop, Pause, Flush, WriteTimeout, Write, Destroy,
       Usable
  <1>2. ASSUME NEW r, Keeps(tr[t], r), tr' = [tr EXCEPT ![t] = r],
               UNCHANGED <<mActiveTracks, woken>>
        PROVE  TracksKept /\ ActiveGrows /\ woken' \in BOOLEAN
    <2>1. TracksKept
      BY <1>0, <1>2, OneKept
    <2> QED
      BY <2>1, <1>0, <1>2 DEF ActiveGrows
  <1>3. ASSUME NEW m \in track_state, m \notin {"ACTIVE", "RESUMING"}
        PROVE  Keeps(tr[t], [tr[t] EXCEPT !.mState = m])
    BY <1>0, <1>1, <1>3, StateKeeps
  <1>4. CASE Start(t)
    <2>1. Keeps(tr[t], [tr[t] EXCEPT !.disabled = FALSE])
      BY <1>0, EnabledKeeps
    <2>2. TrackStart(t, [tr[t] EXCEPT !.disabled = FALSE])
      BY <1>4 DEF Start
    <2>3. TracksKept /\ ActiveGrows /\ woken' = TRUE
      BY <2>1, <2>2, <1>1, TrackStartKeeps
    <2> QED
      BY <2>3, <1>0, <1>4 DEF Start, ClientFrame
  <1>5. CASE Stop(t)
    <2>1. Keeps(tr[t], [Reset(tr[t]) EXCEPT !.mState = "STOPPED"])
      <3>1. Keeps(tr[t], Reset(tr[t]))
        BY <1>0, ResetKeeps
      <3>2. Reset(tr[t]) \in TrackRecord /\ Reset(tr[t]).mState # NoTrack
        BY <3>1, <1>1 DEF Keeps
      <3>3. Keeps(Reset(tr[t]), [Reset(tr[t]) EXCEPT !.mState = "STOPPED"])
        BY <3>2, StateKeeps DEF track_state
      <3> QED
        BY <3>1, <3>3, KeepsTransitive
    <2>2. Keeps(tr[t], [tr[t] EXCEPT !.mState = "STOPPING_1"])
      BY <1>3 DEF track_state
    <2>3. \E r : Keeps(tr[t], r) /\ tr' = [tr EXCEPT ![t] = r]
      BY <2>1, <2>2, <1>0, <1>5, KeepsSelf DEF Stop, Change
    <2>4. TracksKept /\ ActiveGrows /\ woken' \in BOOLEAN
      BY <2>3, <1>2, <1>5 DEF Stop, Change
    <2> QED
      BY <2>4, <1>0, <1>5 DEF Stop, Change, ClientFrame
  <1>6. CASE Pause(t)
    <2>1. Keeps(tr[t], [tr[t] EXCEPT !.mState =
                    IF @ \in {"ACTIVE", "RESUMING"} THEN "PAUSING" ELSE @])
      <3>1. CASE tr[t].mState \in {"ACTIVE", "RESUMING"}
        <4>1. Keeps(tr[t], [tr[t] EXCEPT !.mState = "PAUSING"])
          BY <1>3 DEF track_state
        <4> QED
          BY <3>1, <4>1
      <3>2. CASE tr[t].mState \notin {"ACTIVE", "RESUMING"}
        <4>1. tr[t].mState \in track_state
          BY <1>0, <1>1 DEF TrackRecord
        <4> QED
          BY <3>2, <4>1, <1>3
      <3> QED
        BY <3>1, <3>2
    <2>2. TracksKept /\ ActiveGrows /\ woken' \in BOOLEAN
      BY <2>1, <1>2, <1>6 DEF Pause, Change
    <2> QED
      BY <2>2, <1>0, <1>6 DEF Pause, Change, ClientFrame
  <1>7. CASE Flush(t)
    <2> DEFINE r == [tr[t] EXCEPT !.mState = "FLUSHED"]
    <2>1. Keeps(tr[t], r)
      BY <1>3 DEF track_state
    <2>2. r \in TrackRecord
      BY <2>1 DEF Keeps
    <2>3. Keeps(tr[t], Reset(r))
      BY <2>1, <2>2, ResetKeeps, KeepsTransitive
    <2>4. tr' = [tr EXCEPT ![t] = IF t \in mActiveTracks THEN r ELSE Reset(r)]
      BY <1>7 DEF Flush, Change
    <2> HIDE DEF r
    <2>5. \E q : Keeps(tr[t], q) /\ tr' = [tr EXCEPT ![t] = q]
      BY <2>1, <2>3, <2>4
    <2>6. TracksKept /\ ActiveGrows /\ woken' \in BOOLEAN
      BY <2>5, <1>2, <1>7 DEF Flush, Change
    <2> QED
      BY <2>6, <1>0, <1>7 DEF Flush, Change, ClientFrame
  <1>8. CASE WriteTimeout(t)
    <2>1. Keeps(tr[t], tr[t]) /\ TrackStart(t, tr[t])
      BY <1>0, <1>8, KeepsSelf DEF WriteTimeout
    <2>2. TracksKept /\ ActiveGrows /\ woken' = TRUE
      BY <2>1, <1>1, TrackStartKeeps
    <2> QED
      BY <2>2, <1>0, <1>8 DEF WriteTimeout, ClientFrame
  <1>9. ASSUME NEW n \in WriteSizes, Write(t, n) PROVE ClientFrame
    <2> DEFINE k == tr[t].frames + n
               r == [tr[t] EXCEPT !.frames = @ + n]
    <2>1. k \in 0..mFrameCount /\ r = [tr[t] EXCEPT !.frames = k]
      BY <1>0, <1>9, Bounds DEF Write, TrackRecord
    <2> HIDE DEF k
    <2>2. Keeps(tr[t], r)
      BY <2>1, <1>0, FramesKeep
    <2>3. r \in TrackRecord
      BY <2>2 DEF Keeps
    <2>4. CASE t \in mActive /\ tr[t].disabled
      <3>1. TrackStart(t, [r EXCEPT !.disabled = FALSE])
        BY <1>9, <2>4 DEF Write
      <3> HIDE DEF r
      <3>2. Keeps(tr[t], [r EXCEPT !.disabled = FALSE])
        BY <2>2, <2>3, EnabledKeeps, KeepsTransitive
      <3>3. TracksKept /\ ActiveGrows /\ woken' = TRUE
        BY <3>1, <3>2, <1>1, TrackStartKeeps
      <3> QED
        BY <3>3, <1>0, <1>9 DEF Write, ClientFrame
    <2>5. CASE ~(t \in mActive /\ tr[t].disabled)
      <3>1. tr' = [tr EXCEPT ![t] = r] /\ UNCHANGED <<mActiveTracks, woken>>
        BY <1>9, <2>5 DEF Write
      <3> HIDE DEF r
      <3>2. TracksKept /\ ActiveGrows /\ woken' \in BOOLEAN
        BY <3>1, <2>2, <1>2
      <3> QED
        BY <3>2, <1>0, <1>9 DEF Write, ClientFrame
    <2> QED
      BY <2>4, <2>5
  <1>10. CASE Destroy(t) /\ t \in mActiveTracks
    <2>1. Keeps(tr[t], [tr[t] EXCEPT !.mState = "TERMINATED"])
      BY <1>3 DEF track_state
    <2>2. tr' = [tr EXCEPT ![t] = [tr[t] EXCEPT !.mState = "TERMINATED"]]
      BY <1>0, <1>10 DEF Destroy
    <2>3. TracksKept /\ ActiveGrows /\ woken' \in BOOLEAN
      BY <2>1, <2>2, <1>2, <1>10 DEF Destroy
    <2> QED
      BY <2>3, <1>0, <1>10 DEF Destroy, ClientFrame
  <1> QED
    BY <1>4, <1>5, <1>6, <1>7, <1>8, <1>9, <1>10 DEF ClientStep

-----------------------------------------------------------------------------
(* The other steps, by what they do to the tracks.                         *)

(* Every step but four leaves each track its slot.                         *)
Transfer ==
    \/ \E t \in Track : Create(t) \/ PrepareTrack(t)
                          \/ (Destroy(t) /\ t \notin mActiveTracks)
    \/ Finish

Quiet ==
    \/ \E t \in Track : ClientStep(t)
    \/ WriteMix \/ SkipWrite \/ FastMixer
    \/ StandbyPush \/ StandbyAcked \/ Wake \/ Prepare \/ PrepareEnd \/ Push
    \/ PushAcked \/ WriteBegin \/ Standby \/ Rest \/ SleepCycle \/ Suspend
    \/ UNCHANGED vars

(* A step either leaves the ownership of slots alone or hands one on.      *)
LEMMA QuietOrTransfer == [Next]_vars => Quiet \/ Transfer
  BY DEF Next, Mixer, Quiet, Transfer, ClientStep

(* A step that hands no slot on keeps every track where it is.             *)
LEMMA QuietKeeps ==
    ASSUME TypeOK, Quiet
    PROVE  /\ TracksKept /\ ActiveGrows /\ mActive' \subseteq Track
           /\ UNCHANGED <<mFastTrackAvailMask, tracksToRemove, resetMask>>
  <1>0. /\ tr \in [Track -> TrackRecord]
        /\ mActiveTracks \subseteq Track /\ mActive \subseteq Track
    BY DEF TypeOK
  <1>1. CASE UNCHANGED <<clients, tracksToRemove, resetMask>>
    <2>1. TracksKept
      BY <1>0, <1>1, KeepsSelf DEF TracksKept, clients
    <2> QED
      BY <2>1, <1>0, <1>1 DEF ActiveGrows, clients
  <1>2. ASSUME UNCHANGED <<mActiveTracks, mActive, mFastTrackAvailMask,
                           tracksToRemove, resetMask>>,
               NEW F, tr' = [t \in Track |-> F[t]],
               \A t \in Track : Keeps(tr[t], F[t])
        PROVE  /\ TracksKept /\ ActiveGrows /\ mActive' \subseteq Track
               /\ UNCHANGED <<mFastTrackAvailMask, tracksToRemove, resetMask>>
    <2>1. TracksKept
      BY <1>2 DEF TracksKept, Keeps
    <2> QED
      BY <2>1, <1>0, <1>2 DEF ActiveGrows
  <1>3. ASSUME NEW t \in Track, ClientStep(t)
        PROVE  /\ TracksKept /\ ActiveGrows /\ mActive' \subseteq Track
               /\ UNCHANGED <<mFastTrackAvailMask, tracksToRemove, resetMask>>
    BY <1>3, ClientKeeps DEF ClientFrame, cycle
  <1>4. CASE WriteMix \/ SkipWrite
    <2>1. tr' = [t \in Track |-> [u \in Track |-> AfterWrite(tr[u])][t]]
            /\ \A t \in Track :
                 Keeps(tr[t], [u \in Track |-> AfterWrite(tr[u])][t])
      BY <1>0, <1>4, AfterWriteKeeps DEF WriteMix, SkipWrite
    <2> QED
      BY <2>1, <1>2, <1>4 DEF WriteMix, SkipWrite, cycle
  <1>5. CASE FastProcess
    <2>1. CASE UNCHANGED tr
      BY <1>1, <1>5, <2>1 DEF FastProcess, clients, cycle
    <2>2. CASE isWarm
      <3> DEFINE read == {provider[i] : i \in enabled}
                 F == [t \in Track |-> IF t \in read
                        THEN [tr[t] EXCEPT !.frames = @ - Lesser(@, frameCount)]
                        ELSE tr[t]]
      <3>1. tr' = [t \in Track |-> F[t]]
        BY <1>5, <2>2 DEF FastProcess
      <3>2. ASSUME NEW t \in Track PROVE Keeps(tr[t], F[t])
        <4> DEFINE n == tr[t].frames - Lesser(tr[t].frames, frameCount)
        <4>1. n \in 0..mFrameCount
          BY <1>0, Bounds DEF Lesser, TrackRecord
        <4> HIDE DEF n
        <4>2. Keeps(tr[t], [tr[t] EXCEPT !.frames = n]) /\ Keeps(tr[t], tr[t])
          BY <4>1, <1>0, FramesKeep, KeepsSelf
        <4> QED
          BY <4>2 DEF n
      <3> HIDE DEF F
      <3> QED
        BY <3>1, <3>2, <1>2, <1>5 DEF FastProcess, cycle
    <2> QED
      BY <1>5, <2>1, <2>2 DEF FastProcess
  <1>6. CASE StandbyPush \/ StandbyAcked \/ Wake \/ Prepare \/ PrepareEnd
               \/ Push \/ PushAcked \/ WriteBegin
    BY <1>1, <1>6 DEF StandbyPush, StandbyAcked, Wake, Prepare, PrepareEnd,
       Push, PushAcked, WriteBegin, cycle
  <1>7. CASE Standby \/ Rest \/ SleepCycle \/ Suspend
               \/ UNCHANGED vars
    BY <1>1, <1>7 DEF Standby, Rest, SleepCycle, Suspend, vars, cycle
  <1>8. CASE FastPoll \/ FastConfigure \/ FastCheck
    BY <1>1, <1>8 DEF FastPoll, FastConfigure, FastCheck, cycle
  <1> QED
    BY <1>3, <1>4, <1>5, <1>6, <1>7, <1>8 DEF Quiet, FastMixer

(* Slots stay apart over a step that keeps the tracks.                     *)
LEMMA SlotKept ==
    ASSUME TypeOK, SlotInv, RetryInv, TracksKept, ActiveGrows,
           UNCHANGED <<mFastTrackAvailMask, tracksToRemove>>
    PROVE  SlotInv' /\ RetryInv'
  <1>1. ASSUME NEW t \in Track
        PROVE  /\ tr'[t].mFastIndex = tr[t].mFastIndex
               /\ tr'[t].mState = NoTrack <=> tr[t].mState = NoTrack
               /\ Playing(tr'[t]) => tr'[t].mRetryCount > 0
                    \/ (Playing(tr[t]) /\ tr'[t].mRetryCount = tr[t].mRetryCount)
    BY DEF TracksKept, Keeps
  <1>2. SlotInv'
    BY <1>1 DEF SlotInv, ActiveGrows, TypeOK
  <1>3. RetryInv'
    BY <1>1 DEF RetryInv, ActiveGrows, Playing
  <1> QED
    BY <1>2, <1>3

(* The slots of a state, after the step.                                   *)
HeldAfter(s) ==
    \A i \in s.mTrackMask : /\ s.mBufferProvider[i] \in mActiveTracks'
                            /\ tr'[s.mBufferProvider[i]].mFastIndex = i

(* A state of the queue that names held tracks still does after a step     *)
(* that keeps the tracks.                                                  *)
LEMMA HeldKept ==
    ASSUME TypeOK, TracksKept, ActiveGrows, NEW s, Held(s)
    PROVE  HeldAfter(s)
  <1> SUFFICES ASSUME NEW i \in s.mTrackMask
               PROVE  /\ s.mBufferProvider[i] \in mActiveTracks'
                      /\ tr'[s.mBufferProvider[i]].mFastIndex = i
    BY DEF HeldAfter
  <1>1. /\ s.mBufferProvider[i] \in mActiveTracks
        /\ tr[s.mBufferProvider[i]].mFastIndex = i
    BY DEF Held
  <1>2. s.mBufferProvider[i] \in Track
    BY <1>1 DEF TypeOK
  <1> QED
    BY <1>1, <1>2 DEF TracksKept, ActiveGrows, Keeps

(* A new track gets an available slot, which no state refers to.           *)
LEMMA CreateSteps ==
    ASSUME FastInv, NEW t \in Track, Create(t)
    PROVE  /\ tr' \in [Track -> TrackRecord] /\ SlotInv' /\ RetryInv'
           /\ \A u \in Track \ {t} : tr'[u] = tr[u]
           /\ t \notin mActiveTracks
           /\ UNCHANGED mActiveTracks
  <1>0. /\ tr \in [Track -> TrackRecord] /\ mFastTrackAvailMask \subseteq Slot
        /\ mActiveTracks \subseteq Track /\ SlotInv /\ RetryInv
    BY DEF FastInv, TypeOK
  <1>1. PICK i \in mFastTrackAvailMask, done \in BOOLEAN :
          /\ tr' = [tr EXCEPT ![t] = FreshRecord(i, done)]
          /\ mFastTrackAvailMask' = mFastTrackAvailMask \ {i}
    BY DEF Create
  <1>2. t \notin mActiveTracks /\ tr[t].mState = NoTrack
          /\ UNCHANGED <<mActiveTracks, tracksToRemove>>
    BY <1>0 DEF Create, SlotInv, cycle
  <1>3. /\ FreshRecord(i, done) \in TrackRecord
        /\ FreshRecord(i, done).mFastIndex = i
    BY <1>0, FreshIs
  <1>4. /\ tr' \in [Track -> TrackRecord] /\ tr'[t].mFastIndex = i
        /\ \A u \in Track \ {t} : tr'[u] = tr[u]
    BY <1>0, <1>1, <1>3
  <1>5. SlotInv'
    <2>1. ASSUME NEW u \in Track, tr'[u].mState # NoTrack
          PROVE  tr'[u].mFastIndex \in Slot \ mFastTrackAvailMask'
      BY <2>1, <1>0, <1>1, <1>4 DEF SlotInv
    <2>2. ASSUME NEW u \in Track, NEW v \in Track, u # v,
                 tr'[u].mState # NoTrack, tr'[v].mState # NoTrack
          PROVE  tr'[u].mFastIndex # tr'[v].mFastIndex
      BY <2>2, <1>0, <1>1, <1>4 DEF SlotInv
    <2>3. ASSUME NEW u \in mActiveTracks' PROVE tr'[u].mState # NoTrack
      BY <2>3, <1>0, <1>2, <1>4 DEF SlotInv
    <2> QED
      BY <2>1, <2>2, <2>3 DEF SlotInv
  <1>6. RetryInv'
    BY <1>0, <1>2, <1>4 DEF RetryInv
  <1> QED
    BY <1>2, <1>4, <1>5, <1>6

(* The slot of a track that was not active is in no state either.          *)
LEMMA DestroySteps ==
    ASSUME FastInv, NEW t \in Track, Destroy(t), t \notin mActiveTracks
    PROVE  /\ tr' \in [Track -> TrackRecord] /\ SlotInv' /\ RetryInv'
           /\ \A u \in Track \ {t} : tr'[u] = tr[u]
           /\ UNCHANGED mActiveTracks
  <1>0. /\ tr \in [Track -> TrackRecord] /\ mFastTrackAvailMask \subseteq Slot
        /\ mActiveTracks \subseteq Track /\ SlotInv /\ RetryInv
    BY DEF FastInv, TypeOK
  <1>1. /\ tr' = [tr EXCEPT ![t] = Gone]
        /\ mFastTrackAvailMask' = mFastTrackAvailMask \cup {tr[t].mFastIndex}
        /\ UNCHANGED <<mActiveTracks, tracksToRemove>>
        /\ tr[t].mState # NoTrack
    BY DEF Destroy, Usable, cycle
  <1>2. /\ tr' \in [Track -> TrackRecord] /\ tr'[t].mState = NoTrack
        /\ \A u \in Track \ {t} : tr'[u] = tr[u]
    BY <1>0, <1>1, GoneIs
  <1>3. SlotInv'
    <2>1. ASSUME NEW u \in Track, tr'[u].mState # NoTrack
          PROVE  tr'[u].mFastIndex \in Slot \ mFastTrackAvailMask'
      BY <2>1, <1>0, <1>1, <1>2 DEF SlotInv
    <2>2. ASSUME NEW u \in Track, NEW v \in Track, u # v,
                 tr'[u].mState # NoTrack, tr'[v].mState # NoTrack
          PROVE  tr'[u].mFastIndex # tr'[v].mFastIndex
      BY <2>2, <1>0, <1>1, <1>2 DEF SlotInv
    <2>3. ASSUME NEW u \in mActiveTracks' PROVE tr'[u].mState # NoTrack
      BY <2>3, <1>0, <1>1, <1>2 DEF SlotInv
    <2> QED
      BY <2>1, <2>2, <2>3 DEF SlotInv
  <1>4. RetryInv'
    BY <1>0, <1>1, <1>2 DEF RetryInv
  <1> QED
    BY <1>1, <1>2, <1>3, <1>4

(* A prepared track keeps its slot until the end of the cycle.             *)
LEMMA PrepareSteps ==
    ASSUME FastInv, NEW t \in Track, PrepareTrack(t)
    PROVE  /\ tr' \in [Track -> TrackRecord] /\ SlotInv' /\ RetryInv'
           /\ \A u \in Track : /\ tr'[u].mFastIndex = tr[u].mFastIndex
                               /\ tr'[u].frames = tr[u].frames
           /\ UNCHANGED mActiveTracks
           /\ t \in mActiveTracks /\ tr[t].mFastIndex \in Slot
  <1> DEFINE i == tr[t].mFastIndex
             s == Stepped(tr[t], recent[i])
             leaves == Leaves(tr[t], s)
             q == IF leaves /\ s.mState = "STOPPING_2"
                  THEN [s EXCEPT !.mState = "STOPPED"] ELSE s
  <1>0. /\ tr \in [Track -> TrackRecord] /\ tr[t] \in TrackRecord
        /\ mActiveTracks \subseteq Track /\ SlotInv /\ RetryInv
        /\ t \in mActiveTracks /\ t \notin tracksToRemove
    BY DEF FastInv, TypeOK, CycleInv, PrepareTrack
  <1>1. /\ tr' = [tr EXCEPT ![t] = q]
        /\ tracksToRemove' = IF leaves THEN tracksToRemove \cup {t}
                             ELSE tracksToRemove
        /\ UNCHANGED <<mActiveTracks, mFastTrackAvailMask>>
    BY DEF PrepareTrack
  <1>2. SteppedWell(tr[t], s)
    <2>1. tr[t].mState # NoTrack /\ (Playing(tr[t]) => tr[t].mRetryCount > 0)
      BY <1>0 DEF SlotInv, RetryInv, Playing
    <2> QED
      BY <2>1, <1>0, SteppedIs
  <1>3. leaves = Leaves(tr[t], s)
    OBVIOUS
  <1> HIDE DEF s, leaves
  <1>4. /\ q \in TrackRecord /\ q.mFastIndex = i /\ q.mState # NoTrack
        /\ q.frames = tr[t].frames
        /\ Playing(q) => q.mRetryCount > 0 \/ leaves
    <2>1. CASE leaves /\ s.mState = "STOPPING_2"
      <3>1. q = [s EXCEPT !.mState = "STOPPED"]
        BY <2>1
      <3>2. s \in TrackRecord /\ s.mFastIndex = i /\ s.frames = tr[t].frames
        BY <1>2 DEF SteppedWell
      <3> HIDE DEF q
      <3> QED
        BY <3>1, <3>2 DEF TrackRecord, track_state, NoTrack, Playing
    <2>2. CASE ~(leaves /\ s.mState = "STOPPING_2")
      BY <2>2, <1>2, <1>3 DEF SteppedWell
    <2> QED
      BY <2>1, <2>2
  <1> HIDE DEF q
  <1>5. /\ tr' \in [Track -> TrackRecord] /\ tr'[t] = q
        /\ \A u \in Track \ {t} : tr'[u] = tr[u]
    BY <1>0, <1>1, <1>4
  <1>6. \A u \in Track : /\ tr'[u].mFastIndex = tr[u].mFastIndex
                         /\ tr'[u].frames = tr[u].frames
                         /\ tr'[u].mState = NoTrack <=> tr[u].mState = NoTrack
    BY <1>0, <1>4, <1>5 DEF SlotInv
  <1>7. SlotInv'
    BY <1>0, <1>1, <1>6 DEF SlotInv
  <1>8. RetryInv'
    <2> SUFFICES ASSUME NEW u \in mActiveTracks' \ tracksToRemove',
                        tr'[u].mState \in {"ACTIVE", "RESUMING"}
                 PROVE  tr'[u].mRetryCount > 0
      BY DEF RetryInv
    <2>1. CASE u = t
      BY <2>1, <1>1, <1>4, <1>5 DEF Playing
    <2>2. CASE u # t
      BY <2>2, <1>0, <1>1, <1>5 DEF RetryInv
    <2> QED
      BY <2>1, <2>2
  <1>9. i \in Slot
    BY <1>0 DEF SlotInv
  <1> QED
    BY <1>0, <1>1, <1>5, <1>6, <1>7, <1>8, <1>9

(* The end of the cycle takes away tracks whose slots the normal mixer has *)
(* removed from the state that the fast mixer works from.                  *)
LEMMA FinishSteps ==
    ASSUME FastInv, Finish
    PROVE  /\ tr' \in [Track -> TrackRecord] /\ SlotInv' /\ RetryInv'
           /\ mActiveTracks' \subseteq Track
           /\ mFastTrackAvailMask' \subseteq Slot
           /\ \A u \in mActiveTracks \ tracksToRemove :
                u \in mActiveTracks' /\ tr'[u] = tr[u]
  <1> DEFINE gone == {t \in tracksToRemove : tr[t].mState = "TERMINATED"}
             after(t) == IF t \in resetMask THEN Reset(tr[t]) ELSE tr[t]
  <1>0. /\ tr \in [Track -> TrackRecord] /\ mFastTrackAvailMask \subseteq Slot
        /\ mActiveTracks \subseteq Track /\ SlotInv /\ RetryInv
        /\ tracksToRemove \subseteq mActiveTracks
        /\ resetMask \subseteq tracksToRemove
    BY DEF FastInv, TypeOK, CycleInv
  <1>1. /\ tr' = [t \in Track |-> IF t \in gone THEN Gone ELSE after(t)]
        /\ mActiveTracks' = mActiveTracks \ tracksToRemove
        /\ mFastTrackAvailMask' =
               mFastTrackAvailMask \cup {tr[t].mFastIndex : t \in gone}
        /\ tracksToRemove' = {}
    BY DEF Finish
  <1>2. \A t \in gone : t \in Track /\ t \in tracksToRemove
                          /\ tr[t].mState # NoTrack
    BY <1>0 DEF NoTrack
  <1>3. ASSUME NEW t \in Track \ gone
        PROVE  tr'[t] \in TrackRecord /\ Keeps(tr[t], tr'[t])
    <2>1. Keeps(tr[t], after(t))
      BY <1>0, KeepsSelf, ResetKeeps
    <2>2. tr'[t] = after(t)
      BY <1>1
    <2> QED
      BY <2>1, <2>2 DEF Keeps
  <1>4. ASSUME NEW t \in gone PROVE tr'[t] \in TrackRecord
                                     /\ tr'[t].mState = NoTrack
    BY <1>1, <1>2, GoneIs
  <1>5. ASSUME NEW t \in mActiveTracks \ tracksToRemove
        PROVE  t \in mActiveTracks' /\ tr'[t] = tr[t]
    BY <1>0, <1>1
  <1>6. tr' \in [Track -> TrackRecord]
    BY <1>1, <1>3, <1>4
  <1> HIDE DEF gone
  <1>7. SlotInv'
    <2>1. ASSUME NEW u \in Track, tr'[u].mState # NoTrack
          PROVE  /\ u \notin gone /\ tr[u].mState # NoTrack
                 /\ tr'[u].mFastIndex = tr[u].mFastIndex
      BY <2>1, <1>3, <1>4 DEF Keeps
    <2>2. ASSUME NEW u \in Track, tr'[u].mState # NoTrack
          PROVE  tr'[u].mFastIndex \in Slot \ mFastTrackAvailMask'
      BY <2>1, <2>2, <1>0, <1>1, <1>2 DEF SlotInv
    <2>3. ASSUME NEW u \in Track, NEW v \in Track, u # v,
                 tr'[u].mState # NoTrack, tr'[v].mState # NoTrack
          PROVE  tr'[u].mFastIndex # tr'[v].mFastIndex
      BY <2>1, <2>3, <1>0 DEF SlotInv
    <2>4. ASSUME NEW u \in mActiveTracks' PROVE tr'[u].mState # NoTrack
      BY <2>4, <1>0, <1>1, <1>5 DEF SlotInv
    <2> QED
      BY <2>2, <2>3, <2>4 DEF SlotInv
  <1>8. RetryInv'
    BY <1>0, <1>1, <1>5 DEF RetryInv
  <1>9. mFastTrackAvailMask' \subseteq Slot
    BY <1>0, <1>1, <1>2 DEF SlotInv
  <1> QED
    BY <1>0, <1>1, <1>5, <1>6, <1>7, <1>8, <1>9

-----------------------------------------------------------------------------
(* The invariant is inductive.                                             *)

(* Slots stay apart, and a playing track keeps a retry, over every step.   *)
LEMMA SlotNext == FastInv /\ [Next]_vars => SlotInv' /\ RetryInv'
  <1> SUFFICES ASSUME FastInv, [Next]_vars PROVE SlotInv' /\ RetryInv'
    OBVIOUS
  <1>1. CASE Quiet
    <2>1. /\ TypeOK /\ SlotInv /\ RetryInv
      BY DEF FastInv
    <2>2. TracksKept /\ ActiveGrows
            /\ UNCHANGED <<mFastTrackAvailMask, tracksToRemove>>
      BY <2>1, <1>1, QuietKeeps
    <2> QED
      BY <2>1, <2>2, SlotKept
  <1>2. CASE Transfer
    BY <1>2, CreateSteps, DestroySteps, PrepareSteps, FinishSteps DEF Transfer
  <1> QED
    BY <1>1, <1>2, QuietOrTransfer

(* The mixer's working sets fit the point it has reached in its cycle,     *)
(* after every step.                                                       *)
LEMMA CycleNext == FastInv /\ [Next]_vars => CycleInv'
  <1> SUFFICES ASSUME FastInv, [Next]_vars PROVE CycleInv'
    OBVIOUS
  <1>0. CycleInv /\ TypeOK
    BY DEF FastInv
  <1>1. CASE UNCHANGED <<pc, cycle>> /\ mActiveTracks \subseteq mActiveTracks'
    BY <1>0, <1>1 DEF CycleInv, Preparing, cycle
  <1>2. ASSUME NEW t \in Track, ClientStep(t) PROVE CycleInv'
    BY <1>0, <1>1, <1>2, ClientKeeps DEF ClientFrame, ActiveGrows
  <1>3. ASSUME NEW t \in Track, Create(t) \/ (Destroy(t) /\ t \notin mActiveTracks)
        PROVE  CycleInv'
    BY <1>1, <1>3 DEF Create, Destroy
  <1>4. CASE FastMixer \/ Suspend \/ UNCHANGED vars
    BY <1>1, <1>4 DEF FastMixer, FastPoll, FastConfigure, FastCheck,
       FastProcess, Suspend, vars, clients
  <1>5. ASSUME NEW t \in Track, PrepareTrack(t) PROVE CycleInv'
    BY <1>0, <1>5 DEF PrepareTrack, CycleInv, Preparing
  <1>6. CASE Finish
    BY <1>0, <1>6 DEF Finish, CycleInv, Preparing
  <1>7. CASE Prepare
    BY <1>0, <1>7 DEF Prepare, CycleInv, Preparing, clients
  <1>8. CASE PrepareEnd \/ Push \/ PushAcked
    BY <1>0, <1>8 DEF PrepareEnd, Push, PushAcked, CycleInv, Preparing, cycle,
       clients
  <1>9. CASE Standby \/ StandbyPush \/ StandbyAcked \/ Rest \/ Wake
               \/ WriteBegin \/ SleepCycle
    BY <1>0, <1>9 DEF Standby, StandbyPush, StandbyAcked, Rest, Wake,
       WriteBegin, SleepCycle, CycleInv, Preparing, cycle, clients
  <1>10. CASE WriteMix \/ SkipWrite
    BY <1>0, <1>10 DEF WriteMix, SkipWrite, CycleInv, Preparing, cycle
  <1> QED
    BY <1>2, <1>3, <1>4, <1>5, <1>6, <1>7, <1>8, <1>9, <1>10
    DEF Next, Mixer, ClientStep

(* Both halves of QueueInv: the slots, and the order of the states.        *)
LEMMA QueueNext == FastInv /\ [Next]_vars => QueueInv'
  <1> SUFFICES ASSUME FastInv, [Next]_vars PROVE QueueInv'
    OBVIOUS
  <1>0. TypeOK /\ CycleInv /\ SlotInv /\ QueueInv
    BY DEF FastInv
  <1> DEFINE HeldAll == HeldAfter(draft) /\ HeldAfter(latest)
                          /\ HeldAfter(current)
             Order ==
               /\ ~fresh => current = latest
               /\ fresh /\ pc # "ack" => Extends(current, latest)
               /\ pc \notin {"prepare", "push", "standbyPush", "writePush"}
                     => draft = latest
               /\ pc \in {"standbyPush", "writePush"} => SameSlots(draft, latest)
               /\ pc = "prepare" /\ ~didModify => draft = latest
               /\ pc \in {"prepare", "push"} /\ block = "BLOCK_UNTIL_PUSHED"
                     => Extends(latest, draft)
               /\ draft.mCommand # "INITIAL" /\ latest.mCommand # "INITIAL"
             OutOfDraft ==
               \A t \in tracksToRemove :
                 tr[t].mFastIndex \notin draft.mTrackMask
  <1>1. Order /\ OutOfDraft /\ Held(draft) /\ Held(latest) /\ Held(current)
    BY <1>0 DEF QueueInv
  <1>2. ASSUME HeldAfter(draft'), HeldAfter(latest'), HeldAfter(current'),
               Order', OutOfDraft'
        PROVE  QueueInv'
    BY <1>2 DEF QueueInv, Held, HeldAfter
  <1>3. /\ draft \in FastMixerState /\ latest \in FastMixerState
        /\ current \in FastMixerState
    BY <1>0 DEF TypeOK
  <1>4. ASSUME Quiet
        PROVE  HeldAll /\ (UNCHANGED draft \/ tracksToRemove = {} => OutOfDraft')
    <2>1. TracksKept /\ ActiveGrows /\ UNCHANGED tracksToRemove
      BY <1>0, <1>4, QuietKeeps
    <2>2. HeldAll
      BY <2>1, <1>0, <1>1, HeldKept
    <2>3. UNCHANGED draft => OutOfDraft'
      <3>1. \A t \in tracksToRemove : tr'[t].mFastIndex = tr[t].mFastIndex
        BY <2>1, <1>0 DEF TracksKept, Keeps, CycleInv, TypeOK
      <3> QED
        BY <2>1, <3>1, <1>1
    <2> QED
      BY <2>1, <2>2, <2>3
  <1>5. ASSUME NEW r, NEW s, SameSlots(r, s)
        PROVE  /\ HeldAfter(s) => HeldAfter(r)
               /\ Extends(s, r) /\ Extends(r, s)
    BY <1>5 DEF SameSlots, HeldAfter, Extends
  <1>6. SameSlots(draft, draft) /\ SameSlots(latest, latest)
    BY DEF SameSlots
  (* The queue and the cycle as they were.                                 *)
  <1>7. ASSUME UNCHANGED <<queue, current, pc, didModify, block>>, HeldAll,
               OutOfDraft'
        PROVE  QueueInv'
    <2>1. Order'
      BY <1>1, <1>7 DEF queue, Extends, SameSlots
    <2> QED
      BY <2>1, <1>2, <1>7 DEF queue
  <1>8. CASE FastConfigure \/ FastCheck \/ FastProcess \/ Suspend
               \/ UNCHANGED vars \/ \E t \in Track : ClientStep(t)
    <2>1. UNCHANGED <<queue, current, pc, didModify, block>>
      BY <1>0, <1>8, ClientKeeps DEF FastConfigure, FastCheck, FastProcess,
         Suspend, vars, ClientFrame, cycle, fast
    <2>2. Quiet
      BY <1>8 DEF Quiet, FastMixer
    <2> QED
      BY <2>1, <2>2, <1>4, <1>7 DEF queue
  (* The thread goes on in the cycle without the queue.                    *)
  <1>9. ASSUME Quiet, UNCHANGED <<queue, current>>, Order'
        PROVE  QueueInv'
    BY <1>2, <1>4, <1>9 DEF queue
  <1>10. CASE Rest \/ Wake \/ SleepCycle \/ SkipWrite
    <2>1. UNCHANGED <<queue, current, didModify, block>> /\ Quiet
      BY <1>10 DEF Quiet, Rest, Wake, SleepCycle, SkipWrite, fast, cycle
    <2>2. Order'
      BY <2>1, <1>1, <1>10 DEF Rest, Wake, SleepCycle, SkipWrite, queue, Extends
    <2> QED
      BY <2>1, <2>2, <1>9
  <1>11. CASE Prepare \/ PrepareEnd
    <2>1. UNCHANGED <<queue, current, didModify, block>> /\ Quiet
      BY <1>11 DEF Quiet, Prepare, PrepareEnd, fast, cycle
    <2>2. Extends(draft, draft)
      BY DEF Extends
    <2>3. Order'
      BY <2>1, <2>2, <1>0, <1>1, <1>11 DEF Prepare, PrepareEnd, queue, Extends,
         CycleInv, Preparing
    <2> QED
      BY <2>1, <2>3, <1>9
  <1>12. CASE StandbyAcked \/ PushAcked
    <2>1. UNCHANGED <<queue, current, didModify, block>> /\ Quiet
      BY <1>12 DEF Quiet, StandbyAcked, PushAcked, fast, cycle
    <2>2. Order'
      BY <2>1, <1>1, <1>12 DEF StandbyAcked, PushAcked, queue, Extends
    <2> QED
      BY <2>1, <2>2, <1>9
  (* A state is drafted.                                                   *)
  <1>13. ASSUME Quiet, UNCHANGED <<latest, fresh, current, didModify, block>>,
                ~Preparing, ~Preparing', pc \notin {"standbyPush", "writePush"},
                pc' \in {"standbyPush", "writePush"},
                NEW c \in {"COLD_IDLE", "MIX_WRITE"},
                draft' = [draft EXCEPT !.mCommand = c]
         PROVE  QueueInv'
    <2>1. SameSlots(draft', draft) /\ draft'.mCommand = c
      BY <1>3, <1>13, CommandIs
    <2>2. draft = latest
      BY <1>1, <1>13 DEF Preparing
    <2>3. Order'
      BY <2>1, <2>2, <1>1, <1>13 DEF Preparing, Extends
    <2>4. HeldAll /\ OutOfDraft'
      BY <1>0, <1>4, <1>13 DEF CycleInv
    <2>5. HeldAfter(draft')
      BY <2>1, <2>4, <1>5
    <2> QED
      BY <2>3, <2>4, <2>5, <1>2, <1>13
  <1>14. CASE Standby
    <2>1. CASE draft.mCommand = "COLD_IDLE"
      <3>1. UNCHANGED <<queue, current, didModify, block>> /\ Quiet
        BY <1>14, <2>1 DEF Quiet, Standby, fast, cycle, queue
      <3>2. Order'
        BY <3>1, <2>1, <1>1, <1>14 DEF Standby, queue, Extends
      <3> QED
        BY <3>1, <3>2, <1>9
    <2>2. CASE draft.mCommand # "COLD_IDLE"
      BY <1>13, <1>14, <2>2 DEF Standby, Quiet, Preparing, fast, cycle
    <2> QED
      BY <2>1, <2>2
  <1>15. CASE WriteBegin
    BY <1>13, <1>15 DEF WriteBegin, Quiet, Preparing, fast, cycle
  (* A state is published: the fast mixer has seen the one before.         *)
  <1>16. ASSUME Quiet, Publish, UNCHANGED <<current, didModify, block>>,
                \/ pc \in {"standbyPush", "writePush"}
                \/ pc = "push" /\ (block = "BLOCK_UNTIL_ACKED" <=> pc' = "ack"),
                pc' \notin {"prepare", "push", "standbyPush", "writePush"}
         PROVE  QueueInv'
    <2>1. current = latest /\ latest' = draft /\ draft' = draft /\ fresh'
      BY <1>1, <1>16 DEF Publish
    <2>2. pc' # "ack" => Extends(latest, draft)
      BY <1>0, <1>1, <1>5, <1>16 DEF TypeOK, SameSlots
    <2>3. Order'
      BY <2>1, <2>2, <1>1, <1>16 DEF Extends
    <2> QED
      BY <2>1, <2>3, <1>2, <1>4, <1>16
  <1>17. CASE StandbyPush
    BY <1>16, <1>17 DEF StandbyPush, Quiet, fast, cycle
  <1>18. CASE Push
    BY <1>16, <1>18 DEF Push, Quiet, fast, cycle
  <1>19. CASE WriteMix
    <2>1. CASE pc = "writePush" /\ Publish
      BY <1>16, <1>19, <2>1 DEF WriteMix, Quiet, fast, cycle
    <2>2. CASE pc \in {"ready", "idle"} /\ UNCHANGED queue
      <3>1. UNCHANGED <<queue, current, didModify, block>> /\ Quiet
        BY <1>19, <2>2 DEF Quiet, WriteMix, fast, cycle
      <3>2. Order'
        BY <3>1, <2>2, <1>1, <1>19 DEF WriteMix, queue, Extends
      <3> QED
        BY <3>1, <3>2, <1>9
    <2> QED
      BY <2>1, <2>2, <1>19 DEF WriteMix
  (* It is acknowledged.                                                   *)
  <1>20. CASE FastPoll
    <2>1. UNCHANGED <<draft, latest, pc, didModify, block>> /\ Quiet
      BY <1>20 DEF FastPoll, cycle, Quiet, FastMixer
    <2>2. CASE fresh
      <3>1. current' = latest /\ fresh' = FALSE
        BY <1>20, <2>2 DEF FastPoll
      <3>2. Order'
        BY <3>1, <2>1, <1>1 DEF Extends, SameSlots
      <3> QED
        BY <3>1, <3>2, <2>1, <1>2, <1>4
    <2>3. CASE ~fresh
      <3>1. UNCHANGED <<queue, current>>
        BY <1>20, <2>1, <2>3 DEF FastPoll, queue
      <3> QED
        BY <3>1, <2>1, <1>4, <1>7 DEF queue
    <2> QED
      BY <2>2, <2>3
  (* A slot changes hands.                                                 *)
  <1>21. ASSUME NEW t \in Track,
                Create(t) \/ (Destroy(t) /\ t \notin mActiveTracks)
         PROVE  QueueInv'
    <2>1. /\ \A u \in Track \ {t} : tr'[u] = tr[u]
          /\ t \notin mActiveTracks /\ UNCHANGED mActiveTracks
      BY <1>21, CreateSteps, DestroySteps
    <2>2. UNCHANGED <<queue, current, pc, didModify, block, tracksToRemove>>
      BY <1>21 DEF Create, Destroy, fast, cycle
    <2>3. ASSUME NEW s, Held(s) PROVE HeldAfter(s)
      BY <2>1, <2>3, <1>0 DEF Held, HeldAfter, TypeOK
    <2>4. OutOfDraft'
      BY <2>1, <2>2, <1>0, <1>1 DEF CycleInv, TypeOK, queue
    <2> QED
      BY <2>2, <2>3, <2>4, <1>1, <1>7
  <1>22. CASE Finish
    <2>1. \A u \in mActiveTracks \ tracksToRemove :
            u \in mActiveTracks' /\ tr'[u] = tr[u]
      BY <1>22, FinishSteps
    <2>2. /\ UNCHANGED <<queue, current>> /\ tracksToRemove' = {}
          /\ pc = "finish" /\ pc' \in {"ready", "idle"}
      BY <1>22 DEF Finish, fast
    <2>3. draft = latest /\ Extends(current, draft)
      BY <2>2, <1>1, <1>6 DEF Extends
    <2>4. ASSUME NEW s, Held(s), Extends(s, draft) PROVE HeldAfter(s)
      <3> SUFFICES ASSUME NEW i \in s.mTrackMask
                   PROVE  /\ s.mBufferProvider[i] \in mActiveTracks'
                          /\ tr'[s.mBufferProvider[i]].mFastIndex = i
        BY DEF HeldAfter
      <3>1. /\ i \in draft.mTrackMask /\ s.mBufferProvider[i] \in mActiveTracks
            /\ tr[s.mBufferProvider[i]].mFastIndex = i
        BY <2>4 DEF Held, Extends
      <3>2. s.mBufferProvider[i] \notin tracksToRemove
        BY <3>1, <1>1
      <3> QED
        BY <3>1, <3>2, <2>1
    <2>5. HeldAfter(draft) /\ HeldAfter(current)
      BY <2>3, <2>4, <1>1, <1>5, <1>6
    <2>6. Order'
      BY <2>2, <1>1 DEF queue, Extends
    <2> QED
      BY <2>2, <2>3, <2>5, <2>6, <1>2 DEF queue
  <1>23. ASSUME NEW t \in Track, PrepareTrack(t) PROVE QueueInv'
    <2> DEFINE i == tr[t].mFastIndex
               leaves == Leaves(tr[t], Stepped(tr[t], recent[i]))
               was == i \in draft.mTrackMask
    <2>1. /\ \A u \in Track : tr'[u].mFastIndex = tr[u].mFastIndex
          /\ UNCHANGED mActiveTracks
          /\ t \in mActiveTracks /\ i \in Slot
      BY <1>23, PrepareSteps
    <2>2. ASSUME NEW s, Held(s) PROVE HeldAfter(s)
      BY <2>1, <2>2, <1>0 DEF Held, HeldAfter, TypeOK
    <2>3. HeldAll
      BY <2>2, <1>1
    <2>4. /\ UNCHANGED <<latest, fresh, current, pc>> /\ pc = "prepare"
          /\ t \notin tracksToRemove
          /\ didModify' = (didModify \/ was = leaves)
      BY <1>0, <1>23 DEF PrepareTrack, fast, CycleInv
    <2>5. \A u \in tracksToRemove : tr[u].mFastIndex # i /\ u \in Track
      BY <2>1, <2>4, <1>0 DEF SlotInv, CycleInv, TypeOK
    <2>6. CASE UNCHANGED <<draft, block>> /\ (was <=> ~leaves)
      <3>1. tracksToRemove' = tracksToRemove
              \/ (tracksToRemove' = tracksToRemove \cup {t} /\ ~was)
        BY <1>23, <2>6 DEF PrepareTrack
      <3>2. OutOfDraft'
        BY <3>1, <2>1, <2>5, <2>6, <1>1
      <3>3. didModify' = didModify
        BY <2>4, <2>6, <1>0 DEF TypeOK
      <3>4. Order'
        BY <3>3, <2>4, <2>6, <1>1 DEF Extends, SameSlots
      <3> QED
        BY <3>2, <3>4, <2>3, <2>4, <2>6, <1>2
    <2>7. CASE draft' = Added(draft, i, t) /\ ~was /\ ~leaves
      <3>1. /\ Renewed(draft, i, draft') /\ i \in draft'.mTrackMask
            /\ draft'.mBufferProvider[i] = t
        BY <2>1, <2>7, <1>3, AddedIs
      <3>2. draft'.mTrackMask \subseteq Slot /\ draft.mTrackMask \subseteq Slot
              /\ latest.mTrackMask \subseteq Slot
        BY <3>1, <1>3 DEF Renewed, FastMixerState
      <3>3. HeldAfter(draft')
        BY <3>1, <3>2, <2>1, <2>3 DEF Renewed, HeldAfter
      <3>4. UNCHANGED <<tracksToRemove, block>> /\ didModify'
        <4>1. UNCHANGED <<tracksToRemove, block>>
          BY <1>23, <2>7 DEF PrepareTrack
        <4>2. leaves \in BOOLEAN /\ was \in BOOLEAN
          BY DEF Leaves
        <4> HIDE DEF leaves, was
        <4>3. was = leaves
          BY <4>2, <2>7, Zenon
        <4> QED
          BY <4>1, <4>3, <2>4
      <3>5. OutOfDraft'
        BY <3>1, <3>2, <3>4, <2>1, <2>5, <1>1 DEF Renewed
      <3>6. Extends(latest, draft) => Extends(latest, draft')
        BY <3>1, <3>2, <2>7 DEF Renewed, Extends
      <3>7. Order'
        BY <3>1, <3>4, <3>6, <2>4, <1>1 DEF Extends, Renewed
      <3> QED
        BY <3>3, <3>5, <3>7, <2>3, <2>4, <1>2
    <2>8. CASE draft' = Removed(draft, i) /\ was /\ leaves
      <3>1. Renewed(draft, i, draft') /\ i \notin draft'.mTrackMask
        BY <2>1, <2>8, <1>3, RemovedIs
      <3>2. draft'.mTrackMask \subseteq Slot
        BY <3>1 DEF Renewed, FastMixerState
      <3>3. HeldAfter(draft')
        BY <3>1, <3>2, <2>3 DEF Renewed, HeldAfter
      <3>4. /\ tracksToRemove' = tracksToRemove \cup {t} /\ didModify'
            /\ block' = "BLOCK_UNTIL_ACKED"
        BY <1>23, <2>4, <2>8 DEF PrepareTrack
      <3>5. OutOfDraft'
        BY <3>1, <3>2, <3>4, <2>1, <2>5, <1>1 DEF Renewed
      <3>6. Order'
        BY <3>1, <3>4, <2>4, <1>1 DEF Extends, Renewed
      <3> QED
        BY <3>3, <3>5, <3>6, <2>3, <2>4, <1>2
    <2> QED
      BY <2>6, <2>7, <2>8, <1>23 DEF PrepareTrack
  <1> QED
    BY <1>8, <1>10, <1>11, <1>12, <1>14, <1>15, <1>17, <1>18, <1>19, <1>20,
       <1>21, <1>22, <1>23, QuietOrTransfer DEF Quiet, Transfer, FastMixer

(* States with one generation for a slot agree on its track, after every   *)
(* step.                                                                   *)
LEMMA GenerationNext == FastInv /\ [Next]_vars => GenerationInv'
  <1> SUFFICES ASSUME FastInv, [Next]_vars PROVE GenerationInv'
    OBVIOUS
  <1>0. TypeOK /\ QueueInv /\ GenerationInv
    BY DEF FastInv
  <1> DEFINE C == Configured
             FastPart ==
               /\ enabled \subseteq previousTrackMask
               /\ fpc # "poll" => current.mCommand = "MIX_WRITE"
               /\ \/ fpc \in {"check", "process"}
                  \/ fpc = "poll" /\ current.mCommand # "COLD_IDLE"
                  \/ fpc = "configure" /\ ~changed
                  => UpToDate
  <1>1. /\ Agree(draft, latest) /\ Agree(draft, current)
        /\ Agree(latest, current) /\ Agree(draft, C) /\ Agree(latest, C)
        /\ Agree(current, C) /\ FastPart
    BY <1>0 DEF GenerationInv
  <1>2. ASSUME Agree(draft', latest'), Agree(draft', current'),
               Agree(latest', current'), Agree(draft', C'), Agree(latest', C'),
               Agree(current', C'), FastPart'
        PROVE  GenerationInv'
    BY <1>2 DEF GenerationInv, Agree
  <1>3. UNCHANGED fast => C' = C /\ FastPart'
    BY <1>1 DEF fast, Configured, UpToDate
  <1>4. \A r : Agree(r, r)
    BY DEF Agree
  <1>5. /\ draft \in FastMixerState /\ latest \in FastMixerState
        /\ current \in FastMixerState
        /\ previousTrackMask \subseteq Slot /\ enabled \subseteq Slot
        /\ provider \in [Slot -> Track \cup {NULL}]
        /\ generations \in [Slot -> Generation]
    BY <1>0 DEF TypeOK
  <1>6. CASE UNCHANGED <<queue, fast>>
    <2>1. UNCHANGED <<draft, latest, current>>
      BY <1>6 DEF queue, fast
    <2> QED
      BY <2>1, <1>1, <1>2, <1>3, <1>6
  <1>7. CASE Suspend \/ UNCHANGED vars \/ (\E t \in Track : ClientStep(t))
    BY <1>0, <1>6, <1>7, ClientKeeps DEF Suspend, vars, ClientFrame
  <1>8. CASE \E t \in Track : Create(t) \/ Destroy(t)
    BY <1>6, <1>8 DEF Create, Destroy
  <1>9. CASE Finish \/ Rest \/ Wake \/ SleepCycle \/ SkipWrite \/ Prepare
               \/ PrepareEnd \/ StandbyAcked \/ PushAcked
    BY <1>6, <1>9 DEF Finish, Rest, Wake, SleepCycle, SkipWrite, Prepare,
       PrepareEnd, StandbyAcked, PushAcked
  (* Drafting another command, publishing, and renewing a slot.            *)
  <1>10. ASSUME UNCHANGED <<latest, fast>>, NEW c \in {"COLD_IDLE", "MIX_WRITE"},
                draft' = [draft EXCEPT !.mCommand = c]
         PROVE  GenerationInv'
    <2>1. SameSlots(draft', draft) /\ UNCHANGED current
      BY <1>5, <1>10, CommandIs DEF fast
    <2>2. \A s : Agree(draft, s) => Agree(draft', s)
      BY <2>1 DEF SameSlots, Agree
    <2> QED
      BY <2>1, <2>2, <1>1, <1>2, <1>3, <1>10
  <1>11. CASE Standby \/ WriteBegin
    BY <1>6, <1>10, <1>11 DEF Standby, WriteBegin, queue
  <1>12. ASSUME UNCHANGED fast, Publish PROVE GenerationInv'
    <2>1. UNCHANGED current /\ latest' = draft /\ draft' = draft
      BY <1>12 DEF Publish, fast
    <2> QED
      BY <2>1, <1>1, <1>2, <1>3, <1>4, <1>12
  <1>13. CASE StandbyPush \/ Push \/ WriteMix
    BY <1>6, <1>12, <1>13 DEF StandbyPush, Push, WriteMix
  <1>14. ASSUME NEW t \in Track, PrepareTrack(t) PROVE GenerationInv'
    <2> DEFINE i == tr[t].mFastIndex
    <2>1. i \in Slot
      BY <1>14, PrepareSteps
    <2>2. UNCHANGED <<latest, current, fast>>
      BY <1>14 DEF PrepareTrack, fast
    <2>3. draft' = draft \/ draft' = Added(draft, i, t) \/ draft' = Removed(draft, i)
      BY <1>14 DEF PrepareTrack
    <2>4. draft' = draft \/ Renewed(draft, i, draft')
      BY <2>1, <2>3, <1>5, AddedIs, RemovedIs
    <2> HIDE DEF i
    <2>5. ASSUME Renewed(draft, i, draft'), NEW s,
                 s.mTrackMask \subseteq Slot, Agree(draft, s),
                 s.mGeneration[i] \in {latest.mGeneration[i],
                                       current.mGeneration[i], generations[i]}
          PROVE  Agree(draft', s)
      <3> SUFFICES ASSUME NEW j \in draft'.mTrackMask \cap s.mTrackMask,
                          draft'.mGeneration[j] = s.mGeneration[j]
                   PROVE  draft'.mBufferProvider[j] = s.mBufferProvider[j]
        BY DEF Agree
      <3>1. j # i
        BY <2>5 DEF Renewed
      <3> QED
        BY <3>1, <2>5 DEF Renewed, Agree
    <2>6. C.mTrackMask = previousTrackMask /\ C.mGeneration = generations
      BY DEF Configured
    <2>7. latest.mTrackMask \subseteq Slot /\ current.mTrackMask \subseteq Slot
      BY <1>5 DEF FastMixerState
    <2>8. Agree(draft', latest) /\ Agree(draft', current) /\ Agree(draft', C)
      BY <2>4, <2>5, <2>6, <2>7, <1>1, <1>5
    <2> QED
      BY <2>2, <2>8, <1>1, <1>2, <1>3
  (* The fast mixer.                                                       *)
  <1>15. CASE FastPoll
    <2>1. UNCHANGED <<draft, latest, provider, generations, enabled>>
            /\ fpc = "poll"
      BY <1>15 DEF FastPoll
    <2>2. CASE fresh
      <3>1. /\ current' = latest /\ changed'
            /\ fpc' = IF latest.mCommand = "MIX_WRITE" THEN "configure"
                      ELSE "poll"
            /\ previousTrackMask' = IF current.mCommand = "COLD_IDLE"
                   THEN previousTrackMask ELSE current.mTrackMask
        BY <1>15, <2>2 DEF FastPoll
      <3>2. previousTrackMask' = previousTrackMask
        BY <3>1, <2>1, <1>1 DEF UpToDate
      <3>3. C' = C
        BY <3>2, <2>1 DEF Configured
      <3>4. latest.mCommand \in {"COLD_IDLE", "MIX_WRITE"}
        BY <1>0, <1>5 DEF QueueInv, FastMixerState
      <3>5. FastPart'
        BY <3>1, <3>2, <3>4, <2>1, <1>1
      <3> QED
        BY <3>1, <3>3, <3>5, <2>1, <1>1, <1>2, <1>4
    <2>3. CASE ~fresh
      <3>1. /\ UNCHANGED <<current, previousTrackMask, changed>>
            /\ fpc' = IF current.mCommand = "MIX_WRITE" THEN "configure"
                      ELSE "poll"
        BY <1>15, <2>3 DEF FastPoll
      <3>2. C' = C
        BY <3>1, <2>1 DEF Configured
      <3>3. UpToDate => UpToDate'
        BY <3>1, <2>1 DEF UpToDate
      <3>4. FastPart'
        BY <3>1, <3>3, <2>1, <1>1
      <3> QED
        BY <3>1, <3>2, <3>4, <2>1, <1>1, <1>2
    <2> QED
      BY <2>2, <2>3
  <1>16. CASE FastConfigure
    <2>1. /\ UNCHANGED <<draft, latest, current>> /\ fpc = "configure"
          /\ fpc' = "check" /\ previousTrackMask' = current.mTrackMask
      BY <1>16 DEF FastConfigure, queue
    <2>2. current.mTrackMask \subseteq Slot
      BY <1>5 DEF FastMixerState
    <2>3. /\ \A i \in current.mTrackMask :
               /\ provider'[i] = current.mBufferProvider[i]
               /\ generations'[i] = current.mGeneration[i]
          /\ enabled' \subseteq current.mTrackMask
      <3>1. CASE ~changed
        BY <3>1, <2>1, <1>1, <1>16 DEF FastConfigure, UpToDate
      <3>2. CASE changed
        <4> DEFINE mask == current.mTrackMask
                   removed == previousTrackMask \ mask
                   added == mask \ previousTrackMask
                   modified == {i \in mask \cap previousTrackMask :
                                  current.mGeneration[i] # generations[i]}
        <4>1. /\ provider' = [i \in Slot |->
                      CASE i \in removed -> NULL
                        [] i \in added \cup modified -> current.mBufferProvider[i]
                        [] OTHER -> provider[i]]
              /\ enabled' = (enabled \ removed) \cup added
              /\ generations' = [i \in Slot |->
                      IF i \in removed \cup added \cup modified
                      THEN current.mGeneration[i] ELSE generations[i]]
          BY <3>2, <1>16 DEF FastConfigure
        <4>2. enabled' \subseteq mask
          BY <4>1, <1>1
        <4>3. ASSUME NEW i \in mask
              PROVE  /\ provider'[i] = current.mBufferProvider[i]
                     /\ generations'[i] = current.mGeneration[i]
          <5>1. CASE i \in added \cup modified
            <6>1. i \notin removed /\ i \in Slot
              BY <2>2
            <6> HIDE DEF removed, added, modified
            <6> QED
              BY <4>1, <5>1, <6>1
          <5>2. CASE i \notin added \cup modified
            <6>1. /\ i \notin removed /\ i \in Slot /\ i \in previousTrackMask
                  /\ current.mGeneration[i] = generations[i]
              BY <5>2, <2>2
            <6>2. provider[i] = current.mBufferProvider[i]
              BY <6>1, <1>1 DEF Agree, Configured
            <6> HIDE DEF removed, added, modified
            <6> QED
              BY <4>1, <5>2, <6>1, <6>2
          <5> QED
            BY <5>1, <5>2
        <4> QED
          BY <4>2, <4>3
      <3> QED
        BY <3>1, <3>2
    <2>4. ASSUME NEW s, Agree(s, current) PROVE Agree(s, C')
      BY <2>1, <2>3, <2>4 DEF Agree, Configured
    <2>5. FastPart'
      BY <2>1, <2>3, <1>1 DEF UpToDate
    <2> QED
      BY <2>1, <2>4, <2>5, <1>1, <1>2, <1>4
  <1>17. CASE FastCheck
    <2>1. /\ UNCHANGED <<draft, latest, current, previousTrackMask, provider,
                         generations>>
          /\ fpc = "check" /\ fpc' = "process"
      BY <1>17 DEF FastCheck, queue
    <2>2. UpToDate
      BY <2>1, <1>1
    <2>3. enabled' \subseteq previousTrackMask'
      BY <1>17, <2>1, <2>2, <1>1 DEF FastCheck, UpToDate
    <2>4. C' = C /\ UpToDate'
      BY <2>1, <2>2 DEF Configured, UpToDate
    <2> QED
      BY <2>1, <2>3, <2>4, <1>1, <1>2
  <1>18. CASE FastProcess
    <2>1. /\ UNCHANGED <<draft, latest, current, previousTrackMask, provider,
                         generations, enabled>>
          /\ fpc = "process" /\ fpc' = "poll"
      BY <1>18 DEF FastProcess, queue
    <2>2. C' = C /\ UpToDate'
      BY <2>1, <1>1 DEF Configured, UpToDate
    <2> QED
      BY <2>1, <2>2, <1>1, <1>2
  <1> QED
    BY <1>7, <1>8, <1>9, <1>11, <1>13, <1>14, <1>15, <1>16, <1>17, <1>18,
       QuietOrTransfer DEF Quiet, Transfer, FastMixer

(* A fast mixer that is not warm has warmup cycles left, after every step. *)
LEMMA WarmNext == FastInv /\ [Next]_vars => WarmInv'
  <1> SUFFICES ASSUME FastInv, [Next]_vars PROVE WarmInv'
    OBVIOUS
  <1>0. /\ WarmInv /\ TypeOK
    BY DEF FastInv
  <1>1. CASE UNCHANGED <<isWarm, warmupCycles>>
    BY <1>0, <1>1 DEF WarmInv
  <1>2. CASE FastPoll
    <2>1. UNCHANGED <<isWarm, warmupCycles>> \/ warmupCycles' = 0
      BY <1>2 DEF FastPoll
    <2> QED
      BY <2>1, <1>1, Bounds DEF WarmInv
  <1>3. CASE FastProcess
    <2>1. \/ UNCHANGED <<isWarm, warmupCycles>>
          \/ isWarm' = TRUE
          \/ warmupCycles' < MAX_WARMUP_CYCLES
      BY <1>3 DEF FastProcess
    <2> QED
      BY <2>1, <1>1 DEF WarmInv
  <1>4. CASE FastConfigure \/ FastCheck
    BY <1>1, <1>4 DEF FastConfigure, FastCheck
  <1>5. CASE \E t \in Track : ClientStep(t)
    BY <1>0, <1>1, <1>5, ClientKeeps DEF ClientFrame, fast
  <1>6. CASE Transfer
    BY <1>1, <1>6 DEF Transfer, Create, PrepareTrack, Destroy, Finish, fast
  <1>7. CASE Suspend \/ Standby \/ Rest \/ SleepCycle \/ UNCHANGED vars
               \/ WriteMix \/ SkipWrite
    BY <1>1, <1>7 DEF Suspend, Standby, Rest, SleepCycle, vars, WriteMix,
       SkipWrite, fast
  <1>8. CASE StandbyPush \/ StandbyAcked \/ Wake \/ Prepare \/ PrepareEnd
               \/ Push \/ PushAcked \/ WriteBegin
    BY <1>1, <1>8 DEF StandbyPush, StandbyAcked, Wake, Prepare, PrepareEnd,
       Push, PushAcked, WriteBegin, fast
  <1> QED
    BY <1>2, <1>3, <1>4, <1>5, <1>6, <1>7, <1>8, QuietOrTransfer
    DEF Quiet, FastMixer

(* Every step keeps the types.                                             *)
LEMMA TypeNext == FastInv /\ [Next]_vars => TypeOK'
  <1> SUFFICES ASSUME FastInv, [Next]_vars PROVE TypeOK'
    OBVIOUS
  <1>0. TypeOK /\ CycleInv /\ SlotInv
    BY DEF FastInv
  <1> DEFINE TracksPart ==
               /\ tr \in [Track -> TrackRecord]
               /\ mActiveTracks \subseteq Track /\ mActive \subseteq Track
               /\ mFastTrackAvailMask \subseteq Slot
             CyclePart ==
               /\ mSuspended \in BOOLEAN /\ mStandby \in BOOLEAN
               /\ woken \in BOOLEAN
               /\ pc \in {"loop", "standbyPush", "standbyAck", "standing",
                          "asleep", "prepare", "push", "ack", "finish",
                          "ready", "idle", "writePush"}
               /\ todo \subseteq Track /\ tracksToRemove \subseteq Track
               /\ resetMask \subseteq Track
               /\ didModify \in BOOLEAN /\ fastTracks \in BOOLEAN
               /\ block \in {"BLOCK_UNTIL_PUSHED", "BLOCK_UNTIL_ACKED"}
             QueuePart ==
               /\ draft \in FastMixerState /\ latest \in FastMixerState
               /\ fresh \in BOOLEAN
             FastPart ==
               /\ current \in FastMixerState /\ previousTrackMask \subseteq Slot
               /\ changed \in BOOLEAN
               /\ generations \in [Slot -> Generation]
               /\ provider \in [Slot -> Track \cup {NULL}]
               /\ enabled \subseteq Slot
               /\ fpc \in {"poll", "configure", "check", "process"}
               /\ isWarm \in BOOLEAN /\ warmupCycles \in 0..MAX_WARMUP_CYCLES
             RecentPart ==
               recent \in [Slot -> SUBSET {"Full", "Partial", "Empty"}]
  <1>1. TracksPart /\ CyclePart /\ QueuePart /\ FastPart /\ RecentPart
    BY <1>0 DEF TypeOK
  <1>2. ASSUME TracksPart', CyclePart', QueuePart', FastPart', RecentPart'
        PROVE  TypeOK'
    BY <1>2 DEF TypeOK
  (* The parts that most steps leave alone.                                *)
  <1>3. UNCHANGED queue => QueuePart'
    BY <1>1 DEF queue
  <1>4. UNCHANGED fast => FastPart'
    BY <1>1 DEF fast
  <1>5. UNCHANGED recent => RecentPart'
    BY <1>1
  <1>6. UNCHANGED <<mSuspended, mStandby, woken, pc, cycle>> => CyclePart'
    BY <1>1 DEF cycle
  <1>7. Publish => QueuePart'
    BY <1>1 DEF Publish
  <1>8. TracksPart'
    <2>1. CASE Quiet
      BY <2>1, <1>0, <1>1, QuietKeeps DEF TracksKept, ActiveGrows
    <2>2. ASSUME NEW t \in Track,
                 Create(t) \/ (Destroy(t) /\ t \notin mActiveTracks)
          PROVE  TracksPart'
      <3>1. tr' \in [Track -> TrackRecord] /\ UNCHANGED mActiveTracks
        BY <2>2, CreateSteps, DestroySteps
      <3>2. mActive' \subseteq Track
        BY <2>2, <1>1 DEF Create, Destroy
      <3>3. tr[t].mState # NoTrack => tr[t].mFastIndex \in Slot
        BY <1>0 DEF SlotInv
      <3>4. mFastTrackAvailMask' \subseteq Slot
        BY <2>2, <3>3, <1>1 DEF Create, Destroy, Usable
      <3> QED
        BY <3>1, <3>2, <3>4, <1>1
    <2>3. ASSUME NEW t \in Track, PrepareTrack(t) PROVE TracksPart'
      BY <2>3, <1>1, PrepareSteps DEF PrepareTrack
    <2>4. CASE Finish
      BY <2>4, <1>1, FinishSteps DEF Finish
    <2> QED
      BY <2>1, <2>2, <2>3, <2>4, QuietOrTransfer DEF Transfer
  <1> HIDE DEF TracksPart
  (* One action at a time.                                                 *)
  <1>9. CASE \E t \in Track : ClientStep(t)
    <2>1. ClientFrame
      BY <1>0, <1>9, ClientKeeps
    <2>2. CyclePart'
      BY <2>1, <1>1 DEF ClientFrame, cycle
    <2> QED
      BY <2>1, <2>2, <1>2, <1>3, <1>4, <1>5, <1>8 DEF ClientFrame
  <1>10. CASE \E t \in Track : Create(t) \/ Destroy(t)
    <2>1. RecentPart'
      BY <1>1, <1>10 DEF Create, Destroy
    <2> QED
      BY <2>1, <1>2, <1>3, <1>4, <1>6, <1>8, <1>10 DEF Create, Destroy
  <1>11. CASE Suspend \/ UNCHANGED vars
    <2>1. CyclePart'
      BY <1>1, <1>11 DEF Suspend, vars, cycle
    <2> QED
      BY <2>1, <1>2, <1>3, <1>4, <1>5, <1>8, <1>11 DEF Suspend, vars
  <1>12. CASE Rest \/ Wake \/ SleepCycle \/ SkipWrite \/ PrepareEnd
                \/ StandbyAcked \/ PushAcked
    <2>1. CyclePart'
      BY <1>1, <1>12 DEF Rest, Wake, SleepCycle, SkipWrite, PrepareEnd,
         StandbyAcked, PushAcked, cycle
    <2> QED
      BY <2>1, <1>2, <1>3, <1>4, <1>5, <1>8, <1>12 DEF Rest, Wake, SleepCycle,
         SkipWrite, PrepareEnd, StandbyAcked, PushAcked
  <1>13. CASE Prepare \/ Finish
    <2>1. CyclePart'
      <3>1. mActiveTracks \subseteq Track
        BY <1>0 DEF TypeOK
      <3> QED
        BY <3>1, <1>1, <1>13 DEF Prepare, Finish
    <2> QED
      BY <2>1, <1>2, <1>3, <1>4, <1>5, <1>8, <1>13 DEF Prepare, Finish
  <1>14. CASE StandbyPush \/ Push \/ WriteMix
    <2>1. CyclePart'
      BY <1>1, <1>14 DEF StandbyPush, Push, WriteMix, cycle
    <2> QED
      BY <2>1, <1>2, <1>3, <1>4, <1>5, <1>7, <1>8, <1>14
      DEF StandbyPush, Push, WriteMix
  <1>15. CASE Standby \/ WriteBegin
    <2>1. CyclePart'
      BY <1>1, <1>15 DEF Standby, WriteBegin, cycle
    <2>2. QueuePart'
      <3>1. \A c \in {"COLD_IDLE", "MIX_WRITE"} :
              [draft EXCEPT !.mCommand = c] \in FastMixerState
        BY <1>1, CommandIs
      <3>2. /\ \/ draft' = draft
               \/ draft' = [draft EXCEPT !.mCommand = "COLD_IDLE"]
               \/ draft' = [draft EXCEPT !.mCommand = "MIX_WRITE"]
            /\ UNCHANGED <<latest, fresh>>
        BY <1>15 DEF Standby, WriteBegin
      <3> QED
        BY <3>1, <3>2, <1>1
    <2> QED
      BY <2>1, <2>2, <1>2, <1>4, <1>5, <1>8, <1>15 DEF Standby, WriteBegin
  <1>16. ASSUME NEW t \in Track, PrepareTrack(t) PROVE TypeOK'
    <2> DEFINE i == tr[t].mFastIndex
    <2>1. i \in Slot
      BY <1>16, PrepareSteps
    <2>2. CyclePart'
      BY <1>1, <1>16 DEF PrepareTrack
    <2>3. QueuePart'
      <3>1. Added(draft, i, t) \in FastMixerState
              /\ Removed(draft, i) \in FastMixerState
        BY <2>1, <1>1, AddedIs, RemovedIs DEF Renewed
      <3> QED
        BY <3>1, <1>1, <1>16 DEF PrepareTrack
    <2>4. RecentPart'
      BY <1>1, <1>16 DEF PrepareTrack
    <2> QED
      BY <2>2, <2>3, <2>4, <1>2, <1>4, <1>8, <1>16 DEF PrepareTrack
  <1>17. CASE FastPoll
    <2>1. CyclePart' /\ RecentPart'
      BY <1>5, <1>6, <1>17 DEF FastPoll
    <2>2. QueuePart'
      BY <1>1, <1>17 DEF FastPoll
    <2>3. current.mTrackMask \subseteq Slot /\ 0 \in 0..MAX_WARMUP_CYCLES
      BY <1>1, Bounds DEF FastMixerState
    <2>4. FastPart'
      BY <2>3, <1>1, <1>17 DEF FastPoll
    <2> QED
      BY <2>1, <2>2, <2>4, <1>2, <1>8
  <1>18. CASE FastConfigure
    <2>1. CyclePart' /\ QueuePart' /\ RecentPart'
      BY <1>3, <1>5, <1>6, <1>18 DEF FastConfigure
    <2>2. /\ current.mTrackMask \subseteq Slot
          /\ current.mBufferProvider \in [Slot -> Track \cup {NULL}]
          /\ current.mGeneration \in [Slot -> Generation]
      BY <1>1 DEF FastMixerState
    <2>3. /\ provider' \in [Slot -> Track \cup {NULL}]
          /\ generations' \in [Slot -> Generation] /\ enabled' \subseteq Slot
      <3>1. CASE ~changed
        BY <3>1, <1>1, <1>18 DEF FastConfigure
      <3>2. CASE changed
        <4> DEFINE mask == current.mTrackMask
                   removed == previousTrackMask \ mask
                   added == mask \ previousTrackMask
                   modified == {i \in mask \cap previousTrackMask :
                                  current.mGeneration[i] # generations[i]}
        <4>1. /\ provider' = [i \in Slot |->
                      CASE i \in removed -> NULL
                        [] i \in added \cup modified -> current.mBufferProvider[i]
                        [] OTHER -> provider[i]]
              /\ enabled' = (enabled \ removed) \cup added
              /\ generations' = [i \in Slot |->
                      IF i \in removed \cup added \cup modified
                      THEN current.mGeneration[i] ELSE generations[i]]
          BY <3>2, <1>18 DEF FastConfigure
        <4>2. enabled' \subseteq Slot
          BY <4>1, <2>2, <1>1
        <4>3. \A i \in removed : i \notin added \cup modified
          OBVIOUS
        <4> HIDE DEF removed, added, modified
        <4> QED
          BY <4>1, <4>2, <4>3, <2>2, <1>1
      <3> QED
        BY <3>1, <3>2
    <2>4. FastPart'
      BY <2>2, <2>3, <1>1, <1>18 DEF FastConfigure
    <2> QED
      BY <2>1, <2>4, <1>2, <1>8
  <1>19. CASE FastCheck
    <2> DEFINE seen == [i \in current.mTrackMask |->
                          Fullness(tr[current.mBufferProvider[i]].frames)]
    <2>1. CyclePart' /\ QueuePart'
      BY <1>3, <1>6, <1>19 DEF FastCheck
    <2>2. current.mTrackMask \subseteq Slot
      BY <1>1 DEF FastMixerState
    <2>3. \A i \in current.mTrackMask : seen[i] \in {"Full", "Partial", "Empty"}
      BY DEF Fullness
    <2>4. /\ \/ UNCHANGED <<recent, enabled>>
             \/ /\ recent' = [i \in Slot |-> IF i \in current.mTrackMask
                                 THEN recent[i] \cup {seen[i]} ELSE recent[i]]
                /\ enabled' = (enabled \ current.mTrackMask) \cup
                      {i \in current.mTrackMask : seen[i] # "Empty"}
          /\ fpc' = "process"
          /\ UNCHANGED <<current, previousTrackMask, changed, generations,
                         provider, isWarm, warmupCycles>>
      BY <1>19 DEF FastCheck
    <2> HIDE DEF seen
    <2>5. RecentPart'
      BY <2>2, <2>3, <2>4, <1>1
    <2>6. FastPart'
      BY <2>2, <2>4, <1>1
    <2> QED
      BY <2>1, <2>5, <2>6, <1>2, <1>8
  <1>20. CASE FastProcess
    <2>1. CyclePart' /\ QueuePart' /\ RecentPart'
      BY <1>3, <1>5, <1>6, <1>20 DEF FastProcess
    <2>2. isWarm' \in BOOLEAN /\ warmupCycles' \in 0..MAX_WARMUP_CYCLES
      <3>1. isWarm \/ warmupCycles < MAX_WARMUP_CYCLES
        BY DEF FastInv, WarmInv
      <3>2. \/ UNCHANGED <<isWarm, warmupCycles>>
            \/ ~isWarm /\ warmupCycles' = warmupCycles + 1
                 /\ isWarm' \in BOOLEAN
        BY <1>20 DEF FastProcess
      <3> QED
        BY <3>1, <3>2, <1>1, Bounds
    <2>3. FastPart'
      BY <2>2, <1>1, <1>20 DEF FastProcess
    <2> QED
      BY <2>1, <2>3, <1>2, <1>8
  <1> QED
    BY <1>9, <1>10, <1>11, <1>12, <1>13, <1>14, <1>15, <1>16, <1>17, <1>18,
       <1>19, <1>20, QuietOrTransfer DEF Quiet, Transfer, FastMixer

(* The invariant holds before the first track.                             *)
LEMMA FastInvInit == Init => FastInv
  <1> SUFFICES ASSUME Init PROVE FastInv
    OBVIOUS
  <1>1. /\ InitialState \in FastMixerState /\ FirstState \in FastMixerState
        /\ InitialState.mTrackMask = {} /\ FirstState.mTrackMask = {}
        /\ FirstState.mCommand = "COLD_IDLE"
        /\ InitialState.mCommand = "INITIAL"
    BY DEF InitialState, FirstState, FastMixerState, Generation
  <1>2. tr \in [Track -> TrackRecord] /\ \A t \in Track : tr[t].mState = NoTrack
    BY GoneIs DEF Init
  <1>3. TypeOK
    <2>1. [i \in Slot |-> 0] \in [Slot -> Generation]
      BY DEF Generation
    <2>2. [i \in Slot |-> NULL] \in [Slot -> Track \cup {NULL}]
      OBVIOUS
    <2>3. [i \in Slot |-> {}] \in [Slot -> SUBSET {"Full", "Partial", "Empty"}]
      OBVIOUS
    <2>4. 0 \in 0..MAX_WARMUP_CYCLES
      BY Bounds
    <2> QED
      BY <1>1, <1>2, <2>1, <2>2, <2>3, <2>4 DEF Init, TypeOK
  <1>4. CycleInv
    BY DEF Init, CycleInv
  <1>5. SlotInv /\ RetryInv
    BY <1>2 DEF Init, SlotInv, RetryInv
  <1>6. QueueInv
    BY <1>1 DEF Init, QueueInv, Held, Extends
  <1>7. GenerationInv
    BY <1>1 DEF Init, GenerationInv, Agree, UpToDate, Configured
  <1>8. WarmInv
    BY Bounds DEF Init, WarmInv
  <1> QED
    BY <1>3, <1>4, <1>5, <1>6, <1>7, <1>8 DEF FastInv

(* Every step keeps the whole invariant.                                   *)
LEMMA FastInvNext == FastInv /\ [Next]_vars => FastInv'
  BY TypeNext, CycleNext, SlotNext, QueueNext, GenerationNext, WarmNext
  DEF FastInv

(* The invariant holds in every reachable state.                           *)
LEMMA FastInvAlways == Safety => []FastInv
  BY FastInvInit, FastInvNext, PTL DEF Safety

-----------------------------------------------------------------------------
(* Type correctness of the normal mixer, the fast mixer and what they      *)
(* share (Threads.cpp, FastMixer.cpp).                                     *)
THEOREM FastTypeCorrect == Safety => []TypeOK
  <1>1. FastInv => TypeOK
    BY DEF FastInv
  <1> QED
    BY <1>1, FastInvAlways, PTL

(* The fast mixer checks and reads only tracks that exist and own their    *)
(* slots, and its AudioMixer is set up for the state it works from         *)
(* (FastMixer::threadLoop): a track leaves mActiveTracks only after a      *)
(* state without it has been acknowledged, and a slot that is handed to    *)
(* another track has another generation, also across an idle time.         *)
THEOREM FastMixerSafe == Safety => []FastMixerReadsLiveTracks
  <1>1. FastInv => FastMixerReadsLiveTracks
    <2> SUFFICES ASSUME FastInv PROVE FastMixerReadsLiveTracks
      OBVIOUS
    <2>1. ASSUME NEW i \in current.mTrackMask
          PROVE  LET t == current.mBufferProvider[i]
                 IN  t # NULL /\ tr[t].mState # NoTrack /\ tr[t].mFastIndex = i
      <3>1. /\ current.mBufferProvider[i] \in mActiveTracks
            /\ tr[current.mBufferProvider[i]].mFastIndex = i
        BY DEF FastInv, QueueInv, Held
      <3>2. \A t \in mActiveTracks : t \in Track /\ tr[t].mState # NoTrack
        BY DEF FastInv, TypeOK, SlotInv
      <3> QED
        BY <3>1, <3>2, Bounds
    <2>2. fpc = "process" => /\ enabled \subseteq current.mTrackMask
                             /\ \A i \in current.mTrackMask :
                                  provider[i] = current.mBufferProvider[i]
      BY DEF FastInv, GenerationInv, UpToDate
    <2> QED
      BY <2>1, <2>2 DEF FastMixerReadsLiveTracks
  <1> QED
    BY <1>1, FastInvAlways, PTL

(* A slot in mFastTrackAvailMask is in no state of the queue whenever a    *)
(* client could be given it (createTrack_l, removeTrack_l).                *)
THEOREM FastSlotsApart == Safety => []FreeSlotIsUnused
  <1>1. FastInv => FreeSlotIsUnused
    <2> SUFFICES ASSUME FastInv PROVE FreeSlotIsUnused
      OBVIOUS
    <2>1. ASSUME NEW s, Held(s), NEW i \in s.mTrackMask
          PROVE  i \notin mFastTrackAvailMask
      <3>1. /\ s.mBufferProvider[i] \in mActiveTracks
            /\ tr[s.mBufferProvider[i]].mFastIndex = i
        BY <2>1 DEF Held
      <3>2. \A t \in mActiveTracks : t \in Track /\ tr[t].mState # NoTrack
        BY DEF FastInv, TypeOK, SlotInv
      <3> QED
        BY <3>1, <3>2 DEF FastInv, SlotInv
    <2>2. Held(draft) /\ Held(latest) /\ Held(current)
      BY DEF FastInv, QueueInv
    <2> QED
      BY <2>1, <2>2 DEF FreeSlotIsUnused
  <1> QED
    BY <1>1, FastInvAlways, PTL

-----------------------------------------------------------------------------
(* Only the fast mixer takes frames from a track it works from.            *)

(* Reset and the start of a track, as far as the frames are concerned.     *)
LEMMA StartFrames ==
    ASSUME tr \in [Track -> TrackRecord], NEW t \in Track,
           NEW r \in TrackRecord, r.frames >= tr[t].frames, TrackStart(t, r)
    PROVE  \A u \in Track : tr'[u].frames >= tr[u].frames
  <1>1. ASSUME NEW u \in Track PROVE tr[u].frames >= tr[u].frames
    <2>1. tr[u].frames \in Int
      BY Bounds DEF TrackRecord
    <2> QED
      BY <2>1
  <1> DEFINE q == [r EXCEPT
                 !.mState = IF @ = "PAUSED" THEN "RESUMING" ELSE "ACTIVE",
                 !.mRetryCount = kMaxTrackStartupRetries,
                 !.mResetDone = @ /\ t \in mActiveTracks,
                 !.left = IF t \in mActiveTracks THEN @ ELSE NotMonitoring]
  <1>2. tr' = [tr EXCEPT ![t] = q]
    BY DEF TrackStart
  <1>3. q.frames = r.frames
    BY DEF TrackRecord
  <1> HIDE DEF q
  <1> QED
    BY <1>1, <1>2, <1>3

(* No call of a client takes frames from an active track.                  *)
LEMMA ClientFrames ==
    ASSUME FastInv, NEW t \in Track, ClientStep(t), NEW u \in mActiveTracks
    PROVE  tr'[u].frames >= tr[u].frames
  <1>0. /\ tr \in [Track -> TrackRecord] /\ tr[t] \in TrackRecord
        /\ u \in Track /\ tr[u].frames \in Int /\ tr[t].frames \in Int
    BY Bounds DEF FastInv, TypeOK, TrackRecord
  <1>1. tr[u].frames >= tr[u].frames /\ tr[t].frames >= tr[t].frames
    BY <1>0
  <1>2. ASSUME NEW r, tr' = [tr EXCEPT ![t] = r],
               t \in mActiveTracks => r.frames >= tr[t].frames
        PROVE  tr'[u].frames >= tr[u].frames
    BY <1>0, <1>1, <1>2
  <1>3. \A m : [tr[t] EXCEPT !.mState = m].frames = tr[t].frames
    BY <1>0 DEF TrackRecord
  <1>4. CASE Start(t)
    <2>1. /\ [tr[t] EXCEPT !.disabled = FALSE] \in TrackRecord
          /\ [tr[t] EXCEPT !.disabled = FALSE].frames = tr[t].frames
      BY <1>0 DEF TrackRecord
    <2>2. TrackStart(t, [tr[t] EXCEPT !.disabled = FALSE])
      BY <1>4 DEF Start
    <2> QED
      BY <2>1, <2>2, <1>0, <1>1, StartFrames
  <1>5. CASE Stop(t)
    <2>1. \E r : tr' = [tr EXCEPT ![t] = r]
                   /\ (t \in mActiveTracks => r.frames = tr[t].frames)
      BY <1>3, <1>5 DEF Stop, Change
    <2> QED
      BY <2>1, <1>1, <1>2
  <1>6. CASE Pause(t)
    <2>1. \E m : tr' = [tr EXCEPT ![t] = [tr[t] EXCEPT !.mState = m]]
      BY <1>6 DEF Pause, Change
    <2> QED
      BY <2>1, <1>1, <1>2, <1>3
  <1>7. CASE Flush(t)
    <2>1. \E r : tr' = [tr EXCEPT ![t] = r]
                   /\ (t \in mActiveTracks => r.frames = tr[t].frames)
      BY <1>3, <1>7 DEF Flush, Change
    <2> QED
      BY <2>1, <1>1, <1>2
  <1>8. CASE WriteTimeout(t)
    BY <1>0, <1>1, <1>8, StartFrames DEF WriteTimeout
  <1>9. ASSUME NEW n \in WriteSizes, Write(t, n)
        PROVE  tr'[u].frames >= tr[u].frames
    <2> DEFINE k == tr[t].frames + n
               r == [tr[t] EXCEPT !.frames = k]
    <2>1. k \in 0..mFrameCount /\ k >= tr[t].frames
      BY <1>0, <1>9, Bounds DEF Write, TrackRecord
    <2>2. /\ \/ TrackStart(t, [r EXCEPT !.disabled = FALSE])
             \/ tr' = [tr EXCEPT ![t] = r]
      BY <1>9 DEF Write
    <2> HIDE DEF k
    <2>3. /\ r.frames = k /\ [r EXCEPT !.disabled = FALSE] \in TrackRecord
          /\ [r EXCEPT !.disabled = FALSE].frames = k
      BY <2>1, <1>0 DEF TrackRecord
    <2> HIDE DEF r
    <2> QED
      BY <2>1, <2>2, <2>3, <1>0, <1>2, StartFrames
  <1>10. CASE Destroy(t) /\ t \in mActiveTracks
    <2>1. tr' = [tr EXCEPT ![t] = [tr[t] EXCEPT !.mState = "TERMINATED"]]
      BY <1>0, <1>10 DEF Destroy
    <2> QED
      BY <2>1, <1>1, <1>2, <1>3
  <1> QED
    BY <1>4, <1>5, <1>6, <1>7, <1>8, <1>9, <1>10 DEF ClientStep

(* Nobody but the fast mixer takes frames from a track in its state.       *)
LEMMA FramesStay ==
    ASSUME FastInv, [Next]_vars, NEW i \in current.mTrackMask, fpc # "process"
    PROVE  tr'[current.mBufferProvider[i]].frames
             >= tr[current.mBufferProvider[i]].frames
  <1> DEFINE u == current.mBufferProvider[i]
  <1>0. /\ tr \in [Track -> TrackRecord] /\ u \in mActiveTracks /\ u \in Track
        /\ tr[u].mFastIndex = i
    BY DEF FastInv, TypeOK, QueueInv, Held
  <1> SUFFICES tr'[u].frames >= tr[u].frames
    OBVIOUS
  <1> HIDE DEF u
  <1>1. tr[u].frames >= tr[u].frames
    <2>1. tr[u].frames \in Int
      BY <1>0, Bounds DEF TrackRecord
    <2> QED
      BY <2>1
  <1>2. ASSUME tr'[u] = tr[u] PROVE tr'[u].frames >= tr[u].frames
    BY <1>1, <1>2
  <1>3. ASSUME NEW t \in Track, ClientStep(t) PROVE tr'[u].frames >= tr[u].frames
    BY <1>0, <1>3, ClientFrames
  <1>4. ASSUME NEW t \in Track,
               Create(t) \/ (Destroy(t) /\ t \notin mActiveTracks)
        PROVE  tr'[u].frames >= tr[u].frames
    <2>1. u # t
      BY <1>0, <1>4, CreateSteps
    <2>2. tr'[u] = tr[u]
      BY <2>1, <1>0, <1>4, CreateSteps, DestroySteps
    <2> QED
      BY <2>2, <1>2
  <1>5. ASSUME NEW t \in Track, PrepareTrack(t)
        PROVE  tr'[u].frames >= tr[u].frames
    <2>1. tr'[u].frames = tr[u].frames
      BY <1>0, <1>5, PrepareSteps
    <2> QED
      BY <2>1, <1>1
  <1>6. CASE Finish
    <2>1. i \in draft.mTrackMask
      <3>1. pc = "finish"
        BY <1>6 DEF Finish
      <3> QED
        BY <3>1 DEF FastInv, QueueInv, Extends
    <2>2. u \notin tracksToRemove
      BY <2>1, <1>0 DEF FastInv, QueueInv
    <2>3. tr'[u] = tr[u]
      BY <2>2, <1>0, <1>6, FinishSteps
    <2> QED
      BY <2>3, <1>2
  <1>7. CASE WriteMix \/ SkipWrite
    <2>1. tr'[u] = AfterWrite(tr[u])
      BY <1>0, <1>7 DEF WriteMix, SkipWrite
    <2>2. AfterWrite(tr[u]).frames = tr[u].frames
      BY <1>0 DEF AfterWrite, TrackRecord
    <2> QED
      BY <2>1, <2>2, <1>1
  <1>8. CASE FastMixer
    BY <1>2, <1>8 DEF FastMixer, FastPoll, FastConfigure, FastCheck,
       FastProcess, clients
  <1>9. CASE StandbyPush \/ StandbyAcked \/ Wake \/ Prepare \/ PrepareEnd
               \/ Push \/ PushAcked \/ WriteBegin
    BY <1>2, <1>9 DEF StandbyPush, StandbyAcked, Wake, Prepare, PrepareEnd,
       Push, PushAcked, WriteBegin, clients
  <1>10. CASE Standby \/ Rest \/ SleepCycle \/ Suspend \/ UNCHANGED vars
    BY <1>2, <1>10 DEF Standby, Rest, SleepCycle, Suspend, vars, clients
  <1> QED
    BY <1>3, <1>4, <1>5, <1>6, <1>7, <1>8, <1>9, <1>10, QuietOrTransfer
    DEF Quiet, Transfer

(* No stop, flush, destruction or deferred reset empties the buffer of a   *)
(* track that the fast mixer works from (Track::reset, prepareTracks_l):   *)
(* the frames of such a track only become fewer when the fast mixer reads  *)
(* them.                                                                   *)
THEOREM FastResetDeferred == Safety => NoResetWhileFastMixing
  <1> DEFINE Step ==
        \A i \in current.mTrackMask :
          current.mCommand = "MIX_WRITE" =>
            LET t == current.mBufferProvider[i]
            IN  tr'[t].frames < tr[t].frames => fpc = "process"
  <1>1. FastInv /\ TypeOK' /\ [Next]_vars => [Step]_vars
    <2> SUFFICES ASSUME FastInv, TypeOK', [Next]_vars,
                        NEW i \in current.mTrackMask, fpc # "process"
                 PROVE  ~(tr'[current.mBufferProvider[i]].frames
                            < tr[current.mBufferProvider[i]].frames)
      OBVIOUS
    <2> DEFINE u == current.mBufferProvider[i]
    <2>1. tr'[u].frames >= tr[u].frames
      BY FramesStay
    <2>2. u \in Track
      BY DEF FastInv, TypeOK, QueueInv, Held
    <2> HIDE DEF u
    <2>3. tr[u] \in TrackRecord /\ tr'[u] \in TrackRecord
      BY <2>2 DEF FastInv, TypeOK
    <2>4. tr[u].frames \in Int /\ tr'[u].frames \in Int
      BY <2>3, Bounds DEF TrackRecord
    <2>5. ~(tr'[u].frames < tr[u].frames)
      BY <2>1, <2>4
    <2> QED
      BY <2>5 DEF u
  <1>2. FastInv => TypeOK
    BY DEF FastInv
  <1> HIDE DEF Step
  <1>3. Safety => [][Step]_vars
    BY <1>1, <1>2, FastInvAlways, PTL DEF Safety
  <1> QED
    BY <1>3 DEF Step, NoResetWhileFastMixing
=============================================================================
