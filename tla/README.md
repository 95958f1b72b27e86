# Verification of the Android audio stack port

The repository ports Android's audio server (AudioFlinger), its client library
(libmedia), its non-blocking audio I/O library (libnbaio) and the binder IPC
they run on to plain Linux. This directory holds TLA+ models of the parts whose
correctness rests on interleavings, ring arithmetic and life cycles, the TLC
configurations that check small instances of them, and TLAPS proofs about all of
them for instances of any size.

`PROJECT.json` lists the components, runs, mutants, the source lines behind every
definition, the findings and the hazards. Paths below are relative to `src/`.

## 1. Inventory

### How a frame gets from a client to the output

```
 AudioTrack (client process)          AudioFlinger (server)
 ---------------------------          -------------------------------------------
 write()/callback                     MixerThread ("normal mixer")
   obtainBuffer  ---- cblk + -----      prepareTracks_l   under mLock
   copy          ---- buffer ----->     threadLoop_mix    outside mLock
   releaseBuffer  (AudioTrackShared)    threadLoop_write
 start stop pause flush                     |  MonoPipe (slot 0)      | state queue
   ---- binder calls, take mLock            v                         v
                                      FastMixer ("fast mixer", never takes a lock)
                                        polls the state queue, reads MonoPipe and the
                                        fast tracks' control blocks, writes the HAL
```

| component | state | operations | what is hard |
|---|---|---|---|
| control block, `libs/libmedia/AudioTrackShared.cpp` | user, server, their bases, loop points, flags, a lock and a condition | stepUser, stepServer, framesAvailable, framesReady | shared between processes; wrapping counters that are no multiple of the buffer; the server only *tries* the lock |
| AudioTrack, `libs/libmedia/AudioTrack.cpp` | mActive, mLock, remaining frames | write, obtainBuffer, releaseBuffer, start, stop, pause, flush, set/get position and loop, restoreTrack_l | two locks given up and retaken during a wait; signals without the lock; server death |
| Track, `libs/audioflinger/Tracks.cpp` | mState, mFillingUpStatus, mRetryCount, mResetDone, presentation monitor, fast index | start, stop, pause, flush, reset, destroy | a client call falls between two cycles of the mixer |
| MixerThread, `libs/audioflinger/Threads.cpp` | mTracks, mActiveTracks, the AudioMixer's enabled set, standby | createTrack_l, addTrack_l, prepareTracks_l, mix, write, sleep, standby, checkForNewParameters_l | decides on frame counts that clients change meanwhile; mixes outside mLock |
| FastMixer, `libs/audioflinger/FastMixer.cpp` | current and previous state, per-slot generation, warmup, underrun counters | threadLoop | lock-free; keeps pointers to tracks that another thread frees |
| StateQueue, `libs/audioflinger/StateQueue.cpp` | a ring of states, mNext, mAck | begin, end, push; poll | which slot may be written, when something may be freed |
| MonoPipe, `libs/libnbaio/MonoPipe*.cpp` | ring, mFront, mRear, last read timestamp under a sequence lock | write, read, getNextWriteTimestamp, shutdown | lock-free; counters wrap; two words observed as one |
| TimedTrack, `libs/audioflinger/Tracks.cpp` | queue of timestamped buffers, pending-frame count, head in flight | queueTimedBuffer, trim, getNextBuffer, releaseBuffer | trimming while the mixer holds the head |
| RecordThread, `libs/audioflinger/Threads.cpp`; AudioRecord | mActiveTrack, mStartStopCond, input buffer index; mActive | start, stop, destroy, threadLoop; the input direction of the control block | mLock dropped in start(); the loop uses mActiveTrack without it; one condition for two kinds of waiters |
| DirectOutputThread, DuplicatingThread | as MixerThread; output tracks and overflow queues | prepareTracks_l, OutputTrack::write | one thread writes to tracks of others |
| parameter hand-shake, `libs/audioflinger/Threads.cpp` | mNewParameters, mParamStatus | setParameters, checkForNewParameters_l | one status cell, two conditions with timeouts, a caller that holds AudioFlinger::mLock |
| Effects, `libs/audioflinger/Effects.cpp` | chains, module states, handles | create, enable, process, remove | chain lock against thread lock |
| AudioCommandThread, `libs/audioflinger/AudioPolicyService.cpp` | mAudioCommands, mLock, a condition per command | volume, parameter, voice volume and tone commands, insertCommand_l, threadLoop, exit | delayed commands merged by later ones; commands deleted while their caller reads them; exit |
| AudioFlinger, AudioPolicyService, AudioOutputManager | registries of threads, clients, sessions | open/close, routing | |
| AudioMixer and resamplers | per-track DSP state | setParameter, process | arithmetic, no concurrency |
| Pipe, SingleStateQueue, NBLog, AudioWatchdog | small lock-free cells for diagnostics | | lossy by design |
| SoundPool, ToneGenerator, media player | players on top of AudioTrack | | one loader queue |
| binder, RefBase, MemoryDealer, common_time | imported from Android / Linux | | taken as working |
| stagefright, effects libraries, codecs, Bellagio | imported | | not this program's logic |

What makes the core correct: no thread reads memory that another has freed, reused
or is writing; every frame written is played once and in order; a track that its
client has started is either being looked at or will be restarted by its client;
every wait ends; tracks that are destroyed or ended leave.

In this port `ALOG_ASSERT`, `LOG_FATAL` and `LOG_ALWAYS_FATAL` expand to nothing
(`include/cutils/log.h`), so an assertion is a statement about the code that is
never enforced. The models go on after a failed one as the program does.

## 2. Modules

| module | stands for | status |
|---|---|---|
| `StateMailbox` | abstract: a one-place mailbox with a private draft | reference |
| `StateQueue`, `MCStateQueue`, `StateQueueProofs` | `StateQueue.cpp` | checked, proved |
| `FrameFifo` | abstract: a bounded queue of frames | reference |
| `MonoPipe`, `MonoPipeProofs` | `MonoPipe.cpp`, `MonoPipeReader.cpp` | checked, proved |
| `AudioTrackShared` | `audio_track_cblk_t` as operators on a record | checked and proved through the next |
| `AudioTrackStream`, `AudioTrackStreamProofs` | client write path, server read path, start(), stop(), pause(), flush() and the server's reset() over one control block | checked, proved |
| `MixerTracks`, `MixerTracksProofs` | life of normal tracks on a MixerThread | checked, proved |
| `FastTracks`, `MCFastTracks`, `FastTracksProofs` | normal mixer and fast mixer sharing fast tracks | checked, proved |
| `TimedTrack`, `TimedTrackProofs` | the timed buffer queue between its client and the mixer | checked, proved |
| `RecordThread`, `RecordThreadProofs` | record loop, record tracks, setParameters() and exit() | checked, proved |
| `AudioCommandThread`, `MCAudioCommand`, `AudioCommandProofs` | command threads of the audio policy service | checked, proved |

`FastTracks` uses the state queue in the form of `StateMailbox`, which `StateQueue`
is shown to implement: `draft`, `latest`, `fresh` and `current` are the mailbox's
draft, latest, fresh and observed. `MonoPipe` implements `FrameFifo`, and
`AudioTrackStream` does except where a reset() intervenes (section 4).
`MixerTracks` and `FastTracks` keep of the control block the number of
buffered frames and CBLK_DISABLED only; the index arithmetic that justifies it is
the subject of `AudioTrackStream`.

### StateQueue

Every access to `mNext` and `mAck` is a step. `Begin`, `Modify`, `End` and the steps
of `push()` belong to the mutator (the normal mixer); `PollLoad` and `PollAck` to
the observer. `previous` is the fast mixer's own copy of the former pointer. The
refinement maps the slot `mMutating` names to the mailbox's draft, and the contents
of `mNext` and `mCurrent` to latest and observed.

### MonoPipe

`write()` is split into the load of the free space, one step per memcpy, and the
store of `mRear`; `read()` likewise; the update and the observation of
(`mFront`, `mNextRdPTS`) have one step per word. Frames are named by their stream
position, so that a lost, repeated or overwritten one shows. The sequence counter
wraps at `SeqMod`, at least 2, and one observation is not lapped by that many
updates (2^31 in the code). Sleeps are stutters, and the conversion of timestamps between local time and frames is one frame per
tick.

### AudioTrackShared and AudioTrackStream

The control block is a record of wrapping counters and its methods are operators.
A writer thread runs `obtainBuffer()` (enter, take the control block's lock, compute
the space, sleep, wake, time out), copies and releases; the mixer takes a block, mixes
it and steps the server, or fails to get the lock and owes the step. The lock is not
held across the mixer's step: its own critical section is one action, and "owed"
covers every way in which `tryLock` gives up.

Another client thread calls start(), stop(), pause() and flush(), each with the binder
call it makes: `StartTrack` is `Track::start()` with `addTrack_l()`, `EndTo` is
`Track::stop()` or `Track::flush()`. `listed` says whether the mixer has the track in
mActiveTracks. `Track::reset()` (`ResetTo`) puts user, server and both bases back to 0
and forgets an owed step; it runs at once in stop() or flush() of a track that is not
listed, and otherwise in the mixer thread (`EndStopped`, `ResetTrack`) when the stopped
or flushed track is found empty. None of this takes the control block's lock:

* In stop() and flush() the caller holds the client's mLock, as obtainBuffer() and
  releaseBuffer() do, so the reset falls between them, possibly under a region that
  was granted before and is released after.
* In the mixer thread it may also fall into the middle of obtainBuffer() or stepUser(),
  between two reads or stores of the indexes. `ResetRaced` is that case: the outcome is
  any mixture of the old and the new indexes, and the behaviour is not followed further
  (`raced`). Every property excepts it.

`prepareTracks_l()` also drops a track on underrun (`PrepareShort`, `DropTrack`, with
CBLK_DISABLED set, upon a count that may be stale) or when it is paused (`EndPaused`);
releaseBuffer() and a time-out start it again. PAUSED stands for PAUSING too and ACTIVE
for RESUMING, and how often an underrun is tolerated is left open. Loops and
positions set by an application, static buffers and a control block replaced after the
server's death are not in this module.

### MixerTracks

One action per client call (each runs under mLock), one per phase of the mixer
thread, and inside `prepareTracks_l()` a separate step that reads the frame count,
because clients write without mLock: `PrepareRead` and `PrepareTrack` are the read
and the use. `left` is `mPresentationCompleteFrames` less the frames written so
far. `mResetDone`, which the constructor leaves uninitialized, starts with either
value. HAL writes succeed. A client that finds its buffer full may wait for space
(`WriteBlocks`); its wait times out (`WriteTimeout`) and obtainBuffer() then starts the
track again (`WriteRestart`) or finds it stopped (`WriteStopped`).

### FastTracks

Normal mixer: clients' calls, `prepareTracks_l()` track by track, the push of the
new state with or without waiting for its acknowledgement, deferred resets,
removals, write, standby and suspension. Fast mixer: poll, configure (compare
generations, set buffer providers), underrun check, mix, with the warmup cycles
after an idle time.

* A slot's generation counter is compared for equality only, so an increment is "a
  value that no state in flight has"; four values are enough for draft, latest,
  current and the mixer's own copy. That this holds for 32-bit counters needs fewer
  than 2^32 changes between two polls.
* `mFastTracksGen` and `mColdGen` follow from the other fields and are not kept.
* The underrun counters are 10-bit fields of which the normal mixer takes
  differences; they are kept as the set of counters that moved, which is the same as
  long as fewer than 2^10 fast cycles pass between two calls of `prepareTracks_l()`.
* The records of removed tracks are brought to one canonical form.

### TimedTrack

The client allocates (which trims), queues and sets the transform from media time to
local or common time; the mixer calls getNextBuffer() and releaseBuffer() in turn.
Each holds `mTimedBufferQueueLock`; getNextBuffer() goes round its loop and takes
`mMediaTimeTransformLock` anew in each round, so a round is an action and the
transform, the clock and the availability of common time may change between two.
Ticks and frames have the same length, so scale factors are 1; a pause (denominator
0), an offset, and the overflow of a transform remain. `RemoveItemsAt` is
`Vector::removeItemsAt()`, which takes a count and refuses to pass the end.

### RecordThread

Three kinds of threads share mLock: the loop, one caller per record track (AudioRecord
holds its own lock across start() and stop(), so there is one call at a time on a
track) and callers of `AudioFlinger::setParameters()`; closeInput() is a fourth.
`call`, `setter` and `pc` say where each is; a step is a stretch under mLock, a read
of shared state without it, or a call on the policy service. Waiting and being
signalled are separate, so a woken thread competes for mLock with the others.
`inputs` counts startInput() less stopInput() as the policy service sees them.
`crashed` stops the model where the code dereferences a NULL mActiveTrack.
`afLock` is the owner of `AudioFlinger::mLock` while it waits, which happens when a
routing change is forwarded to the record threads. A parameter either reconfigures
the input or does not; `reconfig` is the flag of checkForNewParameters_l(), which stays
set for the later commands of the same call, each of which then queues a configuration
event if the driver accepts it. Which status a caller is given is not in the model
(section 5). `refused` (the loop has refused a start) is history and only read by a
property.

### AudioCommandThread

The queue holds records of a kind, a handle and the keys that are set: a volume sets
one stream, parameters any keys, tones and voice volumes none, which is what the
code's data classes allow and the assumption on `Request` says. `Filtered` names the
places of the commands that are kept in ascending order, so that the prover can follow
it. A time stamp is
kept as the time left, clipped at 0: insertCommand_l() compares it with a time that is
not past, threadLoop() with the time now, and both answers are the same. So there is
no bound on time, and liveness is about endless runs. `pc = "run"` is the only state
in which the thread keeps mLock between two steps; nobody else moves then.
`newest` is a ghost: the keys for which a queued command is the last one asked for.
`deleted` names callers whose command was deleted by the time-out before they read
its status; they go on reading, as the code does. The service's destructor is the
only caller of exit(), so no call is in progress then. Tones go to an instance of
their own in the code; here one instance takes all kinds, which allows more.

All modules assume sequentially consistent memory. The code uses acquire and release
accesses (`android_atomic_*`) at the places where a step of a model publishes
something; plain fields read across threads (CBLK flags excepted, which are atomic)
are taken as atomic words.

## 3. Runs

| run | instance | states | checks |
|---|---|---|---|
| `state_queue` | 4 slots (the code's `kN`), 3 states | 63k | TypeOK, SlotExclusion, AckedMeansCurrent, StableWhileRead, PushReturns, ImplementsMailbox |
| `mono_pipe` | 4 frames, counters mod 8, calls of up to 2 frames, timestamps on | 969k | NeverOverrun, ImplementsFifo, ShutdownUnblocks, ObservesOneRead, TimestampCountsPending |
| `audio_track_stream` | 6 frames, counters mod 16, 10 frames written, four kinds of caller | 606k | RegionsApart, PlaysWhatWasWritten, NoLostWakeup, StopReleasesWriter |
| `mixer_track` | 1 track of 4 frames, mix buffer 2, output latency 3 | 46k | MixerReadsLiveTracks, DroppedTrackIsDisabled, StopDrains, NoResetWhileMixing, FullTrackPlays, EndingTrackLeaves |
| `fast_tracks` | 2 tracks, 1 slot, warmup 1 to 2 cycles | 1.28M | FastMixerReadsLiveTracks, FreeSlotIsUnused, NoResetWhileFastMixing |
| `fast_tracks_end` | 1 track, 1 slot | 322k | DestroyedTrackIsRemoved, StoppedTrackLeaves |
| `timed_track` | 3 buffers of 3 frames, 3 ticks, pausing, shifting and overflowing transforms | 1.22M | HeadInFlightStays, PendingCountsSkipped, PlaysForward |
| `record_thread` | 2 tracks (one with the wrong channel count), 1 setter | 244k | ActiveTrackStays, InputBalanced, NobodyWaitsForSleeper, StartStopReturn, ExitCompletes, AudioFlingerUnlocked |
| `audio_command` | 2 callers, 3 pending commands, delays 0 to 2, 6 requests | 196k | NewestLast, WaiterIsQueued, StatusIsThere, CallReturns, NotPutOff |

Every module has a type invariant, `TypeOK`, which is proved.

Three further runs show disagreements, see section 5.

### Why these bounds

* `state_queue` has the code's own ring. Three states tell a stale slot from a
  current and a next one.
* `mono_pipe`: four frames with calls of two let a call be split at the end of the
  buffer and be cut by the free space; the counters wrap after two rounds, so both
  wrap-arounds (index and counter) happen together and apart. One valid timestamp
  and the invalid one are enough, since the code only carries them along.
* `audio_track_stream`: 16 is no multiple of 6, so bases are not multiples of the
  buffer after the wrap, as with 2^32. The stream starts at 8: 10 frames from there
  cross the wrap, and after a reset() it goes on from 0. Requests of 2, 4 and 8 are
  less than, no divisor of, and more than the buffer. All positions are even, so none is `UINT_MAX`, where
  the code starts a loop nobody has set (section 5).
* `mixer_track`: the buffer is two mix buffers, writes are one or two frames, so
  there are underruns with and without a rest. Retry counts of 2 stand for the
  code's 50: what counts is that they reach zero in some runs and are renewed in
  others. The theorems hold for any number of tracks, so one is enough here.
* `fast_tracks`: two tracks that compete for one slot is the smallest case in which a
  slot changes hands while a state that names it is in flight; tracks are symmetric.
  Liveness is left to the smaller instance `fast_tracks_end`, without symmetry.
* `timed_track`: a head in flight with two more buffers behind it, all due, is what
  trimming needs to go wrong; times before, at and after the mixer's position make a
  head late, on time and early.
* `record_thread`: two tracks let one take the input while another is between its
  refusal and its wake-up. One parameter change meets every stretch of the loop;
  that any number of them may overlap and time out is the theorem's part (two setters,
  and one with two calls, were checked without the liveness properties). `MaxInputs`
  stops new starts after the policy service has been left with a started input.
* `audio_command`: three pending commands let a command that waits stand behind one
  that is due behind one that is not. The two sets of parameters overlap without
  being equal, the two volumes differ in the handle.

### Fairness

* A thread that is inside a call keeps running: weak fairness of its steps. Nothing
  obliges a client to call anything, nor the normal mixer to begin a mutation.
* The fast mixer polls on every cycle, the mixer thread goes round its loop as long
  as it has tracks: weak fairness of each thread.
* `MonoPipe`: nothing obliges the reader to read, so `ShutdownUnblocks` is checked
  with a reader that may have stopped for good.
* `AudioTrackStream`: the mixer mixes an *active* track it has, no more; a paused or
  dropped track may never be read again, and nothing obliges prepareTracks_l() to give
  a track up. `NoLostWakeup` is checked with no fairness for the timeout, for a track
  the mixer has; `StopReleasesWriter` assumes, in the property itself, that a timed
  wait ends.
* `MixerTracks`: nothing obliges a client to write or to wait. A wait that has begun
  times out: weak fairness of `WriteTimeout`, which is enabled only while the client is
  in it. The restart that follows needs mLock, which the mixer thread gives up on every
  cycle: strong fairness of `WriteRestart`. A mutex that starves a waiter for ever would
  break it. `FullTrackPlays` therefore speaks of clients that wait.
* `RecordThread`: the loop, a caller inside start(), stop() or destroy(), a setter and
  exit() run; timed waits end. Nobody is obliged to start, stop or set anything.
* `AudioCommandThread`: the thread runs and time passes. A caller that is woken needs
  mLock, which the thread gives up again and again: strong fairness of its step.

Deadlock is checked except in `record_thread` and `audio_command`: there everything
may have been closed and destroyed.

## 4. Proofs

### StateQueueProofs (any ring of at least four slots, any states)

`TypeCorrect`, `Exclusion` (SlotExclusion), `Stable` (StableWhileRead), `Acked`
(AckedMeansCurrent), `Refinement` (the safety part of `StateMailbox`).

SlotExclusion alone is not inductive: it does not say where the pointers are. The
invariant `Inv` orders them along the ring: previous, mCurrent, mNext are equal or
one slot apart, mMutating is the slot after mNext except between publication and
copy, and the mutator's `mExpecting` tells whether mNext has been acknowledged.
Lemma `FourApart` (four consecutive slots are different) then gives exclusion, and is
where kN >= 4 is needed. The refinement uses exclusion: a write to the draft changes
neither latest nor observed.

### MixerTracksProofs (any tracks, buffer sizes, latencies and retry counts)

`TypeCorrect`, `LiveTracks` (MixerReadsLiveTracks), `Dropped`
(DroppedTrackIsDisabled), `NoReset` (NoResetWhileMixing), `Drains` (StopDrains). `IInv`
adds to the type invariant:

* `Stages`: what `prepareTracks_l()` has still to look at, is looking at, and will
  remove are disjoint parts of the active list, and empty outside mLock. Without it
  a track could be removed that is enabled again in the same cycle.
* `Kept`: a track is in mTracks exactly while it exists.
* `Retries`: a track that stays active has a retry left, so that the decrement
  cannot pass zero.
* `Driven`: a track its client has started is ACTIVE or RESUMING and, when dropped
  or about to be, disabled.

The only assumptions are the named ones on the constants. The two action properties
rest on one lemma, `FramesTaken`: frames of an active track go only by being mixed or
when prepareTracks_l() finishes with an ending one.

### MonoPipeProofs (any capacity, any counter width it divides, any call sizes)

`PipeTypeCorrect`, `PipeNeverOverrun` (NeverOverrun), `PipeObservesOneRead`
(ObservesOneRead), `PipeTimestampCounts` (TimestampCountsPending) and
`PipeImplementsFifo` (ImplementsFifo, the whole of `FrameFifo`'s specification).

`PipeInv` adds to the type invariant that the fill, the difference of the counters
modulo their width, is at most mMaxFrames, that the room the writer has loaded is no
more than there is now (the reader only adds to it) and the frames the reader has
loaded no more than there are, and that an observation has not been lapped. From it
follows where each position of the stream lies in the buffer, by `ModOfMod`: that needs
that the capacity divides the width, which is why the code rounds it up to a power of
two. `SeqLockInv` counts the updates `during` an observation: an observation
that found the sequence number unchanged had none, because it is not lapped. `CopyInv`
says which part of a call's frames has been copied at each step; with it every copy is
a stutter of the queue, and the store of mRear or mFront is its step.

### AudioTrackStreamProofs (any buffer size, counter width, requests and positions)

`StreamTypeCorrect`, `StreamRegionsApart` (RegionsApart), `StreamPlays`
(PlaysWhatWasWritten), `EvenStreamPlays`
(both). Other than the loop discussed below, what is excepted is in the properties: a
client that met the stores of a reset() (`raced`), frames that a reset() discards
(`Discards`) and a region granted before a reset() and released after it (`Misplaces`).
The invariant comes in parts:

* `BaseInv` adds to the type invariant that each side's offset is within the buffer,
  that a grant or a block ends with the buffer at the latest, that a block is held
  until the step over it is made or forgotten by a reset(), and (`TrackInv`) that the
  mixer does not mix a track it does not have and a track its client has active is not
  reset. It holds until a race is met; `RacedInv` says that nothing moves after one.
  The lemma `Advance` is behind it: the two branches of StepBase agree, so a base
  follows exactly when its index completes a round, whichever of the two has wrapped.
  Nothing is assumed of the counter width but that it exceeds twice the buffer.
* `RingInv`: what was granted and what is in the buffer fit together, the block is no
  more than there is, and the two offsets, each counted from a base of its own, differ
  by the fill, give or take one round. The granted region starts at the client's
  offset, or else it is from before a reset() and the buffer is empty: nobody reads
  what the client still writes there. From it the two regions are apart.
* `CopyInv`: before releaseBuffer() the granted region holds the first frames of the
  batch, and the block is still what the buffer holds. With it memcpy is a stutter of
  the queue, and stepUser() and stepServer() are its steps.

`RingInv` and `CopyInv` need `NoLoop` (loopCount is 0) as a hypothesis on the
behaviour: a step of the server that ends at UINT_MAX counts loopCount down to -1, and
framesReady() then promises frames that are not there. `EvenStreamPlays` discharges it
(`EvenInv`) for even sizes and positions, the run's instance among them: UINT_MAX is
odd, and reset() leads to 0.

### FastTracksProofs (any tracks, slots, buffer sizes and retry counts)

`FastTypeCorrect`, `FastMixerSafe` (FastMixerReadsLiveTracks), `FastSlotsApart`
(FreeSlotIsUnused), `FastResetDeferred` (NoResetWhileFastMixing). `FastInv` adds to the
type invariant:

* `SlotInv`: a slot has one owner, and one that is owned is not available.
* `QueueInv`: every slot in the draft, in the last pushed state and in the state the
  fast mixer works from belongs to an active track; a state takes a slot away from the
  one before it only if the normal mixer waits for its acknowledgement; and what is
  about to be removed is not in the draft. This is the heart: a track goes only after
  BLOCK_UNTIL_ACKED.
* `GenerationInv`: two of these, or the fast mixer's own tables, that have one generation for a slot agree on its track,
  so a fast mixer that compares generations never keeps a stale provider, also when it
  skipped states or was idle.
* `CycleInv`, `RetryInv`, `WarmInv`: the mixer's working sets are empty outside
  prepareTracks_l(), an active track has a retry left, and warming up ends.

### TimedTrackProofs (any buffers, sizes, times, transforms and counter width)

`TimedTypeCorrect`, `TimedHeadStays` (HeadInFlightStays), `TimedPendingCounts`
(PendingCountsSkipped), `TimedPlaysForward` (PlaysForward). `TimedInv` adds `OrderInv`
to the type invariant: queued buffers are numbered in ascending order, their positions
are within their sizes, and none of them lies before what was last given to the mixer.
Every operation is then a cut of consecutive buffers, a move of the head's position or
an append. The count is a second induction: `Counted` says that a step changes the
counters by what it changes the sum over the queue. The sum is a recursive function;
that it is additive is proved by induction on the length.

### AudioCommandProofs (any callers, requests, delays and queue length)

`CommandTypeCorrect`, `CommandLastWins` (NewestLast), `CommandWaiterQueued`
(WaiterIsQueued), `CommandStatusThere` (StatusIsThere). The lemma `InsertIs` turns
insertCommand_l() into one relation between the old and the new queue (`Placed`): the
commands up to the insertion point are untouched, the new one follows, and then come
the passed ones that are left, in their order. `CommandInv` adds that a command has a
caller exactly when that caller waits for it, and that such a command has no time left:
so the scan stops at it and merging cannot drop it.

### RecordThreadProofs (any tracks, setters and bounds)

`TypeCorrect`, `ActiveTrack` (ActiveTrackStays), `SleepingLoop`
(NobodyWaitsForSleeper) and `InputAccounts` (InputBalanced). `IInv` adds to the type invariant:

* `Exiting`: the loop ends only after exit() was called; before that nobody but the
  locked section of the loop and a failing startInput() clears mActiveTrack.
* `Starting`: while a caller is inside startInput() and the thread is not exiting,
  its track is the active one and IDLE, a state the loop leaves alone. So the track
  start() works on after it has mLock again is its own.
* `Waited`: a caller that waits on mStartStopCond has the input, in the state it has
  asked for, until the loop wakes it; so a loop without an active track owes nobody.
* `Asleep`: a sleeping loop has no command, and a track that was made active since is
  still inside startInput(), after which its caller signals.
* `Answers`: at least as many commands are queued as setters wait. It cannot be said
  whose: the loop's signal may wake any of them, and a time-out leaves a command to
  others.

`InputAccounts` needs a second invariant, `BalanceInv`: while the input is open and no
start was refused, a track's state and the place of its caller determine each other
(`PlaceOK`), and `inputs` is the number of tracks that hold the input, which are the
active one after startInput() and those between their wake-up and stopInput(). A
step adds or removes one holder at most. It was checked with TLC for three tracks
(7.6 million states) before it was proved.

### Numbers

The proof modules begin with the facts about numbers they need: uniqueness of
remainders, which the SMT backend does not know for a symbolic divisor; induction on
natural numbers over a *set* (the library's theorem takes an operator, which the
installed provers cannot instantiate); and from it the existence of functions defined
by recursion on a number, such as sums.

### Only model-checked

Liveness, and everything else under fairness, stays with TLC: PushReturns and the
liveness half of ImplementsMailbox, ShutdownUnblocks, NoLostWakeup,
StopReleasesWriter, FullTrackPlays, EndingTrackLeaves,
DestroyedTrackIsRemoved, StoppedTrackLeaves, StartStopReturn, ExitCompletes,
AudioFlingerUnlocked, CallReturns and NotPutOff. Every safety property of the passing
runs is proved; those of `AudioTrackStream` for the streams in which no step of the
server ends at UINT_MAX, since the others start a loop (section 5). FrameFifo's steps
are the steps of `AudioTrackStream` apart from the two exceptions of section 4.

## 5. Findings

Each is a run that TLC ends with a violation, of a property that states what a
comment says.

| run | what the code does | what is said |
|---|---|---|
| `timed_trim` | removeItemsAt() is given an end where it takes a count: with the head in flight one buffer too many is removed, or none, and the count of pending frames is wrong | "Should have at least %u queued frames" (`Tracks.cpp`, an assertion that is compiled out) |
| `record_start` | a refused start() returns NO_ERROR: the error is assigned to an inner `status` | "record start succeeds only if first read from audio input succeeds" (`Threads.cpp`) |
| `audio_command_exit` | exit() during a tone or after a caller's last answer is not seen before the thread sleeps for ever | "wait until this object's thread exits" (`Thread.h`) |

The properties that hold are stated with the exceptions that the code makes. What
lies behind an exception was in each case confirmed by TLC:

* `TimestampCountsPending`: a completely full pipe counts as empty in
  getNextWriteTimestamp (`& (mMaxFrames - 1)`).
* `PlaysWhatWasWritten`: a stream that reaches position UINT_MAX exactly gets
  loopCount -1, "infinite looping"; the positions of the instance stay clear of it.
* `PlaysWhatWasWritten`, `Misplaces`: a client that obtained its buffer before a stop()
  or flush() and releases it after the reset() has written at the old place; what is
  played after the next start() is whatever lies at offset 0.
* `RegionsApart` and the others, `raced`: the reset() of the mixer thread takes no lock,
  and a client inside obtainBuffer() or stepUser() may see or leave a mixture of old and
  new indexes.
* `StopReleasesWriter`: the reset() of the mixer thread makes room without a signal; a
  writer that began to wait after the signal of stop() returns only by its time-out.
* `NoLostWakeup`, `FullTrackPlays`: a track that is dropped upon a stale count although
  its client has filled it meanwhile is started again by the client's next write, or by
  the time-out of a client that waits. A client that does neither is not played.
* `StopDrains`: stop() after an underrun has taken the track off the active list
  throws away the rest of the buffer (`AudioTrack.h`: "any data remaining in the buffer
  is first drained").
* `PendingCountsSkipped`: late frames skipped in a head that is kept are never taken
  off mFramesPendingInQueue.
* `InputBalanced`: after a refused start, destroy() stops the input a second time; or
  the woken start() takes another track that has become active for its own success
  and the input is never stopped.
* `ActiveTrackStays`: on exit, and after a failed startInput(), start() or the loop
  may dereference a NULL mActiveTrack.
* `AudioFlingerUnlocked`: a forwarded setParameters() and a loop with a configuration
  event wait for each other until the two second time-out.
* `StatusIsThere`: after kAudioCommandTimeout a caller reads a deleted command.
* `NewestLast` holds although insertCommand_l() does not keep its queue sorted: a
  command that takes over a later one gets its time but is inserted at the place of
  its own, before commands that are due earlier, which then wait behind it.

One weakness has no property, since the statuses are left out: mParamStatus is one cell,
the loop's signal wakes any waiting setter, and any signal on mWaitWorkCV (another
setter's, a start()) or a time-out lets the loop overwrite it before it is read. So with
two setters, or after a time-out, a setter may be given the status of another's command,
although the loop's wait "is to avoid overwriting mParamStatus" (`Threads.h`).

Two more were confirmed on earlier forms of `MixerTracks` and have no property now:
pause() and flush() within a cycle leave the track to be mixed until it is empty
(`AudioTrack.h`: "discarded immediately"), and pause() and start() keep the monitor
of the earlier end (`PlaybackTracks.h`: "when this track will be fully rendered").

Also seen: the branch marked `LOG_FATAL("fast track %d should have been active")` in
`prepareTracks_l()` is reachable in a few steps (create, start and destroy while the
thread stands by); the code goes on correctly. SET_VOICE_VOLUME commands are not
merged, so a delayed one undoes a later one without delay.

## 6. Not modelled, and the plan

Not modelled: sample arithmetic (AudioMixer, resamplers, effects), imported code
(binder, driver, RefBase, stagefright, codecs), diagnostics (watchdog, NBLog, tee
sinks), HAL errors, weak memory. Imported code is by far the larger part of the
repository (stagefright and the codecs alone are more than nine tenths of its
lines), so the models cover a small share of all lines however far they go.

Next steps:

1. Static tracks, loops and setPosition() in `AudioTrackStream`; server death and
   `restoreTrack_l()`; the input direction for AudioRecord.
2. `OutputTrack` (its overflow queue drops a mix when it is full) and the duplicating
   thread; effect chain states; the loader queue of SoundPoolThread, where one
   condition with single signals serves writers, the reader and quit().

## 7. Running

In this directory: `tlc -workers 2 -config StateQueue.cfg MCStateQueue` (module and
configuration of each run are in `PROJECT.json`), and `tlapm M.tla` for each of the modules M that hold
proofs: StateQueueProofs, MixerTracksProofs, RecordThreadProofs,
AudioTrackStreamProofs, MonoPipeProofs, FastTracksProofs, TimedTrackProofs, AudioCommandProofs (about a minute
each).
