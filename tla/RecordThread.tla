---------------------------- MODULE RecordThread ----------------------------
(***************************************************************************)
(* One input of AudioFlinger: the record loop (RecordThread in             *)
(* libs/audioflinger/Threads.cpp), the clients that start, stop and drop   *)
(* record tracks (Tracks.cpp), callers of setParameters() and closeInput().*)
(*                                                                         *)
(* A stretch of code under mLock is one step; so is every read of shared   *)
(* state without it.  A wait gives mLock up: a thread that is signalled    *)
(* runs on in a step of its own.  AudioRecord holds its own lock across    *)
(* start() and stop(), so there is one call at a time on a track.  The     *)
(* captured data, effects, wake locks, standby of the device and delayed   *)
(* starts (sync events) are left out.                                      *)
(***************************************************************************)
EXTENDS Integers, Sequences, FiniteSets

CONSTANTS
    Track,
    Mismatched,     \* tracks whose channel count is not mReqChannelCount
    Setter,         \* threads that call AudioFlinger::setParameters
    NULL,
    MaxCalls,       \* bound: parameter changes by one setter
    MaxInputs       \* bound: startInput() calls not taken back

ASSUME RecordThreadAssumption ==
    /\ Mismatched \subseteq Track
    /\ NULL \notin Track \cup Setter
    /\ IsFiniteSet(Setter)
    /\ MaxCalls \in Nat /\ MaxInputs \in Nat

VARIABLES
    mState, mActiveTrack, mTracks,              \* of the tracks
    mActive,                    \* AudioRecord::mActive, by track
    call, dying,                \* where each track's caller is
    inputs,                     \* startInput() less stopInput(), while open
    pc, readOnce, mBytesRead, mConfigEvents, reconfig,  \* the record loop
    exitPending, closer,        \* closeInput()
    mNewParameters, setter, calls,
    afLock,                     \* owner of AudioFlinger::mLock across a wait
    crashed,                    \* mActiveTrack was dereferenced while NULL
    refused                     \* history: the loop has refused a start

tracks  == <<mState, mActiveTrack, mTracks>>
client  == <<mActive, call, dying, inputs>>
loop    == <<readOnce, mBytesRead, mConfigEvents, reconfig>>
exit    == <<exitPending, closer>>
params  == <<mNewParameters, setter, calls>>
vars    == <<tracks, client, pc, loop, exit, params, afLock, crashed, refused>>

track_state == {"IDLE", "RESUMING", "ACTIVE", "PAUSING", "TERMINATED"}

(* Where the caller on a track is, from createRecordTrack_l to the end.    *)
Place == {"none", "idle", "startInput", "startWait", "startWoken",
          "startError", "stopWait", "stopWoken", "stopInput", "destroy",
          "remove", "gone"}

(* A command asks for another rate, format, channel count or frame count,  *)
(* or for something else.                                                  *)
Commands == {"reconfig", "other"}

TypeOK ==
    /\ mState \in [Track -> track_state]
    /\ mActiveTrack \in Track \cup {NULL}
    /\ mTracks \subseteq Track
    /\ mActive \in [Track -> BOOLEAN] /\ dying \in [Track -> BOOLEAN]
    /\ call \in [Track -> Place]
    /\ inputs \in Int
    /\ pc \in {"top", "event", "params", "paramWait", "wait",
               "check", "state", "read", "final", "done"}
    /\ readOnce \in BOOLEAN /\ mBytesRead \in {-1, 0}
    /\ mConfigEvents \in Nat /\ reconfig \in BOOLEAN
    /\ exitPending \in BOOLEAN
    /\ closer \in {"open", "exit", "join", "closed"}
    /\ mNewParameters \in Seq(Commands)
    /\ setter \in [Setter -> {"idle", "found", "wait", "woken"}]
    /\ calls \in [Setter -> 0..MaxCalls]
    /\ afLock \in Setter \cup {NULL}
    /\ crashed \in BOOLEAN /\ refused \in BOOLEAN

Init ==
    /\ mState = [t \in Track |-> "IDLE"] /\ mActiveTrack = NULL /\ mTracks = {}
    /\ mActive = [t \in Track |-> FALSE] /\ dying = [t \in Track |-> FALSE]
    /\ call = [t \in Track |-> "none"] /\ inputs = 0
    /\ pc = "top" /\ readOnce = FALSE /\ mBytesRead = 0 /\ mConfigEvents = 0
    /\ exitPending = FALSE /\ closer = "open"
    /\ reconfig = FALSE /\ mNewParameters = <<>>
    /\ setter = [s \in Setter |-> "idle"] /\ calls = [s \in Setter |-> 0]
    /\ afLock = NULL /\ crashed = FALSE /\ refused = FALSE

-----------------------------------------------------------------------------
(* Condition variables: the new state of those that wait.                  *)

(* mWaitWorkCV, on which only the loop waits, in two places.               *)
Signalled == CASE pc = "wait" -> "top"
               [] pc = "paramWait" -> "params"
               [] OTHER -> pc

(* mStartStopCond.broadcast()                                              *)
Broadcast(calling) ==
    [t \in Track |-> CASE calling[t] = "startWait" -> "startWoken"
                       [] calling[t] = "stopWait" -> "stopWoken"
                       [] OTHER -> calling[t]]

(* mParamCond.signal(): some waiting setter, if there is one.              *)
SignalOne ==
    LET waiting == {s \in Setter : setter[s] = "wait"} IN
    \/ waiting = {} /\ UNCHANGED setter
    \/ \E s \in waiting : setter' = [setter EXCEPT ![s] = "woken"]

-----------------------------------------------------------------------------
(* Clients.  promote() fails, and the call has no effect, once the thread  *)
(* object is gone.                                                         *)

ThreadLives == closer # "closed"
NewCall(t, where) == call' = [call EXCEPT ![t] = where]
State(t, s) == mState' = [mState EXCEPT ![t] = s]

(* The policy service forgets an input that it closes.                     *)
Counted(d) == IF closer = "open" THEN inputs + d ELSE inputs

(* createRecordTrack_l, under AudioFlinger::mLock                          *)
Create(t) ==
    /\ call[t] = "none" /\ afLock = NULL /\ closer = "open"
    /\ mTracks' = mTracks \cup {t}
    /\ NewCall(t, "idle")
    /\ UNCHANGED <<mState, mActiveTrack, mActive, dying, inputs, pc, loop,
                   exit, params, afLock, crashed, refused>>

(* start(): the input is busy, or this very track is asked for again.      *)
StartAgain(t) ==
    /\ call[t] = "idle" /\ ~mActive[t] /\ ThreadLives /\ mActiveTrack # NULL
    /\ mActive' = [mActive EXCEPT ![t] = (mActiveTrack = t)]
    /\ IF mActiveTrack = t /\ mState[t] = "PAUSING"
       THEN State(t, "ACTIVE") ELSE UNCHANGED mState
    /\ UNCHANGED <<mActiveTrack, mTracks, call, dying, inputs, pc, loop, exit,
                   params, afLock, crashed, refused>>

(* start(): take the input, then call startInput() without mLock.          *)
Start(t) ==
    /\ call[t] = "idle" /\ ~mActive[t] /\ ThreadLives /\ mActiveTrack = NULL
    /\ inputs < MaxInputs
    /\ State(t, "IDLE")
    /\ mActiveTrack' = t
    /\ NewCall(t, "startInput")
    /\ UNCHANGED <<mTracks, mActive, dying, inputs, pc, loop, exit, params,
                   afLock, crashed, refused>>

StartInputFails(t) ==
    /\ call[t] = "startInput"
    /\ mActiveTrack' = NULL
    /\ NewCall(t, "idle")
    /\ UNCHANGED <<mState, mTracks, mActive, dying, inputs, pc, loop, exit,
                   params, afLock, crashed, refused>>

(* startInput() has succeeded; start() has mLock again.                    *)
StartInput(t) ==
    /\ call[t] = "startInput"
    /\ inputs' = Counted(1)
    /\ mBytesRead' = 0
    /\ crashed' = (mActiveTrack = NULL)
    /\ IF mActiveTrack = NULL
       THEN UNCHANGED <<mState, mActiveTrack, call, pc>>
       ELSE /\ State(mActiveTrack, "RESUMING")
            /\ pc' = Signalled
            /\ IF exitPending
               THEN mActiveTrack' = NULL /\ NewCall(t, "startError")
               ELSE UNCHANGED mActiveTrack /\ NewCall(t, "startWait")
    /\ UNCHANGED <<mTracks, mActive, dying, readOnce, mConfigEvents, reconfig,
                   exit, params, afLock, refused>>

StartWoken(t) ==
    /\ call[t] = "startWoken"
    /\ IF mActiveTrack = NULL
       THEN NewCall(t, "startError") /\ UNCHANGED mActive
       ELSE NewCall(t, "idle") /\ mActive' = [mActive EXCEPT ![t] = TRUE]
    /\ UNCHANGED <<tracks, dying, inputs, pc, loop, exit, params, afLock,
                   crashed, refused>>

(* startError: the status assigned before the goto is that of the inner    *)
(* scope; what is returned is the outer one, NO_ERROR.                     *)
StartError(t) ==
    /\ call[t] = "startError"
    /\ inputs' = Counted(-1)
    /\ NewCall(t, "idle")
    /\ mActive' = [mActive EXCEPT ![t] = TRUE]
    /\ UNCHANGED <<tracks, dying, pc, loop, exit, params, afLock, crashed,
                   refused>>

(* What follows stop(): nothing, or destroy() in ~RecordHandle.            *)
AfterStop(t, last) == IF last THEN "destroy" ELSE "idle"

(* stop_l(), up to its wait.                                               *)
StopCall(t, last) ==
    IF ~ThreadLives \/ mActiveTrack # t \/ mState[t] = "PAUSING"
    THEN NewCall(t, AfterStop(t, last)) /\ UNCHANGED mState
    ELSE /\ State(t, "PAUSING")
         /\ NewCall(t, IF exitPending THEN "stopInput" ELSE "stopWait")

(* AudioRecord::stop()                                                     *)
Stop(t) ==
    /\ call[t] = "idle" /\ mActive[t]
    /\ mActive' = [mActive EXCEPT ![t] = FALSE]
    /\ StopCall(t, FALSE)
    /\ UNCHANGED <<mActiveTrack, mTracks, dying, inputs, pc, loop, exit,
                   params, afLock, crashed, refused>>

(* The last reference to the handle goes, also when the client dies.       *)
Drop(t) ==
    /\ call[t] = "idle"
    /\ dying' = [dying EXCEPT ![t] = TRUE]
    /\ mActive' = [mActive EXCEPT ![t] = FALSE]
    /\ StopCall(t, TRUE)
    /\ UNCHANGED <<mActiveTrack, mTracks, inputs, pc, loop, exit, params,
                   afLock, crashed, refused>>

StopWokenSilently(t) ==
    /\ call[t] = "stopWoken"
    /\ NewCall(t, AfterStop(t, dying[t]))
    /\ UNCHANGED <<tracks, mActive, dying, inputs, pc, loop, exit, params,
                   afLock, crashed, refused>>

StopWoken(t) ==
    /\ call[t] = "stopWoken"
    /\ NewCall(t, IF exitPending \/ mActiveTrack # t THEN "stopInput"
                  ELSE AfterStop(t, dying[t]))
    /\ UNCHANGED <<tracks, mActive, dying, inputs, pc, loop, exit, params,
                   afLock, crashed, refused>>

StopInput(t) ==
    /\ call[t] = "stopInput"
    /\ inputs' = Counted(-1)
    /\ NewCall(t, AfterStop(t, dying[t]))
    /\ UNCHANGED <<tracks, mActive, dying, pc, loop, exit, params, afLock,
                   crashed, refused>>

(* destroy(): reads mState without mLock.                                  *)
Destroy(t) ==
    /\ call[t] = "destroy"
    /\ inputs' = IF ThreadLives /\ mState[t] \in {"ACTIVE", "RESUMING"}
                 THEN Counted(-1) ELSE inputs
    /\ NewCall(t, IF ThreadLives THEN "remove" ELSE "gone")
    /\ UNCHANGED <<tracks, mActive, dying, pc, loop, exit, params, afLock,
                   crashed, refused>>

(* destroyTrack_l(); destroy() keeps the thread object alive.              *)
Remove(t) ==
    /\ call[t] = "remove"
    /\ State(t, "TERMINATED")
    /\ mTracks' = IF mActiveTrack = t THEN mTracks ELSE mTracks \ {t}
    /\ NewCall(t, "gone")
    /\ UNCHANGED <<mActiveTrack, mActive, dying, inputs, pc, loop, exit,
                   params, afLock, crashed, refused>>

-----------------------------------------------------------------------------
(* AudioFlinger::setParameters() and ThreadBase::setParameters()           *)

(* Find the thread under AudioFlinger::mLock.  A change of the output      *)
(* device is forwarded to the record threads with that lock still held.    *)
FindThread(s, forward) ==
    /\ setter[s] = "idle" /\ calls[s] < MaxCalls
    /\ afLock = NULL /\ closer = "open"
    /\ calls' = [calls EXCEPT ![s] = @ + 1]
    /\ setter' = [setter EXCEPT ![s] = "found"]
    /\ afLock' = IF forward THEN s ELSE NULL
    /\ UNCHANGED <<tracks, client, pc, loop, exit, mNewParameters, crashed,
                   refused>>

SetParametersSilently(s, command) ==
    /\ setter[s] = "found"
    /\ mNewParameters' = Append(mNewParameters, command)
    /\ setter' = [setter EXCEPT ![s] = "wait"]
    /\ UNCHANGED <<tracks, client, pc, loop, exit, calls, afLock, crashed,
                   refused>>

SetParameters(s, command) ==
    /\ setter[s] = "found"
    /\ mNewParameters' = Append(mNewParameters, command)
    /\ pc' = Signalled
    /\ setter' = [setter EXCEPT ![s] = "wait"]
    /\ UNCHANGED <<tracks, client, loop, exit, calls, afLock, crashed,
                   refused>>

UnlockNever(s) == UNCHANGED afLock

Unlock(s) == afLock' = IF afLock = s THEN NULL ELSE afLock

(* Return mParamStatus and let the loop go on.                             *)
Answered(s) ==
    /\ setter[s] = "woken"
    /\ setter' = [setter EXCEPT ![s] = "idle"]
    /\ pc' = Signalled
    /\ Unlock(s)
    /\ UNCHANGED <<tracks, client, loop, exit, mNewParameters, calls, crashed,
                   refused>>

(* kSetParametersTimeoutNs has passed; the command stays in the queue.     *)
TimedOut(s) ==
    /\ setter[s] = "wait"
    /\ setter' = [setter EXCEPT ![s] = "idle"]
    /\ Unlock(s)
    /\ UNCHANGED <<tracks, client, pc, loop, exit, mNewParameters, calls,
                   crashed, refused>>

-----------------------------------------------------------------------------
(* closeInput() and ThreadBase::exit()                                     *)

CloseInput ==
    /\ closer = "open" /\ afLock = NULL
    /\ closer' = "exit" /\ inputs' = 0
    /\ UNCHANGED <<tracks, mActive, call, dying, pc, loop, exitPending,
                   params, afLock, crashed, refused>>

ExitSilently ==
    /\ closer = "exit"
    /\ exitPending' = TRUE
    /\ closer' = "join"
    /\ UNCHANGED <<tracks, client, pc, loop, params, afLock, crashed, refused>>

Exit ==
    /\ closer = "exit"
    /\ exitPending' = TRUE
    /\ pc' = Signalled
    /\ closer' = "join"
    /\ UNCHANGED <<tracks, client, loop, params, afLock, crashed, refused>>

(* The loop has ended; the last reference to the thread goes, unless a     *)
(* call on a track still holds one.                                        *)
Joined ==
    /\ closer = "join" /\ pc = "done"
    /\ \A t \in Track : call[t] \in {"none", "idle", "destroy", "gone"}
    /\ closer' = "closed"
    /\ UNCHANGED <<tracks, client, pc, loop, exitPending, params, afLock,
                   crashed, refused>>

-----------------------------------------------------------------------------
(* threadLoop()                                                            *)

Go(where) == pc' = where

(* processConfigEvents(): take an event off and release mLock, or go on.   *)
TakeEvent ==
    IF mConfigEvents = 0
    THEN Go("params") /\ UNCHANGED mConfigEvents
    ELSE Go("event") /\ mConfigEvents' = mConfigEvents - 1

LoopTop ==
    /\ pc = "top"
    /\ IF exitPending THEN Go("final") /\ UNCHANGED mConfigEvents
       ELSE TakeEvent
    /\ UNCHANGED <<tracks, client, readOnce, mBytesRead, reconfig, exit,
                   params, afLock, crashed, refused>>

(* An event is handled under AudioFlinger::mLock.                          *)
HandleEvent ==
    /\ pc = "event" /\ afLock = NULL
    /\ TakeEvent
    /\ UNCHANGED <<tracks, client, readOnce, mBytesRead, reconfig, exit,
                   params, afLock, crashed, refused>>

(* checkForNewParameters_l(): one command; ok is the driver's answer.  The *)
(* flag reconfig stays set for the later commands of the same call, which  *)
(* ends in Sleep or Serve.                                                 *)
HandleParameter(ok) ==
    /\ pc = "params" /\ mNewParameters # <<>>
    /\ mNewParameters' = Tail(mNewParameters)
    /\ reconfig' = (reconfig \/ Head(mNewParameters) = "reconfig")
    /\ mConfigEvents' = mConfigEvents + (IF ok /\ reconfig' THEN 1 ELSE 0)
    /\ SignalOne
    /\ Go("paramWait")
    /\ UNCHANGED <<tracks, client, readOnce, mBytesRead, exit, calls, afLock,
                   crashed, refused>>

ParamWaitTimesOut ==
    /\ pc = "paramWait"
    /\ Go("params")
    /\ UNCHANGED <<tracks, client, loop, exit, params, afLock, crashed,
                   refused>>

Sleep ==
    /\ pc = "params" /\ mNewParameters = <<>>
    /\ mActiveTrack = NULL /\ mConfigEvents = 0
    /\ Go(IF exitPending THEN "final" ELSE "wait")
    /\ reconfig' = FALSE
    /\ UNCHANGED <<tracks, client, readOnce, mBytesRead, mConfigEvents, exit,
                   params, afLock, crashed, refused>>

(* A start fails when the channels do not match or its first read failed.  *)
Refuses(t) == t \in Mismatched \/ (readOnce /\ mBytesRead < 0)

ClearsIdle(t) ==
    \/ mState[t] \in {"IDLE", "PAUSING", "TERMINATED"}
    \/ mState[t] = "RESUMING" /\ Refuses(t)

(* Does the loop let go of active track t?                                 *)
Clears(t) ==
    \/ mState[t] \in {"PAUSING", "TERMINATED"}
    \/ mState[t] = "RESUMING" /\ Refuses(t)

(* The rest of the locked section, with something to do.                   *)
Serve ==
    LET t      == mActiveTrack
        clears == t # NULL /\ Clears(t)
        starts == t # NULL /\ mState[t] = "RESUMING" /\ readOnce /\ ~clears
    IN  /\ pc = "params" /\ mNewParameters = <<>>
        /\ mActiveTrack # NULL \/ mConfigEvents # 0
        /\ mActiveTrack' = IF clears THEN NULL ELSE mActiveTrack
        /\ IF starts THEN State(t, "ACTIVE") ELSE UNCHANGED mState
        /\ call' = IF starts \/ (clears /\ mState[t] # "TERMINATED")
                   THEN Broadcast(call) ELSE call
        /\ mTracks' = IF clears /\ mState[t] = "TERMINATED"
                      THEN mTracks \ {t} ELSE mTracks
        /\ refused' = (refused \/ (clears /\ mState[t] = "RESUMING"))
        /\ Go("check")
        /\ reconfig' = FALSE
        /\ UNCHANGED <<mActive, dying, inputs, readOnce, mBytesRead,
                       mConfigEvents, exit, params, afLock, crashed>>

(* Without mLock: is there an active track ...                             *)
Check ==
    /\ pc = "check"
    /\ Go(IF mActiveTrack = NULL THEN "top" ELSE "state")
    /\ UNCHANGED <<tracks, client, loop, exit, params, afLock, crashed,
                   refused>>

(* ... in which state is it ...                                            *)
CheckState ==
    /\ pc = "state"
    /\ crashed' = (mActiveTrack = NULL)
    /\ IF mActiveTrack = NULL THEN UNCHANGED pc
       ELSE Go(IF mState[mActiveTrack] \in {"ACTIVE", "RESUMING"}
               THEN "read" ELSE "top")
    /\ UNCHANGED <<tracks, client, loop, exit, params, afLock, refused>>

(* ... read into its buffer.                                               *)
Read(n) ==
    /\ pc = "read"
    /\ crashed' = (mActiveTrack = NULL)
    /\ readOnce' = TRUE /\ mBytesRead' = n
    /\ Go("top")
    /\ UNCHANGED <<tracks, client, mConfigEvents, reconfig, exit, params,
                   afLock, refused>>

(* The client is slow: its buffer, which is empty when it starts, is full. *)
Overflow ==
    /\ pc = "read" /\ mActiveTrack # NULL /\ mState[mActiveTrack] # "RESUMING"
    /\ Go("top")
    /\ UNCHANGED <<tracks, client, loop, exit, params, afLock, crashed,
                   refused>>

FinalSilently ==
    /\ pc = "final"
    /\ mActiveTrack' = NULL
    /\ Go("done")
    /\ UNCHANGED <<mState, mTracks, client, loop, exit, params, afLock,
                   crashed, refused>>

Final ==
    /\ pc = "final"
    /\ mActiveTrack' = NULL
    /\ call' = Broadcast(call)
    /\ Go("done")
    /\ UNCHANGED <<mState, mTracks, mActive, dying, inputs, loop, exit,
                   params, afLock, crashed, refused>>

-----------------------------------------------------------------------------
LoopStep ==
    \/ LoopTop \/ HandleEvent
    \/ \E ok \in BOOLEAN : HandleParameter(ok)
    \/ ParamWaitTimesOut \/ Sleep \/ Serve \/ Check \/ CheckState
    \/ \E n \in {-1, 0} : Read(n)
    \/ Overflow \/ Final

(* What a caller inside start(), stop() or destroy() does next.            *)
Continue(t) ==
    \/ StartInputFails(t) \/ StartInput(t) \/ StartWoken(t) \/ StartError(t)
    \/ StopWoken(t) \/ StopInput(t) \/ Destroy(t) \/ Remove(t)

SetterStep(s) ==
    \/ \E command \in Commands : SetParameters(s, command)
    \/ Answered(s) \/ TimedOut(s)

ClientStep(t) ==
    Create(t) \/ StartAgain(t) \/ Start(t) \/ Stop(t) \/ Drop(t)

Next ==
    /\ ~crashed
    /\ \/ LoopStep
       \/ \E t \in Track : ClientStep(t) \/ Continue(t)
       \/ \E s \in Setter, forward \in BOOLEAN : FindThread(s, forward)
       \/ \E s \in Setter : SetterStep(s)
       \/ CloseInput \/ Exit \/ Joined

Safety == Init /\ [][Next]_vars

(* Threads that are not waiting run, and timed waits end.                  *)
Spec ==
    /\ Safety
    /\ WF_vars(~crashed /\ LoopStep)
    /\ \A t \in Track : WF_vars(~crashed /\ Continue(t))
    /\ \A s \in Setter : WF_vars(~crashed /\ SetterStep(s))
    /\ WF_vars(~crashed /\ Exit)
-----------------------------------------------------------------------------
Waiting == {"startWait", "stopWait"}
Quiet == \A t \in Track : call[t] \in {"none", "idle", "gone"}

(* The loop uses mActiveTrack without mLock, and start() after it had      *)
(* given mLock up.  Until the thread is told to exit, the active track is  *)
(* replaced neither under a reading loop nor, except by its own start()    *)
(* when startInput() fails, under a starting client.                       *)
ActiveTrackStays ==
    [][LET t == mActiveTrack IN
       t # NULL /\ mActiveTrack' # t /\ ~exitPending =>
           IF call[t] = "startInput" THEN call'[t] # "startInput"
                                     ELSE pc \notin {"state", "read"}]_vars

(* startInput() and stopInput() calls pair up: while the input is open and *)
(* nobody is recording or about to, the policy service has been told so,   *)
(* exactly once, unless the loop has refused a start.                      *)
InputBalanced ==
    closer = "open" /\ mActiveTrack = NULL /\ Quiet /\ ~refused => inputs = 0

(* Nobody waits for a sleeping loop, whose wait has no time-out: neither a *)
(* caller of setParameters(), however many overlap or have timed out and   *)
(* left their command behind, nor one of start() or stop(), nor exit().    *)
NobodyWaitsForSleeper ==
    pc = "wait" => /\ mNewParameters = <<>> /\ ~exitPending
                   /\ \A s \in Setter : setter[s] # "wait"
                   /\ \A t \in Track : call[t] \notin Waiting

(* start() and stop() return: the loop answers every wait on               *)
(* mStartStopCond, also when it exits, and whatever parameters change.     *)
StartStopReturn ==
    \A t \in Track : call[t] \in Waiting ~> crashed \/ call[t] \notin Waiting

(* closeInput() returns: the loop that exit() joins ends, so exit() does   *)
(* not lose its wake-up to a loop that is about to wait.                   *)
ExitCompletes == closer = "join" ~> crashed \/ pc = "done"

(* A setParameters() that is forwarded with AudioFlinger::mLock held gives *)
(* it up, although the loop may need that lock before it can answer.       *)
AudioFlingerUnlocked == []<>(crashed \/ afLock = NULL)

(* "record start succeeds only if first read from audio input succeeds"    *)
(* (threadLoop): start() returns NO_ERROR only for the active track.       *)
StartSucceedsOnlyIfActive ==
    [][\A t \in Track : mActive'[t] /\ ~mActive[t] => mActiveTrack = t]_vars
=============================================================================
