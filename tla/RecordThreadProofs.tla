------------------------- MODULE RecordThreadProofs -------------------------
(***************************************************************************)
(* Proofs about RecordThread, for any tracks, setters and bounds.  Nothing *)
(* here uses fairness: the theorems are about Safety.                      *)
(***************************************************************************)
EXTENDS RecordThread, FiniteSetTheorems, TLAPS

(* The loop ends only after exit() has asked for it.                       *)
Exiting == pc \in {"final", "done"} => exitPending

(* A client inside startInput() has the input and its state is not touched *)
(* until it is back, unless the thread exits meanwhile.                    *)
Starting ==
    ~exitPending => \A u \in Track :
        call[u] = "startInput" => mActiveTrack = u /\ mState[u] = "IDLE"

(* A client that waits on mStartStopCond has the input, in the state it    *)
(* has asked for, unless the thread exits meanwhile.                       *)
Waited ==
    ~exitPending => \A u \in Track :
        /\ call[u] = "startWait" => mActiveTrack = u /\ mState[u] = "RESUMING"
        /\ call[u] = "stopWait" => mActiveTrack = u /\ mState[u] = "PAUSING"

(* A sleeping loop has nothing to do; whoever has taken the input since is *)
(* still inside startInput() and will signal.                              *)
Asleep ==
    pc = "wait" => /\ mNewParameters = <<>> /\ ~exitPending
                   /\ mActiveTrack # NULL => call[mActiveTrack] = "startInput"

(* As many commands are queued as setters wait, or more: those of setters  *)
(* that have timed out.                                                    *)
Waiters == {s \in Setter : setter[s] = "wait"}
Answers == Cardinality(Waiters) <= Len(mNewParameters)

IInv == TypeOK /\ Exiting /\ Starting /\ Waited /\ Asleep /\ Answers

-----------------------------------------------------------------------------
(* A broadcast on mStartStopCond moves waiting callers on, and no others.  *)
LEMMA BroadcastType ==
  ASSUME TypeOK
  PROVE  /\ Broadcast(call) \in [Track -> Place]
         /\ \A u \in Track : Broadcast(call)[u] = "startInput"
                                <=> call[u] = "startInput"
  BY DEF TypeOK, Place, Broadcast

(* A signal on mWaitWorkCV takes the loop neither to its end nor into one  *)
(* of the stretches it runs without mLock.                                 *)
LEMMA SignalledType ==
  ASSUME TypeOK
  PROVE  /\ Signalled \in {"top", "event", "params", "paramWait", "wait",
                           "check", "state", "read", "final", "done"}
         /\ Signalled \in {"final", "done"} => pc \in {"final", "done"}
  BY DEF TypeOK, Signalled

(* stop_l() leaves a state and a place to go on from.                      *)
LEMMA StopCallType ==
  ASSUME TypeOK, NEW t \in Track, NEW last \in BOOLEAN, StopCall(t, last)
  PROVE  /\ mState' \in [Track -> track_state]
         /\ call' \in [Track -> Place]
<1>1. CASE ~ThreadLives \/ mActiveTrack # t \/ mState[t] = "PAUSING"
  BY <1>1 DEF TypeOK, Place, StopCall, NewCall, AfterStop
<1>2. CASE ~(~ThreadLives \/ mActiveTrack # t \/ mState[t] = "PAUSING")
  BY <1>2 DEF TypeOK, Place, StopCall, NewCall, State, track_state
<1>q. QED
  BY <1>1, <1>2

(* The initial state satisfies the inductive invariant.                    *)
LEMMA InitInv == ASSUME Init PROVE IInv
<1>1. TypeOK
  <2>1. /\ mActive \in [Track -> BOOLEAN] /\ dying \in [Track -> BOOLEAN]
        /\ setter \in [Setter -> {"idle", "found", "wait", "woken"}]
        /\ calls \in [Setter -> 0..MaxCalls]
    BY RecordThreadAssumption DEF Init
  <2>2. mNewParameters \in Seq(Commands)
    BY DEF Init
  <2>3. /\ mState \in [Track -> track_state]
        /\ call \in [Track -> Place]
    BY DEF Init, Place, track_state
  <2>4. /\ readOnce \in BOOLEAN /\ exitPending \in BOOLEAN
        /\ crashed \in BOOLEAN /\ refused \in BOOLEAN /\ reconfig \in BOOLEAN
    BY DEF Init
  <2>q. QED
    BY <2>1, <2>2, <2>3, <2>4 DEF Init, TypeOK
<1>2. Exiting /\ Starting
  BY DEF Init, Exiting, Starting
<1>3. Waited /\ Asleep
  BY DEF Init, Waited, Asleep
<1>4. Answers
  <2>1. Waiters = {} /\ Len(mNewParameters) = 0
    BY DEF Init, Waiters
  <2>q. QED
    BY <2>1, FS_EmptySet DEF Answers
<1>q. QED
  BY <1>1, <1>2, <1>3, <1>4 DEF IInv

(* Every step of the thread, its clients and its setters keeps the types.  *)
LEMMA StepType ==
  ASSUME TypeOK, [Next]_vars
  PROVE  TypeOK'
<1> USE RecordThreadAssumption DEF TypeOK, Place, track_state, tracks, client,
        loop, exit, params
<1>1. ASSUME LoopTop PROVE TypeOK'
  BY <1>1 DEF LoopTop, TakeEvent, Go
<1>2. ASSUME HandleEvent PROVE TypeOK'
  BY <1>2 DEF HandleEvent, TakeEvent, Go
<1>3. ASSUME NEW ok \in BOOLEAN, HandleParameter(ok) PROVE TypeOK'
  <2>1. /\ Head(mNewParameters) \in Commands
        /\ Tail(mNewParameters) \in Seq(Commands)
    BY <1>3 DEF HandleParameter
  <2>2. setter' \in [Setter -> {"idle", "found", "wait", "woken"}]
    BY <1>3 DEF HandleParameter, SignalOne
  <2>3. reconfig' \in BOOLEAN /\ mConfigEvents' \in Nat
    BY <1>3, <2>1 DEF HandleParameter, Commands
  <2>q. QED
    BY <1>3, <2>1, <2>2, <2>3 DEF HandleParameter, Go
<1>4. ASSUME ParamWaitTimesOut PROVE TypeOK'
  BY <1>4 DEF ParamWaitTimesOut, Go
<1>5. ASSUME Sleep PROVE TypeOK'
  BY <1>5 DEF Sleep, Go
<1>6. ASSUME Serve PROVE TypeOK'
  BY <1>6, BroadcastType DEF Serve, Go, State
<1>7. ASSUME Check PROVE TypeOK'
  BY <1>7 DEF Check, Go
<1>8. ASSUME CheckState PROVE TypeOK'
  BY <1>8 DEF CheckState, Go
<1>9. ASSUME NEW n \in {-1, 0}, Read(n) PROVE TypeOK'
  BY <1>9 DEF Read, Go
<1>10. ASSUME Overflow PROVE TypeOK'
  BY <1>10 DEF Overflow, Go
<1>11. ASSUME Final PROVE TypeOK'
  BY <1>11, BroadcastType DEF Final, Go
<1>12. ASSUME NEW t \in Track, StartInputFails(t) PROVE TypeOK'
  BY <1>12 DEF StartInputFails, NewCall
<1>13. ASSUME NEW t \in Track, StartInput(t) PROVE TypeOK'
  <2>1. CASE mActiveTrack = NULL
    BY <1>13, <2>1 DEF StartInput, Counted
  <2>2. CASE mActiveTrack # NULL /\ exitPending
    BY <1>13, <2>2, SignalledType DEF StartInput, NewCall, State, Counted
  <2>3. CASE mActiveTrack # NULL /\ ~exitPending
    <3>1. /\ State(mActiveTrack, "RESUMING") /\ NewCall(t, "startWait")
          /\ pc' = Signalled /\ inputs' = Counted(1) /\ mBytesRead' = 0
          /\ crashed' = FALSE
      BY <1>13, <2>3 DEF StartInput
    <3>2. UNCHANGED <<mActiveTrack, mTracks, mActive, dying, readOnce,
                      mConfigEvents, reconfig, exit, params, afLock, refused>>
      BY <1>13, <2>3 DEF StartInput
    <3>3. /\ mState' \in [Track -> track_state]
          /\ call' \in [Track -> Place] /\ inputs' \in Int
      BY <2>3, <3>1 DEF NewCall, State, Counted
    <3>4. /\ readOnce' \in BOOLEAN /\ reconfig' \in BOOLEAN
          /\ exitPending' \in BOOLEAN /\ crashed' \in BOOLEAN
          /\ refused' \in BOOLEAN
      BY <3>1, <3>2, Zenon
    <3>q. QED
      BY <3>1, <3>2, <3>3, <3>4, SignalledType
  <2>q. QED
    BY <2>1, <2>2, <2>3
<1>14. ASSUME NEW t \in Track, StartWoken(t) PROVE TypeOK'
  <2>1. mActive' \in [Track -> BOOLEAN]
    BY <1>14 DEF StartWoken
  <2>2. call' \in [Track -> Place]
    BY <1>14 DEF StartWoken, NewCall
  <2>3. UNCHANGED <<tracks, dying, inputs, pc, loop, exit, params, afLock,
                    crashed, refused>>
    BY <1>14 DEF StartWoken
  <2>q. QED
    BY <2>1, <2>2, <2>3
<1>15. ASSUME NEW t \in Track, StartError(t) PROVE TypeOK'
  BY <1>15 DEF StartError, NewCall, Counted
<1>16. ASSUME NEW t \in Track, StopWoken(t) PROVE TypeOK'
  BY <1>16 DEF StopWoken, NewCall, AfterStop
<1>17. ASSUME NEW t \in Track, StopInput(t) PROVE TypeOK'
  BY <1>17 DEF StopInput, NewCall, AfterStop, Counted
<1>18. ASSUME NEW t \in Track, Destroy(t) PROVE TypeOK'
  BY <1>18 DEF Destroy, NewCall, Counted
<1>19. ASSUME NEW t \in Track, Remove(t) PROVE TypeOK'
  BY <1>19 DEF Remove, NewCall, State
<1>20. ASSUME NEW t \in Track, Create(t) PROVE TypeOK'
  BY <1>20 DEF Create, NewCall
<1>21. ASSUME NEW t \in Track, StartAgain(t) PROVE TypeOK'
  BY <1>21 DEF StartAgain, State
<1>22. ASSUME NEW t \in Track, Start(t) PROVE TypeOK'
  BY <1>22 DEF Start, NewCall, State
<1>23. ASSUME NEW t \in Track, Stop(t) PROVE TypeOK'
  <2>1. /\ mState' \in [Track -> track_state]
        /\ call' \in [Track -> Place]
    BY <1>23, StopCallType DEF Stop
  <2>2. mActive' \in [Track -> BOOLEAN] /\ dying' \in [Track -> BOOLEAN]
    BY <1>23 DEF Stop
  <2>3. UNCHANGED <<mActiveTrack, mTracks, inputs, pc, loop, exit, params,
                    afLock, crashed, refused>>
    BY <1>23 DEF Stop
  <2>q. QED
    BY <2>1, <2>2, <2>3
<1>24. ASSUME NEW t \in Track, Drop(t) PROVE TypeOK'
  <2>1. /\ mState' \in [Track -> track_state]
        /\ call' \in [Track -> Place]
    BY <1>24, StopCallType DEF Drop
  <2>2. mActive' \in [Track -> BOOLEAN] /\ dying' \in [Track -> BOOLEAN]
    BY <1>24 DEF Drop
  <2>3. UNCHANGED <<mActiveTrack, mTracks, inputs, pc, loop, exit, params,
                    afLock, crashed, refused>>
    BY <1>24 DEF Drop
  <2>q. QED
    BY <2>1, <2>2, <2>3
<1>25. ASSUME NEW s \in Setter, NEW command \in Commands,
              SetParameters(s, command)
       PROVE  TypeOK'
  BY <1>25, SignalledType DEF SetParameters, Commands
<1>26. ASSUME NEW s \in Setter, Answered(s) PROVE TypeOK'
  BY <1>26, SignalledType DEF Answered, Unlock
<1>27. ASSUME NEW s \in Setter, TimedOut(s) PROVE TypeOK'
  BY <1>27 DEF TimedOut, Unlock
<1>28. ASSUME NEW s \in Setter, NEW forward \in BOOLEAN,
              FindThread(s, forward)
       PROVE  TypeOK'
  BY <1>28 DEF FindThread
<1>29. ASSUME CloseInput PROVE TypeOK'
  BY <1>29 DEF CloseInput
<1>30. ASSUME Exit PROVE TypeOK'
  BY <1>30, SignalledType DEF Exit
<1>31. ASSUME Joined PROVE TypeOK'
  BY <1>31 DEF Joined
<1>32. CASE UNCHANGED vars
  BY <1>32 DEF vars
<1>q. QED
  BY <1>1, <1>2, <1>3, <1>4, <1>5, <1>6, <1>7, <1>8, <1>9, <1>10, <1>11,
     <1>12, <1>13, <1>14, <1>15, <1>16, <1>17, <1>18, <1>19, <1>20, <1>21,
     <1>22, <1>23, <1>24, <1>25, <1>26, <1>27, <1>28, <1>29, <1>30, <1>31,
     <1>32
     DEF Next, LoopStep, Continue, ClientStep, SetterStep

-----------------------------------------------------------------------------
(* A starting client keeps the input: no step of another thread takes it   *)
(* away or changes the track's state before exit() is called.              *)
LEMMA StepStarting ==
  ASSUME TypeOK, Exiting, Starting, [Next]_vars
  PROVE  Exiting' /\ Starting'
<1> USE RecordThreadAssumption DEF TypeOK, Exiting, Starting, tracks, client,
        loop, exit, params
<1>1. CASE \E t \in Track : ClientStep(t)
  <2> SUFFICES ASSUME NEW t \in Track, ClientStep(t)
               PROVE  Exiting' /\ Starting'
    BY <1>1
  <2>1. CASE Create(t)
    BY <2>1 DEF Create, NewCall
  <2>2. CASE StartAgain(t)
    BY <2>2 DEF StartAgain, State, track_state
  <2>3. CASE Start(t)
    BY <2>3 DEF Start, State, NewCall
  <2>4. ASSUME NEW last \in BOOLEAN, StopCall(t, last), call[t] = "idle",
               UNCHANGED <<mActiveTrack, pc, exit>>
        PROVE  Exiting' /\ Starting'
    BY <2>4 DEF StopCall, NewCall, State, AfterStop
  <2>5. CASE Stop(t)
    BY <2>4, <2>5 DEF Stop
  <2>6. CASE Drop(t)
    BY <2>4, <2>6 DEF Drop
  <2>q. QED
    BY <2>1, <2>2, <2>3, <2>5, <2>6 DEF ClientStep
<1>2. CASE \E t \in Track : Continue(t)
  <2> SUFFICES ASSUME NEW t \in Track, Continue(t)
               PROVE  Exiting' /\ Starting'
    BY <1>2
  <2>1. CASE StartInputFails(t)
    BY <2>1 DEF StartInputFails, NewCall
  <2>2. CASE StartInput(t)
    BY <2>2, SignalledType DEF StartInput, NewCall, State
  <2>3. CASE StartWoken(t)
    BY <2>3 DEF StartWoken, NewCall
  <2>4. CASE StartError(t)
    BY <2>4 DEF StartError, NewCall
  <2>5. CASE StopWoken(t)
    BY <2>5 DEF StopWoken, NewCall, AfterStop
  <2>6. CASE StopInput(t)
    BY <2>6 DEF StopInput, NewCall, AfterStop
  <2>7. CASE Destroy(t)
    BY <2>7 DEF Destroy, NewCall
  <2>8. CASE Remove(t)
    BY <2>8 DEF Remove, NewCall, State
  <2>q. QED
    BY <2>1, <2>2, <2>3, <2>4, <2>5, <2>6, <2>7, <2>8 DEF Continue
<1>3. CASE Serve
  <2>1. mActiveTrack = NULL \/ mState[mActiveTrack] # "IDLE"
           => \A u \in Track : call[u] = "startInput" => exitPending
    BY DEF Serve
  <2>2. \A u \in Track : call'[u] = "startInput" => call[u] = "startInput"
    BY <1>3, BroadcastType DEF Serve
  <2>3. ~exitPending /\ (\E u \in Track : call[u] = "startInput")
           => UNCHANGED <<mActiveTrack, mState>>
    BY <1>3, <2>1 DEF Serve, Clears, State
  <2>q. QED
    BY <1>3, <2>2, <2>3 DEF Serve, Go
<1>4. CASE Final
  BY <1>4 DEF Final, Go
<1>5. CASE LoopTop \/ HandleEvent
  BY <1>5 DEF LoopTop, HandleEvent, TakeEvent, Go
<1>6. CASE \E ok \in BOOLEAN : HandleParameter(ok)
  BY <1>6 DEF HandleParameter, Go
<1>7. CASE ParamWaitTimesOut \/ Sleep
  BY <1>7 DEF ParamWaitTimesOut, Sleep, Go
<1>8. CASE Check \/ CheckState \/ (\E n \in {-1, 0} : Read(n)) \/ Overflow
  BY <1>8 DEF Check, CheckState, Read, Overflow, Go
<1>9. CASE \E s \in Setter, forward \in BOOLEAN : FindThread(s, forward)
  BY <1>9 DEF FindThread
<1>10. CASE \E s \in Setter : SetterStep(s)
  <2>1. PICK s \in Setter : SetterStep(s)
    BY <1>10
  <2>2. UNCHANGED <<tracks, client, exit>> /\ pc' \in {pc, Signalled}
    BY <2>1 DEF SetterStep, SetParameters, Answered, TimedOut
  <2>q. QED
    BY <2>2, SignalledType
<1>11. CASE CloseInput \/ Exit \/ Joined
  BY <1>11, SignalledType DEF CloseInput, Exit, Joined
<1>12. CASE UNCHANGED vars
  BY <1>12 DEF vars
<1>q. QED
  BY <1>1, <1>2, <1>3, <1>4, <1>5, <1>6, <1>7, <1>8, <1>9, <1>10, <1>11,
     <1>12 DEF Next, LoopStep

(* The callers that wait keep the input until the loop wakes them.         *)
LEMMA StepWaited ==
  ASSUME TypeOK, Exiting, Starting, Waited, [Next]_vars
  PROVE  Waited'
<1> USE RecordThreadAssumption DEF TypeOK, Exiting, Starting, Waited, tracks,
        client, exit
<1>1. CASE \E t \in Track : ClientStep(t)
  <2> SUFFICES ASSUME NEW t \in Track, ClientStep(t)
               PROVE  Waited'
    BY <1>1
  <2>1. CASE Create(t)
    BY <2>1 DEF Create, NewCall
  <2>2. CASE StartAgain(t)
    BY <2>2 DEF StartAgain, State, track_state
  <2>3. CASE Start(t)
    BY <2>3 DEF Start, State, NewCall
  <2>4. ASSUME NEW last \in BOOLEAN, StopCall(t, last), call[t] = "idle",
               UNCHANGED <<mActiveTrack, exit>>
        PROVE  Waited'
    BY <2>4 DEF StopCall, NewCall, State, AfterStop
  <2>5. CASE Stop(t)
    BY <2>4, <2>5 DEF Stop
  <2>6. CASE Drop(t)
    BY <2>4, <2>6 DEF Drop
  <2>q. QED
    BY <2>1, <2>2, <2>3, <2>5, <2>6 DEF ClientStep
<1>2. CASE \E t \in Track : Continue(t)
  <2> SUFFICES ASSUME NEW t \in Track, Continue(t)
               PROVE  Waited'
    BY <1>2
  <2>1. CASE StartInputFails(t)
    BY <2>1 DEF StartInputFails, NewCall
  <2>2. CASE StartInput(t)
    BY <2>2 DEF StartInput, NewCall, State
  <2>3. CASE StartWoken(t)
    BY <2>3 DEF StartWoken, NewCall
  <2>4. CASE StartError(t)
    BY <2>4 DEF StartError, NewCall
  <2>5. CASE StopWoken(t)
    BY <2>5 DEF StopWoken, NewCall, AfterStop
  <2>6. CASE StopInput(t)
    BY <2>6 DEF StopInput, NewCall, AfterStop
  <2>7. CASE Destroy(t)
    BY <2>7 DEF Destroy, NewCall
  <2>8. CASE Remove(t)
    BY <2>8 DEF Remove, NewCall, State
  <2>q. QED
    BY <2>1, <2>2, <2>3, <2>4, <2>5, <2>6, <2>7, <2>8 DEF Continue
<1>3. CASE Serve
  <2>1. CASE call' = Broadcast(call)
    BY <1>3, <2>1 DEF Serve, Broadcast
  <2>2. CASE call' = call
    <3>1. ~exitPending /\ (\E u \in Track : call[u] \in Waiting)
             => UNCHANGED <<mActiveTrack, mState>>
      BY <1>3, <2>2 DEF Serve, Clears, State, Broadcast, Waiting
    <3>q. QED
      BY <1>3, <2>2, <3>1 DEF Serve, Waiting
  <2>q. QED
    BY <1>3, <2>1, <2>2 DEF Serve
<1>4. CASE Final
  BY <1>4 DEF Final
<1>5. ASSUME UNCHANGED <<mState, mActiveTrack, call>>,
             exitPending' = exitPending \/ exitPending'
      PROVE  Waited'
  BY <1>5
<1>6. CASE LoopStep /\ ~Serve /\ ~Final
  BY <1>5, <1>6
     DEF LoopStep, LoopTop, HandleEvent, HandleParameter, ParamWaitTimesOut,
         Sleep, Check, CheckState, Read, Overflow
<1>7. CASE \/ \E s \in Setter, forward \in BOOLEAN : FindThread(s, forward)
           \/ \E s \in Setter : SetterStep(s)
  BY <1>5, <1>7 DEF FindThread, SetterStep, SetParameters, Answered, TimedOut
<1>8. CASE CloseInput \/ Exit \/ Joined \/ UNCHANGED vars
  BY <1>5, <1>8 DEF CloseInput, Exit, Joined, vars
<1>q. QED
  BY <1>1, <1>2, <1>3, <1>4, <1>6, <1>7, <1>8 DEF Next

(* What would give the loop something to do wakes it.                      *)
LEMMA StepAsleep ==
  ASSUME TypeOK, Starting, Asleep, [Next]_vars
  PROVE  Asleep'
<1> SUFFICES ASSUME pc' = "wait" PROVE Asleep'
  BY DEF Asleep
<1> USE RecordThreadAssumption DEF TypeOK, Asleep, tracks, client, exit, params
<1>0. Signalled # "wait"
  BY DEF Signalled
<1>1. CASE LoopStep
  BY <1>1 DEF LoopStep, LoopTop, HandleEvent, TakeEvent, HandleParameter,
     ParamWaitTimesOut, Sleep, Serve, Check, CheckState, Read, Overflow,
     Final, Go
<1>2. CASE \E t \in Track : ClientStep(t)
  <2> PICK t \in Track : ClientStep(t)
    BY <1>2
  <2>1. CASE Create(t) \/ StartAgain(t) \/ Start(t)
    BY <2>1 DEF Create, StartAgain, Start, NewCall
  <2>2. CASE Stop(t) \/ Drop(t)
    <3>1. call[t] = "idle" /\ UNCHANGED <<mActiveTrack, pc, params, exit>>
      BY <2>2 DEF Stop, Drop
    <3>2. \A u \in Track \ {t} : call'[u] = call[u]
      BY <2>2 DEF Stop, Drop, StopCall, NewCall
    <3>q. QED
      BY <3>1, <3>2
  <2>q. QED
    BY <2>1, <2>2 DEF ClientStep
<1>3. CASE \E t \in Track : Continue(t)
  <2> PICK t \in Track : Continue(t)
    BY <1>3
  <2>1. CASE StartInputFails(t) \/ StartInput(t)
    BY <1>0, <2>1 DEF StartInputFails, StartInput, NewCall
  <2>2. CASE \/ StartWoken(t) \/ StartError(t) \/ StopWoken(t)
             \/ StopInput(t) \/ Destroy(t) \/ Remove(t)
    BY <2>2 DEF StartWoken, StartError, StopWoken, StopInput, Destroy,
       Remove, NewCall
  <2>q. QED
    BY <2>1, <2>2 DEF Continue
<1>4. CASE \/ \E s \in Setter, forward \in BOOLEAN : FindThread(s, forward)
           \/ \E s \in Setter : SetterStep(s)
  BY <1>0, <1>4 DEF FindThread, SetterStep, SetParameters, Answered, TimedOut
<1>5. CASE CloseInput \/ Exit \/ Joined \/ UNCHANGED vars
  BY <1>0, <1>5 DEF CloseInput, Exit, Joined, vars
<1>q. QED
  BY <1>1, <1>2, <1>3, <1>4, <1>5 DEF Next

(* The hand-shake: a command more for a setter more, and an answer for a   *)
(* setter that waits, whosever command was carried out.                    *)
LEMMA StepAnswers ==
  ASSUME TypeOK, Answers, [Next]_vars
  PROVE  Answers'
<1>0. /\ IsFiniteSet(Waiters) /\ Cardinality(Waiters) \in Nat
      /\ Len(mNewParameters) \in Nat /\ mNewParameters \in Seq(Commands)
      /\ setter \in [Setter -> {"idle", "found", "wait", "woken"}]
  BY RecordThreadAssumption, FS_Subset, FS_CardinalityType
     DEF Waiters, TypeOK
<1>1. ASSUME NEW s \in Setter, setter[s] = "wait",
             setter' = [setter EXCEPT ![s] = setter'[s]], setter'[s] # "wait"
      PROVE  Cardinality(Waiters') = Cardinality(Waiters) - 1
  <2>1. Waiters' = Waiters \ {s} /\ s \in Waiters
    BY <1>0, <1>1 DEF Waiters
  <2>q. QED
    BY <1>0, <2>1, FS_RemoveElement
<1>2. ASSUME NEW ok \in BOOLEAN, HandleParameter(ok) PROVE Answers'
  <2>1. Len(mNewParameters') = Len(mNewParameters) - 1
          /\ Len(mNewParameters) > 0
    BY <1>0, <1>2 DEF HandleParameter
  <2>2. CASE Waiters = {} /\ UNCHANGED setter
    <3>1. Waiters' = {}
      BY <2>2 DEF Waiters
    <3>q. QED
      BY <1>0, <2>1, <3>1, FS_EmptySet DEF Answers
  <2>3. ASSUME NEW s \in Waiters, setter' = [setter EXCEPT ![s] = "woken"]
        PROVE  Answers'
    <3>1. s \in Setter /\ setter[s] = "wait" /\ setter'[s] = "woken"
      BY <1>0, <2>3 DEF Waiters
    <3>2. Cardinality(Waiters') = Cardinality(Waiters) - 1
      BY <1>1, <2>3, <3>1
    <3>q. QED
      BY <1>0, <2>1, <3>2 DEF Answers
  <2>q. QED
    BY <1>2, <2>2, <2>3 DEF HandleParameter, SignalOne, Waiters
<1>3. ASSUME NEW s \in Setter, NEW command \in Commands,
             SetParameters(s, command)
      PROVE  Answers'
  <2>1. Waiters' = Waiters \cup {s} /\ s \notin Waiters
    BY <1>0, <1>3 DEF SetParameters, Waiters
  <2>2. Cardinality(Waiters') = Cardinality(Waiters) + 1
    BY <1>0, <2>1, FS_AddElement
  <2>3. Len(mNewParameters') = Len(mNewParameters) + 1
    BY <1>0, <1>3 DEF SetParameters
  <2>q. QED
    BY <1>0, <2>2, <2>3 DEF Answers
<1>4. ASSUME NEW s \in Setter, TimedOut(s) PROVE Answers'
  <2>1. setter[s] = "wait" /\ setter' = [setter EXCEPT ![s] = "idle"]
          /\ UNCHANGED mNewParameters
    BY <1>4 DEF TimedOut
  <2>2. setter'[s] = "idle"
    BY <1>0, <2>1
  <2>3. Cardinality(Waiters') = Cardinality(Waiters) - 1
    BY <1>1, <2>1, <2>2
  <2>q. QED
    BY <1>0, <2>1, <2>3 DEF Answers
<1>5. ASSUME Waiters' = Waiters, UNCHANGED mNewParameters PROVE Answers'
  BY <1>5 DEF Answers
<1>6. ASSUME NEW s \in Setter,
             Answered(s) \/ \E forward \in BOOLEAN : FindThread(s, forward)
      PROVE  Answers'
  <2>1. Waiters' = Waiters /\ UNCHANGED mNewParameters
    BY <1>0, <1>6 DEF Answered, FindThread, Waiters
  <2>q. QED
    BY <1>5, <2>1
<1>7. ASSUME UNCHANGED <<mNewParameters, setter>> PROVE Answers'
  BY <1>5, <1>7 DEF Waiters
<1>8. CASE LoopStep
  BY <1>2, <1>7, <1>8
     DEF LoopStep, LoopTop, HandleEvent, ParamWaitTimesOut, Sleep, Serve,
         Check, CheckState, Read, Overflow, Final, params
<1>9. CASE \E t \in Track : ClientStep(t) \/ Continue(t)
  BY <1>7, <1>9
     DEF ClientStep, Create, StartAgain, Start, Stop, Drop, Continue,
         StartInputFails, StartInput, StartWoken, StartError, StopWoken,
         StopInput, Destroy, Remove, params
<1>10. CASE CloseInput \/ Exit \/ Joined \/ UNCHANGED vars
  BY <1>7, <1>10 DEF CloseInput, Exit, Joined, vars, params
<1>q. QED
  BY <1>2, <1>3, <1>4, <1>6, <1>8, <1>9, <1>10 DEF Next, SetterStep

-----------------------------------------------------------------------------
(* IInv is inductive.                                                      *)
LEMMA StepInv == ASSUME IInv, [Next]_vars PROVE IInv'
  BY StepType, StepStarting, StepWaited, StepAsleep, StepAnswers DEF IInv

(* The inductive invariant holds of every behaviour.                       *)
LEMMA Invariance == Safety => []IInv
<1>1. Init => IInv
  BY InitInv
<1>2. IInv /\ [Next]_vars => IInv'
  BY StepInv
<1>q. QED
  BY <1>1, <1>2, PTL DEF Safety

(* Every variable keeps its type, however many tracks and setters there    *)
(* are: a caller is always at a known place of start(), stop() or          *)
(* destroy(), and the loop at one of threadLoop().                         *)
THEOREM TypeCorrect == Safety => []TypeOK
<1>1. IInv => TypeOK
  BY DEF IInv
<1>q. QED
  BY <1>1, Invariance, PTL

(* Nobody waits for a sleeping loop (the untimed mWaitWorkCV.wait in       *)
(* threadLoop), however many callers of setParameters() overlap, time out  *)
(* and leave their commands to others.                                     *)
THEOREM SleepingLoop == Safety => []NobodyWaitsForSleeper
<1>1. IInv => NobodyWaitsForSleeper
  <2> SUFFICES ASSUME IInv, pc = "wait"
               PROVE  /\ mNewParameters = <<>> /\ ~exitPending
                      /\ \A s \in Setter : setter[s] # "wait"
                      /\ \A t \in Track : call[t] \notin Waiting
    BY DEF NobodyWaitsForSleeper
  <2>1. mNewParameters = <<>> /\ ~exitPending
    BY DEF IInv, Asleep
  <2>2. IsFiniteSet(Waiters)
    BY RecordThreadAssumption, FS_Subset DEF Waiters
  <2>3. Cardinality(Waiters) = 0
    BY <2>1, <2>2, FS_CardinalityType DEF IInv, Answers
  <2>4. Waiters = {}
    BY <2>2, <2>3, FS_EmptySet
  <2>5. \A t \in Track : call[t] \notin Waiting
    BY <2>1, RecordThreadAssumption DEF IInv, Waited, Asleep, Waiting
  <2>q. QED
    BY <2>1, <2>4, <2>5 DEF Waiters
<1>q. QED
  BY <1>1, Invariance, PTL

(* What one step may do to the active track.                               *)
LEMMA StepActiveTrack ==
  ASSUME IInv, Next, NEW t \in Track, mActiveTrack = t, mActiveTrack' # t,
         ~exitPending
  PROVE  IF call[t] = "startInput" THEN call'[t] # "startInput"
                                   ELSE pc \notin {"state", "read"}
<1> USE RecordThreadAssumption DEF IInv, TypeOK, tracks, client
<1>1. CASE \E u \in Track : StartInputFails(u)
  BY <1>1 DEF StartInputFails, NewCall, Starting
<1>2. CASE Serve
  <2>1. pc = "params" /\ mState[t] # "IDLE"
    BY <1>2 DEF Serve, Clears
  <2>q. QED
    BY <2>1 DEF Starting
<1>3. CASE Final
  BY <1>3 DEF Final, Exiting
<1>4. ASSUME UNCHANGED mActiveTrack PROVE FALSE
  BY <1>4
<1>5. CASE LoopStep
  BY <1>2, <1>3, <1>4, <1>5
     DEF LoopStep, LoopTop, HandleEvent, HandleParameter, ParamWaitTimesOut,
         Sleep, Check, CheckState, Read, Overflow
<1>6. CASE \E u \in Track : ClientStep(u)
  BY <1>4, <1>6 DEF ClientStep, Create, StartAgain, Start, Stop, Drop
<1>7. CASE \E u \in Track : Continue(u)
  BY <1>1, <1>4, <1>7
     DEF Continue, StartInput, StartWoken, StartError, StopWoken, StopInput,
         Destroy, Remove
<1>8. CASE \/ \E s \in Setter, forward \in BOOLEAN : FindThread(s, forward)
           \/ \E s \in Setter : SetterStep(s)
  BY <1>4, <1>8 DEF FindThread, SetterStep, SetParameters, Answered, TimedOut
<1>9. CASE CloseInput \/ Exit \/ Joined
  BY <1>4, <1>9 DEF CloseInput, Exit, Joined
<1>q. QED
  BY <1>5, <1>6, <1>7, <1>8, <1>9 DEF Next

(* Until exit() is called, nobody takes the active track from a loop that  *)
(* reads it without mLock, nor from a client inside startInput().          *)
THEOREM ActiveTrack == Safety => ActiveTrackStays
<1> DEFINE Stays ==
      LET t == mActiveTrack IN
      t # NULL /\ mActiveTrack' # t /\ ~exitPending =>
          IF call[t] = "startInput" THEN call'[t] # "startInput"
                                    ELSE pc \notin {"state", "read"}
<1>1. IInv /\ [Next]_vars => [Stays]_vars
  BY StepActiveTrack DEF IInv, TypeOK, vars, tracks
<1>q. QED
  BY <1>1, Invariance, PTL DEF Safety, ActiveTrackStays
-----------------------------------------------------------------------------
(* The accounts of startInput().                                           *)

(* Where a caller on t is, by whether t is the active track, while the     *)
(* input is open and the loop has refused no start.                        *)
PlaceOK(t) ==
    \/ /\ mActiveTrack = t
       /\ \/ call[t] = "startInput" /\ mState[t] = "IDLE"
          \/ call[t] = "startWait" /\ mState[t] = "RESUMING"
          \/ call[t] \in {"startWoken", "idle"} /\ mState[t] = "ACTIVE"
          \/ call[t] = "stopWait" /\ mState[t] = "PAUSING"
    \/ /\ mActiveTrack # t
       /\ call[t] \in {"none", "idle", "stopWoken", "stopInput", "destroy",
                       "remove", "gone"}
       /\ mState[t] \in {"IDLE", "PAUSING", "TERMINATED"}

PlacesOK == \A t \in Track : PlaceOK(t)

(* t has called startInput() and has still to call stopInput().            *)
Holds(t) == \/ mActiveTrack = t /\ call[t] # "startInput"
            \/ call[t] \in {"stopWoken", "stopInput"}
Holders == {t \in Track : Holds(t)}

OpenRuns == closer = "open" => ~exitPending

Accounts ==
    closer = "open" /\ ~refused =>
        PlacesOK /\ IsFiniteSet(Holders) /\ inputs = Cardinality(Holders)

BalanceInv == OpenRuns /\ Accounts

(* What a step does to the account, and for whom.                          *)
Same == inputs' = inputs /\ \A u \in Track : Holds(u)' <=> Holds(u)
Taken(t) ==
    /\ inputs' = inputs + 1 /\ ~Holds(t) /\ Holds(t)'
    /\ \A u \in Track \ {t} : Holds(u)' <=> Holds(u)
Given(t) ==
    /\ inputs' = inputs - 1 /\ Holds(t) /\ ~Holds(t)'
    /\ \A u \in Track \ {t} : Holds(u)' <=> Holds(u)

(* The count of startInput() calls follows the set of those who hold one.  *)
LEMMA AccountStep ==
  ASSUME IsFiniteSet(Holders), inputs = Cardinality(Holders),
         Same \/ \E t \in Track : Taken(t) \/ Given(t)
  PROVE  IsFiniteSet(Holders') /\ inputs' = Cardinality(Holders')
<1>1. CASE Same
  <2>1. Holders' = Holders
    BY <1>1, Zenon DEF Same, Holders
  <2>q. QED
    BY <1>1, <2>1 DEF Same
<1>2. ASSUME NEW t \in Track, Taken(t)
      PROVE  IsFiniteSet(Holders') /\ inputs' = Cardinality(Holders')
  <2>1. Holders' = Holders \cup {t} /\ t \notin Holders
    BY <1>2, Zenon DEF Taken, Holders
  <2>2. /\ IsFiniteSet(Holders \cup {t})
        /\ Cardinality(Holders \cup {t}) = Cardinality(Holders) + 1
    BY <2>1, FS_AddElement
  <2>q. QED
    BY <1>2, <2>1, <2>2 DEF Taken
<1>3. ASSUME NEW t \in Track, Given(t)
      PROVE  IsFiniteSet(Holders') /\ inputs' = Cardinality(Holders')
  <2>1. Holders' = Holders \ {t} /\ t \in Holders
    BY <1>3, Zenon DEF Given, Holders
  <2>2. /\ IsFiniteSet(Holders \ {t})
        /\ Cardinality(Holders \ {t}) = Cardinality(Holders) - 1
    BY <2>1, FS_RemoveElement
  <2>q. QED
    BY <1>3, <2>1, <2>2 DEF Given
<1>q. QED
  BY <1>1, <1>2, <1>3

(* A step that leaves a track and its caller alone.                        *)
LEMMA AccountStays ==
  ASSUME PlacesOK, UNCHANGED <<mState, mActiveTrack, call, inputs>>
  PROVE  PlacesOK' /\ Same
  BY DEF PlacesOK, PlaceOK, Same, Holds

(* The steps of the clients.                                               *)
LEMMA ClientAccounts ==
  ASSUME TypeOK, PlacesOK, closer = "open", ~exitPending, NEW t \in Track,
         ClientStep(t) \/ Continue(t)
  PROVE  PlacesOK' /\ (Same \/ Taken(t) \/ Given(t))
<1> USE RecordThreadAssumption
<1>0. PlaceOK(t) /\ mState \in [Track -> track_state]
        /\ call \in [Track -> Place] /\ inputs \in Int
  BY DEF PlacesOK, TypeOK
<1>1. CASE Create(t)
  BY <1>0, <1>1 DEF Create, NewCall, PlacesOK, PlaceOK, Same, Holds
<1>2. CASE StartAgain(t)
  <2>1. UNCHANGED <<mState, mActiveTrack, call, inputs>>
    BY <1>0, <1>2 DEF StartAgain, PlaceOK
  <2>q. QED
    BY <2>1, AccountStays
<1>3. CASE Start(t)
  BY <1>0, <1>3 DEF Start, NewCall, State, PlacesOK, PlaceOK, Same, Holds
<1>4. ASSUME NEW last \in BOOLEAN, StopCall(t, last), call[t] = "idle",
             UNCHANGED <<mActiveTrack, inputs>>
      PROVE  PlacesOK' /\ Same
  <2>1. CASE mActiveTrack # t
    <3>1. NewCall(t, AfterStop(t, last)) /\ UNCHANGED mState
      BY <1>4, <2>1 DEF StopCall
    <3>q. QED
      BY <1>0, <1>4, <2>1, <3>1
         DEF NewCall, AfterStop, PlacesOK, PlaceOK, Same, Holds
  <2>2. CASE mActiveTrack = t
    <3>1. State(t, "PAUSING") /\ NewCall(t, "stopWait")
      BY <1>0, <1>4, <2>2 DEF StopCall, ThreadLives, PlaceOK
    <3>q. QED
      BY <1>0, <1>4, <2>2, <3>1
         DEF NewCall, State, PlacesOK, PlaceOK, Same, Holds
  <2>q. QED
    BY <2>1, <2>2
<1>5. CASE Stop(t)
  BY <1>4, <1>5 DEF Stop
<1>6. CASE Drop(t)
  BY <1>4, <1>6 DEF Drop
<1>7. CASE StartInputFails(t)
  BY <1>0, <1>7 DEF StartInputFails, NewCall, PlacesOK, PlaceOK, Same, Holds
<1>8. CASE StartInput(t)
  <2>1. mActiveTrack = t /\ mState[t] = "IDLE"
    BY <1>0, <1>8 DEF StartInput, PlaceOK
  <2>2. /\ inputs' = inputs + 1 /\ State(t, "RESUMING")
        /\ NewCall(t, "startWait") /\ mActiveTrack' = t
        /\ call[t] = "startInput"
    BY <1>8, <2>1 DEF StartInput, Counted
  <2>3. PlacesOK'
    BY <1>0, <2>1, <2>2 DEF NewCall, State, PlacesOK, PlaceOK
  <2>4. Taken(t)
    BY <1>0, <2>1, <2>2 DEF NewCall, State, Taken, Holds
  <2>q. QED
    BY <2>3, <2>4
<1>9. CASE StartWoken(t)
  <2>1. mActiveTrack = t
    BY <1>0, <1>9 DEF StartWoken, PlaceOK
  <2>2. NewCall(t, "idle") /\ UNCHANGED <<mState, mActiveTrack, inputs>>
          /\ call[t] = "startWoken"
    BY <1>9, <2>1 DEF StartWoken, tracks
  <2>q. QED
    BY <1>0, <2>1, <2>2 DEF NewCall, PlacesOK, PlaceOK, Same, Holds
<1>10. CASE StartError(t)
  BY <1>0, <1>10 DEF StartError, PlaceOK
<1>11. CASE StopWoken(t)
  <2>1. mActiveTrack # t
    BY <1>0, <1>11 DEF StopWoken, PlaceOK
  <2>2. NewCall(t, "stopInput") /\ UNCHANGED <<mState, mActiveTrack, inputs>>
          /\ call[t] = "stopWoken"
    BY <1>11, <2>1 DEF StopWoken, tracks
  <2>q. QED
    BY <1>0, <2>1, <2>2 DEF NewCall, PlacesOK, PlaceOK, Same, Holds
<1>12. CASE StopInput(t)
  <2>1. mActiveTrack # t
    BY <1>0, <1>12 DEF StopInput, PlaceOK
  <2>2. /\ inputs' = inputs - 1 /\ NewCall(t, AfterStop(t, dying[t]))
        /\ UNCHANGED <<mState, mActiveTrack>> /\ call[t] = "stopInput"
    BY <1>0, <1>12 DEF StopInput, Counted, tracks
  <2>3. PlacesOK'
    BY <1>0, <2>1, <2>2 DEF NewCall, AfterStop, PlacesOK, PlaceOK
  <2>4. Given(t)
    BY <1>0, <2>1, <2>2 DEF NewCall, AfterStop, Given, Holds
  <2>q. QED
    BY <2>3, <2>4
<1>13. CASE Destroy(t)
  <2>1. mActiveTrack # t /\ mState[t] \in {"IDLE", "PAUSING", "TERMINATED"}
    BY <1>0, <1>13 DEF Destroy, PlaceOK
  <2>2. /\ inputs' = inputs /\ NewCall(t, "remove")
        /\ UNCHANGED <<mState, mActiveTrack>> /\ call[t] = "destroy"
    BY <1>13, <2>1 DEF Destroy, ThreadLives, tracks
  <2>q. QED
    BY <1>0, <2>1, <2>2 DEF NewCall, PlacesOK, PlaceOK, Same, Holds
<1>14. CASE Remove(t)
  <2>1. mActiveTrack # t
    BY <1>0, <1>14 DEF Remove, PlaceOK
  <2>q. QED
    BY <1>0, <1>14, <2>1
       DEF Remove, NewCall, State, PlacesOK, PlaceOK, Same, Holds
<1>q. QED
  BY <1>1, <1>2, <1>3, <1>5, <1>6, <1>7, <1>8, <1>9, <1>10, <1>11, <1>12,
     <1>13, <1>14 DEF ClientStep, Continue

(* The loop lets go of a track only when its caller is stopping it.        *)
LEMMA ServeAccounts ==
  ASSUME TypeOK, PlacesOK, Serve, ~refused'
  PROVE  PlacesOK' /\ Same
<1> DEFINE t == mActiveTrack
           clears == t # NULL /\ Clears(t)
           starts == t # NULL /\ mState[t] = "RESUMING" /\ readOnce /\ ~clears
<1>1. /\ mActiveTrack' = IF clears THEN NULL ELSE t
      /\ IF starts THEN State(t, "ACTIVE") ELSE UNCHANGED mState
      /\ call' = IF starts \/ (clears /\ mState[t] # "TERMINATED")
                 THEN Broadcast(call) ELSE call
      /\ ~(clears /\ mState[t] = "RESUMING") /\ inputs' = inputs
  BY DEF Serve
<1>2. /\ t \in Track \cup {NULL} /\ NULL \notin Track
      /\ mState \in [Track -> track_state] /\ call \in [Track -> Place]
  BY RecordThreadAssumption DEF TypeOK
<1> HIDE DEF starts, clears
<1>3. CASE starts
  <2>1. /\ t \in Track /\ mState[t] = "RESUMING" /\ ~clears
    BY <1>2, <1>3 DEF starts
  <2>2. PlaceOK(t)
    BY <2>1 DEF PlacesOK
  <2>3. call[t] = "startWait"
    BY <2>1, <2>2 DEF PlaceOK
  <2>4. /\ mActiveTrack' = t /\ mState' = [mState EXCEPT ![t] = "ACTIVE"]
        /\ call' = Broadcast(call)
    BY <1>1, <1>3, <2>1 DEF State
  <2>5. /\ call'[t] = "startWoken" /\ mState'[t] = "ACTIVE"
        /\ \A u \in Track \ {t} : mState'[u] = mState[u] /\ call'[u] = call[u]
    <3>1. \A u \in Track \ {t} : call[u] \notin {"startWait", "stopWait"}
      BY DEF PlacesOK, PlaceOK
    <3>q. QED
      BY <3>1, <2>1, <2>3, <2>4, <1>2 DEF Broadcast
  <2>6. PlacesOK'
    BY <2>1, <2>4, <2>5 DEF PlacesOK, PlaceOK
  <2>7. Same
    BY <2>1, <2>3, <2>4, <2>5, <1>1 DEF Same, Holds
  <2>q. QED
    BY <2>6, <2>7
<1>4. CASE clears
  <2>1. t \in Track /\ mState[t] \in {"PAUSING", "TERMINATED"} /\ ~starts
    BY <1>1, <1>2, <1>4 DEF clears, starts, Clears
  <2>2. PlaceOK(t)
    BY <2>1 DEF PlacesOK
  <2>3. call[t] = "stopWait" /\ mState[t] = "PAUSING"
    BY <2>1, <2>2 DEF PlaceOK
  <2>4. /\ mActiveTrack' = NULL /\ mState' = mState
        /\ call' = Broadcast(call)
    BY <1>1, <1>4, <2>1, <2>3
  <2>5. /\ call'[t] = "stopWoken"
        /\ \A u \in Track \ {t} : call'[u] = call[u]
    <3>1. \A u \in Track \ {t} : call[u] \notin {"startWait", "stopWait"}
      BY DEF PlacesOK, PlaceOK
    <3>q. QED
      BY <3>1, <2>1, <2>3, <2>4, <1>2 DEF Broadcast
  <2>6. PlacesOK'
    BY <2>1, <2>3, <2>4, <2>5, <1>2 DEF PlacesOK, PlaceOK
  <2>7. Same
    BY <2>1, <2>3, <2>4, <2>5, <1>1, <1>2 DEF Same, Holds
  <2>q. QED
    BY <2>6, <2>7
<1>5. CASE ~starts /\ ~clears
  <2>1. UNCHANGED <<mState, mActiveTrack, call, inputs>>
    BY <1>1, <1>5
  <2>q. QED
    BY <2>1, AccountStays
<1>q. QED
  BY <1>3, <1>4, <1>5

(* Every step keeps the account while the input stays open and no start is *)
(* refused; after that there is nothing to keep.                           *)
LEMMA StepBalance ==
  ASSUME IInv, BalanceInv, [Next]_vars
  PROVE  BalanceInv'
<1>1. OpenRuns'
  BY DEF IInv, BalanceInv, OpenRuns, Next, LoopStep, LoopTop, HandleEvent,
     HandleParameter, ParamWaitTimesOut, Sleep, Serve, Check, CheckState,
     Read, Overflow, Final, ClientStep, Create, StartAgain, Start, Stop, Drop,
     Continue, StartInputFails, StartInput, StartWoken, StartError, StopWoken,
     StopInput, Destroy, Remove, FindThread, SetterStep, SetParameters,
     Answered, TimedOut, CloseInput, Exit, Joined, vars, exit
<1>2. ASSUME closer' = "open", ~refused'
      PROVE  /\ PlacesOK' /\ IsFiniteSet(Holders')
             /\ inputs' = Cardinality(Holders')
  <2>1. closer = "open" /\ ~refused /\ ~exitPending
    <3>1. closer = "open"
      BY <1>2
         DEF Next, LoopStep, LoopTop, HandleEvent, HandleParameter,
             ParamWaitTimesOut, Sleep, Serve, Check, CheckState, Read,
             Overflow, Final, ClientStep, Create, StartAgain, Start, Stop,
             Drop, Continue, StartInputFails, StartInput, StartWoken,
             StartError, StopWoken, StopInput, Destroy, Remove, FindThread,
             SetterStep, SetParameters, Answered, TimedOut, CloseInput, Exit,
             Joined, vars, exit
    <3>2. ~refused
      BY <1>2
         DEF Next, LoopStep, LoopTop, HandleEvent, HandleParameter,
             ParamWaitTimesOut, Sleep, Serve, Check, CheckState, Read,
             Overflow, Final, ClientStep, Create, StartAgain, Start, Stop,
             Drop, Continue, StartInputFails, StartInput, StartWoken,
             StartError, StopWoken, StopInput, Destroy, Remove, FindThread,
             SetterStep, SetParameters, Answered, TimedOut, CloseInput, Exit,
             Joined, vars
    <3>q. QED
      BY <3>1, <3>2 DEF BalanceInv, OpenRuns
  <2>2. /\ PlacesOK /\ IsFiniteSet(Holders) /\ inputs = Cardinality(Holders)
        /\ TypeOK /\ pc # "final"
    BY <2>1 DEF BalanceInv, Accounts, IInv, Exiting
  <2>3. ASSUME NEW t \in Track, ClientStep(t) \/ Continue(t)
        PROVE  PlacesOK' /\ (Same \/ Taken(t) \/ Given(t))
    BY <2>1, <2>2, <2>3, ClientAccounts
  <2>4. ASSUME Serve
        PROVE  PlacesOK' /\ Same
    BY <1>2, <2>2, <2>4, ServeAccounts
  <2>5. ASSUME UNCHANGED <<mState, mActiveTrack, call, inputs>>
        PROVE  PlacesOK' /\ Same
    BY <2>2, <2>5, AccountStays
  <2>6. PlacesOK' /\ (Same \/ \E t \in Track : Taken(t) \/ Given(t))
    <3>1. CASE LoopStep
      <4>1. CASE Serve
        BY <2>4, <4>1
      <4>2. CASE ~Serve
        <5>1. UNCHANGED <<mState, mActiveTrack, call, inputs>>
          BY <2>2, <3>1, <4>2
             DEF LoopStep, LoopTop, HandleEvent, HandleParameter,
                 ParamWaitTimesOut, Sleep, Check, CheckState, Read, Overflow,
                 Final, tracks, client
        <5>q. QED
          BY <2>5, <5>1
      <4>q. QED
        BY <4>1, <4>2
    <3>2. CASE \E t \in Track : ClientStep(t) \/ Continue(t)
      BY <2>3, <3>2
    <3>3. CASE \/ \E s \in Setter, forward \in BOOLEAN : FindThread(s, forward)
               \/ \E s \in Setter : SetterStep(s)
      <4>1. UNCHANGED <<mState, mActiveTrack, call, inputs>>
        BY <3>3
           DEF FindThread, SetterStep, SetParameters, Answered, TimedOut,
               tracks, client
      <4>q. QED
        BY <2>5, <4>1
    <3>4. CASE CloseInput \/ Exit \/ Joined \/ UNCHANGED vars
      <4>1. UNCHANGED <<mState, mActiveTrack, call, inputs>>
        BY <1>2, <3>4 DEF CloseInput, Exit, Joined, vars, tracks, client
      <4>q. QED
        BY <2>5, <4>1
    <3>q. QED
      BY <3>1, <3>2, <3>3, <3>4 DEF Next
  <2>q. QED
    BY <2>2, <2>6, AccountStep
<1>q. QED
  BY <1>1, <1>2 DEF BalanceInv, Accounts

(* startInput() and stopInput() pair up however many tracks start, stop    *)
(* and go at once: while the input is open and nobody is recording, every  *)
(* startInput() has been taken back exactly once, unless the loop refused  *)
(* a start.                                                                *)
THEOREM InputAccounts == Safety => []InputBalanced
<1>1. Init => BalanceInv
  <2> SUFFICES ASSUME Init PROVE BalanceInv
    OBVIOUS
  <2>1. PlacesOK
    BY RecordThreadAssumption DEF Init, PlacesOK, PlaceOK
  <2>2. Holders = {}
    BY RecordThreadAssumption DEF Init, Holders, Holds
  <2>3. IsFiniteSet(Holders) /\ Cardinality(Holders) = 0
    BY <2>2, FS_EmptySet
  <2>q. QED
    BY <2>1, <2>3 DEF Init, BalanceInv, OpenRuns, Accounts
<1>2. IInv /\ BalanceInv /\ [Next]_vars => BalanceInv'
  BY StepBalance
<1>3. IInv /\ BalanceInv => InputBalanced
  <2> SUFFICES ASSUME BalanceInv, closer = "open", mActiveTrack = NULL, Quiet,
                      ~refused
               PROVE  inputs = 0
    BY DEF InputBalanced
  <2>1. Holders = {}
    BY RecordThreadAssumption DEF Quiet, Holders, Holds
  <2>2. Cardinality(Holders) = 0
    BY <2>1, FS_EmptySet
  <2>q. QED
    BY <2>2 DEF BalanceInv, Accounts
<1>q. QED
  BY <1>1, <1>2, <1>3, Invariance, PTL DEF Safety
=============================================================================
