-------------------------- MODULE StateQueueProofs --------------------------
EXTENDS StateQueue, TLAPS

(* The pointers of the ring in chronological order: previous, mCurrent,    *)
(* mNext are the same or one slot apart, and mMutating is the slot after   *)
(* mNext except while push() is between the publication and the copy.      *)
MutatorInv ==
    /\ mNext = NULL => mMutating = 0 /\ mExpecting = NULL
    /\ mNext # NULL /\ pc # "copy" => mMutating = NextSlot(mNext)
    /\ pc = "copy" => mNext = mMutating /\ mExpecting = mNext
    /\ mExpecting # NULL => mExpecting = mNext
    /\ mExpecting = NULL => mAck = mNext
    /\ pc = "publish" => mAck = mNext
    /\ pc \in {"waitPrior", "waitAck"} => mExpecting # NULL
    /\ pc # "idle" => ~mInMutation

ObserverInv ==
    /\ mAck = mCurrent
    /\ mCurrent # NULL /\ mCurrent # mNext => mNext = NextSlot(mCurrent)
    /\ mCurrent # NULL => mNext # NULL
    /\ previous # NULL => mCurrent = NextSlot(previous) /\ mCurrent # NULL
    /\ opc = "loaded" => next \in {mCurrent, mNext}
    /\ mCurrent = NULL /\ mNext # NULL => mNext = 0

Inv == TypeOK /\ MutatorInv /\ ObserverInv

(* Four consecutive slots of the ring are different.                       *)
LEMMA FourApart ==
    ASSUME NEW s \in Slots
    PROVE  /\ NextSlot(s) \in Slots
           /\ s # NextSlot(s)
           /\ s # NextSlot(NextSlot(s))
           /\ s # NextSlot(NextSlot(NextSlot(s)))
  BY kNAssumption DEF Slots, NextSlot

(* StateQueue's constructor establishes the invariant.                     *)
LEMMA InvInit == Init => Inv
  <1> SUFFICES ASSUME Init PROVE Inv
    OBVIOUS
  <1>1. mStates \in [Slots -> State]
    BY StateAssumption DEF Init
  <1>2. mMutating \in Slots
    BY kNAssumption DEF Init, Slots
  <1>3. TypeOK
    BY <1>1, <1>2 DEF Init, TypeOK, Pointer, block_t
  <1>4. MutatorInv /\ ObserverInv
    BY DEF Init, MutatorInv, ObserverInv
  <1> QED
    BY <1>3, <1>4 DEF Inv

(* Every step of pusher and poller keeps the invariant.                    *)
LEMMA InvNext == Inv /\ [Next]_vars => Inv'
  <1> SUFFICES ASSUME Inv, [Next]_vars PROVE Inv'
    OBVIOUS
  <1> USE kNAssumption, StateAssumption, NULLAssumption
          DEF Inv, TypeOK, MutatorInv, ObserverInv, Pointer
  <1>0. NULL \notin Slots /\ mMutating \in Slots
    BY DEF Slots
  <1>1. CASE PollLoad
    BY <1>1, <1>0 DEF PollLoad, shared, mutator
  <1>2. CASE PollAck
    BY <1>2, <1>0, FourApart DEF PollAck, mutator
  <1>3. CASE Begin
    BY <1>3, <1>0 DEF Begin, shared, observer
  <1>4. CASE Modify
    BY <1>4, <1>0 DEF Modify, observer
  <1>5. CASE \E d \in BOOLEAN : End(d)
    BY <1>5, <1>0 DEF End, shared, observer
  <1>6. CASE \E b \in block_t : Push(b)
    BY <1>6, <1>0 DEF Push, AfterPush, shared, observer
  <1>7. CASE PushPriorAcked
    BY <1>7, <1>0 DEF PushPriorAcked, shared, observer
  <1>8. CASE PushWouldBlock
    BY <1>8, <1>0 DEF PushWouldBlock, shared, observer
  <1>9. CASE PushPublish
    BY <1>9, <1>0, FourApart DEF PushPublish, observer
  <1>10. CASE PushCopy
    BY <1>10, <1>0, FourApart DEF PushCopy, AfterPush, observer
  <1>11. CASE PushAcked
    BY <1>11, <1>0 DEF PushAcked, shared, observer
  <1>12. CASE UNCHANGED vars
    BY <1>12 DEF vars, shared, observer, mutator
  <1> QED
    BY <1>1, <1>2, <1>3, <1>4, <1>5, <1>6, <1>7, <1>8, <1>9, <1>10, <1>11,
       <1>12 DEF Next, Poll, Mutate, PushContinues

(* The invariant holds in every reachable state.                           *)
LEMMA InvAlways == Safety => []Inv
  BY InvInit, InvNext, PTL DEF Safety

(* Every variable of the queue keeps its type, for every ring size and     *)
(* every type of state.                                                    *)
THEOREM TypeCorrect == Safety => []TypeOK
  BY InvAlways, PTL DEF Inv

(* The invariant keeps the slots in use apart.                             *)
LEMMA InvExclusion == Inv => SlotExclusion
  BY FourApart, kNAssumption, NULLAssumption
  DEF Inv, TypeOK, MutatorInv, ObserverInv, SlotExclusion, WrittenByMutator,
      ReadByObserver, Pointer, Slots

(* For every ring of at least four slots, the mutator never writes a slot  *)
(* the observer reads or may be handed.                                    *)
THEOREM Exclusion == Safety => []SlotExclusion
  BY InvAlways, InvExclusion, PTL

-----------------------------------------------------------------------------
(* What poll() handed out is never written, in a ring of any size.         *)
THEOREM Stable == Safety => StableWhileRead
  <1> DEFINE A == \A s \in Slots : s \in ReadByObserver
                                     => mStates'[s] = mStates[s]
  <1>1. ASSUME Inv, [Next]_vars PROVE [A]_vars
    <2> SUFFICES ASSUME NEW s \in Slots, s \in ReadByObserver,
                        mStates' # mStates
                 PROVE  mStates'[s] = mStates[s]
      BY <1>1
    <2>1. Modify \/ PushCopy
      BY <1>1 DEF Next, Poll, Mutate, PushContinues, PollLoad, PollAck, Begin,
         End, Push, PushPriorAcked, PushWouldBlock, PushPublish, PushAcked,
         vars, shared
    <2>2. WrittenByMutator # s
      BY <1>1, InvExclusion DEF SlotExclusion
    <2>3. CASE Modify
      BY <2>2, <2>3, <1>1 DEF Modify, WrittenByMutator, Inv, TypeOK
    <2>4. CASE PushCopy
      BY <2>2, <2>4, <1>1 DEF PushCopy, WrittenByMutator, Inv, TypeOK
    <2> QED
      BY <2>1, <2>3, <2>4
  <1> QED
    BY <1>1, InvAlways, PTL DEF Safety, StableWhileRead

-----------------------------------------------------------------------------
(* While the last push was an acknowledged one and has returned, nothing   *)
(* is expected and the observer is on the published state.                 *)
AckedInv ==
    (pc = "idle" /\ block = "BLOCK_UNTIL_ACKED") => mExpecting = NULL

(* The invariant of the acknowledgement holds in every reachable state.    *)
LEMMA AckedInvAlways == Safety => []AckedInv
  <1>1. Init => AckedInv
    BY DEF Init, AckedInv
  <1>2. Inv /\ AckedInv /\ [Next]_vars => AckedInv'
    <2> SUFFICES ASSUME Inv, AckedInv, [Next]_vars PROVE AckedInv'
      OBVIOUS
    <2>1. CASE Push("BLOCK_UNTIL_ACKED")
      BY <2>1 DEF Push, AfterPush, AckedInv
    <2>2. CASE \E b \in block_t : b # "BLOCK_UNTIL_ACKED" /\ Push(b)
      BY <2>2 DEF Push, AckedInv
    <2>3. CASE PushContinues
      BY <2>3 DEF PushContinues, PushPriorAcked, PushWouldBlock, PushPublish,
         PushCopy, PushAcked, AfterPush, AckedInv, Inv, MutatorInv
    <2>4. CASE Poll \/ Mutate \/ UNCHANGED vars
      BY <2>4 DEF Poll, PollLoad, PollAck, Mutate, Begin, Modify, End, vars,
         mutator, AckedInv
    <2> QED
      BY <2>1, <2>2, <2>3, <2>4 DEF Next
  <1> QED
    BY <1>1, <1>2, InvAlways, PTL DEF Safety

(* push(BLOCK_UNTIL_ACKED) returns only once the observer works from the   *)
(* published state.                                                        *)
THEOREM Acked == Safety => []AckedMeansCurrent
  <1>1. Inv /\ AckedInv => AckedMeansCurrent
    BY DEF Inv, MutatorInv, ObserverInv, AckedInv, AckedMeansCurrent
  <1> QED
    BY <1>1, InvAlways, AckedInvAlways, PTL

-----------------------------------------------------------------------------
(* The ring of slots, whatever its size, implements the one-place mailbox. *)
THEOREM Refinement == Safety => Mailbox!Safety
  <1>1. Init => Mailbox!Init
    BY kNAssumption DEF Init, Mailbox!Init, Deref, Slots
  <1>2. ASSUME Inv, Inv', [Next]_vars PROVE [Mailbox!Next]_(Mailbox!vars)
    <2> USE <1>2, NULLAssumption, StateAssumption
    <2> USE DEF Inv, TypeOK, MutatorInv, ObserverInv, Pointer
    <2>0. NULL \notin Slots /\ SlotExclusion
      BY InvExclusion DEF Slots
    <2>1. CASE PollLoad
      BY <2>1 DEF PollLoad, shared, mutator, Deref, Mailbox!vars
    <2>9. CASE Begin \/ (\E d \in BOOLEAN : End(d))
      <3>1. Mailbox!StartOrEnd
        BY <2>9 DEF Begin, End, shared, observer, Deref, Mailbox!StartOrEnd
      <3> QED
        BY <3>1 DEF Mailbox!Next
    <2>2. CASE PollAck
      <3>1. CASE next = mCurrent
        BY <2>2, <3>1 DEF PollAck, mutator, Deref, Mailbox!vars
      <3>2. CASE next # mCurrent
        BY <2>2, <3>2 DEF PollAck, mutator, Deref, Mailbox!Next,
           Mailbox!Observe
      <3> QED
        BY <3>1, <3>2
    <2>3. CASE Modify
      <3>1. mStates'[mMutating] \in State /\ mMutating' = mMutating
        BY <2>3 DEF Modify
      <3>2. \A s \in Slots \ {mMutating} : mStates'[s] = mStates[s]
        BY <2>3 DEF Modify
      <3>3. mMutating \notin {mNext, mCurrent, previous}
        BY <2>0, <2>3 DEF Modify, SlotExclusion, WrittenByMutator,
           ReadByObserver
      <3>4. Mailbox!Modify
        BY <3>1, <3>2, <3>3, <2>3 DEF Modify, observer, Deref, Mailbox!Modify
      <3> QED
        BY <3>4 DEF Mailbox!Next
    <2>4. CASE \E b \in block_t : Push(b)
      BY <2>4 DEF Push, shared, observer, Deref, Mailbox!vars
    <2>5. CASE PushPriorAcked \/ PushWouldBlock \/ PushAcked
      BY <2>5 DEF PushPriorAcked, PushWouldBlock, PushAcked, shared, observer,
         Deref, Mailbox!vars
    <2>6. CASE PushPublish
      <3>1. mMutating # mAck /\ mAck = mNext
        BY <2>0, <2>6 DEF PushPublish, SlotExclusion, WrittenByMutator,
           ReadByObserver
      <3>2. Mailbox!Publish
        BY <3>1, <2>6, <2>0 DEF PushPublish, observer, Deref, Mailbox!Publish
      <3> QED
        BY <3>2 DEF Mailbox!Next
    <2>7. CASE PushCopy
      <3>1. NextSlot(mMutating) \in Slots
        BY FourApart
      <3>2. \A s \in Slots \ {NextSlot(mMutating)} : mStates'[s] = mStates[s]
        BY <2>7 DEF PushCopy
      <3>3. NextSlot(mMutating) \notin {mNext, mCurrent, previous}
        BY <2>0, <2>7 DEF PushCopy, SlotExclusion, WrittenByMutator,
           ReadByObserver
      <3>4. mStates'[mMutating'] = mStates[mMutating]
        BY <2>7, <3>1 DEF PushCopy
      <3> QED
        BY <3>1, <3>2, <3>3, <3>4, <2>7 DEF PushCopy, observer, Deref,
           Mailbox!vars
    <2>8. CASE UNCHANGED vars
      BY <2>8 DEF vars, shared, observer, mutator, Deref, Mailbox!vars
    <2> QED
      BY <2>1, <2>2, <2>3, <2>4, <2>5, <2>6, <2>7, <2>8, <2>9
      DEF Next, Poll, Mutate, PushContinues
  <1> QED
    BY <1>1, <1>2, InvAlways, PTL DEF Safety, Mailbox!Safety
=============================================================================
