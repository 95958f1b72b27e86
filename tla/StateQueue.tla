----------------------------- MODULE StateQueue -----------------------------
(***************************************************************************)
(* The lock-free state queue between the normal mixer (mutator) and the    *)
(* fast mixer (observer): libs/audioflinger/StateQueue.{h,cpp}.            *)
(* One mutator thread and one observer thread; every shared access (the    *)
(* store of mNext, the load of mNext, the store of mAck, the polls of mAck *)
(* inside push) is a step of its own.  Slots stand for &mStates[i].        *)
(***************************************************************************)
EXTENDS Naturals

CONSTANTS
    kN,         \* number of slots in mStates
    State,      \* values of the template parameter T
    InitState,  \* what T's constructor leaves in every slot
    NULL        \* the null pointer

ASSUME kNAssumption == kN \in Nat /\ kN >= 4
ASSUME StateAssumption == InitState \in State /\ NULL \notin State
ASSUME NULLAssumption == NULL \notin 0..(kN - 1)

VARIABLES
    mStates, mNext, mAck,                   \* shared
    mCurrent, opc, next, previous,          \* the observer
    mMutating, mExpecting, mInMutation,     \* the mutator
    mIsDirty, mIsInitialized,
    pc, block, modified

shared   == <<mStates, mNext, mAck>>
observer == <<mCurrent, opc, next, previous>>
mutator  == <<mMutating, mExpecting, mInMutation, mIsDirty, mIsInitialized,
              pc, block, modified>>
vars     == <<shared, observer, mutator>>

Slots   == 0..(kN - 1)
Pointer == Slots \cup {NULL}
block_t == {"BLOCK_NEVER", "BLOCK_UNTIL_PUSHED", "BLOCK_UNTIL_ACKED"}

TypeOK ==
    /\ mStates \in [Slots -> State]
    /\ mNext \in Pointer /\ mAck \in Pointer
    /\ mCurrent \in Pointer /\ next \in Pointer /\ previous \in Pointer
    /\ opc \in {"idle", "loaded"}
    /\ mMutating \in Slots /\ mExpecting \in Pointer
    /\ mInMutation \in BOOLEAN /\ mIsDirty \in BOOLEAN
    /\ mIsInitialized \in BOOLEAN /\ modified \in BOOLEAN
    /\ pc \in {"idle", "waitPrior", "publish", "copy", "waitAck"}
    /\ block \in block_t

Init ==
    /\ mStates = [s \in Slots |-> InitState]
    /\ mNext = NULL /\ mAck = NULL /\ mCurrent = NULL
    /\ mMutating = 0 /\ mExpecting = NULL
    /\ mInMutation = FALSE /\ mIsDirty = FALSE /\ mIsInitialized = FALSE
    /\ opc = "idle" /\ next = NULL /\ previous = NULL
    /\ pc = "idle" /\ block = "BLOCK_NEVER" /\ modified = FALSE

-----------------------------------------------------------------------------
(* Observer: poll().  mCurrent and the caller's own copy of the former     *)
(* current pointer are private to the observer, so they move with the      *)
(* store of mAck.                                                          *)

PollLoad ==
    /\ opc = "idle"
    /\ next' = mNext
    /\ opc' = "loaded"
    /\ UNCHANGED <<shared, mCurrent, previous, mutator>>

PollAckUnstored ==
    /\ opc = "loaded"
    /\ opc' = "idle"
    /\ mCurrent' = next
    /\ previous' = IF next # mCurrent THEN mCurrent ELSE previous
    /\ UNCHANGED <<mStates, mNext, mAck, next, mutator>>

PollAck ==
    /\ opc = "loaded"
    /\ opc' = "idle"
    /\ IF next # mCurrent
       THEN /\ mAck' = next
            /\ mCurrent' = next
            /\ previous' = mCurrent
       ELSE UNCHANGED <<mAck, mCurrent, previous>>
    /\ UNCHANGED <<mStates, mNext, next, mutator>>

-----------------------------------------------------------------------------
(* Mutator: begin(), writes through the returned pointer, end(didModify).  *)

Begin ==
    /\ pc = "idle" /\ ~mInMutation
    /\ mInMutation' = TRUE
    /\ modified' = FALSE
    /\ UNCHANGED <<shared, observer, mMutating, mExpecting, mIsDirty,
                   mIsInitialized, pc, block>>

Modify ==
    /\ pc = "idle" /\ mInMutation
    /\ \E v \in State : mStates' = [mStates EXCEPT ![mMutating] = v]
    /\ modified' = TRUE
    /\ UNCHANGED <<mNext, mAck, observer, mMutating, mExpecting, mInMutation,
                   mIsDirty, mIsInitialized, pc, block>>

(* The caller's contract: didModify is true when something was written,    *)
(* and on the first mutation.                                              *)
End(didModify) ==
    /\ pc = "idle" /\ mInMutation
    /\ modified => didModify
    /\ mIsInitialized \/ didModify
    /\ mInMutation' = FALSE
    /\ mIsDirty' = (mIsDirty \/ didModify)
    /\ mIsInitialized' = (mIsInitialized \/ didModify)
    /\ UNCHANGED <<shared, observer, mMutating, mExpecting, pc, block,
                   modified>>

-----------------------------------------------------------------------------
(* Mutator: push(block).  Where the code loops on mAck, one step is one    *)
(* iteration that ends the loop; an iteration that does not is a stutter   *)
(* (nanosleep).                                                            *)

AfterPushUnacked(b, expecting) == "idle"

(* After the dirty part of push: return, or wait for the acknowledgement.  *)
AfterPush(b, expecting) ==
    IF b = "BLOCK_UNTIL_ACKED" /\ expecting # NULL THEN "waitAck" ELSE "idle"

Push(b) ==
    /\ pc = "idle" /\ ~mInMutation
    /\ block' = b
    /\ pc' = IF ~mIsDirty THEN AfterPush(b, mExpecting)
             ELSE IF mExpecting # NULL THEN "waitPrior" ELSE "publish"
    /\ UNCHANGED <<shared, observer, mMutating, mExpecting, mInMutation,
                   mIsDirty, mIsInitialized, modified>>

PushPriorAckedUnchecked ==
    /\ pc = "waitPrior"
    /\ pc' = "publish"
    /\ UNCHANGED <<shared, observer, mMutating, mExpecting, mInMutation,
                   mIsDirty, mIsInitialized, block, modified>>

PushPriorAcked ==
    /\ pc = "waitPrior" /\ mAck = mExpecting
    /\ pc' = "publish"
    /\ UNCHANGED <<shared, observer, mMutating, mExpecting, mInMutation,
                   mIsDirty, mIsInitialized, block, modified>>

(* push(BLOCK_NEVER) returns false and the state remains dirty.            *)
PushWouldBlock ==
    /\ pc = "waitPrior" /\ mAck # mExpecting /\ block = "BLOCK_NEVER"
    /\ pc' = "idle"
    /\ UNCHANGED <<shared, observer, mMutating, mExpecting, mInMutation,
                   mIsDirty, mIsInitialized, block, modified>>

PushPublish ==
    /\ pc = "publish"
    /\ mNext' = mMutating
    /\ mExpecting' = mMutating
    /\ pc' = "copy"
    /\ UNCHANGED <<mStates, mAck, observer, mMutating, mInMutation, mIsDirty,
                   mIsInitialized, block, modified>>

NextSlotUnwrapped(s) == s + 1

NextSlotEarlyWrap(s) == IF s + 2 >= kN THEN 0 ELSE s + 1

NextSlot(s) == IF s + 1 >= kN THEN 0 ELSE s + 1

PushCopyOmitted ==
    /\ pc = "copy"
    /\ mMutating' = NextSlot(mMutating)
    /\ mIsDirty' = FALSE
    /\ pc' = AfterPush(block, mExpecting)
    /\ UNCHANGED <<mStates, mNext, mAck, observer, mExpecting, mInMutation,
                   mIsInitialized, block, modified>>

PushCopy ==
    /\ pc = "copy"
    /\ mMutating' = NextSlot(mMutating)
    /\ mStates' = [mStates EXCEPT ![NextSlot(mMutating)] = mStates[mExpecting]]
    /\ mIsDirty' = FALSE
    /\ pc' = AfterPush(block, mExpecting)
    /\ UNCHANGED <<mNext, mAck, observer, mExpecting, mInMutation,
                   mIsInitialized, block, modified>>

PushAcked ==
    /\ pc = "waitAck" /\ mAck = mExpecting
    /\ mExpecting' = NULL
    /\ pc' = "idle"
    /\ UNCHANGED <<shared, observer, mMutating, mInMutation, mIsDirty,
                   mIsInitialized, block, modified>>

Poll == PollLoad \/ PollAck

PushContinues ==
    PushPriorAcked \/ PushWouldBlock \/ PushPublish \/ PushCopy \/ PushAcked

Mutate == Begin \/ Modify \/ (\E d \in BOOLEAN : End(d))

Next ==
    \/ Poll
    \/ Mutate
    \/ \E b \in block_t : Push(b)
    \/ PushContinues

(* The fast mixer polls on every cycle, and a thread inside push() keeps   *)
(* running; nothing obliges the normal mixer to start another mutation.    *)
Fairness == WF_vars(Poll) /\ WF_vars(PushContinues)

Safety == Init /\ [][Next]_vars

Spec == Safety /\ Fairness

-----------------------------------------------------------------------------
(* Slots the observer may be reading: the two states it works from and the *)
(* one it has loaded but not yet shifted in.                               *)
ReadByObserver ==
    {mCurrent, previous} \cup (IF opc = "loaded" THEN {next} ELSE {})

(* The slot the mutator writes next.                                       *)
WrittenByMutator == IF pc = "copy" THEN NextSlot(mMutating) ELSE mMutating

(* The mutator never owns, for writing in place or as the target of the    *)
(* copy at the end of push(), a slot that the observer is reading or would *)
(* be handed by its next poll(); "The previous state pointer is guaranteed *)
(* to still be valid" (StateQueue.h).  Before the copy the slot it has     *)
(* just published is still named by mMutating but not written.             *)
SlotExclusion ==
    WrittenByMutator \notin ReadByObserver \cup {mNext}

(* What poll() returned stays as it was: no step changes the contents of a *)
(* slot the observer has in hand, before or after the step.                *)
StableWhileRead ==
    [][\A s \in Slots : s \in ReadByObserver => mStates'[s] = mStates[s]]_vars

(* After push(BLOCK_UNTIL_ACKED) has returned the observer has shifted in  *)
(* the last published state and is not working from an older one: the      *)
(* normal mixer relies on it before it frees what the older state names.   *)
AckedMeansCurrent ==
    (pc = "idle" /\ block = "BLOCK_UNTIL_ACKED" /\ mNext # NULL)
        => mCurrent = mNext

(* A blocking push() returns, whatever was pushed before it.               *)
PushReturns == pc # "idle" ~> pc = "idle"

(* The contents a pointer leads to.                                        *)
Deref(p) == IF p = NULL THEN NULL ELSE mStates[p]

Mailbox == INSTANCE StateMailbox WITH
    draft    <- mStates[mMutating],
    editing  <- mInMutation,
    latest   <- Deref(mNext),
    fresh    <- mAck # mNext,
    observed <- Deref(mCurrent),
    previous <- Deref(previous)

(* The queue implements a one-place mailbox: every push that publishes is  *)
(* observed, in order and unmodified, before the next one can publish, and *)
(* the mutator's working copy survives the move to the next slot.          *)
ImplementsMailbox == Mailbox!Spec
=============================================================================
