------------------------- MODULE AudioCommandThread -------------------------
(***************************************************************************)
(* The command threads of the audio policy service (AudioCommandThread in  *)
(* libs/audioflinger/AudioPolicyService.cpp): callers queue commands, some *)
(* delayed and merged with later ones on the same target, some waiting for *)
(* their status, and one thread executes them.                             *)
(*                                                                         *)
(* The thread holds mLock from one wait to the next, except while a tone   *)
(* is played; a call is one step up to its wait.  Time stamps are kept as the *)
(* time left until they are due, never less than 0: every comparison the   *)
(* code makes is with a time that is not past.  A command is its kind, the *)
(* io handle, and the stream or the parameter keys it sets; the values it  *)
(* gives them, the status and the tone generator are left out.             *)
(***************************************************************************)
EXTENDS Integers, Sequences, FiniteSets

CONSTANTS
    Caller,
    Request,        \* what can be asked for: records of kind, io and keys
    Delays,         \* the delays asked for
    NULL,
    MaxPending      \* bound: commands in the queue

Kinds == {"START_TONE", "STOP_TONE", "SET_VOLUME", "SET_PARAMETERS",
          "SET_VOICE_VOLUME"}

(* A volume is set for one stream; tones and voice volumes have no keys.   *)
ASSUME AudioCommandAssumption ==
    /\ \A r \in Request :
          /\ DOMAIN r = {"kind", "io", "keys"} /\ r.kind \in Kinds
          /\ r.kind = "SET_VOLUME" => \E k \in r.keys : r.keys = {k}
          /\ r.kind \notin {"SET_VOLUME", "SET_PARAMETERS"} => r.keys = {}
    /\ Delays \subseteq Nat
    /\ NULL \notin Caller
    /\ MaxPending \in Nat

VARIABLES
    mAudioCommands,     \* the queue
    pc, waitTime,       \* the thread: where it is, and until when it sleeps
    current,            \* whose answer it waits for
    caller,             \* where each caller is
    deleted,            \* callers whose command is gone before they read it
    exitPending

vars == <<mAudioCommands, pc, waitTime, current, caller, deleted, exitPending>>

Forever == -1       \* INT64_MAX

Keys == UNION {r.keys : r \in Request}

(* AudioCommand: by is the caller who waits for its status; newest is a    *)
(* history, the keys that no later call has set.                           *)
Command == [kind : Kinds, io : {r.io : r \in Request}, keys : SUBSET Keys,
            newest : SUBSET Keys, time : Nat, by : Caller \cup {NULL}]

TypeOK ==
    /\ mAudioCommands \in Seq(Command)
    /\ Len(mAudioCommands) <= MaxPending
    /\ pc \in {"top", "run", "unlocked", "answer", "sleep", "done"}
    /\ waitTime \in Nat \cup {Forever}
    /\ current \in Caller \cup {NULL}
    /\ caller \in [Caller -> {"idle", "waiting", "woken"}]
    /\ deleted \subseteq Caller
    /\ exitPending \in BOOLEAN

Init ==
    /\ mAudioCommands = <<>>
    /\ pc = "top" /\ waitTime = Forever /\ current = NULL
    /\ caller = [c \in Caller |-> "idle"]
    /\ deleted = {} /\ exitPending = FALSE

-----------------------------------------------------------------------------
(* insertCommand_l()                                                       *)

ScanEndStrict(delay) ==
    LET stops == {i \in DOMAIN mAudioCommands :
                     mAudioCommands[i].time < delay}
    IN  CHOOSE i \in stops \cup {0} : \A j \in stops : j <= i

(* The scan starts at the end and goes down to the first command that is   *)
(* not later than the new one: its index, or 0.                            *)
ScanEnd(delay) ==
    LET stops == {i \in DOMAIN mAudioCommands :
                     mAudioCommands[i].time <= delay}
    IN  CHOOSE i \in stops \cup {0} : \A j \in stops : j <= i

(* Does new request r take over (some of) what command d asks for?         *)
Related(r, d) ==
    /\ r.kind = d.kind /\ r.io = d.io
    /\ \/ r.kind = "SET_PARAMETERS"
       \/ r.kind = "SET_VOLUME" /\ r.keys = d.keys

FilteredNothing(r, delay) ==
    SubSeq(mAudioCommands, ScanEnd(delay) + 1, Len(mAudioCommands))

(* Every key of d is set by r: d is removed.                               *)
Removed(r, d) == Related(r, d) /\ d.keys \subseteq r.keys

Reduced(r, d) ==
    IF Related(r, d) THEN [d EXCEPT !.keys = @ \ r.keys] ELSE d

(* The commands the scan has passed, less what r sets: those at the places *)
(* kept, in their order.                                                   *)
Filtered(r, delay) ==
    LET q     == mAudioCommands
        kept  == {i \in ScanEnd(delay) + 1..Len(q) : ~Removed(r, q[i])}
        order == CHOOSE f \in UNION {[1..n -> kept] : n \in 0..Len(q)} :
                     /\ \A i \in kept : \E j \in DOMAIN f : f[j] = i
                     /\ \A i, j \in DOMAIN f : i < j => f[i] < f[j]
    IN  [i \in DOMAIN order |-> Reduced(r, q[order[i]])]

(* The time of the earliest related command passed, or the delay.          *)
MovedTo(r, delay) ==
    LET related == {i \in ScanEnd(delay) + 1..Len(mAudioCommands) :
                       Related(r, mAudioCommands[i])}
    IN  IF related = {} THEN delay
        ELSE mAudioCommands[CHOOSE i \in related :
                               \A j \in related : i <= j].time

WaitsForStatus(r, delay) == delay = 0 /\ MovedTo(r, delay) = delay

(* Ghost: of the commands that set a key, the last one asked for.          *)
SetsSame(r, d) == r.kind = d.kind /\ r.io = d.io
Outdated(r, s) ==
    [i \in DOMAIN s |-> IF SetsSame(r, s[i])
                        THEN [s[i] EXCEPT !.newest = @ \ r.keys] ELSE s[i]]

InsertCommand(r, delay, by) ==
    LET d == [kind |-> r.kind, io |-> r.io, keys |-> r.keys,
              newest |-> r.keys, time |-> MovedTo(r, delay), by |-> by]
    IN  mAudioCommands' =
            Outdated(r, SubSeq(mAudioCommands, 1, ScanEnd(delay)))
            \o <<d>> \o Outdated(r, Filtered(r, delay))

(* Only the thread holds mLock from one step to the next.                  *)
LockIsFree == pc # "run"

SignalledNever == pc

(* mWaitWorkCV.signal()                                                    *)
Signalled == IF pc = "sleep" THEN "top" ELSE pc

(* Queue r and, unless it is delayed, wait for its status.  The service    *)
(* lives while a call is made on it.                                       *)
StatusCommand(c, r, delay) ==
    LET waits == WaitsForStatus(r, delay) IN
    /\ LockIsFree /\ caller[c] = "idle" /\ ~exitPending
    /\ InsertCommand(r, delay, IF waits THEN c ELSE NULL)
    /\ Len(mAudioCommands') <= MaxPending
    /\ pc' = Signalled
    /\ caller' = IF waits THEN [caller EXCEPT ![c] = "waiting"] ELSE caller
    /\ UNCHANGED <<waitTime, current, deleted, exitPending>>

VolumeCommand(c, r, delay) ==
    r.kind = "SET_VOLUME" /\ StatusCommand(c, r, delay)

ParametersCommand(c, r, delay) ==
    r.kind = "SET_PARAMETERS" /\ StatusCommand(c, r, delay)

VoiceVolumeCommand(c, r, delay) ==
    r.kind = "SET_VOICE_VOLUME" /\ StatusCommand(c, r, delay)

(* startToneCommand() and stopToneCommand() do not wait.                   *)
ToneCommand(c, r) ==
    /\ r.kind \in {"START_TONE", "STOP_TONE"}
    /\ LockIsFree /\ caller[c] = "idle" /\ ~exitPending
    /\ InsertCommand(r, 0, NULL)
    /\ Len(mAudioCommands') <= MaxPending
    /\ pc' = Signalled
    /\ UNCHANGED <<waitTime, current, caller, deleted, exitPending>>

(* A woken caller reads the status and signals the thread.                 *)
ReadStatus(c) ==
    /\ LockIsFree /\ caller[c] = "woken"
    /\ caller' = [caller EXCEPT ![c] = "idle"]
    /\ deleted' = deleted \ {c}
    /\ IF pc = "answer" /\ current = c
       THEN pc' = "unlocked" /\ current' = NULL ELSE UNCHANGED <<pc, current>>
    /\ UNCHANGED <<mAudioCommands, waitTime, exitPending>>

(* exit(), from the service's destructor: nobody is in a call.             *)
Exit ==
    /\ LockIsFree /\ ~exitPending /\ \A c \in Caller : caller[c] = "idle"
    /\ exitPending' = TRUE
    /\ pc' = Signalled
    /\ UNCHANGED <<mAudioCommands, waitTime, current, caller, deleted>>

-----------------------------------------------------------------------------
(* threadLoop()                                                            *)

(* With mLock, at the start or after a sleep.                              *)
Top ==
    /\ pc = "top"
    /\ pc' = IF exitPending THEN "done" ELSE "run"
    /\ UNCHANGED <<mAudioCommands, waitTime, current, caller, deleted,
                   exitPending>>

Due == mAudioCommands # <<>> /\ Head(mAudioCommands).time = 0

(* Tones are played without mLock.                                         *)
ExecuteTone ==
    /\ pc = "run" /\ Due
    /\ Head(mAudioCommands).kind \in {"START_TONE", "STOP_TONE"}
    /\ mAudioCommands' = Tail(mAudioCommands)
    /\ pc' = "unlocked"
    /\ UNCHANGED <<waitTime, current, caller, deleted, exitPending>>

(* mLock again, after a tone or a wait that was signalled.                 *)
Relock ==
    /\ pc = "unlocked"
    /\ pc' = "run"
    /\ UNCHANGED <<mAudioCommands, waitTime, current, caller, deleted,
                   exitPending>>

AnswerAndDelete(c) ==
    /\ caller' = [caller EXCEPT ![c] = "woken"]
    /\ UNCHANGED <<pc, current>>

(* Signal the caller and wait for it to have read the status.              *)
Answer(c) ==
    /\ caller' = [caller EXCEPT ![c] = "woken"]
    /\ pc' = "answer" /\ current' = c

Execute ==
    LET d == Head(mAudioCommands) IN
    /\ pc = "run" /\ Due
    /\ d.kind \notin {"START_TONE", "STOP_TONE"}
    /\ mAudioCommands' = Tail(mAudioCommands)
    /\ IF d.by = NULL THEN UNCHANGED <<pc, current, caller>>
                      ELSE Answer(d.by)
    /\ UNCHANGED <<waitTime, deleted, exitPending>>

(* kAudioCommandTimeout: the command is deleted all the same.              *)
AnswerTimesOut ==
    /\ pc = "answer"
    /\ pc' = "run" /\ current' = NULL
    /\ deleted' = deleted \cup {current}
    /\ UNCHANGED <<mAudioCommands, waitTime, caller, exitPending>>

SleepForever ==
    /\ pc = "run" /\ ~Due
    /\ pc' = "sleep"
    /\ waitTime' = Forever
    /\ UNCHANGED <<mAudioCommands, current, caller, deleted, exitPending>>

Sleep ==
    /\ pc = "run" /\ ~Due
    /\ pc' = "sleep"
    /\ waitTime' = IF mAudioCommands = <<>> THEN Forever
                   ELSE Head(mAudioCommands).time
    /\ UNCHANGED <<mAudioCommands, current, caller, deleted, exitPending>>

WakeUp ==
    /\ pc = "sleep" /\ waitTime = 0
    /\ pc' = "top"
    /\ UNCHANGED <<mAudioCommands, waitTime, current, caller, deleted,
                   exitPending>>

-----------------------------------------------------------------------------
Less(t) == IF t > 0 THEN t - 1 ELSE t

(* Time passes.                                                            *)
Tick ==
    /\ waitTime > 0 \/ \E i \in DOMAIN mAudioCommands :
                          mAudioCommands[i].time > 0
    /\ mAudioCommands' = [i \in DOMAIN mAudioCommands |->
                             [mAudioCommands[i] EXCEPT !.time = Less(@)]]
    /\ waitTime' = Less(waitTime)
    /\ UNCHANGED <<pc, current, caller, deleted, exitPending>>

ThreadStep ==
    \/ Top \/ ExecuteTone \/ Relock \/ Execute \/ AnswerTimesOut
    \/ Sleep \/ WakeUp

Next ==
    \/ ThreadStep \/ Tick \/ Exit
    \/ \E c \in Caller :
          \/ ReadStatus(c)
          \/ \E r \in Request :
                \/ ToneCommand(c, r)
                \/ \E delay \in Delays :
                      \/ VolumeCommand(c, r, delay)
                      \/ ParametersCommand(c, r, delay)
                      \/ VoiceVolumeCommand(c, r, delay)

Safety == Init /\ [][Next]_vars

(* The thread runs, time passes, and a caller who is woken gets mLock,     *)
(* which is free again and again.                                          *)
Spec ==
    /\ Safety
    /\ WF_vars(ThreadStep) /\ WF_vars(Tick)
    /\ \A c \in Caller : SF_vars(ReadStatus(c))
-----------------------------------------------------------------------------
(* The last call wins: of the queued commands that set one stream or key   *)
(* of one handle, the one asked for last is executed last, whatever the    *)
(* delays, and also where insertCommand_l() leaves the queue out of order. *)
NewestLast ==
    \A i, j \in DOMAIN mAudioCommands :
        i < j /\ SetsSame(mAudioCommands[i], mAudioCommands[j]) =>
            mAudioCommands[i].newest \cap mAudioCommands[j].keys = {}

(* Merging never drops a command whose caller waits: a waiting caller has  *)
(* its command in the queue, once, and a caller who does not wait has none.*)
WaiterIsQueued ==
    \A c \in Caller :
        Cardinality({i \in DOMAIN mAudioCommands : mAudioCommands[i].by = c})
            = IF caller[c] = "waiting" THEN 1 ELSE 0

(* A caller reads the status of a command that still exists: the thread    *)
(* keeps it until the caller has read it or has let the time-out pass.     *)
StatusIsThere ==
    \A c \in Caller : caller[c] = "woken" =>
        (pc = "answer" /\ current = c) \/ c \in deleted

(* A call that waits returns, although its command may be queued behind a  *)
(* delayed one, and the wait for it has no time-out.                       *)
CallReturns == \A c \in Caller : caller[c] # "idle" ~> caller[c] = "idle"

Sets(d, r) == d.kind = r.kind /\ d.io = r.io /\ d.keys \cap r.keys # {}
Pending(r) == \E i \in DOMAIN mAudioCommands : Sets(mAudioCommands[i], r)
Applies(r) == pc = "run" /\ Due /\ Sets(Head(mAudioCommands), r) /\ Execute

(* A delayed change takes effect: calls that take it over keep its time,   *)
(* so none of them, however many, puts it off for ever.                    *)
NotPutOff ==
    \A r \in Request :
        <>[](Pending(r) /\ ~exitPending) => []<><<Applies(r)>>_vars

(* "Call requestExit() and wait until this object's thread exits."         *)
(* (include/utils/Thread.h): exit() returns.                               *)
ExitReturns == exitPending ~> pc = "done"
=============================================================================
