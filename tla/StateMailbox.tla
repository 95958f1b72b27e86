---------------------------- MODULE StateMailbox ----------------------------
(***************************************************************************)
(* What a state queue promises to its two users, without slots, pointers   *)
(* or acknowledgements: the mutator edits a private draft and publishes    *)
(* it; the observer shifts the published state in and keeps the one before *)
(* it for comparison.  A published state is never replaced before it has   *)
(* been observed.                                                          *)
(***************************************************************************)
CONSTANTS State, InitState, NULL

VARIABLES
    draft,      \* the state the mutator is working on
    editing,    \* the mutator is between begin and end of a mutation
    latest,     \* the state published last, NULL before the first
    fresh,      \* the latest state has not been observed yet
    observed,   \* the state the observer works from
    previous    \* the one it worked from before that

vars == <<draft, editing, latest, fresh, observed, previous>>

Init ==
    /\ draft = InitState
    /\ editing = FALSE
    /\ latest = NULL
    /\ fresh = FALSE
    /\ observed = NULL
    /\ previous = NULL

StartOrEnd ==
    /\ editing' = ~editing
    /\ UNCHANGED <<draft, latest, fresh, observed, previous>>

Modify ==
    /\ editing
    /\ draft' \in State
    /\ UNCHANGED <<editing, latest, fresh, observed, previous>>

Publish ==
    /\ ~fresh /\ ~editing
    /\ latest' = draft
    /\ fresh' = TRUE
    /\ UNCHANGED <<draft, editing, observed, previous>>

Observe ==
    /\ fresh
    /\ previous' = observed
    /\ observed' = latest
    /\ fresh' = FALSE
    /\ UNCHANGED <<draft, editing, latest>>

Next == StartOrEnd \/ Modify \/ Publish \/ Observe

Safety == Init /\ [][Next]_vars

Spec == Safety /\ WF_vars(Observe)
=============================================================================
