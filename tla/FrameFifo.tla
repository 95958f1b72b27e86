------------------------------ MODULE FrameFifo ------------------------------
(***************************************************************************)
(* What a mono pipe promises: a bounded first-in first-out queue of frames *)
(* between one writer, which offers a batch and sees a prefix of it        *)
(* accepted, and one reader, which is delivered the oldest frames.         *)
(***************************************************************************)
EXTENDS Naturals, Sequences

CONSTANT Capacity

VARIABLES
    offered,    \* what the writer has passed and the pipe has not accepted
    q,          \* accepted and not yet delivered, oldest first
    delivered   \* what the reader was handed last

vars == <<offered, q, delivered>>

Init == offered = <<>> /\ q = <<>> /\ delivered = <<>>

Drop(s, n) == SubSeq(s, n + 1, Len(s))

(* A new batch, or the end of a write that was cut short.                  *)
Offer ==
    /\ offered = <<>> \/ offered' = <<>>
    /\ UNCHANGED <<q, delivered>>

Accept ==
    /\ \E n \in 1..Len(offered) :
          /\ Len(q) + n <= Capacity
          /\ q' = q \o SubSeq(offered, 1, n)
          /\ offered' = Drop(offered, n)
    /\ UNCHANGED delivered

Deliver ==
    /\ \E n \in 1..Len(q) :
          /\ delivered' = SubSeq(q, 1, n)
          /\ q' = Drop(q, n)
    /\ UNCHANGED offered

Next == Offer \/ Accept \/ Deliver

Spec == Init /\ [][Next]_vars
=============================================================================
