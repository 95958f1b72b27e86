---------------------------- MODULE MCFastTracks ----------------------------
(***************************************************************************)
(* FastTracks with interchangeable tracks.                                 *)
(***************************************************************************)
EXTENDS FastTracks, TLC

TrackSymmetry == Permutations(Track)
=============================================================================
