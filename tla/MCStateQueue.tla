---------------------------- MODULE MCStateQueue ----------------------------
(* TLC instance of StateQueue with the code's kN = 4 and three states.     *)
EXTENDS StateQueue
=============================================================================
