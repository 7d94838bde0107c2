------------------------------- MODULE MC_HLC -------------------------------
(* Two devices whose wall clocks jump, and timestamps of foreign origin.   *)
EXTENDS HLC, TLC

ASSUME NoOverflow(Stamps \cup Foreign)

ClockSymmetry == Permutations(Clocks)
=============================================================================
