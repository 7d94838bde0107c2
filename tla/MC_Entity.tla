----------------------------- MODULE MC_Entity ------------------------------
(* Two devices that edit one entity concurrently.                          *)
EXTENDS Entity, TLC

DeviceSymmetry == Permutations(Devices)
=============================================================================
