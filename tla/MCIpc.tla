------------------------------- MODULE MCIpc -------------------------------
(* Ipc for TLC: four processes, so that a sender can leave the middle of a  *)
(* queue of three, one of them woken by an interrupt.                      *)
EXTENDS IpcRefinement, TLC

CONSTANTS hd, a, b, c

ProcSymmetry == Permutations({a, b, c})
=============================================================================
