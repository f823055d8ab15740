---------------------------- MODULE MCTrapFrame ----------------------------
(* Model values for TrapFrame and Spinlock: two processes, two locks of    *)
(* which one is ptable.lock, a system call with an interrupt and one more  *)
(* nested in it.                                                           *)
EXTENDS TrapFrame, TLC

CONSTANTS p1, p2, tickslock

MCProcs == {p1, p2}
MCLocks == {ptable, tickslock}
Symmetry == Permutations(MCProcs)
=============================================================================
