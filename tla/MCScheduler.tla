---------------------------- MODULE MCScheduler ----------------------------
(* Two schedulers; one unit of time is the 30 s of the lock, so the        *)
(* interval of 60 s and a bucket of 60 s are two.                          *)
EXTENDS Scheduler, TLC

SameIntervals == <<2, 2>>

Symmetry == Permutations(Schedulers)

=============================================================================
