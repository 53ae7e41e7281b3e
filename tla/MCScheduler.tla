---------------------------- MODULE MCScheduler -----------------------------
(* Small instances of Scheduler for TLC: see the .cfg files. *)
EXTENDS Scheduler, TLC

InstanceSymmetry == Permutations(Instances) \union Permutations(Sessions)
SessionSymmetry  == Permutations(Sessions)
=============================================================================
