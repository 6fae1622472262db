-------------------------- MODULE MCPoolAdmission --------------------------
(* Instances of PoolAdmission for TLC.                                     *)
EXTENDS PoolAdmission, TLC

\* No step treats two handles, two threads or two connections differently.
PoolSymmetry == Permutations(Handles) \cup Permutations(Threads) \cup Permutations(Conns)
=============================================================================
