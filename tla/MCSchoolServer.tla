--------------------------- MODULE MCSchoolServer ---------------------------
(* Instances of SchoolServer for TLC.                                      *)
EXTENDS SchoolServer, TLC

\* No step treats two handles, two threads or two connections differently.
ServerSymmetry == Permutations(Handles) \cup Permutations(Threads) \cup Permutations(Conns)
=============================================================================
