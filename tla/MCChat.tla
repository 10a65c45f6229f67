------------------------------- MODULE MCChat -------------------------------
(* Instances of ChatSessions for TLC.  The symmetry is used by the run     *)
(* without a liveness property; records and runtimes are picked by CHOOSE  *)
(* and are not symmetric.                                                  *)
EXTENDS ChatSessions, TLC

LineSymmetry == Permutations(Messages) \cup Permutations(Sessions)
=============================================================================
