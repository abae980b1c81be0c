----------------------------- MODULE MCActionJobs -----------------------------
(* Instances of ActionJobs for TLC. *)
EXTENDS ActionJobs, TLC

Symmetry == Permutations(Jobs) \cup Permutations(Cancellers)
=============================================================================
