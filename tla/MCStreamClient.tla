---------------------------- MODULE MCStreamClient ----------------------------
(* Instances of StreamClient for TLC. *)
EXTENDS StreamClient, TLC

\* Connections are interchangeable.
Symmetry == Permutations(Subscribers)
=============================================================================
