--------------------------- MODULE MCSessionStream ---------------------------
(* Instances of SessionStream for TLC. *)
EXTENDS SessionStream, TLC

\* Publishers and subscribers run the same code, so either set may be permuted.
Symmetry == Permutations(Publishers) \cup Permutations(Subscribers)
=============================================================================
