-------------------------- MODULE MCProposalApproval --------------------------
(* Instances of ProposalApproval for TLC. *)
EXTENDS ProposalApproval, TLC

CONSTANT h1

\* Every proposal is of the same action: a token for one would fit any.
SameAction == [p \in Proposals |-> h1]

Symmetry == Permutations(Proposals) \cup Permutations(Tokens) \cup Permutations(Callers)
=============================================================================
