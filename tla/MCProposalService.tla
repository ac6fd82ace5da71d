-------------------------- MODULE MCProposalService --------------------------
(* Small instances of ProposalService for TLC. *)
EXTENDS ProposalService

Interchangeable == Permutations(Proposals) \cup Permutations(Callers)
==============================================================================
