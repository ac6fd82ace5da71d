---------------------------- MODULE MCIntakeService ----------------------------
(* Small instances of IntakeService for TLC. *)
EXTENDS IntakeService, TLC

Interchangeable ==
    Permutations(Submitters) \cup Permutations(Requests)
        \cup Permutations(Digests) \cup Permutations(Proposals)
================================================================================
