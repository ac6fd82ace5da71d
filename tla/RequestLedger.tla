----------------------------- MODULE RequestLedger -----------------------------
(****************************************************************************)
(* What the intake promises to an agent, with none of its machinery: a      *)
(* request is answered by reserving one proposal for its content, the       *)
(* proposal is made at most once and only for it, and the request ends once *)
(* and for all, as completed only if its proposal was made.                 *)
(* IntakeService implements this specification.                             *)
(****************************************************************************)
CONSTANTS
    Requests,   \* request_id values
    Digests,    \* canonical digests of payloads
    Proposals,
    None

VARIABLES
    reserved,   \* the proposal and the digest reserved for every request
    outcome,    \* how every request has ended, or "pending"
    created     \* the request every proposal was made for

vars == <<reserved, outcome, created>>

Init ==
    /\ reserved = [r \in Requests |-> None]
    /\ outcome = [r \in Requests |-> "pending"]
    /\ created = [p \in Proposals |-> None]

\* No proposal is reserved twice.
Reserve(r, d, p) ==
    /\ reserved[r] = None
    /\ \A q \in Requests : reserved[q] # None => reserved[q].proposal # p
    /\ reserved' = [reserved EXCEPT ![r] = [proposal |-> p, digest |-> d]]
    /\ UNCHANGED <<outcome, created>>

Create(r, p) ==
    /\ reserved[r] # None
    /\ reserved[r].proposal = p
    /\ outcome[r] = "pending"
    /\ created[p] = None
    /\ created' = [created EXCEPT ![p] = [id |-> r, digest |-> reserved[r].digest]]
    /\ UNCHANGED <<reserved, outcome>>

Complete(r) ==
    /\ reserved[r] # None
    /\ outcome[r] = "pending"
    /\ created[reserved[r].proposal] # None
    /\ outcome' = [outcome EXCEPT ![r] = "completed"]
    /\ UNCHANGED <<reserved, created>>

Fail(r) ==
    /\ reserved[r] # None
    /\ outcome[r] = "pending"
    /\ outcome' = [outcome EXCEPT ![r] = "failed"]
    /\ UNCHANGED <<reserved, created>>

Next ==
    \E r \in Requests :
        \/ \E d \in Digests, p \in Proposals : Reserve(r, d, p)
        \/ \E p \in Proposals : Create(r, p)
        \/ Complete(r)
        \/ Fail(r)

Spec == Init /\ [][Next]_vars
===============================================================================
