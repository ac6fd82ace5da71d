----------------------------- MODULE TargetBranch -----------------------------
(****************************************************************************)
(* What the proposal workflow promises about the target branch, with none   *)
(* of its machinery: a proposal is opened on the tip, somebody approves it, *)
(* and it lands in one step, whole, on the base it was opened on, or never. *)
(* ProposalService implements this specification.                           *)
(****************************************************************************)
EXTENDS Commits

VARIABLES
    history,    \* the target branch
    base,       \* the base of every opened proposal, None before
    approved    \* the proposals somebody has approved

vars == <<history, base, approved>>

Init ==
    /\ history = <<>>
    /\ base = [p \in Proposals |-> None]
    /\ approved = {}

Open(p) ==
    /\ base[p] = None
    /\ base' = [base EXCEPT ![p] = history]
    /\ UNCHANGED <<history, approved>>

Approve(p) ==
    /\ base[p] # None
    /\ approved' = approved \cup {p}
    /\ UNCHANGED <<history, base>>

Land(p) ==
    /\ p \in approved
    /\ history = base[p]
    /\ history' = Landing(base[p], p)
    /\ UNCHANGED <<base, approved>>

\* Commits the operator makes beside the workflow.
OperatorCommits ==
    /\ history' = Append(history, Edit)
    /\ UNCHANGED <<base, approved>>

\* The refresh of the checkout resets the branch to what just landed, which
\* drops commits the operator made there in between: never anything older.
DropLaterCommits(p) ==
    /\ p \in approved
    /\ IsStrictPrefix(Landing(base[p], p), history)
    /\ \A k \in (Len(base[p]) + 3)..Len(history) : history[k] = Edit
    /\ history' = Landing(base[p], p)
    /\ UNCHANGED <<base, approved>>

Next ==
    \/ \E p \in Proposals :
          Open(p) \/ Approve(p) \/ Land(p) \/ DropLaterCommits(p)
    \/ OperatorCommits

Spec == Init /\ [][Next]_vars
===============================================================================
