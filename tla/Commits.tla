------------------------------- MODULE Commits -------------------------------
(****************************************************************************)
(* The Git vocabulary of the other modules.  A commit is identified by its  *)
(* whole ancestry, as a Git object name is, so a commit IS the sequence of  *)
(* changes that leads to it and "is an ancestor of" is IsPrefix.  Content is *)
(* abstracted to what the program tells apart: the changes a tree contains. *)
(****************************************************************************)
EXTENDS Naturals, SequencesExt

CONSTANTS
    Proposals,      \* the identifiers (UUIDs) proposals may take
    None            \* Python's None, and the absent value of every field

ASSUME NoneAssumption == None \notin Proposals

Kinds == {"edit", "declared", "undeclared", "foreign", "audit"}

\* A commit adds one change to its parent.
Change == [kind : Kinds, of : Proposals \cup {None}]

\* A commit the operator makes on a branch of the repository.
Edit == [kind |-> "edit", of |-> None]

\* The proposal commit when it contains exactly the declared operations ...
Declared(p) == [kind |-> "declared", of |-> p]

\* ... and when `git add -A` swept other files of the worktree into it.
Undeclared(p) == [kind |-> "undeclared", of |-> p]

\* Something written in a proposal's worktree by anyone but the service.
Foreign(p) == [kind |-> "foreign", of |-> p]

\* The commit that adds .self-nomad/audit/<id>.json.
Audit(p) == [kind |-> "audit", of |-> p]

Commit == Seq(Change)

\* The commit that apply wants to land for p on top of base.
Landing(base, p) == Append(Append(base, Declared(p)), Audit(p))

\* p's audit commit is in the history of commit c.
HasLanded(c, p) == \E k \in DOMAIN c : c[k] = Audit(p)
=============================================================================
