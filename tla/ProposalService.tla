---------------------------- MODULE ProposalService ----------------------------
(****************************************************************************)
(* ProposalService of src/self_nomad/proposals/service.py, with the store   *)
(* it persists records in and the Git operations it is built from.          *)
(*                                                                          *)
(* A caller is one thread or process inside a service method (the CLI, the  *)
(* TUI, the GUI and the MCP server all call the same methods).  A method is *)
(* cut where it reads or writes something that another caller, the operator *)
(* or an agent can touch in between: the record file, the proposal worktree *)
(* and its HEAD, the target ref, the checkout of the target branch.         *)
(*                                                                          *)
(*   materialize  worktree_add -> commit_all -> save            (lock)      *)
(*   validate     verify_head -> verify_clean -> digest -> save             *)
(*   approve      verify_head -> verify_clean -> save                       *)
(*   reject       save                                                      *)
(*   cleanup      remove                                                    *)
(*   apply        list_worktrees -> is_clean -> verify_head ->              *)
(*                verify_clean -> digest -> write_audit -> commit_audit ->  *)
(*                update_ref -> reset_hard -> save              (lock)      *)
(*                                                                          *)
(* The first step of every method loads the record: the caller then works   *)
(* on its own copy, rec, and "save" replaces the whole file with that copy. *)
(****************************************************************************)
EXTENDS Commits

CONSTANTS
    Callers,        \* the invocations that may run at the same time
    Disturbances,   \* which interferences of the environment are explored
    MaxEdits        \* bound: commits of the operator on the target branch

\* abort:   a caller dies, or an uncaught exception ends it, between two steps
\* timeout: a git command fails although nothing was wrong with its arguments
\* tamper:  someone writes or commits in a proposal worktree
\* commit:  the operator commits on the target branch
\* edit:    the operator edits files in the repository checkout
\* switch:  the operator switches the checkout to another branch and back
Interferences == {"abort", "timeout", "tamper", "commit", "edit", "switch"}

ASSUME DisturbancesAssumption == Disturbances \subseteq Interferences
ASSUME MaxEditsAssumption == MaxEdits \in Nat

VARIABLES
    record,     \* the record file of every proposal, None before create_draft
    worktree,   \* the private worktree of every proposal
    target,     \* refs/heads/<target_branch>
    side,       \* another branch of the same repository
    checkout,   \* the operator's working copy: its branch, files and edits
    lock,       \* the caller that holds store.lock_path, or None
    pc,         \* what each caller does next
    op,         \* the method each caller is in
    id,         \* the proposal_id it was called with
    rec,        \* its copy of the record
    seen,       \* checkout.head of apply: None when no worktree has the branch
    final,      \* final_commit of apply
    approvals   \* history variable: proposals approved at some time

disk  == <<record, worktree>>
git   == <<target, side, checkout>>
call  == <<pc, op, id, rec, seen, final>>
vars  == <<disk, git, lock, call, approvals>>

-----------------------------------------------------------------------------
(* Types *)

Status == {"draft", "materialized", "validated", "approved", "applied",
           "rejected", "stale", "failed"}
Methods == {"materialize", "validate", "approve", "reject", "cleanup", "apply"}
Steps == {"idle", "worktree_add", "commit_all", "verify_head", "verify_clean",
          "digest", "list_worktrees", "is_clean", "write_audit",
          "commit_audit", "update_ref", "reset_hard", "remove", "save"}

\* What SelfRepository.validate digests: the changes its files contain.
Content == SUBSET Change

\* worktree stands for the fields worktree and branch, which are set together.
ProposalRecord ==
    [status : Status, base_commit : Commit, worktree : BOOLEAN,
     proposal_commit : Commit \cup {None}, content_digest : Content \cup {None},
     validated_tree : Commit \cup {None}, approved_tree : Commit \cup {None},
     applied_commit : Commit \cup {None}]

\* dir "orphan" is a directory Git does not know as a worktree.
Worktree == [dir : {"none", "linked", "orphan"}, branch : BOOLEAN,
             head : Commit \cup {None}, dirty : SUBSET {"edit", "audit"}]

\* edited: "late" marks edits made while an apply is past its is_clean check.
Checkout == [branch : {"target", "side"}, files : Commit,
             edited : {"no", "early", "late"}]

\* None is not a value of any of these types.
ASSUME NoneIsNoValue ==
    /\ None \notin Callers
    /\ None \notin Methods
    /\ None \notin Commit
    /\ None \notin ProposalRecord

TypeOK ==
    /\ record \in [Proposals -> ProposalRecord \cup {None}]
    /\ worktree \in [Proposals -> Worktree]
    /\ target \in Commit
    /\ side \in Commit
    /\ checkout \in Checkout
    /\ lock \in Callers \cup {None}
    /\ pc \in [Callers -> Steps]
    /\ op \in [Callers -> Methods \cup {None}]
    /\ id \in [Callers -> Proposals \cup {None}]
    /\ rec \in [Callers -> ProposalRecord \cup {None}]
    /\ seen \in [Callers -> Commit \cup {None}]
    /\ final \in [Callers -> Commit \cup {None}]
    /\ approvals \subseteq Proposals

-----------------------------------------------------------------------------
(* Building blocks *)

NoWorktree == [dir |-> "none", branch |-> FALSE, head |-> None, dirty |-> {}]

\* Mutant: the draft does not remember the tip it was made on.
UnboundDraft(base) ==
    [status |-> "draft", base_commit |-> None, worktree |-> FALSE,
     proposal_commit |-> None, content_digest |-> None,
     validated_tree |-> None, approved_tree |-> None, applied_commit |-> None]

Draft(base) ==
    [status |-> "draft", base_commit |-> base, worktree |-> FALSE,
     proposal_commit |-> None, content_digest |-> None,
     validated_tree |-> None, approved_tree |-> None, applied_commit |-> None]

Init ==
    /\ record = [p \in Proposals |-> None]
    /\ worktree = [p \in Proposals |-> NoWorktree]
    /\ target = <<>>
    /\ side = <<>>
    /\ checkout = [branch |-> "target", files |-> <<>>, edited |-> "no"]
    /\ lock = None
    /\ pc = [i \in Callers |-> "idle"]
    /\ op = [i \in Callers |-> None]
    /\ id = [i \in Callers |-> None]
    /\ rec = [i \in Callers |-> None]
    /\ seen = [i \in Callers |-> None]
    /\ final = [i \in Callers |-> None]
    /\ approvals = {}

\* Caller i enters method m for p and loads p's record.
Enter(i, m, p, first) ==
    /\ pc[i] = "idle"
    /\ record[p] # None
    /\ pc' = [pc EXCEPT ![i] = first]
    /\ op' = [op EXCEPT ![i] = m]
    /\ id' = [id EXCEPT ![i] = p]
    /\ rec' = [rec EXCEPT ![i] = record[p]]
    /\ UNCHANGED <<seen, final>>

\* Mutant: the lock is only given back on the way out through save.
ReleaseAfterSave(i) == lock' = IF lock = i /\ pc[i] = "save" THEN None ELSE lock

\* Leaving `with FileLock(...)`, by return or by exception.
Release(i) == lock' = IF lock = i THEN None ELSE lock

\* Caller i returns or raises: the lock is freed and its locals are gone.
Leave(i) ==
    /\ pc' = [pc EXCEPT ![i] = "idle"]
    /\ op' = [op EXCEPT ![i] = None]
    /\ id' = [id EXCEPT ![i] = None]
    /\ rec' = [rec EXCEPT ![i] = None]
    /\ seen' = [seen EXCEPT ![i] = None]
    /\ final' = [final EXCEPT ![i] = None]
    /\ Release(i)

Goto(i, step) ==
    /\ pc' = [pc EXCEPT ![i] = step]
    /\ UNCHANGED <<op, id, lock>>

\* Caller i changes its copy of the record and goes on to save it.
Conclude(i, r) ==
    /\ rec' = [rec EXCEPT ![i] = r]
    /\ Goto(i, "save")

Here(i) == worktree[id[i]]

\* The files of p's worktree, audit records left aside (they are not
\* authoritative paths, so the digest does not cover them).
ContentDigest(p) ==
    {c \in Range(worktree[p].head) : c.kind # "audit"}
        \cup (IF "edit" \in worktree[p].dirty THEN {Foreign(p)} ELSE {})

\* git status --porcelain of the checkout, whose HEAD is its branch.
CheckoutTip == IF checkout.branch = "target" THEN target ELSE side

\* Mutant: edits that are not committed do not count.
CheckoutAtTip == checkout.files = CheckoutTip

CheckoutClean == checkout.edited = "no" /\ checkout.files = CheckoutTip

-----------------------------------------------------------------------------
(* create_draft and materialize *)

\* The tip is read and a new record file is written; nothing is locked.
CreateDraft(p) ==
    /\ record[p] = None
    /\ record' = [record EXCEPT ![p] = Draft(target)]
    /\ UNCHANGED <<worktree, git, lock, call, approvals>>

\* Mutant: materialize does not look at the status.
MaterializeAgain(i, p) ==
    /\ lock = None
    /\ Enter(i, "materialize", p, "worktree_add")
    /\ lock' = i
    /\ UNCHANGED <<disk, git, approvals>>

\* A caller that finds the lock taken waits; its timeout leaves no trace.
BeginMaterialize(i, p) ==
    /\ lock = None
    /\ Enter(i, "materialize", p, "worktree_add")
    /\ record[p].status = "draft"
    /\ lock' = i
    /\ UNCHANGED <<disk, git, approvals>>

\* git worktree add -b refuses an existing directory and an existing branch.
WorktreeAdd(i) ==
    /\ pc[i] = "worktree_add"
    /\ Here(i) = NoWorktree
    /\ worktree' = [worktree EXCEPT ![id[i]] =
            [dir |-> "linked", branch |-> TRUE, head |-> rec[i].base_commit, dirty |-> {}]]
    /\ Goto(i, "commit_all")
    /\ UNCHANGED <<record, git, rec, seen, final, approvals>>

\* The declared operations are written and everything in the worktree is
\* committed on whatever HEAD is: exactly the declared change if the worktree
\* is as worktree_add left it, something else otherwise.
CommitAll(i) ==
    /\ pc[i] = "commit_all"
    /\ Here(i).dir = "linked"
    /\ LET change == IF Here(i).dirty = {} THEN Declared(id[i]) ELSE Undeclared(id[i])
           commit == Append(Here(i).head, change)
       IN  /\ worktree' = [worktree EXCEPT ![id[i]] = [@ EXCEPT !.head = commit, !.dirty = {}]]
           /\ Conclude(i, [rec[i] EXCEPT !.status = "materialized", !.worktree = TRUE,
                                         !.proposal_commit = commit])
    /\ UNCHANGED <<record, git, seen, final, approvals>>

\* `except Exception`: Git refuses, or an operation does not fit the base.
MaterializeFails(i) ==
    /\ pc[i] \in {"worktree_add", "commit_all"}
    /\ Conclude(i, [rec[i] EXCEPT !.status = "failed", !.worktree = TRUE])
    /\ UNCHANGED <<disk, git, seen, final, approvals>>

-----------------------------------------------------------------------------
(* validate, approve, reject: no lock is taken *)

BeginValidate(i, p) ==
    /\ Enter(i, "validate", p, "verify_head")
    /\ record[p].status \in {"materialized", "validated"}
    /\ record[p].worktree
    /\ UNCHANGED <<disk, git, lock, approvals>>

BeginApprove(i, p) ==
    /\ Enter(i, "approve", p, "verify_head")
    /\ record[p].status = "validated"
    /\ UNCHANGED <<disk, git, lock, approvals>>

\* Mutant: reject does not look at the status.
RejectAnything(i, p) ==
    /\ pc[i] = "idle"
    /\ record[p] # None
    /\ pc' = [pc EXCEPT ![i] = "save"]
    /\ op' = [op EXCEPT ![i] = "reject"]
    /\ id' = [id EXCEPT ![i] = p]
    /\ rec' = [rec EXCEPT ![i] = [record[p] EXCEPT !.status = "rejected"]]
    /\ UNCHANGED <<disk, git, lock, seen, final, approvals>>

BeginReject(i, p) ==
    /\ pc[i] = "idle"
    /\ record[p] # None
    /\ record[p].status \notin {"applied", "rejected"}
    /\ pc' = [pc EXCEPT ![i] = "save"]
    /\ op' = [op EXCEPT ![i] = "reject"]
    /\ id' = [id EXCEPT ![i] = p]
    /\ rec' = [rec EXCEPT ![i] = [record[p] EXCEPT !.status = "rejected"]]
    /\ UNCHANGED <<disk, git, lock, seen, final, approvals>>

\* _verify_or_invalidate: drift takes the validation and the approval away.
Invalidated(r) ==
    [r EXCEPT !.status = "materialized", !.content_digest = None,
              !.validated_tree = None, !.approved_tree = None]

Invalidate(i) ==
    /\ Conclude(i, Invalidated(rec[i]))
    /\ UNCHANGED <<disk, git, seen, final, approvals>>

\* A Git command fails because the worktree is gone: not drift, nothing saved.
WorktreeMissing(i) ==
    /\ pc[i] \in {"verify_head", "verify_clean", "digest", "commit_audit"}
    /\ Here(i).dir # "linked"
    /\ Leave(i)
    /\ UNCHANGED <<disk, git, approvals>>

\* _verify_declared_tree, first read: git rev-parse HEAD in the worktree.
VerifyHead(i) ==
    /\ pc[i] = "verify_head"
    /\ Here(i).dir = "linked"
    /\ IF Here(i).head = rec[i].proposal_commit
       THEN /\ Goto(i, "verify_clean")
            /\ UNCHANGED <<disk, git, rec, seen, final, approvals>>
       ELSE Invalidate(i)

\* Mutant: a clean worktree is enough.
VerifiedClean(i) == Here(i).dirty = {}

\* Second read: git status; and the commit's diff against the base, which is
\* as immutable as the commit.
VerifiedDeclared(i) ==
    /\ Here(i).dirty = {}
    /\ rec[i].proposal_commit = Append(rec[i].base_commit, Declared(id[i]))

VerifyClean(i) ==
    /\ pc[i] = "verify_clean"
    /\ Here(i).dir = "linked"
    /\ VerifiedDeclared(i)
    /\ op[i] # "approve"
    /\ IF op[i] = "validate" \/ {rec[i].validated_tree, rec[i].approved_tree} = {rec[i].proposal_commit}
       THEN Goto(i, "digest") /\ UNCHANGED <<rec, seen, final>>
       ELSE Leave(i)
    /\ UNCHANGED <<disk, git, approvals>>

VerifyFails(i) ==
    /\ pc[i] = "verify_clean"
    /\ Here(i).dir = "linked"
    /\ ~VerifiedDeclared(i)
    /\ Invalidate(i)

\* SelfRepository.validate found the tree valid (it may also not, ValidationFails).
Validated(i) ==
    /\ pc[i] = "digest"
    /\ op[i] = "validate"
    /\ Here(i).dir = "linked"
    /\ Conclude(i, [rec[i] EXCEPT !.status = "validated",
                                  !.content_digest = ContentDigest(id[i]),
                                  !.validated_tree = rec[i].proposal_commit,
                                  !.approved_tree = None])
    /\ UNCHANGED <<disk, git, seen, final, approvals>>

ValidationFails(i) ==
    /\ pc[i] = "digest"
    /\ op[i] = "validate"
    /\ Leave(i)
    /\ UNCHANGED <<disk, git, approvals>>

Approved(i) ==
    /\ pc[i] = "verify_clean"
    /\ op[i] = "approve"
    /\ Here(i).dir = "linked"
    /\ VerifiedDeclared(i)
    /\ IF rec[i].proposal_commit = rec[i].validated_tree
       THEN /\ Conclude(i, [rec[i] EXCEPT !.status = "approved",
                                          !.approved_tree = rec[i].proposal_commit])
            /\ UNCHANGED <<seen, final>>
       ELSE Leave(i)
    /\ UNCHANGED <<disk, git, approvals>>

-----------------------------------------------------------------------------
(* apply: under the lock, but the operator and the unlocked methods go on *)

\* Mutant: apply also takes a record whose approval was followed by a rejection.
ApplyOnceApproved(i, p) ==
    /\ lock = None
    /\ record[p] # None
    /\ record[p].approved_tree # None
    /\ target = record[p].base_commit
    /\ Enter(i, "apply", p, "list_worktrees")
    /\ lock' = i
    /\ UNCHANGED <<disk, git, approvals>>

\* The record is loaded and the target tip compared with the base.
BeginApply(i, p) ==
    /\ lock = None
    /\ pc[i] = "idle"
    /\ record[p] # None
    /\ record[p].status = "approved"
    /\ lock' = i
    /\ op' = [op EXCEPT ![i] = "apply"]
    /\ id' = [id EXCEPT ![i] = p]
    /\ IF target = record[p].base_commit
       THEN /\ pc' = [pc EXCEPT ![i] = "list_worktrees"]
            /\ rec' = [rec EXCEPT ![i] = record[p]]
       ELSE /\ pc' = [pc EXCEPT ![i] = "save"]
            /\ rec' = [rec EXCEPT ![i] = [record[p] EXCEPT !.status = "stale"]]
    /\ UNCHANGED <<disk, git, seen, final, approvals>>

\* worktree_for_branch: a checkout of the target reports the tip as its HEAD.
ListWorktrees(i) ==
    /\ pc[i] = "list_worktrees"
    /\ IF checkout.branch = "target"
       THEN /\ seen' = [seen EXCEPT ![i] = target]
            /\ Goto(i, "is_clean")
       ELSE /\ Goto(i, "verify_head")
            /\ UNCHANGED seen
    /\ UNCHANGED <<disk, git, rec, final, approvals>>

\* A dirty checkout, or one that is not at the base, is a ConflictError.
CheckCheckout(i) ==
    /\ pc[i] = "is_clean"
    /\ IF CheckoutClean /\ seen[i] = rec[i].base_commit
       THEN Goto(i, "verify_head") /\ UNCHANGED <<rec, seen, final>>
       ELSE Leave(i)
    /\ UNCHANGED <<disk, git, approvals>>

\* The worktree must still validate to the digest that was approved; if not
\* the error leaves the record as it is.
Revalidate(i) ==
    /\ pc[i] = "digest"
    /\ op[i] = "apply"
    /\ Here(i).dir = "linked"
    /\ IF ContentDigest(id[i]) = rec[i].content_digest
       THEN Goto(i, "write_audit") /\ UNCHANGED <<rec, seen, final>>
       ELSE Leave(i)
    /\ UNCHANGED <<disk, git, approvals>>

\* atomic_write_text creates missing parent directories.
WriteAudit(i) ==
    /\ pc[i] = "write_audit"
    /\ worktree' = [worktree EXCEPT ![id[i]] =
            IF @.dir = "linked" THEN [@ EXCEPT !.dirty = Here(i).dirty \cup {"audit"}]
                                ELSE [@ EXCEPT !.dir = "orphan"]]
    /\ Goto(i, "commit_audit")
    /\ UNCHANGED <<record, git, rec, seen, final, approvals>>

\* Mutant: the diff of the audit commit is not looked at.
AddsAnything(i, commit) == TRUE

\* The commit differs from the proposal commit by the audit file alone.
AddsOnlyAudit(i, commit) == commit = Append(rec[i].proposal_commit, Audit(id[i]))

\* Only the audit file is committed, on whatever HEAD is.
CommitAudit(i) ==
    /\ pc[i] = "commit_audit"
    /\ Here(i).dir = "linked"
    /\ "audit" \in Here(i).dirty
    /\ LET commit == Append(Here(i).head, Audit(id[i]))
       IN  /\ worktree' = [worktree EXCEPT ![id[i]] =
                    [@ EXCEPT !.head = commit, !.dirty = Here(i).dirty \ {"audit"}]]
           /\ IF AddsOnlyAudit(i, commit)
              THEN /\ final' = [final EXCEPT ![i] = commit]
                   /\ Goto(i, "update_ref")
                   /\ UNCHANGED <<rec, seen>>
              ELSE Leave(i)
    /\ UNCHANGED <<record, git, approvals>>

\* git add finds no audit file: someone cleaned the worktree.
AuditVanished(i) ==
    /\ pc[i] = "commit_audit"
    /\ Here(i).dir = "linked"
    /\ "audit" \notin Here(i).dirty
    /\ Leave(i)
    /\ UNCHANGED <<disk, git, approvals>>

\* Mutant: the record names the proposal commit instead of the landed one.
AppliedProposal(i) == [rec[i] EXCEPT !.status = "applied", !.applied_commit = rec[i].proposal_commit]

AppliedRecord(i) == [rec[i] EXCEPT !.status = "applied", !.applied_commit = final[i]]
StaleRecord(i) == [rec[i] EXCEPT !.status = "stale"]

\* Mutant: update_ref without the expected old value.
AnyTip(i) == TRUE

\* git update-ref <branch> <new> <expected old>: a compare-and-swap.
AtBase(i) == target = rec[i].base_commit

UpdateRef(i) ==
    /\ pc[i] = "update_ref"
    /\ AtBase(i)
    /\ target' = final[i]
    /\ IF seen[i] # None
       THEN Goto(i, "reset_hard") /\ UNCHANGED rec
       ELSE Conclude(i, AppliedRecord(i))
    /\ UNCHANGED <<disk, side, checkout, seen, final, approvals>>

\* It fails because the tip moved, or because Git did not answer in time; in
\* the second case the ref may have been written all the same.
UpdateRefFails(i) ==
    /\ pc[i] = "update_ref"
    /\ \/ /\ ~AtBase(i)
          /\ UNCHANGED target
       \/ /\ "timeout" \in Disturbances
          /\ AtBase(i)
          /\ target' \in {target, final[i]}
    /\ Conclude(i, StaleRecord(i))
    /\ UNCHANGED <<disk, side, checkout, seen, final, approvals>>

\* git reset --hard <new> in the directory that had the target checked out: it
\* moves the branch that is checked out there NOW and overwrites its files.
ResetHard(i) ==
    /\ pc[i] = "reset_hard"
    /\ IF checkout.branch = "target"
       THEN target' = final[i] /\ UNCHANGED side
       ELSE side' = final[i] /\ UNCHANGED target
    /\ checkout' = [checkout EXCEPT !.files = final[i], !.edited = "no"]
    /\ Conclude(i, AppliedRecord(i))
    /\ UNCHANGED <<disk, seen, final, approvals>>

-----------------------------------------------------------------------------
(* store.save, cleanup, and callers that do not come to their end *)

\* The whole record file is replaced, whatever was written there meanwhile.
Save(i) ==
    /\ pc[i] = "save"
    /\ record' = [record EXCEPT ![id[i]] = rec[i]]
    /\ approvals' = approvals \cup {p \in {id[i]} : rec[i].status = "approved"}
    /\ Leave(i)
    /\ UNCHANGED <<worktree, git>>

\* Mutant: cleanup takes any proposal.
CleanupAnything(i, p) ==
    /\ Enter(i, "cleanup", p, "remove")
    /\ UNCHANGED <<disk, git, lock, approvals>>

BeginCleanup(i, p) ==
    /\ Enter(i, "cleanup", p, "remove")
    /\ record[p].status \in {"applied", "rejected", "failed"}
    /\ UNCHANGED <<disk, git, lock, approvals>>

\* git worktree remove --force, git branch -D, rmtree.  The record stays; a
\* directory that is not a worktree makes the first command fail.
RemoveWorktree(i) ==
    /\ pc[i] = "remove"
    /\ IF rec[i].worktree /\ Here(i).dir # "orphan"
       THEN worktree' = [worktree EXCEPT ![id[i]] = NoWorktree]
       ELSE UNCHANGED worktree
    /\ Leave(i)
    /\ UNCHANGED <<record, git, approvals>>

\* The process is killed, or a Git or file error ends the call.
Abort(i) ==
    /\ "abort" \in Disturbances
    /\ pc[i] # "idle"
    /\ Leave(i)
    /\ UNCHANGED <<disk, git, approvals>>

-----------------------------------------------------------------------------
(* The environment: the operator's Git and whoever can write in a worktree *)

PastCheck == {"verify_head", "verify_clean", "digest", "write_audit",
              "commit_audit", "update_ref", "reset_hard"}

\* An apply has found the checkout clean and has not refreshed it yet.
CheckoutTrusted == \E i \in Callers : seen[i] # None /\ pc[i] \in PastCheck

\* A commit in the checkout, or a push or fetch when it has another branch.
OperatorCommits ==
    /\ "commit" \in Disturbances
    /\ Cardinality({k \in DOMAIN target : target[k] = Edit}) < MaxEdits
    /\ target' = Append(target, Edit)
    /\ checkout' = IF checkout.branch = "target"
                   THEN [checkout EXCEPT !.files = target', !.edited = "no"]
                   ELSE checkout
    /\ UNCHANGED <<disk, side, lock, call, approvals>>

OperatorEdits ==
    /\ "edit" \in Disturbances
    /\ checkout.edited = "no"
    /\ checkout' = [checkout EXCEPT !.edited = IF CheckoutTrusted THEN "late" ELSE "early"]
    /\ UNCHANGED <<disk, target, side, lock, call, approvals>>

\* git reset --hard HEAD in the checkout.
OperatorDiscards ==
    /\ ~CheckoutClean
    /\ checkout' = [checkout EXCEPT !.files = CheckoutTip, !.edited = "no"]
    /\ UNCHANGED <<disk, target, side, lock, call, approvals>>

OperatorSwitches ==
    /\ "switch" \in Disturbances
    /\ CheckoutClean
    /\ checkout' = IF checkout.branch = "target"
                   THEN [checkout EXCEPT !.branch = "side", !.files = side]
                   ELSE [checkout EXCEPT !.branch = "target", !.files = target]
    /\ UNCHANGED <<disk, target, side, lock, call, approvals>>

\* Files of a proposal worktree change, are committed there, or are put back.
ForeignEdit(p) ==
    /\ "tamper" \in Disturbances
    /\ worktree[p].dir = "linked"
    /\ Foreign(p) \notin Range(worktree[p].head)
    /\ worktree' = [worktree EXCEPT ![p].dirty = @ \cup {"edit"}]
    /\ UNCHANGED <<record, git, lock, call, approvals>>

ForeignCommit(p) ==
    /\ "edit" \in worktree[p].dirty
    /\ worktree' = [worktree EXCEPT ![p] =
            [@ EXCEPT !.head = Append(worktree[p].head, Foreign(p)),
                      !.dirty = worktree[p].dirty \ {"edit"}]]
    /\ UNCHANGED <<record, git, lock, call, approvals>>

WorktreeRestored(p) ==
    /\ "tamper" \in Disturbances
    /\ worktree[p].dir = "linked"
    /\ record[p] # None
    /\ record[p].proposal_commit # None
    /\ worktree' = [worktree EXCEPT ![p] =
            [@ EXCEPT !.head = record[p].proposal_commit, !.dirty = {}]]
    /\ UNCHANGED <<record, git, lock, call, approvals>>

-----------------------------------------------------------------------------

Begin(i, p) ==
    \/ BeginMaterialize(i, p)
    \/ BeginValidate(i, p)
    \/ BeginApprove(i, p)
    \/ BeginReject(i, p)
    \/ BeginApply(i, p)
    \/ BeginCleanup(i, p)

\* What a caller that is inside a method does, unless it is cut short.
Proceed(i) ==
    \/ WorktreeAdd(i)
    \/ CommitAll(i)
    \/ MaterializeFails(i)
    \/ VerifyHead(i)
    \/ VerifyClean(i)
    \/ VerifyFails(i)
    \/ WorktreeMissing(i)
    \/ Validated(i)
    \/ ValidationFails(i)
    \/ Approved(i)
    \/ ListWorktrees(i)
    \/ CheckCheckout(i)
    \/ Revalidate(i)
    \/ WriteAudit(i)
    \/ CommitAudit(i)
    \/ AuditVanished(i)
    \/ UpdateRef(i)
    \/ UpdateRefFails(i)
    \/ ResetHard(i)
    \/ RemoveWorktree(i)
    \/ Save(i)

Operator ==
    \/ OperatorCommits
    \/ OperatorEdits
    \/ OperatorDiscards
    \/ OperatorSwitches

Foreigner(p) ==
    \/ ForeignEdit(p)
    \/ ForeignCommit(p)
    \/ WorktreeRestored(p)

Next ==
    \/ \E p \in Proposals : CreateDraft(p)
    \/ \E i \in Callers : \E p \in Proposals : Begin(i, p)
    \/ \E i \in Callers : Proceed(i)
    \/ \E i \in Callers : Abort(i)
    \/ Operator
    \/ \E p \in Proposals : Foreigner(p)

Spec == Init /\ [][Next]_vars

\* A method that has been entered runs on: nothing in it waits, once the lock
\* is held.  Nobody is obliged to call anything.
FairSpec == Spec /\ \A i \in Callers : WF_vars(Proceed(i))

-----------------------------------------------------------------------------
(* Safety: what every interleaving, crash and interference must respect *)

Exists(p) == record[p] # None

\* The target branch holds, besides the operator's commits, only pairs of a
\* declared change and its audit record, each pair on exactly the base its
\* proposal was drafted on, once, and only for proposals that were approved:
\* nothing written in a worktree behind the service's back gets in, and two
\* proposals never land on one base (the compare-and-swap, the diff check on
\* the audit commit and the verification of the declared tree together).
OnlyApprovedIn(history) ==
    \A k \in DOMAIN history : history[k] # Edit =>
        LET p == history[k].of
        IN  /\ p \in approvals
            /\ Exists(p)
            /\ IsPrefix(Landing(record[p].base_commit, p), history)
            /\ k \in {Len(record[p].base_commit) + 1, Len(record[p].base_commit) + 2}

OnlyApprovedLands == OnlyApprovedIn(target)

\* A record says "applied" only of a commit the target branch still contains:
\* the record is saved last, and no later apply or reset takes it out again.
AppliedIsInHistory ==
    \A p \in Proposals : Exists(p) /\ record[p].status = "applied" =>
        /\ record[p].applied_commit = Landing(record[p].base_commit, p)
        /\ IsPrefix(record[p].applied_commit, target)

\* Whatever stale copies concurrent callers save over each other, a record that
\* says validated, approved or applied is bound to a commit that makes exactly
\* the declared change, and an approved one to the tree that was validated.
ApprovalBindsDeclaredTree ==
    \A p \in Proposals : Exists(p) /\ record[p].status \in {"validated", "approved", "applied"} =>
        /\ record[p].proposal_commit = Append(record[p].base_commit, Declared(p))
        /\ record[p].validated_tree = record[p].proposal_commit
        /\ record[p].status = "approved" => record[p].approved_tree = record[p].validated_tree

\* The refresh of the checkout can only overwrite edits made after apply found
\* the checkout clean; edits that were there before make apply refuse.
EarlyEditsSurvive ==
    [][(\E i \in Callers : ResetHard(i)) => checkout.edited # "early"]_vars

-----------------------------------------------------------------------------
(* The inductive invariant behind the safety properties *)

\* A directory Git knows as a worktree has a HEAD; only such a one is dirty.
WorktreesOK ==
    \A p \in Proposals :
        /\ worktree[p].dir = "linked" => worktree[p].head # None
        /\ worktree[p].dirty # {} => worktree[p].dir = "linked"

MethodSteps(m) ==
    CASE m = "materialize" -> {"worktree_add", "commit_all", "save"}
      [] m = "validate" -> {"verify_head", "verify_clean", "digest", "save"}
      [] m = "approve" -> {"verify_head", "verify_clean", "save"}
      [] m = "reject" -> {"save"}
      [] m = "cleanup" -> {"remove"}
      [] m = "apply" -> {"list_worktrees", "is_clean", "verify_head", "verify_clean", "digest",
                         "write_audit", "commit_audit", "update_ref", "reset_hard", "save"}

\* A caller inside a method is at one of its steps and has loaded a record of
\* the proposal it works on; the proposal's base never changes.
CallsOK ==
    \A i \in Callers :
        /\ pc[i] = "idle" <=> op[i] = None
        /\ pc[i] # "idle" =>
             /\ pc[i] \in MethodSteps(op[i])
             /\ id[i] \in Proposals
             /\ rec[i] # None
             /\ record[id[i]] # None
             /\ rec[i].base_commit = record[id[i]].base_commit
        /\ pc[i] \in {"update_ref", "reset_hard"} => final[i] # None

\* materialize and apply run under the lock, from their first step to their last.
LockOK == \A i \in Callers : lock = i <=> op[i] \in {"materialize", "apply"}

\* What a record of p, on disk or in a caller's hands, may claim.
Sound(p, r) ==
    /\ r.status \in {"validated", "approved", "applied"} =>
         /\ r.proposal_commit = Append(r.base_commit, Declared(p))
         /\ r.validated_tree = r.proposal_commit
    /\ r.status = "approved" => r.approved_tree = r.validated_tree
    /\ r.status = "applied" => r.applied_commit = Landing(r.base_commit, p)

RecordsOK ==
    \A p \in Proposals : Exists(p) =>
        /\ Sound(p, record[p])
        /\ record[p].status = "approved" => p \in approvals

\* What caller i knows at its step.  apply works on an approved record until it
\* concludes; its final commit is the landing of that record; only apply ever
\* concludes with "applied".  Between the compare-and-swap and the refresh
\* nothing else lands, so that the refresh, which sets the branch once more,
\* takes nothing out that landed before.
CallerOK(i) ==
    /\ pc[i] # "idle" => Sound(id[i], rec[i])
    /\ pc[i] = "digest" => rec[i].proposal_commit = Append(rec[i].base_commit, Declared(id[i]))
    /\ op[i] = "apply" /\ pc[i] # "save" => rec[i].status = "approved" /\ id[i] \in approvals
    /\ pc[i] \in {"update_ref", "reset_hard"} => final[i] = Landing(rec[i].base_commit, id[i])
    /\ pc[i] = "save" /\ rec[i].status = "applied" =>
          op[i] = "apply" /\ IsPrefix(rec[i].applied_commit, target)
    /\ pc[i] = "reset_hard" =>
          /\ IsPrefix(final[i], target)
          /\ \A k \in (Len(final[i]) + 1)..Len(target) : target[k] = Edit
          /\ \A p \in Proposals : Exists(p) /\ record[p].status = "applied" =>
                IsPrefix(record[p].applied_commit, final[i])

CallersOK == \A i \in Callers : CallerOK(i)

IInv ==
    /\ TypeOK
    /\ WorktreesOK
    /\ CallsOK
    /\ LockOK
    /\ RecordsOK
    /\ CallersOK
    /\ OnlyApprovedLands
    /\ AppliedIsInHistory

-----------------------------------------------------------------------------
(* What holds of a single caller at a time (crashes included), and what      *)
(* concurrent callers break, because validate, approve and reject read and   *)
(* write the record without the lock                                         *)

\* A proposal that was rejected before it landed never lands.
RejectedStaysOut ==
    [][\A p \in Proposals :
          Exists(p) /\ record[p].status = "rejected" /\ HasLanded(target', p)
            => HasLanded(target, p)]_vars

\* applied and rejected are final (docs/architecture.md, the state diagram).
TerminalIsFinal ==
    [][\A p \in Proposals :
          Exists(p) /\ record[p].status \in {"applied", "rejected"} => record'[p] = record[p]]_vars

\* A proposal that can still be applied has its worktree and its branch:
\* cleanup takes them from finished proposals only.
LiveProposalKeepsWorktree ==
    \A p \in Proposals : Exists(p) /\ record[p].status \in {"materialized", "validated", "approved"} =>
        worktree[p].dir = "linked" /\ worktree[p].branch

-----------------------------------------------------------------------------
(* Liveness *)

\* Every call ends, and the lock it may hold is free again: no path through a
\* method, by return or by exception, keeps the lock.
EveryCallReturns == \A i \in Callers : pc[i] # "idle" ~> pc[i] = "idle" /\ lock # i
-----------------------------------------------------------------------------
(* Refinement *)

\* The abstract view: the branch itself, the bases the records name, and who
\* was ever approved.
BaseOf(p) == IF record[p] = None THEN None ELSE record[p].base_commit

Promise == INSTANCE TargetBranch
    WITH history <- target, base <- [p \in Proposals |-> BaseOf(p)], approved <- approvals

\* ProposalService implements TargetBranch: every landing is one atomic step of
\* an approved proposal on its own base, whatever else goes on.
ImplementsTargetBranch == Promise!Spec

\* What a record and a worktree show to a component that made the proposal.
StatusOf(p) ==
    CASE record[p] = None -> "none"
      [] record[p] # None /\ record[p].status \in {"validated", "approved", "applied", "stale"} -> "reviewed"
      [] OTHER -> record[p].status

\* The record and the copies of it in callers' hands, of which one in
\* materialize is not finished.
Copies(p) ==
    {record[p]} \cup {rec[i] : i \in {j \in Callers : id[j] = p /\ op[j] # "materialize"}}

OutcomeOf(p) ==
    CASE \E r \in Copies(p) \ {None} : r.proposal_commit # None -> "materialized"
      [] \A r \in Copies(p) \ {None} : ~r.worktree -> "none"
      [] OTHER -> "failed"

Standing(p) ==
    [status |-> StatusOf(p), outcome |-> OutcomeOf(p),
     made |-> worktree[p].dir # "none" \/ worktree[p].branch]

Standings == INSTANCE ProposalStandings WITH standing <- [p \in Proposals |-> Standing(p)]

\* ProposalService implements ProposalStandings, with callers that overlap and
\* save stale records over each other: no record ever becomes a draft again,
\* failed comes from materialize alone, and a draft that materialize has not
\* finished can only be rejected. IntakeService relies on this.
ImplementsStandings == Standings!Spec
=============================================================================
