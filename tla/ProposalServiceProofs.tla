------------------------- MODULE ProposalServiceProofs -------------------------
(****************************************************************************)
(* What holds of ProposalService for every set of proposals and callers,    *)
(* every interference and every number of operator commits.                 *)
(*                                                                          *)
(*   TypeCorrect           first the shape of the state: types, worktrees,  *)
(*                         and the step each caller can be at               *)
(*   Invariance            IInv, by way of LockStep and SafetyStep          *)
(*   ApprovedLandingsOnly, AppliedStaysInHistory, ApprovalsBound            *)
(*                         the safety properties, from IInv                 *)
(*   EarlyEditsKept        an action property, from an invariant of its own *)
(*   LiveWorktreesKept, TerminalRecordsFinal, RejectedNeverLands            *)
(*                         what calls that do not overlap keep              *)
(*   Refinement            ProposalService implements TargetBranch          *)
(*   StandingsRefinement   and ProposalStandings                            *)
(****************************************************************************)
EXTENDS ProposalService, SequenceTheorems, TLAPS

-----------------------------------------------------------------------------
(* The shape of the state *)

\* The commits the program makes are commits.
LEMMA CommitFacts ==
    ASSUME NEW c \in Commit, NEW p \in Proposals
    PROVE  /\ Append(c, Declared(p)) \in Commit
           /\ Append(c, Undeclared(p)) \in Commit
           /\ Append(c, Foreign(p)) \in Commit
           /\ Append(c, Audit(p)) \in Commit
           /\ Append(c, Edit) \in Commit
           /\ Landing(c, p) \in Commit
           /\ <<>> \in Commit
  BY DEF Commit, Change, Kinds, Declared, Undeclared, Foreign, Audit, Edit, Landing

\* The part of the invariant that needs no property of ancestry.
Shape == TypeOK /\ WorktreesOK /\ CallsOK

\* An empty repository has that shape.
LEMMA InitShape == Init => Shape
  BY CommitFacts DEF Init, Shape, TypeOK, WorktreesOK, CallsOK, NoWorktree, Steps, Methods, Worktree, Checkout, Commit

\* What a caller inside a method may rely on.
LEMMA CallFacts ==
    ASSUME Shape, NEW i \in Callers, pc[i] # "idle"
    PROVE  /\ id[i] \in Proposals
           /\ op[i] \in Methods
           /\ rec[i] \in ProposalRecord
           /\ record[id[i]] \in ProposalRecord
           /\ Here(i) \in Worktree
           /\ Here(i).dir = "linked" => Here(i).head \in Commit
           /\ rec[i].base_commit = record[id[i]].base_commit
           /\ rec[i].base_commit \in Commit
           /\ pc[i] \in MethodSteps(op[i])
  BY NoneIsNoValue DEF Shape, TypeOK, WorktreesOK, CallsOK, Here, Worktree, ProposalRecord

\* Which method a caller is in, by its step.
LEMMA StepFacts ==
    ASSUME Shape, NEW i \in Callers, pc[i] # "idle"
    PROVE  /\ pc[i] \in {"worktree_add", "commit_all"} => op[i] = "materialize"
           /\ pc[i] \in {"list_worktrees", "is_clean", "write_audit", "commit_audit",
                         "update_ref", "reset_hard"} => op[i] = "apply"
           /\ pc[i] \in {"verify_head", "verify_clean"} => op[i] \in {"validate", "approve", "apply"}
           /\ pc[i] = "digest" => op[i] \in {"validate", "apply"}
           /\ pc[i] = "remove" => op[i] = "cleanup"
           /\ pc[i] # "remove" => "save" \in MethodSteps(op[i])
  BY CallFacts DEF MethodSteps, Methods

\* Leaving a method keeps the shape of the rest.
LEMMA LeaveShape ==
    ASSUME Shape, NEW i \in Callers, Leave(i), UNCHANGED <<disk, git, approvals>>
    PROVE  Shape'
  BY DEF Shape, Leave, Release, TypeOK, WorktreesOK, CallsOK, disk, git, Steps

\* So does concluding with any record of the same base, whatever happens to
\* the branches and the checkout.
LEMMA ConcludeGitShape ==
    ASSUME Shape, NEW i \in Callers, pc[i] # "idle", "save" \in MethodSteps(op[i]),
           NEW r \in ProposalRecord, r.base_commit = rec[i].base_commit, Conclude(i, r),
           UNCHANGED <<disk, seen, final, approvals>>,
           target' \in Commit, side' \in Commit, checkout' \in Checkout
    PROVE  Shape'
  BY NoneIsNoValue DEF Shape, Conclude, Goto, TypeOK, WorktreesOK, CallsOK, disk, Steps

\* The same when the checkout and the other branch stay.
LEMMA ConcludeShape ==
    ASSUME Shape, NEW i \in Callers, pc[i] # "idle", "save" \in MethodSteps(op[i]),
           NEW r \in ProposalRecord, r.base_commit = rec[i].base_commit, Conclude(i, r),
           UNCHANGED <<disk, side, checkout, seen, final, approvals>>, target' \in Commit
    PROVE  Shape'
  <1>1. side' \in Commit /\ checkout' \in Checkout
    BY DEF Shape, TypeOK
  <1> QED
    BY <1>1, ConcludeGitShape

\* So does going on to another step of the same method, whatever happens to
\* its worktree.
LEMMA AdvanceShape ==
    ASSUME Shape, NEW i \in Callers, pc[i] # "idle", NEW step \in Steps, step # "idle",
           step \in MethodSteps(op[i]), Goto(i, step), UNCHANGED <<record, rec, approvals>>,
           worktree' \in [Proposals -> Worktree], WorktreesOK',
           target' \in Commit, UNCHANGED <<side, checkout>>,
           seen' \in [Callers -> Commit \cup {None}], final' \in [Callers -> Commit \cup {None}],
           \A j \in Callers : j # i => final'[j] = final[j],
           step \in {"update_ref", "reset_hard"} => final'[i] # None
    PROVE  Shape'
  BY DEF Shape, Goto, TypeOK, CallsOK

\* The same when the worktrees stay.
LEMMA GotoShape ==
    ASSUME Shape, NEW i \in Callers, pc[i] # "idle", NEW step \in Steps, step # "idle",
           step \in MethodSteps(op[i]), Goto(i, step), UNCHANGED <<disk, rec, approvals>>,
           target' \in Commit, UNCHANGED <<side, checkout>>,
           seen' \in [Callers -> Commit \cup {None}], final' \in [Callers -> Commit \cup {None}],
           \A j \in Callers : final'[j] = final[j],
           step \in {"update_ref", "reset_hard"} => final'[i] # None
    PROVE  Shape'
  <1>1. /\ worktree' \in [Proposals -> Worktree] /\ WorktreesOK'
        /\ record' = record
    BY DEF Shape, TypeOK, WorktreesOK, disk
  <1> QED
    BY <1>1, AdvanceShape

\* Entering a method with a record of the same base.
LEMMA EnterShape ==
    ASSUME Shape, NEW i \in Callers, NEW p \in Proposals, record[p] # None,
           NEW m \in Methods, NEW step \in MethodSteps(m), step \in Steps,
           step \notin {"idle", "update_ref", "reset_hard"},
           NEW r \in ProposalRecord, r.base_commit = record[p].base_commit,
           pc' = [pc EXCEPT ![i] = step], op' = [op EXCEPT ![i] = m],
           id' = [id EXCEPT ![i] = p], rec' = [rec EXCEPT ![i] = r],
           lock' \in Callers \cup {None}, UNCHANGED <<disk, git, seen, final, approvals>>
    PROVE  Shape'
  BY NoneIsNoValue DEF Shape, TypeOK, WorktreesOK, CallsOK, disk, git

\* Replacing one worktree.
LEMMA WorktreeUpdate ==
    ASSUME Shape, NEW p \in Proposals, NEW w \in Worktree,
           w.dir = "linked" => w.head # None,
           w.dirty # {} => w.dir = "linked",
           worktree' = [worktree EXCEPT ![p] = w]
    PROVE  worktree' \in [Proposals -> Worktree] /\ WorktreesOK'
  BY DEF Shape, TypeOK, WorktreesOK

\* The updates of a record that the methods make give a record.
LEMMA RecordFacts ==
    ASSUME NEW r \in ProposalRecord, NEW s \in Status
    PROVE  /\ [r EXCEPT !.status = s] \in ProposalRecord
           /\ [r EXCEPT !.status = s].base_commit = r.base_commit
  BY DEF ProposalRecord

\* Every step keeps the shape.
LEMMA ShapeStep == Shape /\ [Next]_vars => Shape'
  <1> SUFFICES ASSUME Shape, [Next]_vars PROVE Shape'
    OBVIOUS
  <1> USE NoneIsNoValue
  <1>1. ASSUME NEW p \in Proposals, CreateDraft(p) PROVE Shape'
    BY <1>1, CommitFacts DEF Shape, CreateDraft, Draft, TypeOK, WorktreesOK, CallsOK, ProposalRecord, Status, disk, git, call, Commit
  <1>2. ASSUME NEW i \in Callers, Save(i) PROVE Shape'
    BY <1>2 DEF Shape, Save, Leave, Release, TypeOK, WorktreesOK, CallsOK, git, call, Steps, Methods, MethodSteps
  <1>3. ASSUME NEW i \in Callers, NEW p \in Proposals, Begin(i, p) PROVE Shape'
    <2> USE DEF Steps, Methods, MethodSteps
    <2>0. /\ record[p] # None => record[p] \in ProposalRecord
          /\ lock \in Callers \cup {None}
      BY DEF Shape, TypeOK
    <2>1. CASE BeginMaterialize(i, p)
      BY <2>0, <2>1, EnterShape DEF BeginMaterialize, Enter
    <2>2. CASE BeginValidate(i, p)
      BY <2>0, <2>2, EnterShape DEF BeginValidate, Enter
    <2>3. CASE BeginApprove(i, p)
      BY <2>0, <2>3, EnterShape DEF BeginApprove, Enter
    <2>4. CASE BeginReject(i, p)
      BY <2>0, <2>4, EnterShape, RecordFacts DEF BeginReject, Status
    <2>5. CASE BeginApply(i, p)
      <3> DEFINE stale == [record[p] EXCEPT !.status = "stale"]
      <3>1. /\ record[p] # None
            /\ record[p] \in ProposalRecord
            /\ "apply" \in Methods
            /\ lock' \in Callers \cup {None}
            /\ op' = [op EXCEPT ![i] = "apply"]
            /\ id' = [id EXCEPT ![i] = p]
            /\ UNCHANGED <<disk, git, seen, final, approvals>>
        BY <2>0, <2>5 DEF BeginApply
      <3>2. CASE target = record[p].base_commit
        <4>1. /\ pc' = [pc EXCEPT ![i] = "list_worktrees"]
              /\ rec' = [rec EXCEPT ![i] = record[p]]
          BY <2>5, <3>2 DEF BeginApply
        <4> QED
          BY <3>1, <4>1, EnterShape
      <3>3. CASE target # record[p].base_commit
        <4>1. /\ pc' = [pc EXCEPT ![i] = "save"]
              /\ rec' = [rec EXCEPT ![i] = stale]
          BY <2>5, <3>3 DEF BeginApply
        <4>2. stale \in ProposalRecord /\ stale.base_commit = record[p].base_commit
          BY <3>1, RecordFacts DEF Status
        <4> HIDE DEF stale
        <4> QED
          BY <3>1, <4>1, <4>2, EnterShape
      <3> QED
        BY <3>2, <3>3
    <2>6. CASE BeginCleanup(i, p)
      BY <2>0, <2>6, EnterShape DEF BeginCleanup, Enter
    <2> QED
      BY <1>3, <2>1, <2>2, <2>3, <2>4, <2>5, <2>6 DEF Begin
  <1>4. ASSUME NEW i \in Callers, Proceed(i) PROVE Shape'
    <2>0. /\ pc[i] # "idle" => /\ id[i] \in Proposals
                               /\ rec[i] \in ProposalRecord
                               /\ rec[i].base_commit \in Commit
                               /\ Here(i) \in Worktree
                               /\ Here(i).dir = "linked" => Here(i).head \in Commit
          /\ target \in Commit
          /\ seen \in [Callers -> Commit \cup {None}]
          /\ final \in [Callers -> Commit \cup {None}]
          /\ pc[i] \in {"update_ref", "reset_hard"} => final[i] \in Commit
      BY CallFacts DEF Shape, TypeOK, CallsOK
    <2>1. CASE WorktreeAdd(i)
      <3> DEFINE w == [dir |-> "linked", branch |-> TRUE, head |-> rec[i].base_commit, dirty |-> {}]
      <3>1. w \in Worktree /\ w.head # None
        BY <2>0, <2>1 DEF WorktreeAdd, Worktree
      <3>2. worktree' \in [Proposals -> Worktree] /\ WorktreesOK'
        BY <2>0, <2>1, <3>1, WorktreeUpdate DEF WorktreeAdd
      <3> QED
        BY <2>0, <2>1, <3>2, StepFacts, AdvanceShape DEF WorktreeAdd, git, MethodSteps, Steps
    <2>2. CASE CommitAll(i)
      <3>1. PICK commit \in Commit :
              /\ worktree' = [worktree EXCEPT ![id[i]] = [@ EXCEPT !.head = commit, !.dirty = {}]]
              /\ Conclude(i, [rec[i] EXCEPT !.status = "materialized", !.worktree = TRUE,
                                            !.proposal_commit = commit])
        BY <2>0, <2>2, CommitFacts DEF CommitAll
      <3> DEFINE r == [rec[i] EXCEPT !.status = "materialized", !.worktree = TRUE,
                                     !.proposal_commit = commit]
      <3>2. r \in ProposalRecord /\ r.base_commit = rec[i].base_commit
        BY <2>0, <2>2 DEF CommitAll, ProposalRecord, Status
      <3>3. worktree' \in [Proposals -> Worktree] /\ WorktreesOK'
        <4> DEFINE w == [worktree[id[i]] EXCEPT !.head = commit, !.dirty = {}]
        <4>1. w \in Worktree /\ w.head # None /\ w.dirty = {}
          BY <2>0, <2>2 DEF CommitAll, Here, Worktree
        <4>2. worktree' = [worktree EXCEPT ![id[i]] = w]
          BY <3>1
        <4> HIDE DEF w
        <4> QED
          BY <2>0, <2>2, <4>1, <4>2, WorktreeUpdate DEF CommitAll
      <3>4. Conclude(i, r)
        BY <3>1
      <3> HIDE DEF r
      <3> QED
        <4>1. /\ pc[i] # "idle" /\ "save" \in MethodSteps(op[i])
              /\ UNCHANGED <<record, git, seen, final, approvals>>
          BY <2>2, StepFacts DEF CommitAll
        <4> QED
          BY <3>2, <3>3, <3>4, <4>1 DEF Conclude, Goto, git, Shape, TypeOK, CallsOK, Steps
    <2>3. CASE MaterializeFails(i)
      <3> DEFINE r == [rec[i] EXCEPT !.status = "failed", !.worktree = TRUE]
      <3>1. r \in ProposalRecord /\ r.base_commit = rec[i].base_commit
        BY <2>0, <2>3 DEF MaterializeFails, ProposalRecord, Status
      <3> QED
        BY <2>0, <2>3, <3>1, StepFacts, ConcludeShape DEF MaterializeFails, git
    <2>4. ASSUME Invalidate(i), pc[i] \in {"verify_head", "verify_clean"} PROVE Shape'
      <3>1. Invalidated(rec[i]) \in ProposalRecord /\ Invalidated(rec[i]).base_commit = rec[i].base_commit
        BY <2>0, <2>4 DEF Invalidated, ProposalRecord, Status
      <3> QED
        BY <2>0, <2>4, <3>1, StepFacts, ConcludeShape DEF Invalidate, git
    <2>5. CASE VerifyHead(i)
      <3>1. CASE Goto(i, "verify_clean") /\ UNCHANGED <<disk, git, rec, seen, final, approvals>>
        BY <2>0, <2>5, <3>1, StepFacts, GotoShape DEF VerifyHead, git, MethodSteps, Steps
      <3> QED
        BY <2>4, <2>5, <3>1 DEF VerifyHead
    <2>6. CASE VerifyClean(i)
      <3>1. CASE Goto(i, "digest") /\ UNCHANGED <<rec, seen, final>>
        BY <2>0, <2>6, <3>1, StepFacts, GotoShape DEF VerifyClean, git, MethodSteps, Steps
      <3> QED
        BY <2>6, <3>1, LeaveShape DEF VerifyClean
    <2>7. CASE VerifyFails(i)
      BY <2>4, <2>7 DEF VerifyFails
    <2>8. CASE WorktreeMissing(i)
      BY <2>8, LeaveShape DEF WorktreeMissing
    <2>9. CASE Validated(i)
      <3> DEFINE r == [rec[i] EXCEPT !.status = "validated", !.content_digest = ContentDigest(id[i]),
                                     !.validated_tree = rec[i].proposal_commit, !.approved_tree = None]
      <3>1. Here(i).head \in Seq(Change) /\ Foreign(id[i]) \in Change
        BY <2>0, <2>9 DEF Validated, Commit, Change, Foreign, Kinds
      <3>2. ContentDigest(id[i]) \in Content
        BY <3>1 DEF ContentDigest, Content, Here, Range
      <3>3. r \in ProposalRecord /\ r.base_commit = rec[i].base_commit
        BY <2>0, <2>9, <3>2 DEF Validated, ProposalRecord, Status
      <3> QED
        BY <2>0, <2>9, <3>3, StepFacts, ConcludeShape DEF Validated, git
    <2>10. CASE ValidationFails(i)
      BY <2>10, LeaveShape DEF ValidationFails
    <2>11. CASE Approved(i)
      <3> DEFINE r == [rec[i] EXCEPT !.status = "approved", !.approved_tree = rec[i].proposal_commit]
      <3>1. r \in ProposalRecord /\ r.base_commit = rec[i].base_commit
        BY <2>0, <2>11 DEF Approved, ProposalRecord, Status
      <3>2. CASE Conclude(i, r) /\ UNCHANGED <<seen, final>>
        BY <2>0, <2>11, <3>1, <3>2, StepFacts, ConcludeShape DEF Approved, git
      <3> QED
        BY <2>11, <3>2, LeaveShape DEF Approved
    <2>12. CASE ListWorktrees(i)
      <3>1. /\ pc[i] # "idle" /\ op[i] = "apply"
            /\ seen' \in [Callers -> Commit \cup {None}]
            /\ \E step \in {"is_clean", "verify_head"} : Goto(i, step)
        BY <2>0, <2>12, StepFacts DEF ListWorktrees
      <3> QED
        BY <2>0, <2>12, <3>1, GotoShape DEF ListWorktrees, git, MethodSteps, Steps
    <2>13. CASE CheckCheckout(i)
      <3>1. CASE Goto(i, "verify_head") /\ UNCHANGED <<rec, seen, final>>
        BY <2>0, <2>13, <3>1, StepFacts, GotoShape DEF CheckCheckout, git, MethodSteps, Steps
      <3> QED
        BY <2>13, <3>1, LeaveShape DEF CheckCheckout
    <2>14. CASE Revalidate(i)
      <3>1. CASE Goto(i, "write_audit") /\ UNCHANGED <<rec, seen, final>>
        BY <2>0, <2>14, <3>1, StepFacts, GotoShape DEF Revalidate, git, MethodSteps, Steps
      <3> QED
        BY <2>14, <3>1, LeaveShape DEF Revalidate
    <2>15. CASE WriteAudit(i)
      <3>1. worktree' \in [Proposals -> Worktree] /\ WorktreesOK'
        <4> DEFINE w == IF worktree[id[i]].dir = "linked"
                        THEN [worktree[id[i]] EXCEPT !.dirty = Here(i).dirty \cup {"audit"}]
                        ELSE [worktree[id[i]] EXCEPT !.dir = "orphan"]
        <4>1. /\ w \in Worktree
              /\ w.dir = "linked" => w.head # None
              /\ w.dirty # {} => w.dir = "linked"
          BY <2>0, <2>15 DEF WriteAudit, Here, Worktree, Shape, WorktreesOK
        <4>2. worktree' = [worktree EXCEPT ![id[i]] = w]
          BY <2>15 DEF WriteAudit
        <4> HIDE DEF w
        <4> QED
          BY <2>0, <2>15, <4>1, <4>2, WorktreeUpdate DEF WriteAudit
      <3> QED
        BY <2>0, <2>15, <3>1, StepFacts, AdvanceShape DEF WriteAudit, git, MethodSteps, Steps
    <2>16. CASE CommitAudit(i)
      <3>1. PICK commit \in Commit :
              /\ worktree' = [worktree EXCEPT ![id[i]] =
                    [@ EXCEPT !.head = commit, !.dirty = Here(i).dirty \ {"audit"}]]
              /\ \/ /\ final' = [final EXCEPT ![i] = commit]
                    /\ Goto(i, "update_ref")
                    /\ UNCHANGED <<rec, seen>>
                 \/ Leave(i)
        BY <2>0, <2>16, CommitFacts DEF CommitAudit, AddsOnlyAudit
      <3>2. worktree' \in [Proposals -> Worktree] /\ WorktreesOK'
        <4> DEFINE w == [worktree[id[i]] EXCEPT !.head = commit, !.dirty = Here(i).dirty \ {"audit"}]
        <4>1. w \in Worktree /\ w.head # None /\ w.dir = "linked"
          BY <2>0, <2>16 DEF CommitAudit, AddsOnlyAudit, Here, Worktree
        <4>2. worktree' = [worktree EXCEPT ![id[i]] = w]
          BY <3>1
        <4> HIDE DEF w
        <4> QED
          BY <2>0, <2>16, <4>1, <4>2, WorktreeUpdate DEF CommitAudit, AddsOnlyAudit
      <3>3. CASE Leave(i)
        BY <2>16, <3>2, <3>3 DEF CommitAudit, AddsOnlyAudit, Leave, Release, git, Shape, TypeOK, CallsOK, Steps
      <3>4. CASE Goto(i, "update_ref") /\ final' = [final EXCEPT ![i] = commit] /\ UNCHANGED <<rec, seen>>
        <4>1. /\ pc[i] = "commit_audit" /\ op[i] = "apply"
              /\ "update_ref" \in Steps /\ "update_ref" \in MethodSteps(op[i])
              /\ UNCHANGED <<record, rec, seen, target, side, checkout, approvals>>
          BY <2>16, <3>4, StepFacts DEF CommitAudit, git, MethodSteps, Steps
        <4>2. /\ final' \in [Callers -> Commit \cup {None}] /\ final'[i] = commit
              /\ commit # None
              /\ \A j \in Callers : j # i => final'[j] = final[j]
          BY <2>0, <3>4, NoneIsNoValue
        <4> QED
          BY <2>0, <3>2, <3>4, <4>1, <4>2, AdvanceShape
      <3> QED
        BY <3>1, <3>3, <3>4
    <2>17. CASE AuditVanished(i)
      BY <2>17, LeaveShape DEF AuditVanished
    <2>18. pc[i] \in {"update_ref", "reset_hard"} =>
             /\ AppliedRecord(i) \in ProposalRecord /\ AppliedRecord(i).base_commit = rec[i].base_commit
             /\ StaleRecord(i) \in ProposalRecord /\ StaleRecord(i).base_commit = rec[i].base_commit
      BY <2>0 DEF AppliedRecord, StaleRecord, ProposalRecord, Status
    <2>19. CASE UpdateRef(i)
      <3>1. CASE Goto(i, "reset_hard") /\ UNCHANGED rec
        BY <2>0, <2>19, <3>1, StepFacts, GotoShape DEF UpdateRef, AtBase, MethodSteps, Steps, disk
      <3>2. CASE Conclude(i, AppliedRecord(i))
        BY <2>0, <2>18, <2>19, <3>2, StepFacts, ConcludeShape DEF UpdateRef, AtBase
      <3> QED
        BY <2>19, <3>1, <3>2 DEF UpdateRef, AtBase
    <2>20. CASE UpdateRefFails(i)
      BY <2>0, <2>18, <2>20, StepFacts, ConcludeShape DEF UpdateRefFails, AtBase
    <2>21. CASE ResetHard(i)
      <3>1. /\ pc[i] = "reset_hard" /\ op[i] = "apply" /\ "save" \in MethodSteps(op[i])
            /\ Conclude(i, AppliedRecord(i)) /\ UNCHANGED <<disk, seen, final, approvals>>
        BY <2>21, StepFacts DEF ResetHard
      <3>2. target' \in Commit /\ side' \in Commit
        BY <2>0, <2>21 DEF ResetHard, Shape, TypeOK
      <3>3. checkout' \in Checkout
        BY <2>0, <2>21 DEF ResetHard, Shape, TypeOK, Checkout
      <3> QED
        BY <2>18, <3>1, <3>2, <3>3, ConcludeGitShape
    <2>22. CASE RemoveWorktree(i)
      <3>1. worktree' \in [Proposals -> Worktree] /\ WorktreesOK'
        <4>1. NoWorktree \in Worktree /\ NoWorktree.dir = "none" /\ NoWorktree.dirty = {}
          BY DEF NoWorktree, Worktree
        <4>2. CASE worktree' = [worktree EXCEPT ![id[i]] = NoWorktree]
          BY <2>0, <2>22, <4>1, <4>2, WorktreeUpdate DEF RemoveWorktree
        <4> QED
          BY <2>22, <4>2 DEF RemoveWorktree, Shape, TypeOK, WorktreesOK
      <3> QED
        BY <2>22, <3>1 DEF RemoveWorktree, Leave, Release, git, Shape, TypeOK, CallsOK, Steps
    <2> QED
      BY <1>2, <1>4, <2>1, <2>2, <2>3, <2>5, <2>6, <2>7, <2>8, <2>9, <2>10, <2>11, <2>12, <2>13,
         <2>14, <2>15, <2>16, <2>17, <2>19, <2>20, <2>21, <2>22 DEF Proceed
  <1>5. ASSUME NEW i \in Callers, Abort(i) PROVE Shape'
    BY <1>5, LeaveShape DEF Abort
  <1>6. CASE Operator
    <2>1. /\ target' \in Commit
          /\ checkout' \in Checkout
          /\ UNCHANGED <<disk, side, lock, call, approvals>>
      <3>1. /\ Append(target, Edit) \in Commit
            /\ target \in Commit /\ side \in Commit /\ checkout \in Checkout
        BY DEF Shape, TypeOK, Commit, Edit, Change, Kinds
      <3>2. CASE OperatorCommits
        BY <3>1, <3>2 DEF OperatorCommits, Checkout
      <3>3. CASE OperatorEdits
        BY <3>1, <3>3 DEF OperatorEdits, Checkout
      <3>4. CASE OperatorDiscards
        BY <3>1, <3>4 DEF OperatorDiscards, CheckoutTip, Checkout
      <3>5. CASE OperatorSwitches
        BY <3>1, <3>5 DEF OperatorSwitches, Checkout
      <3> QED
        BY <1>6, <3>2, <3>3, <3>4, <3>5 DEF Operator
    <2> QED
      BY <2>1 DEF disk, call, Shape, TypeOK, WorktreesOK, CallsOK
  <1>7. ASSUME NEW p \in Proposals, Foreigner(p) PROVE Shape'
    <2>1. worktree' \in [Proposals -> Worktree] /\ WorktreesOK' /\ UNCHANGED <<record, git, lock, call, approvals>>
      <3>1. CASE ForeignEdit(p)
        BY <3>1 DEF ForeignEdit, Shape, TypeOK, WorktreesOK, Worktree
      <3>2. CASE ForeignCommit(p)
        <4>1. worktree[p].head \in Commit /\ Append(worktree[p].head, Foreign(p)) \in Commit
          BY <3>2, CommitFacts DEF ForeignCommit, Shape, TypeOK, WorktreesOK, Worktree
        <4> QED
          <5> DEFINE w == [worktree[p] EXCEPT !.head = Append(worktree[p].head, Foreign(p)),
                                              !.dirty = worktree[p].dirty \ {"edit"}]
          <5>0. worktree[p] \in Worktree /\ worktree[p].dir = "linked"
            BY <3>2 DEF ForeignCommit, Shape, TypeOK, WorktreesOK
          <5>1. w \in Worktree /\ w.head # None /\ w.dir = "linked"
            BY <4>1, <5>0 DEF Worktree
          <5>2. worktree' = [worktree EXCEPT ![p] = w]
            BY <3>2 DEF ForeignCommit
          <5> HIDE DEF w
          <5> QED
            BY <3>2, <5>1, <5>2, WorktreeUpdate DEF ForeignCommit
      <3>3. CASE WorktreeRestored(p)
        <4>1. record[p].proposal_commit \in Commit
          BY <3>3 DEF WorktreeRestored, Shape, TypeOK, ProposalRecord
        <4> DEFINE w == [worktree[p] EXCEPT !.head = record[p].proposal_commit, !.dirty = {}]
        <4>2. worktree[p] \in Worktree /\ worktree[p].dir = "linked"
          BY <3>3 DEF WorktreeRestored, Shape, TypeOK
        <4>3. w \in Worktree /\ w.head # None /\ w.dirty = {}
          BY <4>1, <4>2 DEF Worktree
        <4>4. worktree' = [worktree EXCEPT ![p] = w]
          BY <3>3 DEF WorktreeRestored
        <4>5. UNCHANGED <<record, git, lock, call, approvals>>
          BY <3>3 DEF WorktreeRestored
        <4> HIDE DEF w
        <4> QED
          BY <4>3, <4>4, <4>5, WorktreeUpdate
      <3> QED
        BY <1>7, <3>1, <3>2, <3>3 DEF Foreigner
    <2> QED
      BY <2>1 DEF git, call, Shape, TypeOK, CallsOK
  <1>8. CASE UNCHANGED vars
    BY <1>8 DEF vars, disk, git, call, Shape, TypeOK, WorktreesOK, CallsOK, Exists
  <1> QED
    BY <1>1, <1>3, <1>4, <1>5, <1>6, <1>7, <1>8 DEF Next

\* Every variable has its type in every reachable state.
THEOREM TypeCorrect == Spec => []TypeOK
  <1>1. Shape => TypeOK
    BY DEF Shape
  <1> QED
    BY InitShape, ShapeStep, <1>1, PTL DEF Spec

-----------------------------------------------------------------------------
(* The lock *)

\* The lock is held exactly from the first to the last step of materialize and
\* apply.
LEMMA LockStep == Shape /\ LockOK /\ [Next]_vars => LockOK'
  <1> SUFFICES ASSUME Shape, LockOK, [Next]_vars PROVE LockOK'
    OBVIOUS
  <1> USE NoneIsNoValue DEF LockOK, Methods
  <1>0. lock \in Callers \cup {None} /\ op \in [Callers -> Methods \cup {None}]
    BY DEF Shape, TypeOK
  <1>1. ASSUME NEW i \in Callers, Leave(i) PROVE LockOK'
    BY <1>0, <1>1 DEF Leave, Release
  <1>2. ASSUME NEW i \in Callers, NEW step, Goto(i, step) PROVE LockOK'
    BY <1>0, <1>2 DEF Goto
  <1>3. ASSUME NEW i \in Callers, NEW r, Conclude(i, r) PROVE LockOK'
    BY <1>2, <1>3 DEF Conclude
  <1>4. ASSUME NEW i \in Callers, NEW p \in Proposals, Begin(i, p) PROVE LockOK'
    <2>1. pc[i] = "idle" /\ op[i] = None
      BY <1>4 DEF Begin, BeginMaterialize, BeginValidate, BeginApprove, BeginReject, BeginApply,
         BeginCleanup, Enter, Shape, CallsOK
    <2> QED
      BY <1>0, <1>4, <2>1 DEF Begin, BeginMaterialize, BeginValidate, BeginApprove, BeginReject,
         BeginApply, BeginCleanup, Enter
  <1>5. ASSUME NEW i \in Callers, Proceed(i) PROVE LockOK'
    <2>1. \/ Leave(i)
          \/ \E step \in Steps : Goto(i, step)
      BY <1>5, Zenon DEF Proceed, WorktreeAdd, CommitAll, MaterializeFails, VerifyHead, VerifyClean, VerifyFails,
         WorktreeMissing, Validated, ValidationFails, Approved, ListWorktrees, CheckCheckout, Revalidate,
         WriteAudit, CommitAudit, AuditVanished, UpdateRef, UpdateRefFails, ResetHard, RemoveWorktree,
         Save, Invalidate, Conclude, Steps
    <2> QED
      BY <1>1, <1>2, <2>1
  <1>6. CASE UNCHANGED <<lock, op>>
    BY <1>6
  <1> QED
    BY <1>1, <1>4, <1>5, <1>6 DEF Next, CreateDraft, Abort, Operator, OperatorCommits, OperatorEdits,
       OperatorDiscards, OperatorSwitches, Foreigner, ForeignEdit, ForeignCommit, WorktreeRestored, vars, call

-----------------------------------------------------------------------------
(* Ancestry *)

\* A prefix agrees with the whole wherever it is defined.
LEMMA PrefixElements ==
    ASSUME NEW s \in Commit, NEW t \in Commit
    PROVE  IsPrefix(s, t) <=> Len(s) <= Len(t) /\ \A k \in 1..Len(s) : s[k] = t[k]
  <1>1. Len(s) \in Nat /\ Len(t) \in Nat
    BY DEF Commit
  <1>2. SubSeq(s, 1, Len(s)) = s
    BY DEF Commit
  <1>3. ASSUME Len(s) <= Len(t)
        PROVE  /\ SubSeq(t, 1, Len(s)) \in Seq(Change)
               /\ Len(SubSeq(t, 1, Len(s))) = Len(s)
               /\ \A k \in 1..Len(s) : SubSeq(t, 1, Len(s))[k] = t[k]
    BY <1>1, <1>3 DEF Commit
  <1>4. ASSUME Len(s) <= Len(t), \A k \in 1..Len(s) : s[k] = t[k]
        PROVE  s = SubSeq(t, 1, Len(s))
    BY <1>1, <1>3, <1>4, SeqEqual DEF Commit
  <1> QED
    BY <1>1, <1>2, <1>3, <1>4 DEF IsPrefix

\* Being an ancestor is reflexive and transitive, and the ancestors of one
\* commit are ordered by their length.
LEMMA PrefixOrder ==
    ASSUME NEW r \in Commit, NEW s \in Commit, NEW t \in Commit
    PROVE  /\ IsPrefix(s, s)
           /\ IsPrefix(r, s) /\ IsPrefix(s, t) => IsPrefix(r, t)
           /\ IsPrefix(r, t) /\ IsPrefix(s, t) /\ Len(r) <= Len(s) => IsPrefix(r, s)
  <1>1. Len(r) \in Nat /\ Len(s) \in Nat /\ Len(t) \in Nat
    BY DEF Commit
  <1>2. IsPrefix(s, s)
    BY <1>1, PrefixElements
  <1>3. ASSUME IsPrefix(r, s), IsPrefix(s, t) PROVE IsPrefix(r, t)
    <2>1. /\ Len(r) <= Len(s) /\ \A k \in 1..Len(r) : r[k] = s[k]
          /\ Len(s) <= Len(t) /\ \A k \in 1..Len(s) : s[k] = t[k]
      BY <1>3, PrefixElements
    <2>2. Len(r) <= Len(t) /\ \A k \in 1..Len(r) : r[k] = t[k]
      BY <1>1, <2>1
    <2> QED
      BY <2>2, PrefixElements
  <1>4. ASSUME IsPrefix(r, t), IsPrefix(s, t), Len(r) <= Len(s) PROVE IsPrefix(r, s)
    <2>1. /\ \A k \in 1..Len(r) : r[k] = t[k]
          /\ \A k \in 1..Len(s) : s[k] = t[k]
      BY <1>4, PrefixElements
    <2>2. \A k \in 1..Len(r) : r[k] = s[k]
      BY <1>1, <1>4, <2>1
    <2> QED
      BY <1>4, <2>2, PrefixElements
  <1> QED
    BY <1>2, <1>3, <1>4

\* The parent is an ancestor.
LEMMA PrefixAppend ==
    ASSUME NEW s \in Commit, NEW c \in Change
    PROVE  Append(s, c) \in Commit /\ IsPrefix(s, Append(s, c))
  <1> DEFINE t == Append(s, c)
  <1>1. /\ t \in Commit
        /\ Len(s) \in Nat
        /\ Len(t) = Len(s) + 1
        /\ \A k \in 1..Len(s) : s[k] = t[k]
    BY DEF Commit
  <1> HIDE DEF t
  <1>2. IsPrefix(s, t)
    BY <1>1, PrefixElements
  <1> QED
    BY <1>1, <1>2 DEF t

\* A landing adds the declared change and the audit record to its base.
LEMMA LandingFacts ==
    ASSUME NEW b \in Commit, NEW p \in Proposals
    PROVE  /\ Landing(b, p) \in Commit
           /\ IsPrefix(b, Landing(b, p))
           /\ Len(b) \in Nat
           /\ Len(Landing(b, p)) = Len(b) + 2
           /\ \A k \in 1..Len(b) : Landing(b, p)[k] = b[k]
           /\ Landing(b, p)[Len(b) + 1] = Declared(p)
           /\ Landing(b, p)[Len(b) + 2] = Audit(p)
  <1>1. Declared(p) \in Change /\ Audit(p) \in Change
    BY DEF Change, Kinds, Declared, Audit
  <1>2. /\ Append(b, Declared(p)) \in Commit
        /\ IsPrefix(b, Append(b, Declared(p)))
        /\ IsPrefix(Append(b, Declared(p)), Landing(b, p))
        /\ Landing(b, p) \in Commit
    BY <1>1, PrefixAppend DEF Landing
  <1>3. IsPrefix(b, Landing(b, p))
    BY <1>2, PrefixOrder
  <1> QED
    BY <1>1, <1>2, <1>3 DEF Landing, Commit

-----------------------------------------------------------------------------
(* Safety *)

\* The rest of the invariant.
Safety == RecordsOK /\ CallersOK /\ OnlyApprovedLands /\ AppliedIsInHistory

\* What is on the branch and no edit belongs to a proposal that has a record.
LEMMA LandedFacts ==
    ASSUME Shape, Safety, NEW k \in DOMAIN target, target[k] # Edit
    PROVE  /\ target[k].of \in Proposals
           /\ record[target[k].of] \in ProposalRecord
           /\ record[target[k].of].base_commit \in Commit
  BY DEF Shape, Safety, OnlyApprovedLands, OnlyApprovedIn, TypeOK, Exists, ProposalRecord

\* A step that touches neither the records nor the branch nor the approvals can
\* only break what its own caller knows.
LEMMA QuietStep ==
    ASSUME Shape, Safety, NEW i \in Callers, UNCHANGED <<record, target, approvals>>,
           \A j \in Callers \ {i} : /\ pc'[j] = pc[j] /\ op'[j] = op[j] /\ id'[j] = id[j]
                                    /\ rec'[j] = rec[j] /\ final'[j] = final[j],
           CallerOK(i)'
    PROVE  Safety'
  <1>1. ASSUME NEW j \in Callers \ {i} PROVE CallerOK(j)'
    BY <1>1 DEF Safety, CallersOK, CallerOK, Exists
  <1>2. CallersOK'
    BY <1>1 DEF CallersOK
  <1>3. RecordsOK' /\ OnlyApprovedLands' /\ AppliedIsInHistory'
    BY DEF Safety, RecordsOK, OnlyApprovedLands, OnlyApprovedIn, AppliedIsInHistory, Exists
  <1> QED
    BY <1>2, <1>3 DEF Safety

\* A call that ends without a save takes nothing with it.
LEMMA LeaveSafe ==
    ASSUME Shape, Safety, NEW i \in Callers, Leave(i), UNCHANGED <<record, target, approvals>>
    PROVE  Safety'
  <1>1. pc'[i] = "idle" /\ op'[i] = None
    BY DEF Leave, Shape, TypeOK
  <1>2. CallerOK(i)'
    BY <1>1, NoneIsNoValue DEF CallerOK, Methods
  <1> QED
    BY <1>2, QuietStep DEF Leave, Shape, TypeOK

\* A call that goes on to save must have a sound record in its hands.
LEMMA ConcludeSafe ==
    ASSUME Shape, Safety, NEW i \in Callers, NEW r, Conclude(i, r), r.status # "applied",
           Sound(id[i], r), UNCHANGED <<record, target, final, approvals>>
    PROVE  Safety'
  <1>1. pc'[i] = "save" /\ op'[i] = op[i] /\ id'[i] = id[i] /\ rec'[i] = r
    BY DEF Conclude, Goto, Shape, TypeOK
  <1>2. CallerOK(i)'
    BY <1>1 DEF CallerOK
  <1> QED
    BY <1>2, QuietStep DEF Conclude, Goto, Shape, TypeOK

\* A step to one of the steps at which nothing new need be known.
LEMMA GotoSafe ==
    ASSUME Shape, Safety, NEW i \in Callers, pc[i] \notin {"idle", "save"}, NEW step, Goto(i, step),
           step \notin {"idle", "save", "digest", "update_ref", "reset_hard"},
           UNCHANGED <<record, target, rec, final, approvals>>
    PROVE  Safety'
  <1>1. pc'[i] = step
    BY DEF Goto, Shape, TypeOK
  <1>2. CallerOK(i)'
    BY <1>1 DEF CallerOK, Goto, Safety, CallersOK
  <1> QED
    BY <1>2, QuietStep DEF Goto, Shape, TypeOK

\* Two callers are never both in an apply.
LEMMA OneApply ==
    ASSUME Shape, LockOK, NEW i \in Callers, NEW j \in Callers, op[i] = "apply", op[j] = "apply"
    PROVE  i = j
  BY DEF LockOK

\* The landing of an approved proposal on its base, which is the tip.
LEMMA LandKeeps ==
    ASSUME Shape, Safety, NEW p \in Proposals, Exists(p), p \in approvals,
           target = record[p].base_commit, target' = Landing(target, p),
           UNCHANGED <<record, approvals>>
    PROVE  OnlyApprovedLands' /\ AppliedIsInHistory'
  <1>1. /\ target \in Commit /\ target' \in Commit
        /\ IsPrefix(target, target')
        /\ Len(target) \in Nat /\ DOMAIN target = 1..Len(target) /\ DOMAIN target' = 1..(Len(target) + 2)
        /\ \A k \in DOMAIN target : target'[k] = target[k]
        /\ target'[Len(target) + 1] = Declared(p)
        /\ target'[Len(target) + 2] = Audit(p)
    <2>1. target \in Commit
      BY DEF Shape, TypeOK
    <2>2. /\ target' \in Commit
          /\ IsPrefix(target, target')
          /\ Len(target) \in Nat
          /\ Len(target') = Len(target) + 2
          /\ \A k \in 1..Len(target) : target'[k] = target[k]
          /\ target'[Len(target) + 1] = Declared(p)
          /\ target'[Len(target) + 2] = Audit(p)
      BY <2>1, LandingFacts
    <2>3. DOMAIN target = 1..Len(target) /\ DOMAIN target' = 1..Len(target')
      BY <2>1, <2>2 DEF Commit
    <2> QED
      BY <2>1, <2>2, <2>3
  <1>2. ASSUME NEW q \in Proposals, Exists(q), IsPrefix(Landing(record[q].base_commit, q), target)
        PROVE  IsPrefix(Landing(record[q].base_commit, q), target')
    <2>1. record[q].base_commit \in Commit
      BY <1>2 DEF Exists, Shape, TypeOK, ProposalRecord
    <2>2. Landing(record[q].base_commit, q) \in Commit
      BY <2>1, LandingFacts
    <2> QED
      BY <1>1, <1>2, <2>2, PrefixOrder
  <1>3. ASSUME NEW k \in DOMAIN target', target'[k] # Edit
        PROVE  LET q == target'[k].of
               IN  /\ q \in approvals
                   /\ Exists(q)
                   /\ IsPrefix(Landing(record[q].base_commit, q), target')
                   /\ k \in {Len(record[q].base_commit) + 1, Len(record[q].base_commit) + 2}
    <2>1. CASE k \in DOMAIN target
      BY <1>1, <1>2, <1>3, <2>1, LandedFacts DEF Safety, OnlyApprovedLands, OnlyApprovedIn
    <2>2. CASE k \in {Len(target) + 1, Len(target) + 2}
      <3>1. target'[k].of = p
        BY <1>1, <2>2 DEF Declared, Audit
      <3>2. IsPrefix(Landing(record[p].base_commit, p), target')
        BY <1>1, PrefixOrder
      <3> QED
        BY <2>2, <3>1, <3>2
    <2> QED
      BY <1>1, <1>3, <2>1, <2>2
  <1>4. OnlyApprovedLands'
    BY <1>3 DEF OnlyApprovedLands, OnlyApprovedIn, Exists
  <1>5. AppliedIsInHistory'
    BY <1>2 DEF Safety, AppliedIsInHistory, Exists
  <1> QED
    BY <1>4, <1>5

\* A commit of the operator on top of the tip.
LEMMA GrowKeeps ==
    ASSUME Shape, Safety, target' = Append(target, Edit),
           UNCHANGED <<record, approvals, pc, op, id, rec, final>>
    PROVE  Safety'
  <1>1. /\ target \in Commit /\ target' \in Commit
        /\ IsPrefix(target, target')
        /\ Len(target) \in Nat /\ DOMAIN target = 1..Len(target) /\ DOMAIN target' = 1..(Len(target) + 1)
        /\ \A k \in DOMAIN target : target'[k] = target[k]
        /\ target'[Len(target) + 1] = Edit
    <2>1. target \in Commit /\ Edit \in Change
      BY DEF Shape, TypeOK, Edit, Change, Kinds
    <2> QED
      BY <2>1, PrefixAppend DEF Commit
  <1>2. ASSUME NEW c \in Commit, IsPrefix(c, target) PROVE IsPrefix(c, target')
    BY <1>1, <1>2, PrefixOrder
  <1>3. ASSUME NEW q \in Proposals, Exists(q) PROVE Landing(record[q].base_commit, q) \in Commit
    BY <1>3, LandingFacts DEF Exists, Shape, TypeOK, ProposalRecord
  <1>4. OnlyApprovedLands'
    <2> SUFFICES ASSUME NEW k \in DOMAIN target, target[k] # Edit
                 PROVE  LET q == target[k].of
                        IN  /\ q \in approvals
                            /\ Exists(q)
                            /\ IsPrefix(Landing(record[q].base_commit, q), target')
                            /\ k \in {Len(record[q].base_commit) + 1, Len(record[q].base_commit) + 2}
      BY <1>1 DEF OnlyApprovedLands, OnlyApprovedIn, Exists
    <2> QED
      BY <1>2, <1>3, LandedFacts DEF Safety, OnlyApprovedLands, OnlyApprovedIn
  <1>5. AppliedIsInHistory'
    BY <1>2, <1>3 DEF Safety, AppliedIsInHistory, Exists
  <1>6. ASSUME NEW i \in Callers PROVE CallerOK(i)'
    <2>1. CASE pc[i] = "save" /\ rec[i].status = "applied"
      <3>1. /\ id[i] \in Proposals /\ Exists(id[i])
            /\ rec[i].applied_commit = Landing(record[id[i]].base_commit, id[i])
        BY <2>1 DEF Safety, CallersOK, CallerOK, Sound, Shape, CallsOK, Exists
      <3>2. IsPrefix(rec[i].applied_commit, target')
        BY <1>2, <1>3, <2>1, <3>1 DEF Safety, CallersOK, CallerOK
      <3> QED
        BY <2>1, <3>2 DEF Safety, CallersOK, CallerOK
    <2>2. CASE pc[i] = "reset_hard"
      <3>1. final[i] \in Commit
        BY <2>2 DEF Shape, TypeOK, CallsOK
      <3>2. IsPrefix(final[i], target')
        BY <1>2, <2>2, <3>1 DEF Safety, CallersOK, CallerOK
      <3>3. \A k \in (Len(final[i]) + 1)..Len(target') : target'[k] = Edit
        <4>1. /\ \A k \in (Len(final[i]) + 1)..Len(target) : target[k] = Edit
              /\ Len(final[i]) \in Nat /\ Len(target') = Len(target) + 1
          BY <1>1, <2>2, <3>1 DEF Safety, CallersOK, CallerOK, Commit
        <4> QED
          BY <1>1, <4>1
      <3> QED
        BY <2>2, <3>2, <3>3 DEF Safety, CallersOK, CallerOK, Exists
    <2>3. CASE pc[i] # "reset_hard" /\ ~(pc[i] = "save" /\ rec[i].status = "applied")
      BY <2>3 DEF Safety, CallersOK, CallerOK, Exists
    <2> QED
      BY <2>1, <2>2, <2>3
  <1> QED
    BY <1>4, <1>5, <1>6 DEF Safety, CallersOK, RecordsOK, Exists

\* Setting the branch back to a landing it contains.
LEMMA ResetKeeps ==
    ASSUME Shape, Safety, NEW p \in Proposals, Exists(p), p \in approvals,
           NEW c, c = Landing(record[p].base_commit, p), IsPrefix(c, target)
    PROVE  OnlyApprovedIn(c)
  <1>1. record[p].base_commit \in Commit
    BY DEF Exists, Shape, TypeOK, ProposalRecord
  <1>2. /\ c \in Commit /\ target \in Commit
        /\ Len(record[p].base_commit) \in Nat
        /\ Len(c) = Len(record[p].base_commit) + 2
        /\ c[Len(record[p].base_commit) + 2] = Audit(p)
        /\ IsPrefix(c, c)
    BY <1>1, LandingFacts, PrefixOrder DEF Shape, TypeOK
  <1>3. /\ DOMAIN c = 1..Len(c) /\ DOMAIN target = 1..Len(target)
        /\ Len(target) \in Nat
    BY <1>2 DEF Commit
  <1>4. Len(c) <= Len(target) /\ \A k \in 1..Len(c) : c[k] = target[k]
    BY <1>2, PrefixElements
  <1> SUFFICES ASSUME NEW k \in DOMAIN c, c[k] # Edit
               PROVE  LET q == c[k].of
                      IN  /\ q \in approvals
                          /\ Exists(q)
                          /\ IsPrefix(Landing(record[q].base_commit, q), c)
                          /\ k \in {Len(record[q].base_commit) + 1, Len(record[q].base_commit) + 2}
    BY DEF OnlyApprovedIn
  <1>5. k \in DOMAIN target /\ c[k] = target[k] /\ target[k] # Edit
    BY <1>2, <1>3, <1>4
  <1> DEFINE q == target[k].of
  <1>6. /\ q \in Proposals /\ record[q].base_commit \in Commit
        /\ q \in approvals /\ Exists(q)
        /\ IsPrefix(Landing(record[q].base_commit, q), target)
        /\ k \in {Len(record[q].base_commit) + 1, Len(record[q].base_commit) + 2}
    BY <1>5, LandedFacts DEF Safety, OnlyApprovedLands, OnlyApprovedIn
  <1>7. CASE k = Len(c)
    <2>1. q = p
      BY <1>2, <1>5, <1>7 DEF Audit
    <2> QED
      BY <1>2, <1>5, <1>6, <2>1
  <1>8. CASE k # Len(c)
    <2>1. /\ Landing(record[q].base_commit, q) \in Commit
          /\ Len(record[q].base_commit) \in Nat
          /\ Len(Landing(record[q].base_commit, q)) = Len(record[q].base_commit) + 2
      BY <1>6, LandingFacts
    <2>2. Len(Landing(record[q].base_commit, q)) <= Len(c)
      <3> DEFINE n == Len(record[q].base_commit)
                 m == Len(c)
      <3>1. n \in Nat /\ m \in Nat /\ k \in 1..m /\ k # m /\ k \in {n + 1, n + 2}
        BY <1>2, <1>3, <1>6, <1>8, <2>1
      <3> HIDE DEF n, m
      <3>2. n + 2 <= m
        BY <3>1
      <3> QED
        BY <2>1, <3>2 DEF n, m
    <2>3. IsPrefix(Landing(record[q].base_commit, q), c)
      <3> DEFINE L == Landing(record[q].base_commit, q)
      <3>1. L \in Commit /\ c \in Commit /\ target \in Commit
        BY <1>2, <2>1
      <3>2. IsPrefix(L, target) /\ IsPrefix(c, target) /\ Len(L) <= Len(c)
        BY <1>6, <2>2
      <3> HIDE DEF L
      <3>3. IsPrefix(L, c)
        BY <3>1, <3>2, PrefixOrder
      <3> QED
        BY <3>3 DEF L
    <2> QED
      BY <1>5, <1>6, <2>3
  <1> QED
    BY <1>7, <1>8

\* Nothing has happened yet.
LEMMA InitSafe == Init => Safety
  <1> SUFFICES ASSUME Init PROVE Safety
    OBVIOUS
  <1>1. RecordsOK /\ AppliedIsInHistory
    BY DEF Init, RecordsOK, AppliedIsInHistory, Exists
  <1>2. CallersOK
    BY NoneIsNoValue DEF Init, CallersOK, CallerOK, Methods
  <1>3. DOMAIN target = {}
    BY DEF Init
  <1>4. OnlyApprovedLands
    BY <1>3 DEF OnlyApprovedLands, OnlyApprovedIn
  <1> QED
    BY <1>1, <1>2, <1>4 DEF Safety

\* Every step keeps the rest of the invariant: a landing through LandKeeps, a
\* commit of the operator through GrowKeeps, the refresh through ResetKeeps, and
\* all others through QuietStep.
LEMMA SafetyStep == Shape /\ LockOK /\ Safety /\ [Next]_vars => Safety'
  <1> SUFFICES ASSUME Shape, LockOK, Safety, [Next]_vars PROVE Safety'
    OBVIOUS
  <1> USE NoneIsNoValue
  <1>1. ASSUME NEW p \in Proposals, CreateDraft(p) PROVE Safety'
    <2>1. /\ Draft(target) \in ProposalRecord /\ Draft(target) # None
          /\ Draft(target).status = "draft"
      <3>1. target \in Commit
        BY DEF Shape, TypeOK
      <3>2. Draft(target) \in ProposalRecord /\ Draft(target).status = "draft"
        BY <3>1 DEF Draft, ProposalRecord, Status
      <3> QED
        BY <3>2
    <2>2. /\ \A q \in Proposals : Exists(q) => record'[q] = record[q]
          /\ \A q \in Proposals : ~Exists(q) /\ Exists(q)' => record'[q] = Draft(target)
          /\ \A i \in Callers : pc[i] # "idle" => Exists(id[i])
      BY <1>1 DEF CreateDraft, Exists, Shape, TypeOK, CallsOK
    <2>3. UNCHANGED <<worktree, git, lock, call, approvals>>
      BY <1>1 DEF CreateDraft
    <2> HIDE DEF Draft
    <2>4. RecordsOK'
      BY <2>1, <2>2, <2>3 DEF Safety, RecordsOK, Sound
    <2>5. CallersOK'
      BY <2>1, <2>2, <2>3 DEF Safety, CallersOK, CallerOK, git, call
    <2>6. OnlyApprovedLands'
      BY <2>2, <2>3, LandedFacts DEF Safety, OnlyApprovedLands, OnlyApprovedIn, git, Exists
    <2>7. AppliedIsInHistory'
      BY <2>1, <2>2, <2>3 DEF Safety, AppliedIsInHistory, git
    <2> QED
      BY <2>4, <2>5, <2>6, <2>7 DEF Safety
  <1>2. ASSUME NEW i \in Callers, NEW p \in Proposals, Begin(i, p) PROVE Safety'
    <2>1. /\ UNCHANGED <<record, target, final, approvals>>
          /\ \A j \in Callers \ {i} : pc'[j] = pc[j] /\ op'[j] = op[j] /\ id'[j] = id[j] /\ rec'[j] = rec[j]
          /\ Exists(p)
          /\ id'[i] = p
      BY <1>2 DEF Begin, BeginMaterialize, BeginValidate, BeginApprove, BeginReject, BeginApply,
         BeginCleanup, Enter, Shape, TypeOK, Exists, disk, git
    <2>2. Sound(p, record[p]) /\ (record[p].status = "approved" => p \in approvals)
      BY <2>1 DEF Safety, RecordsOK
    <2>3. record[p] \in ProposalRecord
      BY <2>1 DEF Exists, Shape, TypeOK
    <2>4. \/ /\ rec'[i] = record[p]
             /\ op'[i] # "apply"
             /\ pc'[i] \in {"worktree_add", "verify_head", "remove"}
          \/ /\ rec'[i] = [record[p] EXCEPT !.status = "rejected"]
             /\ pc'[i] = "save"
          \/ /\ rec'[i] = record[p]
             /\ record[p].status = "approved"
             /\ pc'[i] = "list_worktrees"
          \/ /\ rec'[i] = [record[p] EXCEPT !.status = "stale"]
             /\ pc'[i] = "save"
      BY <1>2 DEF Begin, BeginMaterialize, BeginValidate, BeginApprove, BeginReject, BeginApply,
         BeginCleanup, Enter, Shape, TypeOK
    <2>5. /\ [record[p] EXCEPT !.status = "rejected"].status = "rejected"
          /\ [record[p] EXCEPT !.status = "stale"].status = "stale"
      BY <2>3 DEF ProposalRecord
    <2>6. CallerOK(i)'
      BY <2>1, <2>2, <2>4, <2>5 DEF CallerOK, Sound
    <2> QED
      BY <2>1, <2>6, QuietStep
  <1>3. ASSUME NEW i \in Callers, Proceed(i) PROVE Safety'
    <2>1. CallerOK(i)
      BY DEF Safety, CallersOK
    <2>2. /\ target \in Commit
          /\ pc[i] # "idle" =>
               /\ id[i] \in Proposals /\ rec[i] \in ProposalRecord /\ rec[i].base_commit \in Commit
               /\ Sound(id[i], rec[i])
               /\ Exists(id[i]) /\ rec[i].base_commit = record[id[i]].base_commit
      BY <2>1, CallFacts DEF Shape, TypeOK, CallsOK, CallerOK, Exists
    <2>3. ASSUME Leave(i), UNCHANGED <<disk, git, approvals>> PROVE Safety'
      BY <2>3, LeaveSafe DEF disk, git
    <2>4. CASE WorktreeAdd(i)
      BY <2>4, GotoSafe DEF WorktreeAdd, git
    <2>5. CASE CommitAll(i)
      <3>1. PICK commit :
              Conclude(i, [rec[i] EXCEPT !.status = "materialized", !.worktree = TRUE,
                                         !.proposal_commit = commit])
        BY <2>5 DEF CommitAll
      <3>2. [rec[i] EXCEPT !.status = "materialized", !.worktree = TRUE,
                           !.proposal_commit = commit].status = "materialized"
        BY <2>2, <2>5 DEF CommitAll, ProposalRecord
      <3> QED
        BY <2>5, <3>1, <3>2, ConcludeSafe DEF CommitAll, Sound, git
    <2>6. CASE MaterializeFails(i)
      <3>1. [rec[i] EXCEPT !.status = "failed", !.worktree = TRUE].status = "failed"
        BY <2>2, <2>6 DEF MaterializeFails, ProposalRecord
      <3> QED
        BY <2>6, <3>1, ConcludeSafe DEF MaterializeFails, Sound, disk, git
    <2>7. ASSUME Invalidate(i), pc[i] \in {"verify_head", "verify_clean"} PROVE Safety'
      <3>1. Invalidated(rec[i]).status = "materialized"
        BY <2>2, <2>7 DEF Invalidated, ProposalRecord
      <3> QED
        BY <2>7, <3>1, ConcludeSafe DEF Invalidate, Sound, disk, git
    <2>8. CASE VerifyHead(i)
      <3>1. CASE Goto(i, "verify_clean") /\ UNCHANGED <<disk, git, rec, seen, final, approvals>>
        BY <2>8, <3>1, GotoSafe DEF VerifyHead, disk, git
      <3> QED
        BY <2>7, <2>8, <3>1 DEF VerifyHead
    <2>9. CASE VerifyClean(i)
      <3>1. CASE Goto(i, "digest") /\ UNCHANGED <<rec, seen, final>>
        <4>1. pc'[i] = "digest"
          BY <3>1 DEF Goto, Shape, TypeOK
        <4>2. CallerOK(i)'
          BY <2>1, <2>9, <3>1, <4>1 DEF VerifyClean, VerifiedDeclared, Goto, CallerOK
        <4> QED
          BY <2>9, <3>1, <4>2, QuietStep DEF VerifyClean, Goto, Shape, TypeOK, disk, git
      <3> QED
        BY <2>3, <2>9, <3>1 DEF VerifyClean
    <2>10. CASE VerifyFails(i)
      BY <2>7, <2>10 DEF VerifyFails
    <2>11. CASE WorktreeMissing(i)
      BY <2>3, <2>11 DEF WorktreeMissing
    <2>12. CASE Validated(i)
      <3> DEFINE r == [rec[i] EXCEPT !.status = "validated", !.content_digest = ContentDigest(id[i]),
                                     !.validated_tree = rec[i].proposal_commit, !.approved_tree = None]
      <3>1. /\ r.status = "validated" /\ r.proposal_commit = rec[i].proposal_commit
            /\ r.base_commit = rec[i].base_commit /\ r.validated_tree = rec[i].proposal_commit
        BY <2>2, <2>12 DEF Validated, ProposalRecord
      <3>2. Conclude(i, r) /\ rec[i].proposal_commit = Append(rec[i].base_commit, Declared(id[i]))
        BY <2>1, <2>12 DEF Validated, CallerOK
      <3> HIDE DEF r
      <3>3. Sound(id[i], r)
        BY <3>1, <3>2 DEF Sound
      <3> QED
        BY <2>12, <3>1, <3>2, <3>3, ConcludeSafe DEF Validated, disk, git
    <2>13. CASE ValidationFails(i)
      BY <2>3, <2>13 DEF ValidationFails
    <2>14. CASE Approved(i)
      <3> DEFINE r == [rec[i] EXCEPT !.status = "approved", !.approved_tree = rec[i].proposal_commit]
      <3>1. /\ r.status = "approved" /\ r.proposal_commit = rec[i].proposal_commit
            /\ r.base_commit = rec[i].base_commit /\ r.validated_tree = rec[i].validated_tree
            /\ r.approved_tree = rec[i].proposal_commit
        BY <2>2, <2>14 DEF Approved, ProposalRecord
      <3>2. CASE Conclude(i, r) /\ UNCHANGED <<seen, final>> /\ rec[i].proposal_commit = rec[i].validated_tree
        <4>1. Sound(id[i], r)
          BY <2>14, <3>1, <3>2 DEF Approved, VerifiedDeclared, Sound
        <4> HIDE DEF r
        <4> QED
          BY <2>14, <3>1, <3>2, <4>1, ConcludeSafe DEF Approved, disk, git
      <3> QED
        BY <2>3, <2>14, <3>2 DEF Approved
    <2>15. CASE ListWorktrees(i)
      BY <2>15, GotoSafe DEF ListWorktrees, disk, git
    <2>16. CASE CheckCheckout(i)
      BY <2>3, <2>16, GotoSafe DEF CheckCheckout, disk, git
    <2>17. CASE Revalidate(i)
      BY <2>3, <2>17, GotoSafe DEF Revalidate, disk, git
    <2>18. CASE WriteAudit(i)
      BY <2>18, GotoSafe DEF WriteAudit, git
    <2>19. CASE CommitAudit(i)
      <3>1. CASE Leave(i)
        BY <2>19, <3>1, LeaveSafe DEF CommitAudit, AddsOnlyAudit, git
      <3>2. CASE /\ Goto(i, "update_ref") /\ UNCHANGED rec
                 /\ final' = [final EXCEPT ![i] = Append(rec[i].proposal_commit, Audit(id[i]))]
        <4>1. pc[i] = "commit_audit" /\ op[i] = "apply"
          BY <2>19, StepFacts DEF CommitAudit, AddsOnlyAudit
        <4>2. rec[i].status = "approved" /\ rec[i].proposal_commit = Append(rec[i].base_commit, Declared(id[i]))
          BY <2>1, <2>2, <4>1 DEF CallerOK, Sound
        <4>3. pc'[i] = "update_ref" /\ final'[i] = Landing(rec[i].base_commit, id[i])
          BY <3>2, <4>2 DEF Goto, Landing, Shape, TypeOK
        <4>4. CallerOK(i)'
          BY <2>1, <2>2, <2>19, <3>2, <4>1, <4>3 DEF CallerOK, CommitAudit, AddsOnlyAudit, Goto
        <4> QED
          BY <2>19, <3>2, <4>4, QuietStep DEF CommitAudit, AddsOnlyAudit, Goto, Shape, TypeOK, git
      <3> QED
        BY <2>19, <3>1, <3>2 DEF CommitAudit, AddsOnlyAudit
    <2>20. CASE AuditVanished(i)
      BY <2>3, <2>20 DEF AuditVanished
    <2>21. ASSUME pc[i] \in {"update_ref", "reset_hard"}
           PROVE  /\ op[i] = "apply" /\ rec[i].status = "approved" /\ id[i] \in approvals
                  /\ final[i] = Landing(rec[i].base_commit, id[i])
                  /\ final[i] \in Commit
                  /\ AppliedRecord(i).status = "applied"
                  /\ AppliedRecord(i).applied_commit = final[i]
                  /\ Sound(id[i], AppliedRecord(i))
                  /\ StaleRecord(i).status = "stale"
                  /\ Sound(id[i], StaleRecord(i))
                  /\ \A j \in Callers \ {i} : op[j] # "apply" /\ pc[j] # "reset_hard"
      <3>1. /\ op[i] = "apply" /\ rec[i].status = "approved" /\ id[i] \in approvals
            /\ final[i] = Landing(rec[i].base_commit, id[i])
        BY <2>1, <2>21, StepFacts DEF CallerOK
      <3>2. final[i] \in Commit
        BY <2>2, <2>21, <3>1, LandingFacts
      <3>3. /\ AppliedRecord(i).status = "applied"
            /\ AppliedRecord(i).applied_commit = final[i]
            /\ Sound(id[i], AppliedRecord(i))
        BY <2>2, <2>21, <3>1 DEF AppliedRecord, Sound, ProposalRecord
      <3>4. StaleRecord(i).status = "stale" /\ Sound(id[i], StaleRecord(i))
        BY <2>2, <2>21 DEF StaleRecord, Sound, ProposalRecord
      <3>5. \A j \in Callers \ {i} : op[j] # "apply"
        BY <3>1, OneApply
      <3>6. \A j \in Callers \ {i} : pc[j] # "reset_hard"
        BY <3>5, StepFacts
      <3> QED
        BY <3>1, <3>2, <3>3, <3>4, <3>5, <3>6
    \* The branch moves to the landing of i's proposal and nobody else applies.
    <2>22. ASSUME pc[i] = "update_ref", target = rec[i].base_commit, target' = final[i],
                  UNCHANGED <<record, final, approvals>>,
                  \A j \in Callers \ {i} : /\ pc'[j] = pc[j] /\ op'[j] = op[j] /\ id'[j] = id[j]
                                           /\ rec'[j] = rec[j],
                  CallerOK(i)'
           PROVE  Safety'
      <3>1. OnlyApprovedLands' /\ AppliedIsInHistory'
        BY <2>2, <2>21, <2>22, LandKeeps
      <3>2. ASSUME NEW j \in Callers \ {i} PROVE CallerOK(j)'
        BY <2>21, <2>22, <3>2 DEF Safety, CallersOK, CallerOK, Exists
      <3>3. RecordsOK'
        BY <2>22 DEF Safety, RecordsOK, Exists
      <3> QED
        BY <2>22, <3>1, <3>2, <3>3 DEF Safety, CallersOK
    <2>23. CASE UpdateRef(i)
      <3>1. /\ pc[i] = "update_ref" /\ target = rec[i].base_commit /\ target' = final[i]
            /\ UNCHANGED <<record, final, approvals>>
        BY <2>23 DEF UpdateRef, AtBase, disk
      <3>2. IsPrefix(final[i], target') /\ target \in Commit /\ IsPrefix(target, final[i])
        BY <2>2, <2>21, <3>1, LandingFacts, PrefixOrder
      <3>3. CASE Goto(i, "reset_hard") /\ UNCHANGED rec
        <4>1. ASSUME NEW p \in Proposals, Exists(p), record[p].status = "applied"
              PROVE  IsPrefix(record[p].applied_commit, final[i])
          <5>1. IsPrefix(record[p].applied_commit, target) /\ record[p].applied_commit \in Commit
            <6>1. record[p].base_commit \in Commit
              BY <4>1 DEF Exists, Shape, TypeOK, ProposalRecord
            <6> QED
              BY <4>1, <6>1, LandingFacts DEF Safety, AppliedIsInHistory
          <5> QED
            BY <2>21, <3>1, <3>2, <5>1, PrefixOrder
        <4>2. pc'[i] = "reset_hard"
          BY <3>3 DEF Goto, Shape, TypeOK
        <4>3. \A k \in (Len(final[i]) + 1)..Len(target') : FALSE
          BY <2>21, <3>1 DEF Commit
        <4>4. CallerOK(i)'
          BY <2>2, <2>21, <3>1, <3>2, <3>3, <4>1, <4>2, <4>3 DEF CallerOK, Goto, Exists
        <4> QED
          BY <2>22, <3>1, <3>3, <4>4 DEF Goto, Shape, TypeOK
      <3>4. CASE Conclude(i, AppliedRecord(i))
        <4>1. pc'[i] = "save" /\ op'[i] = op[i] /\ id'[i] = id[i] /\ rec'[i] = AppliedRecord(i)
          BY <3>4 DEF Conclude, Goto, Shape, TypeOK
        <4>2. CallerOK(i)'
          BY <2>21, <3>1, <3>2, <4>1 DEF CallerOK
        <4> QED
          BY <2>22, <3>1, <3>4, <4>2 DEF Conclude, Goto, Shape, TypeOK
      <3> QED
        BY <2>23, <3>3, <3>4 DEF UpdateRef, AtBase
    <2>24. CASE UpdateRefFails(i)
      <3>1. /\ pc[i] = "update_ref" /\ Conclude(i, StaleRecord(i))
            /\ UNCHANGED <<record, final, approvals>>
            /\ \/ UNCHANGED target
               \/ target = rec[i].base_commit /\ target' = final[i]
        BY <2>24 DEF UpdateRefFails, AtBase, disk
      <3>2. CASE UNCHANGED target
        BY <2>21, <3>1, <3>2, ConcludeSafe
      <3>3. CASE target = rec[i].base_commit /\ target' = final[i]
        <4>1. pc'[i] = "save" /\ op'[i] = op[i] /\ id'[i] = id[i] /\ rec'[i] = StaleRecord(i)
          BY <3>1 DEF Conclude, Goto, Shape, TypeOK
        <4>2. CallerOK(i)'
          BY <2>21, <3>1, <4>1 DEF CallerOK
        <4> QED
          BY <2>22, <3>1, <3>3, <4>2 DEF Conclude, Goto, Shape, TypeOK
      <3> QED
        BY <3>1, <3>2, <3>3
    <2>25. CASE ResetHard(i)
      <3>1. /\ pc[i] = "reset_hard" /\ Conclude(i, AppliedRecord(i))
            /\ UNCHANGED <<record, final, approvals>>
            /\ target' = final[i] \/ UNCHANGED target
        BY <2>25 DEF ResetHard, disk
      <3>2. /\ IsPrefix(final[i], target)
            /\ \A p \in Proposals : Exists(p) /\ record[p].status = "applied" =>
                  IsPrefix(record[p].applied_commit, final[i])
        BY <2>1, <3>1 DEF CallerOK
      <3>3. IsPrefix(final[i], target') /\ target' \in Commit
        BY <2>2, <2>21, <3>1, <3>2, PrefixOrder
      <3>4. pc'[i] = "save" /\ op'[i] = op[i] /\ id'[i] = id[i] /\ rec'[i] = AppliedRecord(i)
        BY <3>1 DEF Conclude, Goto, Shape, TypeOK
      <3>5. ASSUME NEW j \in Callers PROVE CallerOK(j)'
        <4>1. CASE j = i
          BY <2>21, <3>1, <3>3, <3>4, <4>1 DEF CallerOK
        <4>2. CASE j # i
          <5>1. pc'[j] = pc[j] /\ op'[j] = op[j] /\ id'[j] = id[j] /\ rec'[j] = rec[j]
            BY <3>1, <4>2 DEF Conclude, Goto, Shape, TypeOK
          <5> QED
            BY <2>21, <3>1, <4>2, <5>1 DEF Safety, CallersOK, CallerOK, Exists
        <4> QED
          BY <4>1, <4>2
      <3>6. AppliedIsInHistory'
        BY <3>1, <3>2 DEF Safety, AppliedIsInHistory, Exists
      <3>7. OnlyApprovedLands'
        BY <2>2, <2>21, <3>1, <3>2, ResetKeeps DEF Safety, OnlyApprovedLands, OnlyApprovedIn, Exists
      <3> QED
        BY <3>1, <3>5, <3>6, <3>7 DEF Safety, CallersOK, RecordsOK, Exists
    <2>26. CASE RemoveWorktree(i)
      BY <2>26, LeaveSafe DEF RemoveWorktree, git
    <2>27. CASE Save(i)
      <3>1. /\ pc[i] = "save" /\ pc'[i] = "idle" /\ op'[i] = None
            /\ record' = [record EXCEPT ![id[i]] = rec[i]]
            /\ UNCHANGED target
            /\ approvals \subseteq approvals'
            /\ rec[i].status = "approved" => id[i] \in approvals'
            /\ \A j \in Callers \ {i} : /\ pc'[j] = pc[j] /\ op'[j] = op[j] /\ id'[j] = id[j]
                                         /\ rec'[j] = rec[j] /\ final'[j] = final[j]
        BY <2>27 DEF Save, Leave, git, Shape, TypeOK
      <3>2. /\ Sound(id[i], rec[i]) /\ Exists(id[i])
            /\ rec[i] # None /\ rec[i].base_commit = record[id[i]].base_commit
            /\ rec[i].status = "applied" => op[i] = "apply" /\ IsPrefix(rec[i].applied_commit, target)
        BY <2>1, <2>2, <3>1 DEF CallerOK
      <3>3. \A q \in Proposals :
              /\ Exists(q)' = Exists(q)
              /\ Exists(q) => record'[q].base_commit = record[q].base_commit
              /\ record'[q] = IF q = id[i] THEN rec[i] ELSE record[q]
        BY <2>2, <3>1, <3>2 DEF Exists, Shape, TypeOK
      <3>4. RecordsOK'
        BY <3>1, <3>2, <3>3 DEF Safety, RecordsOK
      <3>5. OnlyApprovedLands'
        <4> SUFFICES ASSUME NEW k \in DOMAIN target, target[k] # Edit
                     PROVE  /\ target[k].of \in approvals'
                            /\ Exists(target[k].of)'
                            /\ IsPrefix(Landing(record'[target[k].of].base_commit, target[k].of), target)
                            /\ k \in {Len(record'[target[k].of].base_commit) + 1,
                                      Len(record'[target[k].of].base_commit) + 2}
          BY <3>1 DEF OnlyApprovedLands, OnlyApprovedIn
        <4> DEFINE q == target[k].of
        <4>1. /\ q \in Proposals /\ q \in approvals /\ Exists(q)
              /\ IsPrefix(Landing(record[q].base_commit, q), target)
              /\ k \in {Len(record[q].base_commit) + 1, Len(record[q].base_commit) + 2}
          BY LandedFacts DEF Safety, OnlyApprovedLands, OnlyApprovedIn
        <4>2. /\ q \in approvals' /\ Exists(q)'
              /\ record'[q].base_commit = record[q].base_commit
          BY <3>1, <3>3, <4>1
        <4>3. IsPrefix(Landing(record'[q].base_commit, q), target)
          BY <4>1, <4>2
        <4>4. k \in {Len(record'[q].base_commit) + 1, Len(record'[q].base_commit) + 2}
          BY <4>1, <4>2
        <4> QED
          BY <4>2, <4>3, <4>4
      <3>6. AppliedIsInHistory'
        BY <2>2, <3>1, <3>2, <3>3 DEF Safety, AppliedIsInHistory, Sound
      <3>7. ASSUME NEW j \in Callers PROVE CallerOK(j)'
        <4>1. CASE j = i
          BY <3>1, <4>1 DEF CallerOK, Methods
        <4>2. CASE j # i
          <5>1. pc[j] = "reset_hard" => rec[i].status # "applied"
            BY <3>2, <4>2, OneApply, StepFacts
          <5> QED
            BY <3>1, <3>3, <4>2, <5>1 DEF Safety, CallersOK, CallerOK
        <4> QED
          BY <4>1, <4>2
      <3> QED
        BY <3>4, <3>5, <3>6, <3>7 DEF Safety, CallersOK
    <2> QED
      BY <1>3, <2>4, <2>5, <2>6, <2>8, <2>9, <2>10, <2>11, <2>12, <2>13, <2>14, <2>15, <2>16, <2>17,
         <2>18, <2>19, <2>20, <2>23, <2>24, <2>25, <2>26, <2>27 DEF Proceed
  <1>4. ASSUME NEW i \in Callers, Abort(i) PROVE Safety'
    BY <1>4, LeaveSafe DEF Abort, disk, git
  <1>5. CASE Operator
    <2>1. CASE OperatorCommits
      BY <2>1, GrowKeeps DEF OperatorCommits, disk, call
    <2>2. CASE UNCHANGED <<disk, target, call, approvals>>
      BY <2>2 DEF disk, call, Safety, RecordsOK, CallersOK, CallerOK, OnlyApprovedLands,
         OnlyApprovedIn, AppliedIsInHistory, Exists
    <2> QED
      BY <1>5, <2>1, <2>2 DEF Operator, OperatorEdits, OperatorDiscards, OperatorSwitches
  <1>6. ASSUME NEW p \in Proposals, Foreigner(p) PROVE Safety'
    BY <1>6 DEF Foreigner, ForeignEdit, ForeignCommit, WorktreeRestored, git, call, Safety,
       RecordsOK, CallersOK, CallerOK, OnlyApprovedLands, OnlyApprovedIn, AppliedIsInHistory, Exists
  <1>7. CASE UNCHANGED vars
    BY <1>7 DEF vars, disk, git, call, Safety, RecordsOK, CallersOK, CallerOK, OnlyApprovedLands,
       OnlyApprovedIn, AppliedIsInHistory, Exists
  <1> QED
    BY <1>1, <1>2, <1>3, <1>4, <1>5, <1>6, <1>7 DEF Next

\* Nobody holds the lock at first.
LEMMA InitLock == Init => LockOK
  BY NoneIsNoValue DEF Init, LockOK, Methods

\* The inductive invariant of the module, for any number of proposals and
\* callers and every interference.
THEOREM Invariance == Spec => []IInv
  <1> DEFINE Inv == Shape /\ LockOK /\ Safety
  <1>1. Init => Inv
    BY InitShape, InitLock, InitSafe
  <1>2. Inv /\ [Next]_vars => Inv'
    BY ShapeStep, LockStep, SafetyStep
  <1>3. Inv => IInv
    BY DEF Shape, Safety, IInv
  <1> QED
    BY <1>1, <1>2, <1>3, PTL DEF Spec

\* The target branch only ever receives, whole, once and on its own base, the
\* declared change of an approved proposal with its audit record.
THEOREM ApprovedLandingsOnly == Spec => []OnlyApprovedLands
  <1>1. IInv => OnlyApprovedLands
    BY DEF IInv
  <1> QED
    BY <1>1, Invariance, PTL

\* What a record calls applied is in the history of the target branch, and
\* stays there.
THEOREM AppliedStaysInHistory == Spec => []AppliedIsInHistory
  <1>1. IInv => AppliedIsInHistory
    BY DEF IInv
  <1> QED
    BY <1>1, Invariance, PTL

\* No race between callers that save stale copies over each other lets a record
\* claim a validation or an approval of anything but its declared change.
THEOREM ApprovalsBound == Spec => []ApprovalBindsDeclaredTree
  <1>1. IInv => ApprovalBindsDeclaredTree
    BY DEF IInv, RecordsOK, Sound, ApprovalBindsDeclaredTree
  <1> QED
    BY <1>1, Invariance, PTL

-----------------------------------------------------------------------------
(* Edits of the checkout *)

\* What apply has learnt about the checkout holds as long as it relies on it.
Trusting(i) ==
    /\ op[i] # "apply" \/ pc[i] = "list_worktrees" => seen[i] = None
    /\ pc[i] \in PastCheck /\ seen[i] # None => checkout.edited # "early"
    /\ pc[i] = "reset_hard" => seen[i] # None

Trust == \A i \in Callers : Trusting(i)

\* Only the steps of apply up to its check of the checkout, and edits made
\* there, have anything to do with what apply trusts.
LEMMA TrustStep == Shape /\ Trust /\ [Next]_vars => Trust'
  <1> SUFFICES ASSUME Shape, Trust, [Next]_vars PROVE \A j \in Callers : Trusting(j)'
    BY DEF Trust
  <1> USE DEF Trust
  <1>1. ASSUME NEW i \in Callers, Leave(i), UNCHANGED checkout
        PROVE  \A j \in Callers : Trusting(j)'
    BY <1>1 DEF Leave, Trusting, PastCheck, Shape, TypeOK
  <1>2. ASSUME NEW i \in Callers, NEW s \in Steps, pc[i] \in PastCheck \/ s \notin PastCheck,
               s # "list_worktrees", pc' = [pc EXCEPT ![i] = s],
               s = "reset_hard" => seen[i] # None,
               UNCHANGED <<op, seen, checkout>>
        PROVE  \A j \in Callers : Trusting(j)'
    BY <1>2 DEF Trusting, Shape, TypeOK
  <1>3. ASSUME NEW p \in Proposals, CreateDraft(p)
        PROVE  \A j \in Callers : Trusting(j)'
    BY <1>3 DEF CreateDraft, call, git, Trusting
  <1>4. ASSUME NEW i \in Callers, NEW p \in Proposals, Begin(i, p)
        PROVE  \A j \in Callers : Trusting(j)'
    <2>1. pc[i] = "idle" /\ seen[i] = None /\ UNCHANGED <<seen, checkout>>
      <3>1. pc[i] = "idle" /\ UNCHANGED <<seen, checkout>>
        BY <1>4 DEF Begin, BeginMaterialize, BeginValidate, BeginApprove, BeginReject, BeginApply,
           BeginCleanup, Enter, git
      <3>2. op[i] # "apply"
        BY <3>1, NoneIsNoValue DEF Shape, CallsOK, Methods
      <3> QED
        BY <3>1, <3>2 DEF Trusting
    <2>2. \A j \in Callers : j # i => pc'[j] = pc[j] /\ op'[j] = op[j]
      BY <1>4 DEF Begin, BeginMaterialize, BeginValidate, BeginApprove, BeginReject, BeginApply,
         BeginCleanup, Enter, Shape, TypeOK
    <2>3. Trusting(i)'
      BY <1>4, <2>1 DEF Begin, BeginMaterialize, BeginValidate, BeginApprove, BeginReject, BeginApply,
         BeginCleanup, Enter, Trusting, Shape, TypeOK
    <2> QED
      BY <2>1, <2>2, <2>3 DEF Trusting
  <1>5. ASSUME NEW i \in Callers, Proceed(i)
        PROVE  \A j \in Callers : Trusting(j)'
    <2>1. CASE ListWorktrees(i)
      <3>1. op[i] = "apply" /\ pc[i] = "list_worktrees" /\ seen[i] = None
        BY <2>1, StepFacts DEF ListWorktrees, Trusting
      <3>2. \A j \in Callers : j # i => pc'[j] = pc[j] /\ op'[j] = op[j] /\ seen'[j] = seen[j]
        BY <2>1 DEF ListWorktrees, Goto, Shape, TypeOK
      <3>3. Trusting(i)'
        BY <2>1, <3>1 DEF ListWorktrees, Goto, Trusting, PastCheck, Shape, TypeOK
      <3> QED
        BY <2>1, <3>2, <3>3 DEF ListWorktrees, git, Trusting
    <2>2. CASE CheckCheckout(i)
      <3>1. CASE Leave(i)
        BY <1>1, <2>2, <3>1 DEF CheckCheckout, git
      <3>2. CASE CheckoutClean /\ Goto(i, "verify_head") /\ UNCHANGED seen
        BY <2>2, <3>2 DEF CheckCheckout, CheckoutClean, Goto, git, Trusting, Shape, TypeOK
      <3> QED
        BY <2>2, <3>1, <3>2 DEF CheckCheckout
    <2>3. CASE ResetHard(i)
      BY <2>3 DEF ResetHard, Conclude, Goto, Trusting, PastCheck, Shape, TypeOK, Checkout
    <2>4. CASE Save(i) \/ RemoveWorktree(i) \/ WorktreeMissing(i) \/ ValidationFails(i) \/ AuditVanished(i)
      BY <1>1, <2>4 DEF Save, RemoveWorktree, WorktreeMissing, ValidationFails, AuditVanished, git
    <2>5. CASE WorktreeAdd(i) \/ CommitAll(i) \/ MaterializeFails(i) \/ VerifyFails(i) \/ Validated(i)
               \/ UpdateRefFails(i)
      BY <1>2, <2>5 DEF WorktreeAdd, CommitAll, MaterializeFails, VerifyFails, Validated, UpdateRefFails,
         Invalidate, Conclude, Goto, git, Steps, PastCheck
    <2>6. CASE VerifyHead(i) \/ VerifyClean(i) \/ Approved(i) \/ Revalidate(i) \/ WriteAudit(i)
      BY <1>1, <1>2, <2>6 DEF VerifyHead, VerifyClean, Approved, Revalidate, WriteAudit, Invalidate,
         Conclude, Goto, git, Steps, PastCheck
    <2>7. CASE CommitAudit(i) \/ UpdateRef(i)
      BY <1>1, <1>2, <2>7 DEF CommitAudit, UpdateRef, Conclude, Goto, git, Steps, PastCheck
    <2> QED
      BY <1>5, <2>1, <2>2, <2>3, <2>4, <2>5, <2>6, <2>7 DEF Proceed
  <1>6. ASSUME NEW i \in Callers, Abort(i)
        PROVE  \A j \in Callers : Trusting(j)'
    BY <1>1, <1>6 DEF Abort, git
  <1>7. CASE Operator
    <2>1. CASE OperatorEdits
      BY <2>1 DEF OperatorEdits, CheckoutTrusted, Trusting, call, Shape, TypeOK, Checkout
    <2>2. CASE OperatorCommits \/ OperatorDiscards \/ OperatorSwitches
      BY <2>2 DEF OperatorCommits, OperatorDiscards, OperatorSwitches, Trusting, call, Shape, TypeOK, Checkout
    <2> QED
      BY <1>7, <2>1, <2>2 DEF Operator
  <1>8. ASSUME NEW p \in Proposals, Foreigner(p)
        PROVE  \A j \in Callers : Trusting(j)'
    BY <1>8 DEF Foreigner, ForeignEdit, ForeignCommit, WorktreeRestored, call, git, Trusting
  <1>9. CASE UNCHANGED vars
    BY <1>9 DEF vars, call, git, Trusting
  <1> QED
    BY <1>3, <1>4, <1>5, <1>6, <1>7, <1>8, <1>9 DEF Next

\* The refresh never overwrites an edit that was there when apply looked.
THEOREM EarlyEditsKept == Spec => EarlyEditsSurvive
  <1>1. Init => Trust
    BY DEF Init, Trust, Trusting, PastCheck
  <1>2. Trust => ((\E i \in Callers : ResetHard(i)) => checkout.edited # "early")
    <2> SUFFICES ASSUME Trust, NEW i \in Callers, ResetHard(i)
                 PROVE  checkout.edited # "early"
      OBVIOUS
    <2> QED
      BY DEF ResetHard, Trust, Trusting, PastCheck
  <1> QED
    BY <1>1, <1>2, InitShape, ShapeStep, TrustStep, PTL DEF Spec, EarlyEditsSurvive

-----------------------------------------------------------------------------
(* One caller at a time *)

\* The hypothesis of this section: calls do not overlap.  They may be cut short
\* and be called again, and every interference goes on.
OneCaller == \E i \in Callers : Callers = {i}

Live == {"materialized", "validated", "approved"}
Terminal == {"applied", "rejected"}

Kept(p) == worktree[p].dir = "linked" /\ worktree[p].branch

\* While nobody else saves, the record on disk stays what the caller loaded: not
\* a terminal one, unless the call is cleanup, and in apply an approved one.  A
\* caller that is about to save a live record has its worktree.
Current(i) ==
    /\ pc[i] \notin {"idle", "remove"} => record[id[i]].status \notin Terminal
    /\ pc[i] = "remove" => record[id[i]].status \in Terminal \cup {"failed"}
    /\ op[i] = "apply" => record[id[i]].status = "approved"
    /\ op[i] \in {"validate", "approve"} => record[id[i]].status \in Live
    /\ pc[i] = "save" /\ rec[i].status \in Live => Kept(id[i])
    /\ pc[i] = "commit_all" => Kept(id[i])

Serial == LiveProposalKeepsWorktree /\ \A i \in Callers : Current(i)

\* A step of the caller that leaves the records alone and takes no worktree
\* away need only keep what the caller itself relies on.
LEMMA SerialQuiet ==
    ASSUME OneCaller, Serial, NEW i \in Callers, UNCHANGED record,
           \A p \in Proposals : Kept(p) => Kept(p)', Current(i)'
    PROVE  Serial'
  <1>1. \A j \in Callers : j = i
    BY DEF OneCaller
  <1>2. LiveProposalKeepsWorktree'
    BY DEF Serial, LiveProposalKeepsWorktree, Kept, Exists
  <1> QED
    BY <1>1, <1>2 DEF Serial

\* A caller that leaves relies on nothing any more.
LEMMA SerialLeave ==
    ASSUME OneCaller, Shape, Serial, NEW i \in Callers, Leave(i), UNCHANGED record,
           \A p \in Proposals : Kept(p) => Kept(p)'
    PROVE  Serial'
  <1>1. pc'[i] = "idle" /\ op'[i] = None
    BY DEF Leave, Shape, TypeOK
  <1>2. Current(i)'
    BY <1>1, NoneIsNoValue DEF Current, Methods
  <1> QED
    BY <1>2, SerialQuiet

\* Concluding with a record that is live only if the worktree is there.
LEMMA SerialConclude ==
    ASSUME OneCaller, Shape, Serial, NEW i \in Callers, pc[i] \notin {"idle", "remove"}, NEW r,
           Conclude(i, r), UNCHANGED record, \A p \in Proposals : Kept(p) => Kept(p)',
           r.status \in Live => Kept(id[i])
    PROVE  Serial'
  <1>1. pc'[i] = "save" /\ op'[i] = op[i] /\ id'[i] = id[i] /\ rec'[i] = r /\ id[i] \in Proposals
    BY CallFacts DEF Conclude, Goto, Shape, TypeOK
  <1>2. Kept(id[i]) => Kept(id[i])'
    BY <1>1
  <1>3. id' = id
    BY DEF Conclude, Goto
  <1>4. Current(i)
    BY DEF Serial
  <1>5. r.status \in Live => Kept(id[i])'
    BY <1>2
  <1>6. Kept(id[i])' => (worktree'[id'[i]].dir = "linked" /\ worktree'[id'[i]].branch)
    BY <1>3 DEF Kept
  <1>7. Current(i)'
    BY <1>1, <1>3, <1>4, <1>5, <1>6 DEF Current, Kept
  <1> QED
    BY <1>7, SerialQuiet

\* Going on to any step but the commit of materialize.
LEMMA SerialGoto ==
    ASSUME OneCaller, Shape, Serial, NEW i \in Callers, pc[i] \notin {"idle", "remove"}, NEW step,
           Goto(i, step), step \notin {"idle", "remove", "save", "commit_all"},
           UNCHANGED record, \A p \in Proposals : Kept(p) => Kept(p)'
    PROVE  Serial'
  <1>1. pc'[i] = step /\ op' = op /\ id' = id
    BY DEF Goto, Shape, TypeOK
  <1>2. Current(i)'
    BY <1>1 DEF Current, Serial
  <1> QED
    BY <1>2, SerialQuiet

\* Entering a method, by the status of the record.
LEMMA SerialEnter ==
    ASSUME OneCaller, Shape, Serial, NEW i \in Callers, NEW p \in Proposals, record[p] # None,
           NEW m, NEW step, NEW r, pc' = [pc EXCEPT ![i] = step], op' = [op EXCEPT ![i] = m],
           id' = [id EXCEPT ![i] = p], rec' = [rec EXCEPT ![i] = r], UNCHANGED disk,
           step # "remove" => record[p].status \notin Terminal,
           step = "remove" => record[p].status \in Terminal \cup {"failed"},
           m = "apply" => record[p].status = "approved",
           m \in {"validate", "approve"} => record[p].status \in Live,
           step = "save" => r.status \notin Live,
           step # "commit_all"
    PROVE  Serial'
  <1>1. pc'[i] = step /\ op'[i] = m /\ id'[i] = p /\ rec'[i] = r /\ record' = record /\ worktree' = worktree
    BY DEF Shape, TypeOK, disk
  <1>2. Current(i)'
    BY <1>1 DEF Current
  <1> QED
    BY <1>1, <1>2, SerialQuiet DEF Kept

\* Every step keeps it.
LEMMA SerialStep == OneCaller /\ Shape /\ Serial /\ [Next]_vars => Serial'
  <1> SUFFICES ASSUME OneCaller, Shape, Serial, [Next]_vars PROVE Serial'
    OBVIOUS
  <1> USE NoneIsNoValue
  <1>0. \A p \in Proposals : record[p] \in ProposalRecord \cup {None}
    BY DEF Shape, TypeOK
  <1>1. ASSUME NEW p \in Proposals, CreateDraft(p) PROVE Serial'
    <2>1. /\ record[p] = None /\ record'[p].status = "draft"
          /\ \A q \in Proposals : q # p => record'[q] = record[q]
          /\ UNCHANGED <<worktree, pc, op, id, rec>>
      BY <1>1 DEF CreateDraft, Draft, call, Shape, TypeOK
    <2>2. LiveProposalKeepsWorktree'
      BY <2>1 DEF Serial, LiveProposalKeepsWorktree, Exists, Live
    <2>3. ASSUME NEW i \in Callers PROVE Current(i)'
      <3>1. Current(i)
        BY DEF Serial
      <3>2. CASE pc[i] = "idle"
        <4>1. op[i] = None
          BY <3>2 DEF Shape, CallsOK
        <4> QED
          BY <2>1, <3>2, <4>1 DEF Current, Methods
      <3>3. CASE pc[i] # "idle"
        <4>1. id[i] \in Proposals /\ id[i] # p
          BY <2>1, <3>3 DEF Shape, CallsOK
        <4> QED
          BY <2>1, <3>1, <4>1 DEF Current, Kept
      <3> QED
        BY <3>2, <3>3
    <2> QED
      BY <2>2, <2>3 DEF Serial
  <1>2. ASSUME NEW i \in Callers, Save(i) PROVE Serial'
    <2>1. /\ pc[i] = "save" /\ record' = [record EXCEPT ![id[i]] = rec[i]] /\ UNCHANGED worktree
          /\ id[i] \in Proposals /\ Current(i)
      BY <1>2, CallFacts DEF Save, Serial
    <2>2. LiveProposalKeepsWorktree'
      <3>1. ASSUME NEW p \in Proposals, Exists(p)', record'[p].status \in Live PROVE Kept(p)'
        <4>1. CASE p = id[i]
          BY <2>1, <3>1, <4>1 DEF Current, Kept, Shape, TypeOK
        <4>2. CASE p # id[i]
          BY <2>1, <3>1, <4>2 DEF Serial, LiveProposalKeepsWorktree, Live, Kept, Exists, Shape, TypeOK
        <4> QED
          BY <4>1, <4>2
      <3> QED
        BY <3>1 DEF LiveProposalKeepsWorktree, Live, Kept
    <2>3. pc'[i] = "idle" /\ op'[i] = None
      BY <1>2 DEF Save, Leave, Shape, TypeOK
    <2>4. Current(i)'
      BY <2>3 DEF Current, Methods
    <2> QED
      BY <2>2, <2>4 DEF Serial, OneCaller
  <1>3. ASSUME NEW i \in Callers, NEW p \in Proposals, Begin(i, p) PROVE Serial'
    <2>1. CASE BeginMaterialize(i, p)
      BY <2>1, SerialEnter DEF BeginMaterialize, Enter, Terminal
    <2>2. CASE BeginValidate(i, p)
      BY <2>2, SerialEnter DEF BeginValidate, Enter, Terminal, Live
    <2>3. CASE BeginApprove(i, p)
      BY <2>3, SerialEnter DEF BeginApprove, Enter, Terminal, Live
    <2>4. CASE BeginReject(i, p)
      <3>1. [record[p] EXCEPT !.status = "rejected"].status = "rejected"
        BY <1>0, <2>4 DEF BeginReject, ProposalRecord
      <3> QED
        BY <2>4, <3>1, SerialEnter DEF BeginReject, Terminal, Live
    <2>5. CASE BeginApply(i, p)
      <3>1. [record[p] EXCEPT !.status = "stale"].status = "stale"
        BY <1>0, <2>5 DEF BeginApply, ProposalRecord
      <3> QED
        BY <2>5, <3>1, SerialEnter DEF BeginApply, Terminal, Live
    <2>6. CASE BeginCleanup(i, p)
      BY <2>6, SerialEnter DEF BeginCleanup, Enter, Terminal
    <2> QED
      BY <1>3, <2>1, <2>2, <2>3, <2>4, <2>5, <2>6 DEF Begin
  <1>4. ASSUME NEW i \in Callers, Proceed(i) PROVE Serial'
    <2>0. /\ pc[i] # "idle" => id[i] \in Proposals /\ rec[i] \in ProposalRecord
          /\ Current(i)
          /\ UNCHANGED worktree => \A p \in Proposals : Kept(p) => Kept(p)'
      BY CallFacts DEF Serial, Kept
    <2>a. pc[i] \in {"verify_head", "verify_clean", "digest"} => Kept(id[i])
      BY <2>0, StepFacts DEF Current, Serial, LiveProposalKeepsWorktree, Kept, Live, Exists, Shape, CallsOK
    <2>1. CASE WorktreeAdd(i)
      <3>1. /\ pc'[i] = "commit_all" /\ op' = op /\ id' = id /\ UNCHANGED record
            /\ pc[i] = "worktree_add"
            /\ worktree'[id[i]].dir = "linked" /\ worktree'[id[i]].branch
            /\ \A p \in Proposals : p # id[i] => worktree'[p] = worktree[p]
        BY <2>0, <2>1 DEF WorktreeAdd, Goto, Shape, TypeOK
      <3>2. Current(i)'
        BY <2>0, <3>1 DEF Current, Kept
      <3>3. \A p \in Proposals : Kept(p) => Kept(p)'
        BY <2>0, <3>1 DEF Kept
      <3> QED
        BY <3>1, <3>2, <3>3, SerialQuiet
    <2>2. CASE CommitAll(i)
      <3>1. PICK commit :
              /\ worktree' = [worktree EXCEPT ![id[i]] = [@ EXCEPT !.head = commit, !.dirty = {}]]
              /\ Conclude(i, [rec[i] EXCEPT !.status = "materialized", !.worktree = TRUE,
                                            !.proposal_commit = commit])
        BY <2>2 DEF CommitAll
      <3>2. \A p \in Proposals : Kept(p) => Kept(p)'
        BY <2>0, <2>2, <3>1 DEF CommitAll, Kept, Shape, TypeOK, Worktree
      <3>3. Kept(id[i]) /\ UNCHANGED record /\ pc[i] = "commit_all"
        BY <2>0, <2>2 DEF CommitAll, Current
      <3> QED
        BY <3>1, <3>2, <3>3, SerialConclude
    <2>3. CASE MaterializeFails(i)
      <3>1. [rec[i] EXCEPT !.status = "failed", !.worktree = TRUE].status = "failed"
        BY <2>0, <2>3 DEF MaterializeFails, ProposalRecord
      <3> QED
        BY <2>0, <2>3, <3>1, SerialConclude DEF MaterializeFails, disk, Live
    <2>4. CASE Invalidate(i) /\ pc[i] \in {"verify_head", "verify_clean"}
      BY <2>0, <2>a, <2>4, SerialConclude DEF Invalidate, disk
    <2>5. CASE VerifyHead(i)
      <3>1. CASE Goto(i, "verify_clean") /\ UNCHANGED disk
        BY <2>0, <2>5, <3>1, SerialGoto DEF VerifyHead, disk
      <3> QED
        BY <2>4, <2>5, <3>1 DEF VerifyHead
    <2>6. CASE VerifyClean(i)
      <3>1. CASE Goto(i, "digest")
        BY <2>0, <2>6, <3>1, SerialGoto DEF VerifyClean, disk
      <3> QED
        BY <2>0, <2>6, <3>1, SerialLeave DEF VerifyClean, disk
    <2>7. CASE VerifyFails(i)
      BY <2>4, <2>7 DEF VerifyFails
    <2>8. CASE WorktreeMissing(i) \/ ValidationFails(i) \/ AuditVanished(i)
      BY <2>0, <2>8, SerialLeave DEF WorktreeMissing, ValidationFails, AuditVanished, disk
    <2>9. CASE Validated(i)
      BY <2>0, <2>a, <2>9, SerialConclude DEF Validated, disk
    <2>10. CASE Approved(i)
      <3>1. CASE Conclude(i, [rec[i] EXCEPT !.status = "approved", !.approved_tree = rec[i].proposal_commit])
        BY <2>0, <2>a, <2>10, <3>1, SerialConclude DEF Approved, disk
      <3> QED
        BY <2>0, <2>10, <3>1, SerialLeave DEF Approved, disk
    <2>11. CASE ListWorktrees(i)
      BY <2>0, <2>11, SerialGoto DEF ListWorktrees, disk
    <2>12. CASE CheckCheckout(i)
      BY <2>0, <2>12, SerialGoto, SerialLeave DEF CheckCheckout, disk
    <2>13. CASE Revalidate(i)
      BY <2>0, <2>13, SerialGoto, SerialLeave DEF Revalidate, disk
    <2>14. CASE WriteAudit(i)
      <3>1. \A p \in Proposals : Kept(p) => Kept(p)'
        BY <2>0, <2>14 DEF WriteAudit, Kept, Shape, TypeOK, Worktree
      <3> QED
        BY <2>0, <2>14, <3>1, SerialGoto DEF WriteAudit
    <2>15. CASE CommitAudit(i)
      <3>1. \A p \in Proposals : Kept(p) => Kept(p)'
        BY <2>0, <2>15 DEF CommitAudit, Kept, Shape, TypeOK, Worktree
      <3>2. CASE Leave(i)
        BY <2>15, <3>1, <3>2, SerialLeave DEF CommitAudit
      <3>3. CASE Goto(i, "update_ref")
        BY <2>15, <3>1, <3>3, SerialGoto DEF CommitAudit
      <3> QED
        BY <2>15, <3>2, <3>3 DEF CommitAudit
    <2>16. pc[i] # "idle" => AppliedRecord(i).status = "applied" /\ StaleRecord(i).status = "stale"
      BY <2>0 DEF AppliedRecord, StaleRecord, ProposalRecord
    <2>17. CASE UpdateRef(i)
      <3>1. CASE Goto(i, "reset_hard")
        BY <2>0, <2>17, <3>1, SerialGoto DEF UpdateRef, disk
      <3>2. CASE Conclude(i, AppliedRecord(i))
        BY <2>0, <2>16, <2>17, <3>2, SerialConclude DEF UpdateRef, disk, Live
      <3> QED
        BY <2>17, <3>1, <3>2 DEF UpdateRef
    <2>18. CASE UpdateRefFails(i)
      BY <2>0, <2>16, <2>18, SerialConclude DEF UpdateRefFails, disk, Live
    <2>19. CASE ResetHard(i)
      BY <2>0, <2>16, <2>19, SerialConclude DEF ResetHard, disk, Live
    <2>20. CASE RemoveWorktree(i)
      <3>1. /\ pc[i] = "remove" /\ UNCHANGED record /\ id[i] \in Proposals
            /\ \A p \in Proposals : p # id[i] => worktree'[p] = worktree[p]
            /\ pc'[i] = "idle" /\ op'[i] = None
        BY <2>0, <2>20 DEF RemoveWorktree, Leave, Shape, TypeOK
      <3>2. record[id[i]].status \notin Live
        BY <2>0, <3>1 DEF Current, Live, Terminal
      <3>3. LiveProposalKeepsWorktree'
        BY <3>1, <3>2 DEF Serial, LiveProposalKeepsWorktree, Exists, Live
      <3>4. Current(i)'
        BY <3>1 DEF Current, Methods
      <3> QED
        BY <3>3, <3>4 DEF Serial, OneCaller
    <2> QED
      BY <1>2, <1>4, <2>1, <2>2, <2>3, <2>5, <2>6, <2>7, <2>8, <2>9, <2>10, <2>11, <2>12, <2>13,
         <2>14, <2>15, <2>17, <2>18, <2>19, <2>20 DEF Proceed
  <1>5. ASSUME NEW i \in Callers, Abort(i) PROVE Serial'
    BY <1>5, SerialLeave DEF Abort, disk, Kept
  <1>6. ASSUME NEW i \in Callers, UNCHANGED <<record, call>>, \A p \in Proposals : Kept(p) => Kept(p)' PROVE Serial'
    <2>1. pc[i] # "idle" => id[i] \in Proposals
      BY DEF Shape, CallsOK
    <2>2. id' = id /\ rec' = rec /\ pc' = pc /\ op' = op /\ Current(i)
      BY <1>6 DEF call, Serial
    <2>3. Current(i)'
      BY <1>6, <2>1, <2>2 DEF Current, Kept
    <2> QED
      BY <1>6, <2>3, SerialQuiet
  <1>7. PICK i \in Callers : TRUE
    BY DEF OneCaller
  <1>8. CASE Operator
    BY <1>6, <1>7, <1>8 DEF Operator, OperatorCommits, OperatorEdits, OperatorDiscards, OperatorSwitches, disk, Kept
  <1>9. ASSUME NEW p \in Proposals, Foreigner(p) PROVE Serial'
    <2>1. \A q \in Proposals : Kept(q) => Kept(q)'
      <3>1. worktree[p] \in Worktree /\ worktree \in [Proposals -> Worktree]
        BY DEF Shape, TypeOK
      <3>2. CASE ForeignEdit(p)
        BY <3>1, <3>2 DEF ForeignEdit, Kept, Worktree
      <3>3. CASE ForeignCommit(p)
        BY <3>1, <3>3 DEF ForeignCommit, Kept, Worktree
      <3>4. CASE WorktreeRestored(p)
        BY <3>1, <3>4 DEF WorktreeRestored, Kept, Worktree
      <3> QED
        BY <1>9, <3>2, <3>3, <3>4 DEF Foreigner
    <2> QED
      BY <1>6, <1>7, <1>9, <2>1 DEF Foreigner, ForeignEdit, ForeignCommit, WorktreeRestored
  <1>10. CASE UNCHANGED vars
    BY <1>6, <1>7, <1>10 DEF vars, disk, Kept
  <1> QED
    BY <1>1, <1>3, <1>4, <1>5, <1>8, <1>9, <1>10 DEF Next

\* Nothing is live before the first draft.
LEMMA InitSerial == Init => Serial
  BY NoneIsNoValue DEF Init, Serial, LiveProposalKeepsWorktree, Current, Exists, Methods

\* Everything the program keeps of a single caller's calls.
LEMMA SerialInvariance == OneCaller /\ Spec => [](OneCaller /\ Shape /\ LockOK /\ Safety /\ Serial)
  <1>1. OneCaller => OneCaller'
    BY DEF OneCaller
  <1> QED
    BY <1>1, InitShape, InitLock, InitSafe, InitSerial, ShapeStep, LockStep, SafetyStep, SerialStep, PTL DEF Spec

\* A single caller, whatever interrupts it, never takes a worktree or a branch
\* away from a proposal that can still be applied.
THEOREM LiveWorktreesKept == OneCaller /\ Spec => []LiveProposalKeepsWorktree
  <1>1. Serial => LiveProposalKeepsWorktree
    BY DEF Serial
  <1> QED
    BY <1>1, SerialInvariance, PTL

\* A single caller never changes a record that says applied or rejected.
THEOREM TerminalRecordsFinal == OneCaller /\ Spec => TerminalIsFinal
  <1>1. ASSUME Shape, Serial, [Next]_vars, NEW p \in Proposals, Exists(p), record[p].status \in Terminal
        PROVE  record'[p] = record[p]
    <2>1. ASSUME NEW q \in Proposals, CreateDraft(q) PROVE record'[p] = record[p]
      BY <1>1, <2>1 DEF CreateDraft, Exists, Shape, TypeOK
    <2>2. ASSUME NEW i \in Callers, Save(i) PROVE record'[p] = record[p]
      <3>1. Current(i) /\ pc[i] = "save" /\ record' = [record EXCEPT ![id[i]] = rec[i]]
        BY <1>1, <2>2 DEF Serial, Save
      <3> QED
        BY <1>1, <3>1 DEF Current, Shape, TypeOK
    <2>3. ASSUME NEW i \in Callers, Proceed(i) PROVE Save(i) \/ UNCHANGED record
      BY <2>3, Zenon DEF Proceed, WorktreeAdd, CommitAll, MaterializeFails, VerifyHead, VerifyClean, VerifyFails,
         WorktreeMissing, Validated, ValidationFails, Approved, ListWorktrees, CheckCheckout, Revalidate,
         WriteAudit, CommitAudit, AuditVanished, UpdateRef, UpdateRefFails, ResetHard, RemoveWorktree,
         Invalidate, disk
    <2>4. ASSUME NEW i \in Callers, NEW q \in Proposals, Begin(i, q) PROVE UNCHANGED record
      BY <2>4 DEF Begin, BeginMaterialize, BeginValidate, BeginApprove, BeginReject, BeginApply, BeginCleanup, disk
    <2> QED
      BY <1>1, <2>1, <2>2, <2>3, <2>4 DEF Next, Abort, Operator, OperatorCommits, OperatorEdits,
         OperatorDiscards, OperatorSwitches, Foreigner, ForeignEdit, ForeignCommit, WorktreeRestored, disk, vars
  <1>2. Shape /\ Serial /\ [Next]_vars =>
          \A p \in Proposals : Exists(p) /\ record[p].status \in {"applied", "rejected"} => record'[p] = record[p]
    BY <1>1 DEF Terminal
  <1> QED
    BY <1>2, SerialInvariance, PTL DEF Spec, TerminalIsFinal

\* A landing of one proposal is no landing of another, and the operator's
\* commits and the refresh land nothing.
LEMMA NothingElseLands ==
    ASSUME Shape, LockOK, Safety, Serial, [Next]_vars, NEW p \in Proposals,
           Exists(p), record[p].status = "rejected", HasLanded(target', p)
    PROVE  HasLanded(target, p)
  <1>0. target \in Commit /\ DOMAIN target = 1..Len(target) /\ Len(target) \in Nat
    BY DEF Shape, TypeOK, Commit
  <1>1. ASSUME NEW i \in Callers, pc[i] = "update_ref", target = rec[i].base_commit, target' = final[i]
        PROVE  HasLanded(target, p)
    <2>1. /\ op[i] = "apply" /\ id[i] \in Proposals /\ Current(i) /\ rec[i].base_commit \in Commit
          /\ final[i] = Landing(target, id[i])
      BY <1>1, CallFacts, StepFacts DEF Serial, Safety, CallersOK, CallerOK
    <2>2. id[i] # p
      BY <2>1 DEF Current
    <2>3. /\ Len(target') = Len(target) + 2 /\ DOMAIN target' = 1..Len(target')
          /\ \A k \in 1..Len(target) : target'[k] = target[k]
          /\ target'[Len(target) + 1] = Declared(id[i])
          /\ target'[Len(target) + 2] = Audit(id[i])
      <3>1. target' = Landing(target, id[i])
        BY <1>1, <2>1
      <3>2. /\ target' \in Commit /\ Len(target') = Len(target) + 2
            /\ \A k \in 1..Len(target) : target'[k] = target[k]
            /\ target'[Len(target) + 1] = Declared(id[i])
            /\ target'[Len(target) + 2] = Audit(id[i])
        BY <1>0, <2>1, <3>1, LandingFacts
      <3> QED
        BY <3>2 DEF Commit
    <2>4. Declared(id[i]) # Audit(p) /\ Audit(id[i]) # Audit(p)
      <3>1. Declared(id[i]).kind # Audit(p).kind /\ Audit(id[i]).of # Audit(p).of
        BY <2>2 DEF Declared, Audit
      <3> QED
        BY <3>1
    <2>5. PICK k \in 1..Len(target') : target'[k] = Audit(p)
      BY <2>3 DEF HasLanded
    <2>6. k \in 1..Len(target)
      BY <1>0, <2>3, <2>4, <2>5
    <2> QED
      BY <1>0, <2>3, <2>5, <2>6 DEF HasLanded
  <1>2. ASSUME NEW i \in Callers, ResetHard(i) PROVE HasLanded(target, p)
    <2>1. CASE target' = target
      BY <2>1
    <2>2. CASE target' = final[i]
      <3>1. IsPrefix(final[i], target) /\ final[i] \in Commit
        BY <1>2 DEF ResetHard, Safety, CallersOK, CallerOK, Shape, TypeOK, CallsOK
      <3>2. /\ Len(final[i]) <= Len(target) /\ \A k \in 1..Len(final[i]) : final[i][k] = target[k]
            /\ DOMAIN final[i] = 1..Len(final[i]) /\ Len(final[i]) \in Nat
        BY <1>0, <3>1, PrefixElements DEF Commit
      <3> QED
        BY <1>0, <2>2, <3>2 DEF HasLanded
    <2> QED
      BY <1>2, <2>1, <2>2 DEF ResetHard
  <1>3. ASSUME target' = Append(target, Edit) PROVE HasLanded(target, p)
    <2>1. /\ DOMAIN target' = 1..(Len(target) + 1) /\ target'[Len(target) + 1] = Edit
          /\ \A k \in 1..Len(target) : target'[k] = target[k]
      BY <1>0, <1>3 DEF Commit, Edit, Change, Kinds
    <2>2. Edit # Audit(p)
      <3>1. Edit.kind # Audit(p).kind
        BY DEF Edit, Audit
      <3> QED
        BY <3>1
    <2> QED
      BY <1>0, <2>1, <2>2 DEF HasLanded
  <1>4. CASE UNCHANGED target
    BY <1>4
  <1>5. ASSUME NEW i \in Callers, Proceed(i) PROVE HasLanded(target, p)
    <2>1. CASE UpdateRef(i)
      BY <1>1, <2>1 DEF UpdateRef, AtBase
    <2>2. CASE UpdateRefFails(i)
      BY <1>1, <1>4, <2>2 DEF UpdateRefFails, AtBase
    <2>3. UpdateRef(i) \/ UpdateRefFails(i) \/ ResetHard(i) \/ UNCHANGED target
      BY <1>5, Zenon DEF Proceed, WorktreeAdd, CommitAll, MaterializeFails, VerifyHead, VerifyClean, VerifyFails,
         WorktreeMissing, Validated, ValidationFails, Approved, ListWorktrees, CheckCheckout, Revalidate,
         WriteAudit, CommitAudit, AuditVanished, RemoveWorktree, Save, Invalidate, git
    <2> QED
      BY <1>2, <1>4, <2>1, <2>2, <2>3
  <1>6. ASSUME NEW i \in Callers, NEW q \in Proposals, Begin(i, q) PROVE UNCHANGED target
    BY <1>6 DEF Begin, BeginMaterialize, BeginValidate, BeginApprove, BeginReject, BeginApply, BeginCleanup, git
  <1> QED
    BY <1>3, <1>4, <1>5, <1>6 DEF Next, CreateDraft, Abort, Operator, OperatorCommits, OperatorEdits,
       OperatorDiscards, OperatorSwitches, Foreigner, ForeignEdit, ForeignCommit, WorktreeRestored, git, vars

\* A single caller never lands a proposal that it has rejected, whatever becomes
\* of the calls and the branch in between.
THEOREM RejectedNeverLands == OneCaller /\ Spec => RejectedStaysOut
  <1>1. Shape /\ LockOK /\ Safety /\ Serial /\ [Next]_vars =>
          \A p \in Proposals :
             Exists(p) /\ record[p].status = "rejected" /\ HasLanded(target', p) => HasLanded(target, p)
    BY NothingElseLands
  <1> QED
    BY <1>1, SerialInvariance, PTL DEF Spec, RejectedStaysOut

-----------------------------------------------------------------------------
(* Refinement *)

\* The initial states are initial states of the abstract specification.
LEMMA RefinementInit == Init => Promise!Init
  BY DEF Init, Promise!Init, BaseOf

\* Opening, approving, landing and the refresh are the abstract steps of the
\* same name; every other step leaves the abstract state alone.
LEMMA RefinementStep == IInv /\ [Next]_vars => [Promise!Next]_(Promise!vars)
  <1> SUFFICES ASSUME IInv, [Next]_vars PROVE [Promise!Next]_(Promise!vars)
    OBVIOUS
  <1> USE NoneIsNoValue
  <1> DEFINE Base == [p \in Proposals |-> BaseOf(p)]
  <1>0. Shape /\ LockOK /\ Safety
    BY DEF IInv, Shape, Safety
  <1>1. ASSUME NEW p \in Proposals, CreateDraft(p) PROVE Promise!Open(p)
    <2>1. /\ record \in [Proposals -> ProposalRecord \cup {None}] /\ target \in Commit
          /\ record[p] = None /\ record' = [record EXCEPT ![p] = Draft(target)]
      BY <1>1, <1>0 DEF CreateDraft, Shape, TypeOK
    <2>2. Draft(target) # None /\ Draft(target).base_commit = target
      <3>1. Draft(target) \in ProposalRecord
        BY <2>1 DEF Draft, ProposalRecord, Status
      <3> QED
        BY <3>1 DEF Draft
    <2> HIDE DEF Draft
    <2>3. Base[p] = None /\ Base' = [Base EXCEPT ![p] = target]
      BY <2>1, <2>2 DEF BaseOf
    <2> QED
      BY <1>1, <2>3 DEF CreateDraft, git, Promise!Open
  <1>2. ASSUME UNCHANGED <<record, target, approvals>> PROVE UNCHANGED Promise!vars
    BY <1>2 DEF Promise!vars, BaseOf
  <1>3. ASSUME UNCHANGED <<record, approvals>>, target' = Append(target, Edit)
        PROVE  Promise!OperatorCommits
    BY <1>3 DEF Promise!OperatorCommits, Promise!Edit, Edit, BaseOf
  <1>4. ASSUME NEW i \in Callers, pc[i] \in {"update_ref", "reset_hard"}
        PROVE  /\ id[i] \in Proposals /\ id[i] \in approvals
               /\ Exists(id[i]) /\ Base[id[i]] = rec[i].base_commit
               /\ final[i] = Landing(rec[i].base_commit, id[i])
               /\ rec[i].base_commit \in Commit
    BY <1>0, <1>4, CallFacts, StepFacts DEF Safety, CallersOK, CallerOK, Shape, CallsOK, Exists, BaseOf
  <1>5. ASSUME NEW i \in Callers, pc[i] = "update_ref", target = rec[i].base_commit,
               target' = final[i], UNCHANGED <<record, approvals>>
        PROVE  Promise!Land(id[i])
    BY <1>4, <1>5 DEF Promise!Land, Promise!Landing, Promise!Declared, Promise!Audit,
       Landing, Declared, Audit, BaseOf
  <1>6. ASSUME NEW i \in Callers, ResetHard(i)
        PROVE  Promise!DropLaterCommits(id[i]) \/ UNCHANGED Promise!vars
    <2>1. /\ pc[i] = "reset_hard" /\ UNCHANGED <<record, approvals>>
          /\ target' = final[i] \/ UNCHANGED target
      BY <1>6 DEF ResetHard, disk
    <2>2. CASE target' = target
      BY <1>2, <2>1, <2>2
    <2>3. CASE target' # target
      <3>1. /\ IsPrefix(final[i], target) /\ target' = final[i] /\ final[i] # target
            /\ \A k \in (Len(final[i]) + 1)..Len(target) : target[k] = Edit
        BY <1>0, <2>1, <2>3 DEF Safety, CallersOK, CallerOK
      <3>0. /\ rec[i].base_commit \in Commit /\ id[i] \in Proposals
            /\ final[i] = Landing(rec[i].base_commit, id[i])
        BY <1>4, <2>1
      <3>2. Len(final[i]) = Len(rec[i].base_commit) + 2 /\ Len(rec[i].base_commit) \in Nat
        BY <3>0, LandingFacts
      <3>3. \A k \in (Len(Base[id[i]]) + 3)..Len(target) : target[k] = Edit
        BY <1>4, <2>1, <3>1, <3>2
      <3> QED
        BY <1>4, <2>1, <3>1, <3>3 DEF Promise!DropLaterCommits, Promise!Landing, Promise!Declared,
           Promise!Audit, Promise!Edit, Promise!IsStrictPrefix, Promise!IsPrefix, IsPrefix, Landing,
           Declared, Audit, Edit, BaseOf
    <2> QED
      BY <2>2, <2>3
  <1>7. ASSUME NEW i \in Callers, Save(i)
        PROVE  (\E p \in Proposals : Promise!Approve(p)) \/ UNCHANGED Promise!vars
    <2>1. /\ pc[i] = "save" /\ UNCHANGED target
          /\ record' = [record EXCEPT ![id[i]] = rec[i]]
          /\ approvals' = approvals \cup {id[i]} \/ UNCHANGED approvals
      BY <1>7 DEF Save, git
    <2>2. /\ id[i] \in Proposals /\ rec[i] # None /\ record[id[i]] # None
          /\ rec[i].base_commit = record[id[i]].base_commit
          /\ record \in [Proposals -> ProposalRecord \cup {None}]
      BY <1>0, <2>1 DEF Shape, TypeOK, CallsOK
    <2>3. Base' = Base /\ Base[id[i]] # None
      <3>1. rec[i].base_commit # None
        BY <1>0, <2>1, CallFacts
      <3> QED
        BY <2>1, <2>2, <3>1 DEF BaseOf
    <2> QED
      BY <2>1, <2>2, <2>3 DEF Promise!Approve, Promise!vars
  <1>8. ASSUME NEW i \in Callers, NEW p \in Proposals, Begin(i, p) PROVE UNCHANGED <<record, target, approvals>>
    BY <1>8 DEF Begin, BeginMaterialize, BeginValidate, BeginApprove, BeginReject, BeginApply,
       BeginCleanup, disk, git
  <1>9. ASSUME NEW i \in Callers, Proceed(i) PROVE [Promise!Next]_(Promise!vars)
    <2>1. CASE UpdateRef(i)
      BY <1>4, <1>5, <2>1 DEF UpdateRef, AtBase, disk, Promise!Next
    <2>2. CASE UpdateRefFails(i)
      BY <1>2, <1>4, <1>5, <2>2 DEF UpdateRefFails, AtBase, disk, Promise!Next
    <2>3. CASE ResetHard(i)
      BY <1>4, <1>6, <2>3 DEF ResetHard, Promise!Next
    <2>4. CASE Save(i)
      BY <1>7, <2>4 DEF Promise!Next
    <2>5. CASE UNCHANGED <<record, target, approvals>>
      BY <1>2, <2>5
    <2> QED
      BY <1>9, <2>1, <2>2, <2>3, <2>4, <2>5, Zenon DEF Proceed, WorktreeAdd, CommitAll, MaterializeFails,
         VerifyHead, VerifyClean, VerifyFails, WorktreeMissing, Validated, ValidationFails, Approved,
         ListWorktrees, CheckCheckout, Revalidate, WriteAudit, CommitAudit, AuditVanished,
         RemoveWorktree, Invalidate, disk, git
  <1>10. CASE Operator
    BY <1>2, <1>3, <1>10 DEF Operator, OperatorCommits, OperatorEdits, OperatorDiscards,
       OperatorSwitches, disk, Promise!Next
  <1>11. ASSUME NEW p \in Proposals, Foreigner(p) PROVE UNCHANGED <<record, target, approvals>>
    BY <1>11 DEF Foreigner, ForeignEdit, ForeignCommit, WorktreeRestored, git
  <1> QED
    <2>1. CASE \E p \in Proposals : CreateDraft(p)
      BY <1>1, <2>1 DEF Promise!Next
    <2>2. CASE \E i \in Callers : Abort(i)
      BY <1>2, <2>2 DEF Abort, disk, git
    <2>3. CASE UNCHANGED vars
      BY <1>2, <2>3 DEF vars, disk, git
    <2> QED
      BY <1>2, <1>8, <1>9, <1>10, <1>11, <2>1, <2>2, <2>3 DEF Next

\* The whole service, whoever calls it and whatever interferes, is a way of
\* doing what TargetBranch promises.
THEOREM Refinement == Spec => ImplementsTargetBranch
  <1> QED
    BY RefinementInit, RefinementStep, Invariance, PTL DEF Spec, ImplementsTargetBranch, Promise!Spec

-----------------------------------------------------------------------------
(* What a proposal shows to the component that made it *)

\* The statuses that only a materialized proposal reaches, rejection aside.
Judged == {"materialized", "validated", "approved", "applied", "stale"}

\* What one record says materialize came to.
Fate(r) ==
    IF ~r.worktree THEN "none" ELSE IF r.proposal_commit = None THEN "failed" ELSE "materialized"

Outcomes == {"none", "failed", "materialized"}

\* A record's status fits what it says of materialize.
Honest(r) ==
    /\ r \in ProposalRecord
    /\ r.proposal_commit # None => r.worktree
    /\ r.status \in Judged => Fate(r) = "materialized"
    /\ r.status = "failed" => Fate(r) = "failed"
    /\ r.status = "draft" => Fate(r) = "none"

\* OutcomeOf(p) as a function of the records that tell of p.
Told(p) == Copies(p) \ {None}

Verdict(S) ==
    CASE \E r \in S : r.proposal_commit # None -> "materialized"
      [] \A r \in S : ~r.worktree -> "none"
      [] OTHER -> "failed"

\* Records that agree: none says anything but o.
AllTell(S, o) == \A r \in S : Honest(r) /\ Fate(r) \in {"none", o}

Made(p) == worktree[p].dir # "none" \/ worktree[p].branch

Holds(i, p) == id[i] = p /\ op[i] # "materialize"

\* All the records that tell of p agree, and unless a rejection was saved over
\* it the one on disk tells what materialize came to.
Agreed(p) ==
    /\ record[p] = None => worktree[p] = NoWorktree
    /\ record[p] # None =>
         /\ AllTell(Told(p), OutcomeOf(p))
         /\ record[p].status # "rejected" => Fate(record[p]) = OutcomeOf(p)

\* Nobody but materialize saves a draft or a failure.
HolderOK(i) ==
    /\ pc[i] = "idle" => id[i] = None
    /\ op[i] \in {"validate", "approve", "apply"} => rec[i].status \in Judged
    /\ op[i] # "materialize" /\ pc[i] = "save" => rec[i].status \in Judged \cup {"rejected"}

\* While materialize runs, the others can at most reject the draft.
MaterializerOK(i) ==
    op[i] = "materialize" =>
        /\ record[id[i]].status \in {"draft", "rejected"}
        /\ OutcomeOf(id[i]) = "none"
        /\ Honest(rec[i])
        /\ pc[i] # "save" => rec[i].status = "draft"
        /\ pc[i] = "save" => rec[i].status \in {"failed", "materialized"}
        /\ pc[i] = "commit_all" \/ rec[i].status = "materialized" => Made(id[i])

Tells ==
    /\ \A p \in Proposals : Agreed(p)
    /\ \A i \in Callers : HolderOK(i) /\ MaterializerOK(i)

\* The verdict on records that agree on o is o, if one says so, or none.
LEMMA VerdictFacts ==
    ASSUME NEW S, NEW o \in Outcomes, AllTell(S, o)
    PROVE  /\ Verdict(S) \in {"none", o}
           /\ AllTell(S, Verdict(S))
           /\ \A r \in S : Fate(r) = o => Verdict(S) = o
           /\ (\A r \in S : Fate(r) = "none") => Verdict(S) = "none"
  <1>1. CASE \E r \in S : r.proposal_commit # None
    <2>2. PICK r \in S : r.proposal_commit # None
      BY <1>1
    <2>1. Verdict(S) = "materialized"
      <3>1. ~ \A t \in S : ~t.worktree
        BY <2>2 DEF AllTell, Honest
      <3> QED
        BY <1>1, <3>1 DEF Verdict
    <2>3. Fate(r) = "materialized"
      BY <2>2 DEF AllTell, Honest, Fate
    <2>4. o = "materialized"
      BY <2>3 DEF AllTell
    <2> QED
      BY <2>1, <2>3, <2>4
  <1>2. CASE \A r \in S : ~r.worktree
    <2>1. \A r \in S : r.proposal_commit = None /\ Fate(r) = "none"
      BY <1>2 DEF AllTell, Honest, Fate
    <2>2. Verdict(S) = "none"
      BY <1>2, <2>1 DEF Verdict
    <2> QED
      BY <2>1, <2>2 DEF AllTell
  <1>3. CASE (\A r \in S : r.proposal_commit = None) /\ \E r \in S : r.worktree
    <2>1. Verdict(S) = "failed"
      BY <1>3 DEF Verdict
    <2>2. PICK r \in S : r.worktree
      BY <1>3
    <2>3. Fate(r) = "failed"
      BY <1>3, <2>2 DEF Fate
    <2>4. o = "failed"
      BY <2>3 DEF AllTell
    <2> QED
      BY <2>1, <2>3, <2>4
  <1> QED
    BY <1>1, <1>2, <1>3

\* A verdict is an outcome.
LEMMA VerdictType == ASSUME NEW S PROVE Verdict(S) \in Outcomes
  BY DEF Verdict, Outcomes

\* The updates of a record that say nothing new of materialize.
LEMMA FateKept ==
    ASSUME NEW r, Honest(r), NEW t \in ProposalRecord,
           t.worktree = r.worktree, t.proposal_commit = r.proposal_commit,
           \/ t.status = "rejected" \/ t.status = r.status
           \/ (t.status \in Judged /\ r.status \in Judged)
    PROVE  Honest(t) /\ Fate(t) = Fate(r)
  BY DEF Honest, Fate, Judged

\* The outcome of a proposal is the verdict on the records that tell of it.
LEMMA OutcomeVerdict == \A p : OutcomeOf(p) = Verdict(Told(p))
  BY DEF OutcomeOf, Verdict, Told

\* Who tells of p.
LEMMA ToldFacts ==
    ASSUME Shape, Tells, NEW p \in Proposals
    PROVE  /\ \A r : r \in Told(p) <=> r # None /\ (r = record[p] \/ \E i \in Callers : Holds(i, p) /\ r = rec[i])
           /\ OutcomeOf(p) \in Outcomes
           /\ record[p] = None => Told(p) = {} /\ OutcomeOf(p) = "none"
           /\ record[p] # None => record[p] \in Told(p)
           /\ \A i \in Callers : Holds(i, p) => rec[i] \in Told(p) /\ record[p] # None /\ pc[i] # "idle"
  <1>1. \A r : r \in Told(p) <=> r # None /\ (r = record[p] \/ \E i \in Callers : Holds(i, p) /\ r = rec[i])
    BY DEF Told, Copies, Holds
  <1>2. \A i \in Callers : Holds(i, p) => pc[i] # "idle"
    BY NoneAssumption DEF Holds, Tells, HolderOK
  <1>3. \A i \in Callers : Holds(i, p) => rec[i] # None /\ record[p] # None
    BY <1>2 DEF Shape, CallsOK, Holds
  <1>4. OutcomeOf(p) \in Outcomes
    BY VerdictType, OutcomeVerdict
  <1>5. ASSUME record[p] = None PROVE Told(p) = {} /\ OutcomeOf(p) = "none"
    <2>1. Told(p) = {}
      BY <1>1, <1>3, <1>5
    <2> QED
      BY <2>1, OutcomeVerdict DEF Verdict
  <1> QED
    BY <1>1, <1>2, <1>3, <1>4, <1>5

\* The abstract state.
Shown == [p \in Proposals |-> Standing(p)]

\* A step that changes the standing of one proposal.
LEMMA ShownChange ==
    ASSUME NEW p \in Proposals, \A q \in Proposals \ {p} : Standing(q)' = Standing(q)
    PROVE  /\ Shown' = [Shown EXCEPT ![p] = Standing(p)']
           /\ Standing(p)' = Standing(p) => Shown' = Shown
           /\ Shown[p] = Standing(p)
  BY DEF Shown

\* What a step leaves alone as long as neither the records nor the copies of
\* them nor the worktree change.
LEMMA Untouched ==
    ASSUME Shape, Tells, NEW q \in Proposals, record'[q] = record[q], worktree'[q] = worktree[q],
           Told(q)' = Told(q)
    PROVE  Standing(q)' = Standing(q) /\ Agreed(q)' /\ OutcomeOf(q)' = OutcomeOf(q)
  <1>1. OutcomeOf(q)' = OutcomeOf(q)
    BY OutcomeVerdict DEF OutcomeOf, Told
  <1> QED
    BY <1>1 DEF Standing, StatusOf, Agreed, Tells

\* A step of caller i that is in another method than materialize, on p: what it
\* makes of its copy agrees with the rest, what it saves is such a copy, and it
\* takes or makes a worktree only if materialize has come to something.
LEMMA ReviewStep ==
    ASSUME Shape, LockOK, Tells, NEW i \in Callers, NEW p \in Proposals, record[p] # None,
           op[i] # "materialize", op'[i] # "materialize", id[i] \in {p, None}, id'[i] \in {p, None},
           \A j \in Callers \ {i} : /\ pc'[j] = pc[j] /\ op'[j] = op[j]
                                    /\ id'[j] = id[j] /\ rec'[j] = rec[j],
           Holds(i, p)' => Honest(rec'[i]) /\ Fate(rec'[i]) \in {"none", OutcomeOf(p)},
           \/ record' = record
           \/ /\ Holds(i, p) /\ rec[i].status \in Judged \cup {"rejected"}
              /\ record' = [record EXCEPT ![p] = rec[i]],
           \A q \in Proposals \ {p} : worktree'[q] = worktree[q],
           Made(p)' = Made(p) \/ (OutcomeOf(p) # "none" /\ record' = record),
           HolderOK(i)'
    PROVE  Tells' /\ (Standings!Review(p) \/ Shown' = Shown)
  <1> USE NoneAssumption
  <1> DEFINE o == OutcomeOf(p)
  <1>0. /\ Agreed(p) /\ o \in Outcomes /\ AllTell(Told(p), o)
        /\ record \in [Proposals -> ProposalRecord \cup {None}]
    BY ToldFacts DEF Tells, Agreed, Shape, TypeOK
  <1>1. \A q \in Proposals \ {p} : record'[q] = record[q]
    BY <1>0
  <1>2. record'[p] # None /\ (record'[p] = record[p] \/ (record'[p] \in Told(p) /\ record'[p] = rec[i]))
    <2>1. CASE record' = record
      BY <2>1
    <2>2. CASE Holds(i, p) /\ record' = [record EXCEPT ![p] = rec[i]]
      <3>1. rec[i] \in Told(p) /\ record'[p] = rec[i]
        BY <1>0, <2>2, ToldFacts
      <3>2. rec[i] \in ProposalRecord
        BY <1>0, <3>1 DEF AllTell, Honest
      <3> QED
        BY <3>1, <3>2, NoneIsNoValue
    <2> QED
      BY <2>1, <2>2
  <1>3. ASSUME NEW q \in Proposals \ {p} PROVE Standing(q)' = Standing(q) /\ Agreed(q)' /\ OutcomeOf(q)' = OutcomeOf(q)
    <2>1. \A j \in Callers : /\ Holds(j, q)' <=> Holds(j, q)
                             /\ Holds(j, q) => rec'[j] = rec[j]
      BY DEF Holds
    <2>2. Copies(q)' = Copies(q)
      BY <1>1, <2>1 DEF Copies, Holds
    <2> QED
      BY <1>1, <1>3, <2>2, Untouched DEF Told
  <1>4. \A r \in Told(p)' : r \in Told(p) \/ (Holds(i, p)' /\ r = rec'[i])
    <2>1. \A j \in Callers \ {i} : Holds(j, p)' => Holds(j, p) /\ rec'[j] = rec[j]
      BY DEF Holds
    <2>2. \A r \in Told(p)' : r # None /\ (r = record'[p] \/ \E j \in Callers : Holds(j, p)' /\ r = rec'[j])
      BY DEF Told, Copies, Holds
    <2>3. \A r : r \in Told(p) <=> r # None /\ (r = record[p] \/ \E j \in Callers : Holds(j, p) /\ r = rec[j])
      BY ToldFacts
    <2> QED
      BY <1>2, <2>1, <2>2, <2>3
  <1>5. AllTell(Told(p)', o)
    BY <1>0, <1>4 DEF AllTell
  <1>6. record'[p] \in Told(p)'
    BY <1>2 DEF Told, Copies
  <1>7. /\ OutcomeOf(p)' \in {"none", o}
        /\ AllTell(Told(p)', OutcomeOf(p)')
        /\ Fate(record'[p]) = o => OutcomeOf(p)' = o
        /\ o = "none" => OutcomeOf(p)' = "none"
    <2>1. OutcomeOf(p)' = Verdict(Told(p)')
      BY OutcomeVerdict DEF OutcomeOf, Verdict, Told
    <2> QED
      BY <1>0, <1>5, <1>6, <2>1, VerdictFacts
  <1>8. record'[p].status # "rejected" => Fate(record'[p]) = o
    <2>1. CASE record'[p] = record[p]
      BY <1>0, <2>1 DEF Agreed
    <2>2. CASE record'[p] # record[p]
      <3>1. record'[p] = rec[i] /\ rec[i].status \in Judged \cup {"rejected"} /\ rec[i] \in Told(p)
        BY <1>0, <1>2, <2>2
      <3> QED
        BY <1>0, <3>1 DEF AllTell, Honest
    <2> QED
      BY <2>1, <2>2
  <1>9. Agreed(p)'
    BY <1>2, <1>7, <1>8 DEF Agreed
  <1>10. ASSUME NEW j \in Callers PROVE HolderOK(j)' /\ MaterializerOK(j)'
    <2>1. CASE j = i
      BY <2>1 DEF MaterializerOK
    <2>2. CASE j # i
      <3>1. /\ pc'[j] = pc[j] /\ op'[j] = op[j] /\ id'[j] = id[j] /\ rec'[j] = rec[j]
            /\ HolderOK(j) /\ MaterializerOK(j)
        BY <2>2 DEF Tells
      <3>2. HolderOK(j)'
        BY <3>1 DEF HolderOK
      <3>3. CASE op[j] = "materialize" /\ id[j] # p
        <4>1. id[j] \in Proposals
          BY <3>3, NoneIsNoValue DEF Shape, CallsOK, Methods
        <4>2. OutcomeOf(id[j])' = OutcomeOf(id[j]) /\ record'[id[j]] = record[id[j]] /\ worktree'[id[j]] = worktree[id[j]]
          BY <1>1, <1>3, <3>3, <4>1
        <4> QED
          BY <3>1, <3>2, <4>2 DEF MaterializerOK, Made
      <3>4. CASE op[j] = "materialize" /\ id[j] = p
        <4>1. o = "none" /\ record[p].status \in {"draft", "rejected"}
          BY <3>1, <3>4 DEF MaterializerOK
        <4>2. OutcomeOf(p)' = "none" /\ Made(p)' = Made(p)
          BY <1>7, <4>1
        <4>3. record'[p].status \in {"draft", "rejected"}
          <5>1. CASE record'[p] = record[p]
            BY <4>1, <5>1
          <5>2. CASE record'[p] # record[p]
            <6>1. record'[p] = rec[i] /\ rec[i].status \in Judged \cup {"rejected"} /\ rec[i] \in Told(p)
              BY <1>0, <1>2, <5>2
            <6>2. rec[i].status \notin Judged
              BY <1>0, <4>1, <6>1 DEF AllTell, Honest
            <6> QED
              BY <6>1, <6>2
          <5> QED
            BY <5>1, <5>2
        <4>4. OutcomeOf(id[j])' = "none" /\ Made(id[j])' = Made(p)
          BY <3>1, <3>4, <4>2 DEF OutcomeOf, Copies, Made
        <4> QED
          BY <3>1, <3>2, <3>4, <4>3, <4>4 DEF MaterializerOK, Made
      <3> QED
        BY <3>1, <3>2, <3>3, <3>4 DEF MaterializerOK
    <2> QED
      BY <2>1, <2>2
  <1>11. Tells'
    BY <1>3, <1>9, <1>10 DEF Tells
  <1>12. Standing(p)' \in {Standing(p)} \cup Standings!Reviewed(Standing(p))
    <2> DEFINE s == Standing(p)
               t == [s EXCEPT !.status = StatusOf(p)']
               u == [s EXCEPT !.made = Made(p)']
    <2>0. /\ s = [status |-> StatusOf(p), outcome |-> o, made |-> Made(p)]
          /\ Standing(p)' = [status |-> StatusOf(p)', outcome |-> OutcomeOf(p)', made |-> Made(p)']
      BY DEF Standing, Made
    <2>c. /\ [u EXCEPT !.outcome = "none"] = [status |-> StatusOf(p), outcome |-> "none", made |-> Made(p)']
          /\ u.status = StatusOf(p)
          /\ [t EXCEPT !.outcome = "none"] = [status |-> StatusOf(p)', outcome |-> "none", made |-> Made(p)]
          /\ t.status = StatusOf(p)'
      <3> DEFINE st == StatusOf(p)
                 m == Made(p)
                 st2 == StatusOf(p)'
                 m2 == Made(p)'
      <3>1. s = [status |-> st, outcome |-> o, made |-> m]
        BY <2>0
      <3> HIDE DEF s, st, m, st2, m2, o
      <3>2. s \in [status : {st}, outcome : {o}, made : {m}]
        BY <3>1
      <3>3. [s EXCEPT !.made = m2] \in [status : {st}, outcome : {o}, made : {m2}]
        BY <3>2
      <3>4. [s EXCEPT !.status = st2] \in [status : {st2}, outcome : {o}, made : {m}]
        BY <3>2
      <3>5. u \in [status : {st}, outcome : {o}, made : {m2}] /\ t \in [status : {st2}, outcome : {o}, made : {m}]
        BY <3>3, <3>4 DEF m2, st2
      <3> DEFINE v == [u EXCEPT !.outcome = "none"]
                 w == [t EXCEPT !.outcome = "none"]
      <3> HIDE DEF u, t
      <3>6. v \in [status : {st}, outcome : {"none"}, made : {m2}] /\ w \in [status : {st2}, outcome : {"none"}, made : {m}]
        BY <3>5
      <3> HIDE DEF v, w
      <3>7. v = [status |-> st, outcome |-> "none", made |-> m2] /\ w = [status |-> st2, outcome |-> "none", made |-> m]
        BY <3>6
      <3>8. u.status = st /\ t.status = st2
        BY <3>5
      <3> QED
        BY <3>7, <3>8 DEF v, w, st, m, st2, m2
    <2>a. StatusOf(p) # "none"
      BY <1>0 DEF StatusOf, ProposalRecord, Status
    <2>b. Made(p) \in BOOLEAN /\ Made(p)' \in BOOLEAN
      BY DEF Made
    <2>1. CASE record' = record
      <3>1. StatusOf(p)' = StatusOf(p)
        BY <2>1 DEF StatusOf
      <3>2. record[p].status # "rejected" => OutcomeOf(p)' = o
        BY <1>7, <1>8, <2>1
      <3>3. u \in {s} \cup Standings!Cleaned(s)
        BY <2>0, <2>b DEF Standings!Cleaned
      <3>4. CASE OutcomeOf(p)' = o
        BY <2>0, <2>a, <3>1, <3>3, <3>4 DEF Standings!Reviewed
      <3>5. CASE OutcomeOf(p)' # o
        <4>1. OutcomeOf(p)' = "none" /\ record[p].status = "rejected"
          BY <1>7, <3>2, <3>5
        <4>2. StatusOf(p) = "rejected"
          BY <4>1 DEF StatusOf
        <4>3. u \in Standings!Cleaned(s) \cup Standings!Rejected(s)
          BY <2>0, <3>3, <4>2 DEF Standings!Rejected
        <4>4. Standing(p)' \in Standings!Forgotten(u)
          <5>1. Standing(p)' = [u EXCEPT !.outcome = "none"] /\ u.status = "rejected"
            <6>1. /\ [u EXCEPT !.outcome = "none"] =
                      [status |-> StatusOf(p), outcome |-> "none", made |-> Made(p)']
                  /\ u.status = StatusOf(p)
              BY <2>c
            <6>2. Standing(p)' = [status |-> StatusOf(p), outcome |-> "none", made |-> Made(p)']
              BY <2>0, <3>1, <4>1, Zenon
            <6> HIDE DEF s, u
            <6> QED
              BY <4>2, <6>1, <6>2, Zenon
          <5> QED
            BY <5>1 DEF Standings!Forgotten
        <4> QED
          BY <2>0, <2>a, <4>3, <4>4 DEF Standings!Reviewed
      <3> QED
        BY <3>4, <3>5
    <2>2. CASE record' # record
      <3>1. /\ record'[p] = rec[i] /\ rec[i].status \in Judged \cup {"rejected"} /\ rec[i] \in Told(p)
            /\ Made(p)' = Made(p)
        BY <1>0, <2>2, ToldFacts
      <3>2. CASE rec[i].status = "rejected"
        <4>1. StatusOf(p)' = "rejected"
          BY <1>2, <3>1, <3>2 DEF StatusOf
        <4>2. t \in Standings!Rejected(s)
          BY <2>0, <4>1 DEF Standings!Rejected
        <4>3. CASE OutcomeOf(p)' = o
          BY <2>0, <2>a, <3>1, <4>2, <4>3 DEF Standings!Reviewed
        <4>4. CASE OutcomeOf(p)' # o
          <5>1. Standing(p)' \in Standings!Forgotten(t)
            <6>1. Standing(p)' = [t EXCEPT !.outcome = "none"] /\ t.status = "rejected"
              <7>1. /\ [t EXCEPT !.outcome = "none"] =
                        [status |-> StatusOf(p)', outcome |-> "none", made |-> Made(p)]
                    /\ t.status = StatusOf(p)'
                BY <2>c
              <7>2. OutcomeOf(p)' = "none" /\ Made(p)' = Made(p)
                BY <1>7, <3>1, <4>4
              <7>3. Standing(p)' = [status |-> StatusOf(p)', outcome |-> "none", made |-> Made(p)]
                BY <2>0, <7>2, Zenon
              <7> HIDE DEF s, t
              <7> QED
                BY <4>1, <7>1, <7>3, Zenon
            <6> QED
              BY <6>1 DEF Standings!Forgotten
          <5> QED
            BY <2>0, <2>a, <4>2, <5>1 DEF Standings!Reviewed
        <4> QED
          BY <4>3, <4>4
      <3>3. CASE rec[i].status # "rejected"
        <4>1. rec[i].status \in Judged /\ o = "materialized" /\ OutcomeOf(p)' = o
          BY <1>0, <1>7, <1>8, <3>1, <3>3 DEF AllTell, Honest
        <4>2. StatusOf(p)' \in {"materialized", "reviewed"}
          BY <1>2, <3>1, <4>1 DEF StatusOf, Judged
        <4>3. Standing(p)' \in Standings!Judged(s)
          BY <2>0, <3>1, <4>1, <4>2 DEF Standings!Judged
        <4> QED
          BY <2>0, <2>a, <4>3 DEF Standings!Reviewed
      <3> QED
        BY <3>2, <3>3
    <2> QED
      BY <2>1, <2>2
  <1>13. CASE Standing(p)' = Standing(p)
    BY <1>3, <1>11, <1>13, ShownChange
  <1>14. CASE Standing(p)' \in Standings!Reviewed(Standing(p))
    <2>1. Shown' = [Shown EXCEPT ![p] = Standing(p)'] /\ Shown[p] = Standing(p)
      BY <1>3, ShownChange
    <2> QED
      BY <1>11, <1>14, <2>1 DEF Standings!Review, Standings!Change, Shown
  <1> QED
    BY <1>12, <1>13, <1>14

\* A step within materialize that saves nothing shows nothing but the worktree
\* it makes.
LEMMA MaterializeStep ==
    ASSUME Shape, LockOK, Tells, NEW i \in Callers, op[i] = "materialize", id[i] \in Proposals,
           op'[i] = "materialize" /\ id'[i] = id[i],
           \A j \in Callers \ {i} : /\ pc'[j] = pc[j] /\ op'[j] = op[j]
                                    /\ id'[j] = id[j] /\ rec'[j] = rec[j],
           UNCHANGED record, \A q \in Proposals \ {id[i]} : worktree'[q] = worktree[q],
           Made(id[i])' = Made(id[i]) \/ Made(id[i])',
           pc'[i] # "idle", Honest(rec'[i]),
           pc'[i] # "save" => rec'[i].status = "draft",
           pc'[i] = "save" => rec'[i].status \in {"failed", "materialized"},
           pc'[i] = "commit_all" \/ rec'[i].status = "materialized" => Made(id[i])'
    PROVE  /\ Tells'
           /\ Standings!AddWorktree(id[i]) \/ Shown' = Shown
  <1> USE NoneAssumption
  <1> DEFINE p == id[i]
  <1>1. \A q \in Proposals : Told(q)' = Told(q) /\ OutcomeOf(q)' = OutcomeOf(q)
    <2>1. ASSUME NEW q \in Proposals PROVE Copies(q)' = Copies(q)
      <3>1. \A j \in Callers : /\ Holds(j, q)' <=> Holds(j, q)
                               /\ Holds(j, q) => rec'[j] = rec[j]
        BY DEF Holds
      <3> QED
        BY <3>1 DEF Copies, Holds
    <2> QED
      BY <2>1 DEF OutcomeOf, Told
  <1>2. \A q \in Proposals \ {p} : Standing(q)' = Standing(q) /\ Agreed(q)'
    BY <1>1, Untouched
  <1>3. /\ MaterializerOK(i) /\ Agreed(p)
        /\ record[p] # None /\ record[p].status \in {"draft", "rejected"} /\ OutcomeOf(p) = "none"
    BY NoneIsNoValue DEF Tells, MaterializerOK, Shape, CallsOK, Methods
  <1>4. Agreed(p)'
    BY <1>1, <1>3 DEF Agreed
  <1>5. ASSUME NEW j \in Callers PROVE HolderOK(j)' /\ MaterializerOK(j)'
    <2>1. CASE j = i
      <3>1. HolderOK(i)'
        BY DEF HolderOK
      <3>2. id' = id \/ id'[i] = id[i]
        BY DEF Shape, TypeOK
      <3> QED
        BY <1>1, <1>3, <2>1, <3>1 DEF MaterializerOK, Made, OutcomeOf, Copies
    <2>2. CASE j # i
      <3>1. op[j] # "materialize"
        BY <2>2 DEF LockOK
      <3> QED
        BY <2>2, <3>1 DEF Tells, HolderOK, MaterializerOK
    <2> QED
      BY <2>1, <2>2
  <1>6. Tells'
    BY <1>2, <1>4, <1>5 DEF Tells
  <1>7. Standing(p)' = [Standing(p) EXCEPT !.made = Made(p)']
    BY <1>1 DEF Standing, StatusOf, Made
  <1>8. CASE Made(p)' = Made(p)
    <2>1. Standing(p)' = Standing(p)
      BY <1>1, <1>8 DEF Standing, StatusOf, Made
    <2> QED
      BY <1>2, <1>6, <2>1, ShownChange
  <1>9. CASE Made(p)'
    <2>1. Made(p)' = TRUE
      BY <1>9 DEF Made
    <2>2. Shown' = [Shown EXCEPT ![p] = Standing(p)'] /\ Shown[p] = Standing(p)
      BY <1>2, ShownChange
    <2>3. Standing(p).status \in {"draft", "rejected"} /\ Standing(p).outcome = "none"
      BY <1>3 DEF Standing, StatusOf
    <2>4. Standings!Materializing(p)
      BY <2>3 DEF Standings!Materializing
    <2>5. Standing(p)' = [Standing(p) EXCEPT !.made = TRUE]
      BY <1>7, <2>1
    <2> QED
      BY <1>6, <2>2, <2>4, <2>5 DEF Standings!AddWorktree, Standings!Change, Shown
  <1> QED
    BY <1>8, <1>9

\* The end of materialize: its record is saved.
LEMMA MaterializeEnds ==
    ASSUME Shape, LockOK, Tells, NEW i \in Callers, Save(i), op[i] = "materialize",
           NEW p \in Proposals, id[i] = p
    PROVE  Tells' /\ Standings!EndMaterialize(p)
  <1> USE NoneAssumption
  <1> DEFINE r == rec[i]
  <1>1. /\ pc[i] = "save" /\ p \in Proposals /\ record[p] # None /\ record \in [Proposals -> ProposalRecord \cup {None}]
        /\ MaterializerOK(i) /\ Agreed(p)
    BY CallFacts, NoneIsNoValue DEF Save, Tells, Shape, TypeOK, CallsOK
  <1>2. /\ record' = [record EXCEPT ![p] = r] /\ UNCHANGED worktree
        /\ pc'[i] = "idle" /\ op'[i] = None /\ id'[i] = None
        /\ \A j \in Callers \ {i} : pc'[j] = pc[j] /\ op'[j] = op[j] /\ id'[j] = id[j] /\ rec'[j] = rec[j]
    BY DEF Save, Leave, Shape, TypeOK
  <1>3. /\ record[p].status \in {"draft", "rejected"} /\ OutcomeOf(p) = "none" /\ Honest(r)
        /\ r.status \in {"failed", "materialized"} /\ Fate(r) = r.status
        /\ r.status = "materialized" => Made(p)
    BY <1>1 DEF MaterializerOK, Honest, Judged
  <1>4. r # None /\ record'[p] = r /\ \A q \in Proposals \ {p} : record'[q] = record[q]
    <2>1. r \in ProposalRecord
      BY <1>3 DEF Honest
    <2> QED
      BY <1>1, <1>2, <2>1, NoneIsNoValue
  <1>5. \A q \in Proposals \ {p} : Standing(q)' = Standing(q) /\ Agreed(q)'
    <2>1. ASSUME NEW q \in Proposals \ {p} PROVE Copies(q)' = Copies(q)
      <3>1. \A j \in Callers : /\ Holds(j, q)' <=> Holds(j, q)
                               /\ Holds(j, q) => rec'[j] = rec[j]
        BY <1>2 DEF Holds
      <3> QED
        BY <1>4, <3>1 DEF Copies, Holds
    <2> QED
      BY <1>2, <1>4, <2>1, Untouched DEF Told
  <1>6. \A t \in Told(p)' : t = r \/ t \in Told(p)
    <2>1. \A j \in Callers : Holds(j, p)' => Holds(j, p) /\ rec'[j] = rec[j]
      BY <1>1, <1>2 DEF Holds
    <2>2. \A t \in Told(p)' : t # None /\ (t = record'[p] \/ \E j \in Callers : Holds(j, p)' /\ t = rec'[j])
      BY <1>2 DEF Told, Copies, Holds
    <2>3. \A t : t \in Told(p) <=> t # None /\ (t = record[p] \/ \E j \in Callers : Holds(j, p) /\ t = rec[j])
      BY <1>1, ToldFacts
    <2> QED
      BY <1>4, <2>1, <2>2, <2>3
  <1>7. r \in Told(p)'
    <2>1. r \in Copies(p)'
      BY <1>2, <1>4 DEF Copies
    <2> QED
      BY <1>4, <2>1 DEF Told
  <1>8. AllTell(Told(p)', r.status)
    BY <1>1, <1>3, <1>6 DEF AllTell, Agreed
  <1>9. OutcomeOf(p)' = r.status /\ AllTell(Told(p)', OutcomeOf(p)')
    <2>1. OutcomeOf(p)' = Verdict(Told(p)')
      BY <1>2 DEF OutcomeOf, Verdict, Told
    <2>2. r.status \in Outcomes
      BY <1>3 DEF Outcomes
    <2>3. /\ AllTell(Told(p)', Verdict(Told(p)'))
          /\ \A t \in Told(p)' : Fate(t) = r.status => Verdict(Told(p)') = r.status
      BY <1>8, <2>2, VerdictFacts
    <2> QED
      BY <1>3, <1>7, <2>1, <2>3
  <1>10. Agreed(p)'
    BY <1>3, <1>4, <1>9 DEF Agreed
  <1>11. ASSUME NEW j \in Callers PROVE HolderOK(j)' /\ MaterializerOK(j)'
    <2>1. CASE j = i
      BY <1>2, <2>1, NoneIsNoValue DEF HolderOK, MaterializerOK, Methods
    <2>2. CASE j # i
      <3>1. op[j] # "materialize"
        BY <2>2 DEF LockOK
      <3> QED
        BY <1>2, <2>2, <3>1 DEF Tells, HolderOK, MaterializerOK
    <2> QED
      BY <2>1, <2>2
  <1>12. Tells'
    BY <1>5, <1>10, <1>11 DEF Tells
  <1>13. /\ Standing(p) = [status |-> StatusOf(p), outcome |-> "none", made |-> Made(p)]
         /\ Standing(p)' = [status |-> r.status, outcome |-> r.status, made |-> Made(p)]
    <2>1. StatusOf(p)' = r.status
      BY <1>3, <1>4 DEF StatusOf
    <2>2. Made(p)' = Made(p)
      BY <1>2 DEF Made
    <2> QED
      BY <1>3, <1>9, <2>1, <2>2 DEF Standing, Made
  <1>14. Shown' = [Shown EXCEPT ![p] = Standing(p)'] /\ Shown[p] = Standing(p)
    BY <1>1, <1>5, ShownChange
  <1>15. Standings!Materializing(p)
    <2>1. StatusOf(p) \in {"draft", "rejected"}
      BY <1>1, <1>3 DEF StatusOf
    <2> QED
      BY <1>1, <1>13, <1>14, <2>1 DEF Standings!Materializing, Shown
  <1>16. Standing(p)' = [Standing(p) EXCEPT !.status = r.status, !.outcome = r.status]
    <2> DEFINE s == Standing(p)
               t == [s EXCEPT !.status = r.status, !.outcome = r.status]
               st == StatusOf(p)
               m == Made(p)
               x == r.status
    <2>1. s = [status |-> st, outcome |-> "none", made |-> m]
      BY <1>13
    <2> HIDE DEF s, st, m
    <2>2. s \in [status : {st}, outcome : {"none"}, made : {m}]
      BY <2>1
    <2> HIDE DEF x
    <2>3. [s EXCEPT !.status = x, !.outcome = x] \in [status : {x}, outcome : {x}, made : {m}]
      BY <2>2
    <2>4. t \in [status : {x}, outcome : {x}, made : {m}]
      BY <2>3 DEF x
    <2> HIDE DEF t
    <2>5. t = [status |-> x, outcome |-> x, made |-> m]
      BY <2>4
    <2> QED
      BY <1>13, <2>5 DEF t, s, m, x
  <1>17. r.status \in {"failed"} \cup {o \in {"materialized"} : Standing(p).made}
    BY <1>3, <1>13
  <1> QED
    <2>1. Standing(p)' \in {[Shown[p] EXCEPT !.status = outcome, !.outcome = outcome] :
                                outcome \in {"failed"} \cup {o \in {"materialized"} : Shown[p].made}}
      <3>1. r.status \in {"failed"} \cup {o \in {"materialized"} : Shown[p].made}
        BY <1>14, <1>17
      <3>2. Standing(p)' = [Shown[p] EXCEPT !.status = r.status, !.outcome = r.status]
        BY <1>14, <1>16
      <3> HIDE DEF Shown
      <3> QED
        BY <3>1, <3>2, Zenon
    <2> QED
      BY <1>12, <1>14, <1>15, <2>1, Zenon DEF Standings!EndMaterialize, Standings!Change, Shown

\* Nothing that the environment does shows, but the worktrees it may write in
\* are there.
LEMMA ForeignStep ==
    ASSUME Shape, Tells, UNCHANGED <<record, call>>,
           \A q \in Proposals : /\ record[q] = None => worktree'[q] = worktree[q]
                               /\ Made(q)' = Made(q)
    PROVE  Tells' /\ Shown' = Shown
  <1> USE NoneAssumption
  <1>1. \A q \in Proposals : Copies(q)' = Copies(q)
    BY DEF call, Copies
  <1>2. \A q \in Proposals : Told(q)' = Told(q) /\ OutcomeOf(q)' = OutcomeOf(q)
    BY <1>1 DEF Told, OutcomeOf
  <1>3. \A q \in Proposals : Standing(q)' = Standing(q) /\ Agreed(q)'
    BY <1>2 DEF Standing, StatusOf, Made, Agreed, Tells
  <1>4. ASSUME NEW i \in Callers PROVE HolderOK(i)' /\ MaterializerOK(i)'
    <2>1. HolderOK(i) /\ MaterializerOK(i) /\ pc' = pc /\ op' = op /\ id' = id /\ rec' = rec
      BY DEF Tells, call
    <2>2. HolderOK(i)'
      BY <2>1 DEF HolderOK
    <2>3. CASE op[i] = "materialize"
      <3>1. id[i] \in Proposals
        BY <2>3, NoneIsNoValue DEF Shape, CallsOK, Methods
      <3>2. OutcomeOf(id[i])' = OutcomeOf(id[i]) /\ Made(id[i])' = Made(id[i])
        <4>1. \A q \in Proposals : id[i] = q => OutcomeOf(id[i])' = OutcomeOf(q)' /\ Made(id[i])' = Made(q)'
          BY <2>1 DEF OutcomeOf, Copies, Made
        <4> QED
          BY <1>2, <3>1, <4>1
      <3> QED
        BY <2>1, <2>2, <2>3, <3>2 DEF MaterializerOK
    <2> QED
      BY <2>1, <2>2, <2>3 DEF MaterializerOK
  <1> QED
    BY <1>3, <1>4 DEF Tells, Shown

\* A new draft.
LEMMA DraftStep ==
    ASSUME Shape, Tells, NEW p \in Proposals, CreateDraft(p)
    PROVE  Tells' /\ Standings!CreateDraft(p)
  <1> USE NoneAssumption
  <1>1. /\ record[p] = None /\ record' = [record EXCEPT ![p] = Draft(target)]
        /\ worktree' = worktree /\ pc' = pc /\ op' = op /\ id' = id /\ rec' = rec
        /\ record \in [Proposals -> ProposalRecord \cup {None}]
        /\ target \in Commit
    BY DEF CreateDraft, call, Shape, TypeOK
  <1>2. /\ Draft(target) \in ProposalRecord /\ Draft(target).status = "draft"
        /\ Draft(target).worktree = FALSE /\ Draft(target).proposal_commit = None
    BY <1>1 DEF Draft, ProposalRecord, Status
  <1> HIDE DEF Draft
  <1>3. /\ record'[p] = Draft(target) /\ record'[p] # None /\ record'[p].status = "draft"
        /\ Honest(record'[p]) /\ Fate(record'[p]) = "none"
        /\ \A q \in Proposals \ {p} : record'[q] = record[q]
    BY <1>1, <1>2, NoneIsNoValue DEF Honest, Fate, Judged
  <1>4. \A i \in Callers : ~Holds(i, p) /\ (op[i] = "materialize" => id[i] # p)
    BY <1>1, ToldFacts, NoneIsNoValue DEF Shape, CallsOK, Methods
  <1>5. \A q \in Proposals \ {p} : Standing(q)' = Standing(q) /\ Agreed(q)' /\ OutcomeOf(q)' = OutcomeOf(q)
    <2>1. ASSUME NEW q \in Proposals \ {p} PROVE Copies(q)' = Copies(q)
      BY <1>1, <1>3 DEF Copies
    <2> QED
      BY <1>1, <1>3, <2>1, Untouched DEF Told
  <1>6. Told(p)' = {record'[p]}
    BY <1>1, <1>3, <1>4 DEF Told, Copies, Holds
  <1>7. OutcomeOf(p)' = "none" /\ AllTell(Told(p)', "none")
    <2>1. OutcomeOf(p)' = Verdict(Told(p)')
      BY <1>1 DEF OutcomeOf, Verdict, Told
    <2>2. AllTell(Told(p)', "none")
      BY <1>3, <1>6 DEF AllTell
    <2> QED
      BY <1>3, <1>6, <2>1, <2>2, VerdictFacts DEF Outcomes
  <1>8. Agreed(p)'
    BY <1>3, <1>7 DEF Agreed
  <1>9. ASSUME NEW i \in Callers PROVE HolderOK(i)' /\ MaterializerOK(i)'
    <2>1. HolderOK(i) /\ MaterializerOK(i)
      BY DEF Tells
    <2>2. HolderOK(i)'
      BY <1>1, <2>1 DEF HolderOK
    <2>3. CASE op[i] = "materialize"
      <3>1. id[i] \in Proposals \ {p}
        BY <1>4, <2>3, NoneIsNoValue DEF Shape, CallsOK, Methods
      <3>2. OutcomeOf(id[i])' = OutcomeOf(id[i]) /\ Made(id[i])' = Made(id[i])
        <4>1. \A q \in Proposals : id[i] = q => OutcomeOf(id[i])' = OutcomeOf(q)' /\ Made(id[i])' = Made(q)'
          BY <1>1 DEF OutcomeOf, Copies, Made
        <4> QED
          BY <1>1, <1>5, <3>1, <4>1 DEF Made
      <3>3. record'[id'[i]] = record[id[i]]
        BY <1>1, <1>3, <3>1
      <3> QED
        <4>1. pc'[i] = pc[i] /\ op'[i] = op[i] /\ rec'[i] = rec[i]
          BY <1>1
        <4> QED
          BY <2>1, <2>2, <2>3, <3>2, <3>3, <4>1 DEF MaterializerOK
    <2> QED
      BY <1>1, <2>2, <2>3 DEF MaterializerOK
  <1>10. Tells'
    BY <1>5, <1>8, <1>9 DEF Tells
  <1>11. /\ Standing(p) = [status |-> "none", outcome |-> "none", made |-> FALSE]
         /\ Standing(p)' = [status |-> "draft", outcome |-> "none", made |-> FALSE]
    <2>1. worktree[p] = NoWorktree /\ worktree'[p] = NoWorktree /\ OutcomeOf(p) = "none"
      BY <1>1, ToldFacts DEF Tells, Agreed
    <2>2. StatusOf(p) = "none" /\ StatusOf(p)' = "draft"
      BY <1>1, <1>3 DEF StatusOf
    <2>3. /\ worktree[p].dir = "none" /\ worktree[p].branch = FALSE
          /\ worktree'[p].dir = "none" /\ worktree'[p].branch = FALSE
      BY <2>1 DEF NoWorktree
    <2>4. Made(p) = FALSE /\ Made(p)' = FALSE
      BY <2>3 DEF Made
    <2> QED
      BY <1>7, <2>1, <2>2, <2>4 DEF Standing, Made
  <1>12. Standing(p)' = [Standing(p) EXCEPT !.status = "draft"]
    <2> DEFINE s == Standing(p)
               t == [s EXCEPT !.status = "draft"]
    <2>1. s \in [status : {"none"}, outcome : {"none"}, made : {FALSE}]
      BY <1>11
    <2> HIDE DEF s
    <2>2. t \in [status : {"draft"}, outcome : {"none"}, made : {FALSE}]
      BY <2>1
    <2> HIDE DEF t
    <2>3. t = [status |-> "draft", outcome |-> "none", made |-> FALSE]
      BY <2>2
    <2> QED
      BY <1>11, <2>3 DEF s, t
  <1>13. Shown' = [Shown EXCEPT ![p] = Standing(p)'] /\ Shown[p] = Standing(p)
    BY <1>5, ShownChange
  <1>14. Shown[p].status = "none"
    BY <1>11, <1>13
  <1> QED
    BY <1>10, <1>12, <1>13, <1>14 DEF Standings!CreateDraft, Standings!Change, Shown

\* Entering materialize, and leaving it by the way, show nothing.
LEMMA MaterializeQuiet ==
    ASSUME Shape, Tells, NEW i \in Callers, NEW p \in Proposals,
           op[i] = "materialize" \/ id[i] = None,
           \/ op'[i] = None /\ id'[i] = None
           \/ /\ op'[i] = "materialize" /\ id'[i] = p /\ pc'[i] = "worktree_add" /\ rec'[i] = record[p]
              /\ record[p] # None /\ record[p].status = "draft",
           pc'[i] = "idle" <=> op'[i] = None,
           \A j \in Callers \ {i} : /\ pc'[j] = pc[j] /\ op'[j] = op[j] /\ op[j] # "materialize"
                                    /\ id'[j] = id[j] /\ rec'[j] = rec[j],
           UNCHANGED <<record, worktree>>
    PROVE  Tells' /\ Shown' = Shown
  <1> USE NoneAssumption
  <1>1. \A q \in Proposals : Told(q)' = Told(q) /\ OutcomeOf(q)' = OutcomeOf(q)
    <2>1. ASSUME NEW q \in Proposals PROVE Copies(q)' = Copies(q)
      <3>1. \A j \in Callers : /\ Holds(j, q)' <=> Holds(j, q)
                               /\ Holds(j, q) => rec'[j] = rec[j]
        BY DEF Holds
      <3> QED
        BY <3>1 DEF Copies, Holds
    <2> QED
      BY <2>1 DEF OutcomeOf, Told
  <1>2. \A q \in Proposals : Standing(q)' = Standing(q) /\ Agreed(q)'
    BY <1>1, Untouched
  <1>3. ASSUME NEW j \in Callers \ {i} PROVE HolderOK(j)' /\ MaterializerOK(j)'
    BY <1>3 DEF Tells, HolderOK, MaterializerOK
  <1>4. HolderOK(i)' /\ MaterializerOK(i)'
    <2>1. CASE op'[i] = None
      BY <2>1, NoneIsNoValue DEF HolderOK, MaterializerOK, Methods
    <2>2. CASE op'[i] = "materialize"
      <3>1. /\ id'[i] = p /\ pc'[i] = "worktree_add" /\ rec'[i] = record[p] /\ record'[p] = record[p]
            /\ record[p] # None /\ record[p].status = "draft"
        BY <2>2, NoneIsNoValue DEF Methods
      <3>2. record[p] \in Told(p) /\ Agreed(p)
        BY <3>1, ToldFacts DEF Tells
      <3>3. Honest(record[p]) /\ OutcomeOf(p) = "none"
        BY <3>1, <3>2 DEF Agreed, AllTell, Honest
      <3>4. OutcomeOf(id[i])' = OutcomeOf(p)'
        BY <3>1 DEF OutcomeOf, Copies
      <3>5. OutcomeOf(id[i])' = "none" /\ Honest(rec[i])'
        BY <1>1, <3>1, <3>3, <3>4 DEF Honest, Fate
      <3> QED
        BY <2>2, <3>1, <3>5 DEF HolderOK, MaterializerOK
    <2> QED
      BY <2>1, <2>2
  <1> QED
    BY <1>2, <1>3, <1>4 DEF Tells, Shown

\* Every step shows what a step of ProposalStandings does, or nothing.
LEMMA TellsStep == Shape /\ LockOK /\ Tells /\ [Next]_vars => Tells' /\ [Standings!Next]_Shown
  <1> SUFFICES ASSUME Shape, LockOK, Tells, [Next]_vars
               PROVE  /\ Tells'
                      /\ \/ \E p \in Proposals : \/ Standings!CreateDraft(p) \/ Standings!AddWorktree(p)
                                                 \/ Standings!EndMaterialize(p) \/ Standings!Review(p)
                         \/ Shown' = Shown
    BY DEF Standings!Next
  <1> USE NoneAssumption
  <1> DEFINE Fine == /\ Tells'
                     /\ \/ \E p \in Proposals : \/ Standings!CreateDraft(p) \/ Standings!AddWorktree(p)
                                                \/ Standings!EndMaterialize(p) \/ Standings!Review(p)
                        \/ Shown' = Shown
  <1>1. ASSUME NEW p \in Proposals, CreateDraft(p) PROVE Fine
    BY <1>1, DraftStep
  <1>2. ASSUME NEW i \in Callers, NEW p \in Proposals, record[p] # None,
               op[i] # "materialize", op'[i] # "materialize", id[i] \in {p, None}, id'[i] \in {p, None},
               \A j \in Callers \ {i} : /\ pc'[j] = pc[j] /\ op'[j] = op[j]
                                        /\ id'[j] = id[j] /\ rec'[j] = rec[j],
               Holds(i, p)' => Honest(rec'[i]) /\ Fate(rec'[i]) \in {"none", OutcomeOf(p)},
               record' = record,
               \A q \in Proposals \ {p} : worktree'[q] = worktree[q],
               Made(p)' = Made(p) \/ OutcomeOf(p) # "none",
               HolderOK(i)'
        PROVE  Fine
    BY <1>2, ReviewStep
  <1>3. ASSUME NEW i \in Callers, NEW p \in Proposals, id[i] = p, Leave(i), op[i] # "materialize",
               record' = record, \A q \in Proposals \ {p} : worktree'[q] = worktree[q],
               Made(p)' = Made(p) \/ OutcomeOf(p) # "none"
        PROVE  Fine
    <2>1. /\ pc'[i] = "idle" /\ op'[i] = None /\ id'[i] = None
          /\ \A j \in Callers \ {i} : pc'[j] = pc[j] /\ op'[j] = op[j] /\ id'[j] = id[j] /\ rec'[j] = rec[j]
      BY <1>3 DEF Leave, Shape, TypeOK
    <2>2. HolderOK(i)' /\ ~Holds(i, p)' /\ op'[i] # "materialize"
      BY <2>1, NoneIsNoValue DEF HolderOK, Holds, Methods
    <2>3. record[p] # None
      BY <1>3, ToldFacts DEF Holds
    <2> QED
      BY <1>2, <1>3, <2>1, <2>2, <2>3
  <1>4. ASSUME NEW i \in Callers, NEW p \in Proposals, id[i] = p, NEW r, Conclude(i, r),
               pc[i] # "idle", op[i] # "materialize", record' = record, worktree' = worktree,
               r \in ProposalRecord, r.worktree = rec[i].worktree, r.proposal_commit = rec[i].proposal_commit,
               r.status \in Judged, rec[i].status \in Judged
        PROVE  Fine
    <2>1. /\ pc'[i] = "save" /\ op'[i] = op[i] /\ id'[i] = p /\ rec'[i] = r
          /\ \A j \in Callers \ {i} : pc'[j] = pc[j] /\ op'[j] = op[j] /\ id'[j] = id[j] /\ rec'[j] = rec[j]
      BY <1>4 DEF Conclude, Goto, Shape, TypeOK
    <2>2. record[p] # None /\ rec[i] \in Told(p) /\ Agreed(p)
      BY <1>4, ToldFacts DEF Holds, Tells
    <2>3. Honest(rec[i]) /\ Fate(rec[i]) \in {"none", OutcomeOf(p)}
      BY <2>2 DEF Agreed, AllTell
    <2>4. Honest(r) /\ Fate(r) = Fate(rec[i])
      BY <1>4, <2>3, FateKept
    <2>5. HolderOK(i)'
      BY <1>4, <2>1 DEF HolderOK
    <2>6. Made(p)' = Made(p)
      BY <1>4 DEF Made
    <2> QED
      BY <1>2, <1>4, <2>1, <2>2, <2>3, <2>4, <2>5, <2>6
  <1>5. ASSUME NEW i \in Callers, NEW p \in Proposals, id[i] = p, NEW step, Goto(i, step), rec' = rec,
               pc[i] # "idle", op[i] # "materialize", step \notin {"idle", "save"}, record' = record,
               \A q \in Proposals \ {p} : worktree'[q] = worktree[q],
               Made(p)' = Made(p) \/ OutcomeOf(p) # "none"
        PROVE  Fine
    <2>1. /\ pc'[i] = step /\ op'[i] = op[i] /\ id'[i] = p /\ rec'[i] = rec[i]
          /\ \A j \in Callers \ {i} : pc'[j] = pc[j] /\ op'[j] = op[j] /\ id'[j] = id[j] /\ rec'[j] = rec[j]
      BY <1>5 DEF Goto, Shape, TypeOK
    <2>2. record[p] # None /\ rec[i] \in Told(p) /\ Agreed(p) /\ HolderOK(i)
      BY <1>5, ToldFacts DEF Holds, Tells
    <2>3. Honest(rec[i]) /\ Fate(rec[i]) \in {"none", OutcomeOf(p)}
      BY <2>2 DEF Agreed, AllTell
    <2>5. HolderOK(i)'
      BY <1>5, <2>1, <2>2 DEF HolderOK
    <2> QED
      BY <1>2, <1>5, <2>1, <2>2, <2>3, <2>5
  <1>6. ASSUME NEW i \in Callers, NEW p \in Proposals, pc[i] = "idle", record[p] # None,
               NEW m \in Methods \ {"materialize"}, NEW step, NEW r \in ProposalRecord,
               pc' = [pc EXCEPT ![i] = step], op' = [op EXCEPT ![i] = m],
               id' = [id EXCEPT ![i] = p], rec' = [rec EXCEPT ![i] = r],
               r.worktree = record[p].worktree, r.proposal_commit = record[p].proposal_commit,
               \/ r.status = "rejected" \/ r.status = record[p].status
               \/ (r.status \in Judged /\ record[p].status \in Judged),
               step # "idle", step = "save" => r.status \in Judged \cup {"rejected"},
               m \in {"validate", "approve", "apply"} => r.status \in Judged, UNCHANGED disk
        PROVE  Fine
    <2>1. /\ pc'[i] = step /\ op'[i] = m /\ id'[i] = p /\ rec'[i] = r /\ id[i] = None /\ op[i] = None
          /\ \A j \in Callers \ {i} : pc'[j] = pc[j] /\ op'[j] = op[j] /\ id'[j] = id[j] /\ rec'[j] = rec[j]
          /\ record' = record /\ worktree' = worktree
      BY <1>6 DEF Shape, TypeOK, CallsOK, Tells, HolderOK, disk
    <2>2. record[p] \in Told(p) /\ Agreed(p)
      BY <1>6, ToldFacts DEF Tells
    <2>3. Honest(record[p]) /\ Fate(record[p]) \in {"none", OutcomeOf(p)}
      BY <1>6, <2>2 DEF Agreed, AllTell
    <2>4. Honest(r) /\ Fate(r) = Fate(record[p])
      BY <1>6, <2>3, FateKept
    <2>5. HolderOK(i)'
      BY <1>6, <2>1 DEF HolderOK
    <2>6. Made(p)' = Made(p)
      BY <2>1 DEF Made
    <2>7. op[i] # "materialize" /\ op'[i] # "materialize"
      BY <1>6, <2>1, NoneIsNoValue DEF Methods
    <2> QED
      BY <1>2, <1>6, <2>1, <2>3, <2>4, <2>5, <2>6, <2>7
  <1>7. ASSUME NEW i \in Callers, NEW p \in Proposals, Begin(i, p) PROVE Fine
    <2>0. /\ record[p] # None => record[p] \in ProposalRecord
          /\ pc[i] = "idle" => id[i] = None /\ op[i] = None
      BY DEF Shape, TypeOK, CallsOK, Tells, HolderOK
    <2>1. CASE BeginMaterialize(i, p)
      <3>1. /\ pc'[i] = "worktree_add" /\ op'[i] = "materialize" /\ id'[i] = p /\ rec'[i] = record[p]
            /\ record[p] # None /\ record[p].status = "draft" /\ id[i] = None
            /\ \A j \in Callers \ {i} : pc'[j] = pc[j] /\ op'[j] = op[j] /\ id'[j] = id[j] /\ rec'[j] = rec[j]
            /\ UNCHANGED <<record, worktree>> /\ lock = None
        BY <2>0, <2>1 DEF BeginMaterialize, Enter, Shape, TypeOK, disk
      <3>2. \A j \in Callers : op[j] # "materialize"
        BY <3>1, NoneIsNoValue DEF LockOK
      <3>3. pc'[i] = "idle" <=> op'[i] = None
        BY <3>1, NoneIsNoValue DEF Methods
      <3> QED
        BY <3>1, <3>2, <3>3, MaterializeQuiet
    <2>2. CASE BeginValidate(i, p)
      BY <1>6, <2>0, <2>2 DEF BeginValidate, Enter, Methods, Judged
    <2>3. CASE BeginApprove(i, p)
      BY <1>6, <2>0, <2>3 DEF BeginApprove, Enter, Methods, Judged
    <2>4. CASE BeginReject(i, p)
      <3>1. /\ [record[p] EXCEPT !.status = "rejected"] \in ProposalRecord
            /\ [record[p] EXCEPT !.status = "rejected"].status = "rejected"
            /\ [record[p] EXCEPT !.status = "rejected"].worktree = record[p].worktree
            /\ [record[p] EXCEPT !.status = "rejected"].proposal_commit = record[p].proposal_commit
        BY <2>0, <2>4 DEF BeginReject, ProposalRecord, Status
      <3> QED
        BY <1>6, <2>4, <3>1 DEF BeginReject, Methods
    <2>5. CASE BeginApply(i, p)
      <3>1. /\ [record[p] EXCEPT !.status = "stale"] \in ProposalRecord
            /\ [record[p] EXCEPT !.status = "stale"].status = "stale"
            /\ [record[p] EXCEPT !.status = "stale"].worktree = record[p].worktree
            /\ [record[p] EXCEPT !.status = "stale"].proposal_commit = record[p].proposal_commit
        BY <2>0, <2>5 DEF BeginApply, ProposalRecord, Status
      <3>2. CASE target = record[p].base_commit
        BY <1>6, <2>0, <2>5, <3>2 DEF BeginApply, Methods, Judged
      <3>3. CASE target # record[p].base_commit
        <4> DEFINE stale == [record[p] EXCEPT !.status = "stale"]
        <4>1. /\ pc' = [pc EXCEPT ![i] = "save"] /\ op' = [op EXCEPT ![i] = "apply"]
              /\ id' = [id EXCEPT ![i] = p] /\ rec' = [rec EXCEPT ![i] = stale]
              /\ UNCHANGED disk /\ pc[i] = "idle" /\ record[p] # None /\ record[p].status = "approved"
          BY <2>5, <3>3 DEF BeginApply
        <4>2. /\ stale \in ProposalRecord /\ stale.status = "stale" /\ stale.worktree = record[p].worktree
              /\ stale.proposal_commit = record[p].proposal_commit
          BY <3>1
        <4> HIDE DEF stale
        <4> QED
          BY <1>6, <4>1, <4>2 DEF Methods, Judged
      <3> QED
        BY <3>2, <3>3
    <2>6. CASE BeginCleanup(i, p)
      BY <1>6, <2>0, <2>6 DEF BeginCleanup, Enter, Methods, Judged
    <2> QED
      BY <1>7, <2>1, <2>2, <2>3, <2>4, <2>5, <2>6 DEF Begin
  <1>8. ASSUME NEW i \in Callers, Abort(i) PROVE Fine
    <2>1. /\ pc[i] # "idle" /\ Leave(i) /\ UNCHANGED <<record, worktree>> /\ id[i] \in Proposals
      BY <1>8, CallFacts DEF Abort, disk
    <2>2. CASE op[i] = "materialize"
      <3>1. /\ pc'[i] = "idle" /\ op'[i] = None /\ id'[i] = None
            /\ \A j \in Callers \ {i} : /\ pc'[j] = pc[j] /\ op'[j] = op[j] /\ op[j] # "materialize"
                                        /\ id'[j] = id[j] /\ rec'[j] = rec[j]
        BY <2>1, <2>2 DEF Leave, Shape, TypeOK, LockOK
      <3> QED
        BY <2>1, <2>2, <3>1, MaterializeQuiet
    <2>3. CASE op[i] # "materialize"
      <3>1. \A q \in Proposals : Made(q)' = Made(q)
        BY <2>1 DEF Made
      <3> QED
        BY <1>3, <2>1, <2>3, <3>1
    <2> QED
      BY <2>2, <2>3
  <1>9. ASSUME UNCHANGED <<record, call>>, UNCHANGED worktree PROVE Fine
    BY <1>9, ForeignStep DEF Made
  <1>10. CASE Operator
    BY <1>9, <1>10 DEF Operator, OperatorCommits, OperatorEdits, OperatorDiscards, OperatorSwitches, disk
  <1>11. ASSUME NEW p \in Proposals, Foreigner(p) PROVE Fine
    <2>1. UNCHANGED <<record, call>> /\ worktree[p].dir = "linked"
      BY <1>11 DEF Foreigner, ForeignEdit, ForeignCommit, WorktreeRestored, Shape, WorktreesOK
    <2>2. record[p] # None
      BY <2>1 DEF Tells, Agreed, NoWorktree
    <2>3. worktree[p] \in Worktree /\ worktree \in [Proposals -> Worktree]
      BY DEF Shape, TypeOK
    <2>4. /\ \A q \in Proposals \ {p} : worktree'[q] = worktree[q]
          /\ worktree'[p].dir = worktree[p].dir /\ worktree'[p].branch = worktree[p].branch
      <3>2. CASE ForeignEdit(p)
        BY <2>3, <3>2 DEF ForeignEdit, Worktree
      <3>3. CASE ForeignCommit(p)
        BY <2>3, <3>3 DEF ForeignCommit, Worktree
      <3>4. CASE WorktreeRestored(p)
        BY <2>3, <3>4 DEF WorktreeRestored, Worktree
      <3> QED
        BY <1>11, <3>2, <3>3, <3>4 DEF Foreigner
    <2>5. \A q \in Proposals : /\ record[q] = None => worktree'[q] = worktree[q]
                              /\ Made(q)' = Made(q)
      BY <2>2, <2>4 DEF Made
    <2> QED
      BY <2>1, <2>5, ForeignStep
  <1>12. CASE UNCHANGED vars
    BY <1>9, <1>12 DEF vars, disk
  <1>13. ASSUME NEW i \in Callers, Proceed(i), op[i] = "materialize" PROVE Fine
    <2>0. pc[i] # "idle"
      BY <1>13, NoneIsNoValue DEF Shape, CallsOK, Methods
    <2>1. PICK p \in Proposals : id[i] = p
      BY <2>0, CallFacts
    <2>2. /\ MaterializerOK(i) /\ rec[i] \in ProposalRecord /\ worktree \in [Proposals -> Worktree]
          /\ pc[i] \in {"worktree_add", "commit_all", "save"}
      BY <1>13, <2>0, CallFacts DEF Tells, Shape, TypeOK, MethodSteps
    <2>3. WorktreeAdd(i) \/ CommitAll(i) \/ MaterializeFails(i) \/ Save(i)
      BY <1>13, <2>2, Zenon DEF Proceed, VerifyHead, VerifyClean, VerifyFails, WorktreeMissing, Validated, ValidationFails, Approved,
         ListWorktrees, CheckCheckout, Revalidate, WriteAudit, CommitAudit, AuditVanished, UpdateRef, UpdateRefFails,
         ResetHard, RemoveWorktree
    <2>4. CASE WorktreeAdd(i)
      <3>1. /\ pc[i] = "worktree_add" /\ pc'[i] = "commit_all" /\ op'[i] = op[i] /\ id'[i] = p /\ rec'[i] = rec[i]
            /\ \A j \in Callers \ {i} : pc'[j] = pc[j] /\ op'[j] = op[j] /\ id'[j] = id[j] /\ rec'[j] = rec[j]
            /\ record' = record /\ worktree'[p].dir = "linked" /\ id' = id
            /\ \A q \in Proposals \ {p} : worktree'[q] = worktree[q]
        BY <2>1, <2>2, <2>4 DEF WorktreeAdd, Goto, Shape, TypeOK
      <3>2. Made(p)'
        BY <3>1 DEF Made
      <3>3. Made(id[i])' /\ rec[i].status = "draft" /\ Honest(rec[i])
        BY <1>13, <2>1, <2>2, <3>1, <3>2 DEF Made, MaterializerOK
      <3>4. Standings!AddWorktree(id[i]) <=> Standings!AddWorktree(p)
        BY <2>1
      <3> QED
        BY <1>13, <2>1, <3>1, <3>3, <3>4, MaterializeStep
    <2>5. CASE CommitAll(i)
      <3>1. PICK commit \in Commit :
              /\ worktree' = [worktree EXCEPT ![id[i]] = [@ EXCEPT !.head = commit, !.dirty = {}]]
              /\ Conclude(i, [rec[i] EXCEPT !.status = "materialized", !.worktree = TRUE,
                                            !.proposal_commit = commit])
        BY <2>0, <2>5, CommitFacts, CallFacts DEF CommitAll
      <3> DEFINE r == [rec[i] EXCEPT !.status = "materialized", !.worktree = TRUE,
                                     !.proposal_commit = commit]
      <3>2. r \in ProposalRecord /\ r.status = "materialized" /\ r.worktree = TRUE /\ r.proposal_commit = commit
        BY <2>2 DEF ProposalRecord, Status
      <3>3. Conclude(i, r)
        BY <3>1
      <3> HIDE DEF r
      <3>4. Honest(r)
        BY <3>2, NoneIsNoValue DEF Honest, Fate, Judged
      <3>5. /\ pc[i] = "commit_all" /\ pc'[i] = "save" /\ op'[i] = op[i] /\ id'[i] = p /\ rec'[i] = r
            /\ \A j \in Callers \ {i} : pc'[j] = pc[j] /\ op'[j] = op[j] /\ id'[j] = id[j] /\ rec'[j] = rec[j]
            /\ record' = record /\ id' = id
        BY <2>1, <2>5, <3>3 DEF CommitAll, Conclude, Goto, Shape, TypeOK
      <3>6. /\ \A q \in Proposals \ {p} : worktree'[q] = worktree[q]
            /\ worktree'[p].dir = worktree[p].dir /\ worktree'[p].branch = worktree[p].branch
        BY <2>1, <2>2, <3>1 DEF Worktree
      <3>7. Made(p)' /\ Made(id[i])'
        BY <1>13, <2>1, <2>2, <3>5, <3>6 DEF Made, MaterializerOK
      <3> QED
        BY <1>13, <2>1, <3>2, <3>4, <3>5, <3>6, <3>7, MaterializeStep
    <2>6. CASE MaterializeFails(i)
      <3> DEFINE r == [rec[i] EXCEPT !.status = "failed", !.worktree = TRUE]
      <3>1. /\ r \in ProposalRecord /\ r.status = "failed" /\ r.worktree = TRUE
            /\ r.proposal_commit = rec[i].proposal_commit
        BY <2>2 DEF ProposalRecord, Status
      <3>2. Conclude(i, r)
        BY <2>6 DEF MaterializeFails
      <3> HIDE DEF r
      <3>3. rec[i].proposal_commit = None
        BY <1>13, <2>2, <2>6 DEF MaterializeFails, MaterializerOK, Honest, Fate
      <3>4. Honest(r)
        BY <3>1, <3>3 DEF Honest, Fate, Judged
      <3>5. /\ pc'[i] = "save" /\ op'[i] = op[i] /\ id'[i] = p /\ rec'[i] = r
            /\ \A j \in Callers \ {i} : pc'[j] = pc[j] /\ op'[j] = op[j] /\ id'[j] = id[j] /\ rec'[j] = rec[j]
            /\ record' = record /\ id' = id /\ worktree' = worktree
        BY <2>1, <2>6, <3>2 DEF MaterializeFails, Conclude, Goto, Shape, TypeOK, disk
      <3>6. Made(id[i])' = Made(id[i])
        BY <3>5 DEF Made
      <3> QED
        BY <1>13, <2>1, <3>1, <3>4, <3>5, <3>6, MaterializeStep
    <2>7. CASE Save(i)
      BY <1>13, <2>1, <2>7, MaterializeEnds
    <2> QED
      BY <2>3, <2>4, <2>5, <2>6, <2>7
  <1>14. ASSUME NEW i \in Callers, Proceed(i), op[i] # "materialize", pc[i] # "idle" PROVE Fine
    <2>1. PICK p \in Proposals : id[i] = p
      BY <1>14, CallFacts
    <2>2. /\ record[p] # None /\ rec[i] \in Told(p) /\ Agreed(p) /\ HolderOK(i) /\ Holds(i, p)
          /\ rec[i] \in ProposalRecord /\ worktree \in [Proposals -> Worktree]
      BY <1>14, <2>1, ToldFacts, CallFacts DEF Holds, Tells, Shape, TypeOK
    <2>3. /\ Honest(rec[i]) /\ Fate(rec[i]) \in {"none", OutcomeOf(p)}
          /\ rec[i].status \in Judged => OutcomeOf(p) # "none"
          /\ rec[i].worktree => OutcomeOf(p) # "none"
          /\ OutcomeOf(p) \in Outcomes
      <3>1. Honest(rec[i]) /\ Fate(rec[i]) \in {"none", OutcomeOf(p)}
        BY <2>2 DEF Agreed, AllTell
      <3> QED
        BY <2>2, <3>1, ToldFacts DEF Honest, Fate
    <2>4. UNCHANGED worktree => /\ Made(p)' = Made(p)
                                /\ \A q \in Proposals \ {p} : worktree'[q] = worktree[q]
      BY DEF Made
    <2>5. op[i] \in {"validate", "approve", "apply"} => rec[i].status \in Judged
      BY <2>2 DEF HolderOK
    <2>6. CASE WorktreeMissing(i) \/ ValidationFails(i) \/ AuditVanished(i)
      BY <1>3, <1>14, <2>1, <2>4, <2>6 DEF WorktreeMissing, ValidationFails, AuditVanished, disk
    <2>7. CASE Invalidate(i) /\ pc[i] \in {"verify_head", "verify_clean"}
      <3>1. /\ Invalidated(rec[i]) \in ProposalRecord /\ Invalidated(rec[i]).status = "materialized"
            /\ Invalidated(rec[i]).worktree = rec[i].worktree
            /\ Invalidated(rec[i]).proposal_commit = rec[i].proposal_commit
        BY <2>2 DEF Invalidated, ProposalRecord, Status
      <3>2. rec[i].status \in Judged
        BY <1>14, <2>5, <2>7, StepFacts
      <3> QED
        BY <1>4, <1>14, <2>1, <2>7, <3>1, <3>2 DEF Invalidate, disk, Judged
    <2>8. CASE VerifyHead(i)
      <3>1. CASE Goto(i, "verify_clean") /\ UNCHANGED <<disk, rec>>
        BY <1>5, <1>14, <2>1, <2>4, <3>1 DEF disk
      <3> QED
        BY <2>7, <2>8, <3>1 DEF VerifyHead
    <2>9. CASE VerifyClean(i)
      <3>1. CASE Goto(i, "digest") /\ UNCHANGED rec
        BY <1>5, <1>14, <2>1, <2>4, <2>9, <3>1 DEF VerifyClean, disk
      <3> QED
        BY <1>3, <1>14, <2>1, <2>4, <2>9, <3>1 DEF VerifyClean, disk
    <2>10. CASE VerifyFails(i)
      BY <2>7, <2>10 DEF VerifyFails
    <2>11. CASE Validated(i)
      <3> DEFINE r == [rec[i] EXCEPT !.status = "validated", !.content_digest = ContentDigest(id[i]),
                                     !.validated_tree = rec[i].proposal_commit, !.approved_tree = None]
      <3>1. Here(i).head \in Seq(Change) /\ Foreign(id[i]) \in Change
        BY <1>14, <2>11, CallFacts DEF Validated, Commit, Change, Foreign, Kinds
      <3>2. ContentDigest(id[i]) \in Content
        BY <3>1 DEF ContentDigest, Content, Here, Range
      <3>3. /\ r \in ProposalRecord /\ r.status = "validated" /\ r.worktree = rec[i].worktree
            /\ r.proposal_commit = rec[i].proposal_commit
        BY <2>2, <3>2 DEF ProposalRecord, Status
      <3>4. Conclude(i, r) /\ UNCHANGED <<record, worktree>> /\ rec[i].status \in Judged
        BY <2>5, <2>11 DEF Validated, disk
      <3> HIDE DEF r
      <3> QED
        BY <1>4, <1>14, <2>1, <3>3, <3>4 DEF Judged
    <2>12. CASE Approved(i)
      <3> DEFINE r == [rec[i] EXCEPT !.status = "approved", !.approved_tree = rec[i].proposal_commit]
      <3>1. /\ r \in ProposalRecord /\ r.status = "approved" /\ r.worktree = rec[i].worktree
            /\ r.proposal_commit = rec[i].proposal_commit
        BY <2>2 DEF ProposalRecord, Status
      <3>2. UNCHANGED <<record, worktree>> /\ rec[i].status \in Judged /\ (Conclude(i, r) \/ Leave(i))
        BY <2>5, <2>12 DEF Approved, disk
      <3> HIDE DEF r
      <3>3. CASE Conclude(i, r)
        BY <1>4, <1>14, <2>1, <3>1, <3>2, <3>3 DEF Judged
      <3> QED
        BY <1>3, <1>14, <2>1, <2>4, <3>2, <3>3
    <2>13. CASE ListWorktrees(i)
      BY <1>5, <1>14, <2>1, <2>4, <2>13 DEF ListWorktrees, disk
    <2>14. CASE CheckCheckout(i)
      <3>1. CASE Goto(i, "verify_head") /\ UNCHANGED rec
        BY <1>5, <1>14, <2>1, <2>4, <2>14, <3>1 DEF CheckCheckout, disk
      <3> QED
        BY <1>3, <1>14, <2>1, <2>4, <2>14, <3>1 DEF CheckCheckout, disk
    <2>15. CASE Revalidate(i)
      <3>1. CASE Goto(i, "write_audit") /\ UNCHANGED rec
        BY <1>5, <1>14, <2>1, <2>4, <2>15, <3>1 DEF Revalidate, disk
      <3> QED
        BY <1>3, <1>14, <2>1, <2>4, <2>15, <3>1 DEF Revalidate, disk
    <2>16. CASE WriteAudit(i)
      <3>1. OutcomeOf(p) # "none"
        BY <1>14, <2>3, <2>5, <2>16, StepFacts DEF WriteAudit
      <3>2. \A q \in Proposals \ {p} : worktree'[q] = worktree[q]
        BY <2>1, <2>2, <2>16 DEF WriteAudit
      <3> QED
        BY <1>5, <1>14, <2>1, <2>16, <3>1, <3>2 DEF WriteAudit
    <2>17. CASE CommitAudit(i)
      <3>1. OutcomeOf(p) # "none"
        BY <1>14, <2>3, <2>5, <2>17, StepFacts DEF CommitAudit
      <3>2. \A q \in Proposals \ {p} : worktree'[q] = worktree[q]
        BY <2>1, <2>2, <2>17 DEF CommitAudit
      <3>3. CASE Leave(i)
        BY <1>3, <1>14, <2>1, <2>17, <3>1, <3>2, <3>3 DEF CommitAudit
      <3>4. CASE Goto(i, "update_ref") /\ UNCHANGED rec
        BY <1>5, <1>14, <2>1, <2>17, <3>1, <3>2, <3>4 DEF CommitAudit
      <3> QED
        BY <2>17, <3>3, <3>4 DEF CommitAudit
    <2>18. ASSUME NEW r \in {AppliedRecord(i), StaleRecord(i)}, Conclude(i, r), UNCHANGED <<record, worktree>>,
                  pc[i] \in {"update_ref", "reset_hard"}
           PROVE  Fine
      <3>1. final[i] \in Commit \cup {None}
        BY DEF Shape, TypeOK
      <3>2. /\ r \in ProposalRecord /\ r.status \in {"applied", "stale"} /\ r.worktree = rec[i].worktree
            /\ r.proposal_commit = rec[i].proposal_commit
        BY <2>2, <2>18, <3>1 DEF AppliedRecord, StaleRecord, ProposalRecord, Status
      <3>3. rec[i].status \in Judged
        BY <1>14, <2>5, <2>18, StepFacts
      <3> QED
        BY <1>4, <1>14, <2>1, <2>18, <3>2, <3>3 DEF Judged
    <2>19. CASE UpdateRef(i)
      <3>1. CASE Goto(i, "reset_hard") /\ UNCHANGED rec
        BY <1>5, <1>14, <2>1, <2>4, <2>19, <3>1 DEF UpdateRef, disk
      <3> QED
        BY <2>18, <2>19, <3>1 DEF UpdateRef, disk
    <2>20. CASE UpdateRefFails(i)
      BY <2>18, <2>20 DEF UpdateRefFails, disk
    <2>21. CASE ResetHard(i)
      BY <2>18, <2>21 DEF ResetHard, disk
    <2>22. CASE RemoveWorktree(i)
      <3>1. /\ \A q \in Proposals \ {p} : worktree'[q] = worktree[q]
            /\ Made(p)' = Made(p) \/ OutcomeOf(p) # "none"
        BY <2>1, <2>2, <2>3, <2>4, <2>22 DEF RemoveWorktree
      <3> QED
        BY <1>3, <1>14, <2>1, <2>22, <3>1 DEF RemoveWorktree
    <2>23. CASE Save(i)
      <3>1. /\ record' = [record EXCEPT ![p] = rec[i]] /\ UNCHANGED worktree
            /\ pc'[i] = "idle" /\ op'[i] = None /\ id'[i] = None
            /\ \A j \in Callers \ {i} : pc'[j] = pc[j] /\ op'[j] = op[j] /\ id'[j] = id[j] /\ rec'[j] = rec[j]
            /\ rec[i].status \in Judged \cup {"rejected"}
        BY <1>14, <2>1, <2>2, <2>23 DEF Save, Leave, Shape, TypeOK, HolderOK
      <3>2. HolderOK(i)' /\ ~Holds(i, p)' /\ op'[i] # "materialize"
        BY <3>1, NoneIsNoValue DEF HolderOK, Holds, Methods
      <3> QED
        BY <1>14, <2>1, <2>2, <2>4, <3>1, <3>2, ReviewStep
    <2> QED
      <3>1. ~WorktreeAdd(i) /\ ~CommitAll(i) /\ ~MaterializeFails(i)
        BY <1>14, StepFacts DEF WorktreeAdd, CommitAll, MaterializeFails
      <3> QED
        BY <1>14, <2>6, <2>8, <2>9, <2>10, <2>11, <2>12, <2>13, <2>14, <2>15, <2>16, <2>17, <2>19, <2>20,
           <2>21, <2>22, <2>23, <3>1 DEF Proceed
  <1>15. ASSUME NEW i \in Callers, Proceed(i) PROVE pc[i] # "idle"
    BY <1>15, Zenon DEF Proceed, WorktreeAdd, CommitAll, MaterializeFails, VerifyHead, VerifyClean, VerifyFails,
       WorktreeMissing, Validated, ValidationFails, Approved, ListWorktrees, CheckCheckout, Revalidate,
       WriteAudit, CommitAudit, AuditVanished, UpdateRef, UpdateRefFails, ResetHard, RemoveWorktree, Save
  <1> QED
    BY <1>1, <1>7, <1>8, <1>10, <1>11, <1>12, <1>13, <1>14, <1>15 DEF Next

\* Before the first draft there is nothing to tell.
LEMMA TellsInit == Init => Tells /\ Standings!Init
  <1> SUFFICES ASSUME Init PROVE Tells /\ Standings!Init
    OBVIOUS
  <1> USE NoneAssumption
  <1>1. ASSUME NEW p \in Proposals PROVE /\ Agreed(p)
                                         /\ Standing(p) = [status |-> "none", outcome |-> "none", made |-> FALSE]
    <2>1. record[p] = None /\ worktree[p] = NoWorktree /\ \A i \in Callers : id[i] # p
      BY DEF Init
    <2>2. Copies(p) \ {None} = {}
      BY <2>1 DEF Copies
    <2>3. OutcomeOf(p) = "none"
      BY <2>2 DEF OutcomeOf
    <2>4. StatusOf(p) = "none"
      BY <2>1 DEF StatusOf
    <2>5. worktree[p].dir = "none" /\ worktree[p].branch = FALSE
      BY <2>1 DEF NoWorktree
    <2> QED
      BY <2>1, <2>3, <2>4, <2>5 DEF Agreed, Standing
  <1>2. \A i \in Callers : HolderOK(i) /\ MaterializerOK(i)
    BY NoneIsNoValue DEF Init, HolderOK, MaterializerOK, Methods
  <1> QED
    BY <1>1, <1>2 DEF Tells, Standings!Init

\* Whoever calls the service and however the calls overlap, what a proposal
\* shows changes only as IntakeService, which makes proposals, takes for granted.
THEOREM StandingsRefinement == Spec => ImplementsStandings
  <1> DEFINE Inv == Shape /\ LockOK /\ Tells
  <1>1. Init => Inv /\ Standings!Init
    BY InitShape, InitLock, TellsInit
  <1>2. Inv /\ [Next]_vars => Inv' /\ [Standings!Next]_Shown
    BY ShapeStep, LockStep, TellsStep
  <1> QED
    BY <1>1, <1>2, PTL DEF Spec, ImplementsStandings, Standings!Spec, Shown
=============================================================================
