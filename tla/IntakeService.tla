----------------------------- MODULE IntakeService -----------------------------
(****************************************************************************)
(* IntakeService.submit of src/self_nomad/intake/service.py: agents hand in *)
(* requests, again and again if need be, from several processes that may    *)
(* die at any point, and every request must come to one proposal.           *)
(*                                                                          *)
(*   preview -> (intake lock) reserve the receipt -> assert target -> stage *)
(*     -> create_draft -> materialize -> complete the receipt -> clear      *)
(*                                                                          *)
(* The preview runs before the lock; a retry enters the chain at the first  *)
(* step whose effect is missing on disk.  The proposal workflow beyond      *)
(* materialize is ProposalService; here a record only shows the statuses    *)
(* intake tells apart.                                                      *)
(****************************************************************************)
EXTENDS Naturals, FiniteSets

CONSTANTS
    Submitters,     \* processes in IntakeService.submit at the same time
    Requests,       \* request_id values
    Digests,        \* canonical digests of payloads
    Proposals,      \* what uuid4 may return
    None,
    Faults,         \* what may go wrong
    MaxTip,         \* bound: commits on the target branch
    MaxCrashes      \* bound: submitters that die between two steps

\* timeout: the proposals lock is not free within 10 seconds
\* error:   a policy, file or Git error
\* review:  operators act on the proposals meanwhile
\* move:    the target branch moves
AllFaults == {"timeout", "error", "review", "move"}

ASSUME FaultsAssumption == Faults \subseteq AllFaults
ASSUME BoundsAssumption == MaxTip \in Nat /\ MaxCrashes \in Nat
ASSUME NoneAssumption == None \notin Requests \cup Proposals \cup Submitters

VARIABLES
    receipts,   \* the receipt file of every request
    records,    \* the record file of every proposal
    worktrees,  \* proposals whose worktree and branch exist
    staged,     \* requests (by digest) whose content is staged
    tip,        \* the commit at the head of the target branch
    holder,     \* who holds the intake lock
    pc,         \* the next step of every submitter
    request,    \* the request it submits: its id and its digest
    base,       \* preview.base_commit
    mine,       \* its copy of the receipt
    crashes     \* how many submitters have died

disk  == <<receipts, records, worktrees, staged>>
local == <<pc, request, base, mine>>
vars  == <<disk, tip, holder, local, crashes>>

-----------------------------------------------------------------------------
(* Types *)

Commit == 0..MaxTip
Request == [id : Requests, digest : Digests]
Receipt == [digest : Digests, status : {"pending", "completed", "failed"},
            proposal : Proposals, base : Commit]

\* "reviewed" stands for validated, approved, applied and stale. outcome is
\* history: what materialize came to, as ProposalStandings has it.
Record == [status : {"draft", "materialized", "reviewed", "rejected", "failed"},
           base : Commit, request : Request,
           outcome : {"none", "materialized", "failed"}]

LockedSteps == {"execute", "stage", "create_draft", "materialize", "commit", "undone",
                "complete", "clear", "fail"}
Steps == {"idle", "preview", "lock"} \cup LockedSteps

\* What a receipt reserves.
Reservation == [proposal : Proposals, digest : Digests]

ASSUME NoneIsNoValue == None \notin Receipt \cup Record \cup Request \cup Reservation

TypeOK ==
    /\ receipts \in [Requests -> Receipt \cup {None}]
    /\ records \in [Proposals -> Record \cup {None}]
    /\ worktrees \subseteq Proposals
    /\ staged \subseteq Request
    /\ tip \in Commit
    /\ holder \in Submitters \cup {None}
    /\ pc \in [Submitters -> Steps]
    /\ request \in [Submitters -> Request \cup {None}]
    /\ base \in [Submitters -> Commit]
    /\ mine \in [Submitters -> Receipt \cup {None}]
    /\ crashes \in 0..MaxCrashes

\* What reviewers and the proposal service see of a proposal.
Standing(p) ==
    [status |-> IF records[p] = None THEN "none" ELSE records[p].status,
     outcome |-> IF records[p] = None THEN "none" ELSE records[p].outcome,
     made |-> p \in worktrees]

Standings == INSTANCE ProposalStandings WITH standing <- [p \in Proposals |-> Standing(p)]

-----------------------------------------------------------------------------

Init ==
    /\ receipts = [r \in Requests |-> None]
    /\ records = [p \in Proposals |-> None]
    /\ worktrees = {}
    /\ staged = {}
    /\ tip = 0
    /\ holder = None
    /\ pc = [i \in Submitters |-> "idle"]
    /\ request = [i \in Submitters |-> None]
    /\ base = [i \in Submitters |-> 0]
    /\ mine = [i \in Submitters |-> None]
    /\ crashes = 0

\* submit returns or raises: the lock is free, the locals are gone.
Leave(i) ==
    /\ pc' = [pc EXCEPT ![i] = "idle"]
    /\ request' = [request EXCEPT ![i] = None]
    /\ base' = [base EXCEPT ![i] = 0]
    /\ mine' = [mine EXCEPT ![i] = None]
    /\ holder' = IF holder = i THEN None ELSE holder

Goto(i, step) ==
    /\ pc' = [pc EXCEPT ![i] = step]
    /\ UNCHANGED <<holder, request, base, mine>>

Stored(i) == receipts[request[i].id]

\* The record of the proposal its receipt reserves.
Mine(i) == records[mine[i].proposal]

-----------------------------------------------------------------------------
(* preview: nothing is written, nothing is locked *)

\* store.load_receipt, the first read of _resolve_context.
Submit(i, r, d) ==
    /\ pc[i] = "idle"
    /\ pc' = [pc EXCEPT ![i] = "preview"]
    /\ request' = [request EXCEPT ![i] = [id |-> r, digest |-> d]]
    /\ mine' = [mine EXCEPT ![i] = receipts[r]]
    /\ UNCHANGED <<disk, tip, holder, base>>

\* The findings that make submit raise: a conflict, an earlier failure, a
\* reserved base the branch has left.
Blocked(i) ==
    /\ mine[i] # None
    /\ \/ mine[i].digest # request[i].digest
       \/ mine[i].status = "failed"
       \/ /\ mine[i].status = "pending"
          /\ IF Mine(i) = None THEN tip # mine[i].base ELSE Mine(i).status = "failed"

\* The record and the tip are read after the receipt.
Preview(i) ==
    /\ pc[i] = "preview"
    /\ IF Blocked(i)
       THEN Leave(i)
       ELSE /\ pc' = [pc EXCEPT ![i] = "lock"]
            /\ base' = [base EXCEPT ![i] = IF mine[i] = None THEN tip ELSE mine[i].base]
            /\ UNCHANGED <<holder, request, mine>>
    /\ UNCHANGED <<disk, tip>>

\* Policy, size, secret and target tree findings; or the lock is not free
\* within 30 seconds.
PreviewRejects(i) ==
    /\ pc[i] \in {"preview", "lock"}
    /\ "error" \in Faults
    /\ Leave(i)
    /\ UNCHANGED <<disk, tip>>

-----------------------------------------------------------------------------
(* _submit_locked and _resume_or_complete *)

\* Mutant: the intake lock is not waited for.
Unlocked(i) == pc[i] = "lock"

AtLock(i) == pc[i] = "lock" /\ holder = None

\* The lock is taken and the receipt, once more, loaded.
Locked(i, receipt, step) ==
    /\ holder' = i
    /\ pc' = [pc EXCEPT ![i] = step]
    /\ mine' = [mine EXCEPT ![i] = receipt]
    /\ UNCHANGED <<request, base>>

\* Mutant: the receipt does not remember the base of the preview.
UnboundReceipt(i, p) ==
    [digest |-> request[i].digest, status |-> "pending", proposal |-> p, base |-> None]

NewReceipt(i, p) ==
    [digest |-> request[i].digest, status |-> "pending", proposal |-> p, base |-> base[i]]

\* No receipt yet: a fresh id and the base of the preview are reserved.
Reserve(i, p) ==
    /\ AtLock(i)
    /\ Stored(i) = None
    /\ \A r \in Requests : receipts[r] # None => receipts[r].proposal # p
    /\ receipts' = [receipts EXCEPT ![request[i].id] = NewReceipt(i, p)]
    /\ Locked(i, NewReceipt(i, p), "execute")
    /\ UNCHANGED <<records, worktrees, staged, tip>>

\* _verify_receipt_record
Agrees(receipt, record, r) ==
    record.base = receipt.base /\ record.request = r

\* A completed receipt is answered with its proposal.
Reuse(i) ==
    /\ AtLock(i)
    /\ Stored(i) # None
    /\ Stored(i).digest = request[i].digest
    /\ Stored(i).status = "completed"
    /\ staged' = IF Agrees(Stored(i), records[Stored(i).proposal], request[i])
                 THEN staged \ {request[i]}
                 ELSE staged
    /\ Leave(i)
    /\ UNCHANGED <<receipts, records, worktrees, tip>>

\* A different digest, a failed receipt, a failed proposal.
Refuse(i) ==
    /\ AtLock(i)
    /\ Stored(i) # None
    /\ \/ Stored(i).digest # request[i].digest
       \/ Stored(i).status = "failed"
       \/ /\ Stored(i).status = "pending"
          /\ records[Stored(i).proposal] # None
          /\ records[Stored(i).proposal].status = "failed"
    /\ Leave(i)
    /\ UNCHANGED <<disk, tip>>

\* Mutant: a failed proposal is made again.
ResumeAnything(i) ==
    /\ AtLock(i)
    /\ Stored(i) # None
    /\ Stored(i).digest = request[i].digest
    /\ Stored(i).status = "pending"
    /\ LET record == records[Stored(i).proposal]
       IN  Locked(i, Stored(i), IF record = None \/ record.status = "failed" THEN "execute"
                                ELSE IF record.status = "draft" THEN "materialize" ELSE "complete")
    /\ UNCHANGED <<disk, tip>>

\* A pending receipt: the step after the last effect found on disk.
Resume(i) ==
    /\ AtLock(i)
    /\ Stored(i) # None
    /\ Stored(i).digest = request[i].digest
    /\ Stored(i).status = "pending"
    /\ LET record == records[Stored(i).proposal]
       IN  CASE record = None -> Locked(i, Stored(i), "execute")
             [] record # None /\ ~Agrees(Stored(i), record, request[i]) -> Leave(i)
             [] OTHER -> /\ record.status # "failed"
                         /\ Locked(i, Stored(i), IF record.status = "draft" THEN "materialize" ELSE "complete")
    /\ UNCHANGED <<disk, tip>>

-----------------------------------------------------------------------------
(* _execute_submission *)

\* _assert_target_at_receipt: the receipt stays pending if the branch moved.
AssertTarget(i) ==
    /\ pc[i] = "execute"
    /\ IF tip = mine[i].base THEN Goto(i, "stage") ELSE Leave(i)
    /\ UNCHANGED <<disk, tip>>

StageOperations(i) ==
    /\ pc[i] = "stage"
    /\ staged' = staged \cup {request[i]}
    /\ Goto(i, "create_draft")
    /\ UNCHANGED <<receipts, records, worktrees, tip>>

\* Mutant: the draft is made on the tip of the moment, not on the reserved base.
CreateDraftOnTip(i) ==
    /\ pc[i] = "create_draft"
    /\ records' = [records EXCEPT ![mine[i].proposal] =
            [status |-> "draft", base |-> tip, request |-> request[i], outcome |-> "none"]]
    /\ Goto(i, "materialize")
    /\ UNCHANGED <<receipts, worktrees, staged, tip>>

CreateDraft(i) ==
    /\ pc[i] = "create_draft"
    /\ records' = [records EXCEPT ![mine[i].proposal] =
            [status |-> "draft", base |-> mine[i].base, request |-> request[i], outcome |-> "none"]]
    /\ Goto(i, "materialize")
    /\ UNCHANGED <<receipts, worktrees, staged, tip>>

SubmissionFails(i) ==
    /\ pc[i] \in {"stage", "create_draft"}
    /\ "error" \in Faults
    /\ Goto(i, "fail")
    /\ UNCHANGED <<disk, tip>>

-----------------------------------------------------------------------------
(* _materialize_and_complete, with ProposalService.materialize inside *)

\* The proposals lock is taken, the record loaded, the worktree added; git
\* refuses a directory or a branch that is there already.
WorktreeAdd(i) ==
    /\ pc[i] = "materialize"
    /\ IF Mine(i).status # "draft"
       THEN Goto(i, "fail") /\ UNCHANGED worktrees
       ELSE /\ Goto(i, IF mine[i].proposal \in worktrees THEN "undone" ELSE "commit")
            /\ worktrees' = worktrees \cup {mine[i].proposal}
    /\ UNCHANGED <<receipts, records, staged, tip>>

\* Mutant: the timeout is taken for success.
ProposalsSkipped(i) ==
    /\ pc[i] = "materialize"
    /\ "timeout" \in Faults
    /\ Goto(i, "complete")
    /\ UNCHANGED <<disk, tip>>

\* The proposals lock times out before anything is done.
ProposalsBusy(i) ==
    /\ pc[i] = "materialize"
    /\ "timeout" \in Faults
    /\ Goto(i, "fail")
    /\ UNCHANGED <<disk, tip>>

\* The staged content is written and committed, the record saved.
CommitAll(i) ==
    /\ pc[i] = "commit"
    /\ request[i] \in staged
    /\ records' = [records EXCEPT ![mine[i].proposal].status = "materialized",
                                  ![mine[i].proposal].outcome = "materialized"]
    /\ Goto(i, "complete")
    /\ UNCHANGED <<receipts, worktrees, staged, tip>>

\* materialize saves the record as failed and raises.
MaterializeFails(i) ==
    /\ \/ pc[i] = "undone"
       \/ pc[i] = "commit" /\ ("error" \in Faults \/ request[i] \notin staged)
    /\ records' = [records EXCEPT ![mine[i].proposal].status = "failed",
                                  ![mine[i].proposal].outcome = "failed"]
    /\ Goto(i, "fail")
    /\ UNCHANGED <<receipts, worktrees, staged, tip>>

SaveReceipt(i, status) ==
    /\ mine' = [mine EXCEPT ![i].status = status]
    /\ receipts' = [receipts EXCEPT ![request[i].id] = mine'[i]]

Complete(i) ==
    /\ pc[i] = "complete"
    /\ SaveReceipt(i, "completed")
    /\ pc' = [pc EXCEPT ![i] = "clear"]
    /\ UNCHANGED <<records, worktrees, staged, tip, holder, request, base>>

ClearStaging(i) ==
    /\ pc[i] = "clear"
    /\ staged' = staged \ {request[i]}
    /\ Leave(i)
    /\ UNCHANGED <<receipts, records, worktrees, tip>>

\* Mutant: the staged content is cleared on failure, too.
FailAndClear(i) ==
    /\ pc[i] = "fail"
    /\ receipts' = [receipts EXCEPT ![request[i].id] = [mine[i] EXCEPT !.status = "failed"]]
    /\ staged' = staged \ {request[i]}
    /\ Leave(i)
    /\ UNCHANGED <<records, worktrees, tip>>

\* Mutant: the exception leaves the receipt pending.
FailUnrecorded(i) ==
    /\ pc[i] = "fail"
    /\ Leave(i)
    /\ UNCHANGED <<disk, tip>>

\* `except Exception` in submit: the request is failed for good.
Fail(i) ==
    /\ pc[i] = "fail"
    /\ receipts' = [receipts EXCEPT ![request[i].id] = [mine[i] EXCEPT !.status = "failed"]]
    /\ Leave(i)
    /\ UNCHANGED <<records, worktrees, staged, tip>>

Crash(i) ==
    /\ crashes < MaxCrashes
    /\ crashes' = crashes + 1
    /\ pc[i] # "idle"
    /\ Leave(i)
    /\ UNCHANGED <<disk, tip>>

-----------------------------------------------------------------------------
(* Operators and the repository *)

\* The other methods of ProposalService, whatever they do to a proposal.
Review(p) ==
    /\ "review" \in Faults
    /\ records[p] # None
    /\ \E s \in Standings!Reviewed(Standing(p)) :
          /\ records' = [records EXCEPT ![p].status = s.status, ![p].outcome = s.outcome]
          /\ worktrees' = IF s.made THEN worktrees \cup {p} ELSE worktrees \ {p}
    /\ UNCHANGED <<receipts, staged, tip, holder, local>>

TargetMoves ==
    /\ "move" \in Faults
    /\ tip < MaxTip
    /\ tip' = tip + 1
    /\ UNCHANGED <<disk, holder, local>>

-----------------------------------------------------------------------------

\* A submitter that waits for the lock gets it.
Enter(i) ==
    \/ \E p \in Proposals : Reserve(i, p)
    \/ Reuse(i)
    \/ Refuse(i)
    \/ Resume(i)

\* What a submitter does without waiting for anybody.
Proceed(i) ==
    \/ Preview(i)
    \/ PreviewRejects(i)
    \/ AssertTarget(i)
    \/ StageOperations(i)
    \/ CreateDraft(i)
    \/ SubmissionFails(i)
    \/ WorktreeAdd(i)
    \/ ProposalsBusy(i)
    \/ CommitAll(i)
    \/ MaterializeFails(i)
    \/ Complete(i)
    \/ ClearStaging(i)
    \/ Fail(i)

Next ==
    \/ /\ \/ \E i \in Submitters, r \in Requests, d \in Digests : Submit(i, r, d)
          \/ \E i \in Submitters : Enter(i)
          \/ \E i \in Submitters : Proceed(i)
          \/ \E p \in Proposals : Review(p)
          \/ TargetMoves
       /\ UNCHANGED crashes
    \/ \E i \in Submitters : Crash(i)

Spec == Init /\ [][Next]_vars

Pending(r) == receipts[r] # None /\ receipts[r].status = "pending"

\* The agent of a pending request submits it once more.
Retry ==
    /\ \E i \in Submitters, r \in Requests : Pending(r) /\ Submit(i, r, receipts[r].digest)
    /\ UNCHANGED crashes

\* Submitters run on, the polling of the lock succeeds in the end, and agents
\* do not give up on a pending request.
FairSpec ==
    /\ Spec
    /\ \A i \in Submitters :
          /\ WF_vars(Proceed(i) /\ UNCHANGED crashes)
          /\ SF_vars(Enter(i) /\ UNCHANGED crashes)
    /\ SF_vars(Retry)

-----------------------------------------------------------------------------
(* Safety *)

\* One request, one proposal: every record was created for the receipt that
\* reserved its id, with that receipt's digest and base, and no two requests
\* reserve one id.  Retries, concurrent submitters and crashes included, no
\* request ever comes to a second proposal.
OneProposalPerRequest ==
    /\ \A p \in Proposals : records[p] # None =>
          LET r == records[p].request.id
          IN  /\ receipts[r] # None
              /\ receipts[r].proposal = p
              /\ receipts[r].digest = records[p].request.digest
              /\ receipts[r].base = records[p].base
    /\ \A q, r \in Requests :
          /\ receipts[q] # None
          /\ receipts[r] # None
          /\ receipts[q].proposal = receipts[r].proposal
          => q = r

\* A request that is answered as done has a proposal that was materialized, or
\* that an operator rejected first.
CompletedHasProposal ==
    \A r \in Requests : receipts[r] # None /\ receipts[r].status = "completed" =>
        /\ records[receipts[r].proposal] # None
        /\ records[receipts[r].proposal].status \notin {"draft", "failed"}

\* The content of a draft stays staged until it is materialized: a submitter
\* that resumes after a crash finds it.
DraftKeepsContent ==
    \A p \in Proposals : records[p] # None /\ records[p].status = "draft" =>
        records[p].request \in staged

\* A step leaves what the receipt of r reserves, and its outcome if it has one.
ReceiptKept(r) ==
    /\ receipts'[r] # None
    /\ receipts'[r].proposal = receipts[r].proposal
    /\ receipts'[r].digest = receipts[r].digest
    /\ receipts'[r].base = receipts[r].base
    /\ receipts[r].status # "pending" => receipts'[r] = receipts[r]

\* What a receipt reserves is reserved for good, and its outcome is final: no
\* copy of it in the hands of another submitter is ever saved over it.
ReceiptIsFrozen == [][\A r \in Requests : receipts[r] # None => ReceiptKept(r)]_vars

\* What the files say, as RequestLedger has it.
Reserved == [r \in Requests |->
    IF receipts[r] = None THEN None
    ELSE [proposal |-> receipts[r].proposal, digest |-> receipts[r].digest]]

Outcome == [r \in Requests |-> IF receipts[r] = None THEN "pending" ELSE receipts[r].status]

Created == [p \in Proposals |-> IF records[p] = None THEN None ELSE records[p].request]

Ledger == INSTANCE RequestLedger WITH
    reserved <- Reserved, outcome <- Outcome, created <- Created

\* What submit promises to agents, whatever fails, dies, overlaps or is tried
\* again in it: reserve, create and finish, once per request, in this order.
ImplementsRequestLedger == Ledger!Spec

\* create_draft and materialize, however often a submission is cut short and
\* resumed, are called once each and in this order, as ProposalStandings has it.
ImplementsStandings == Standings!Spec

-----------------------------------------------------------------------------
(* The inductive invariant behind the safety properties *)

\* The lock is held exactly while a receipt is worked on, and what the holder
\* has in its hands is what is stored: nobody else saves receipts.
LockOK == \A i \in Submitters : holder = i <=> pc[i] \in LockedSteps

CopyOK(i) ==
    /\ pc[i] # "idle" => request[i] # None
    /\ pc[i] \in LockedSteps =>
          /\ mine[i] # None
          /\ Stored(i) = mine[i]
          /\ mine[i].digest = request[i].digest
          /\ mine[i].status = IF pc[i] = "clear" THEN "completed" ELSE "pending"

\* What the holder knows of its proposal's record at each step.
RecordOK(i) ==
    /\ pc[i] \in {"execute", "stage", "create_draft"} => Mine(i) = None
    /\ pc[i] = "create_draft" => request[i] \in staged
    /\ pc[i] \in {"materialize", "commit", "undone", "complete"} => Mine(i) # None
    /\ pc[i] = "complete" => Mine(i).status \notin {"draft", "failed"}

SubmittersOK == \A i \in Submitters : CopyOK(i) /\ RecordOK(i)

IInv ==
    /\ TypeOK
    /\ LockOK
    /\ SubmittersOK
    /\ OneProposalPerRequest
    /\ CompletedHasProposal
    /\ DraftKeepsContent

-----------------------------------------------------------------------------
(* Liveness *)

\* As long as the branch stays at the reserved base and materialize has not
\* failed, retrying a pending request brings it to an end.
PendingSettles ==
    \A r \in Requests : Pending(r) ~>
        \/ ~Pending(r)
        \/ tip # receipts[r].base
        \/ /\ records[receipts[r].proposal] # None
           /\ records[receipts[r].proposal].status = "failed"

-----------------------------------------------------------------------------
(* A statement of the documentation that the code does not keep *)

\* docs/agent-intake.md: incomplete materialization resumes from the receipt.
\* When nothing but crashes goes wrong, no request ends as failed.
CrashesResume == \A r \in Requests : receipts[r] # None => receipts[r].status # "failed"
=============================================================================
