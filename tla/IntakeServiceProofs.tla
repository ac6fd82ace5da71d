-------------------------- MODULE IntakeServiceProofs --------------------------
(****************************************************************************)
(* What holds of IntakeService for every set of submitters, requests,       *)
(* payloads and proposal ids, every fault and every number of crashes.      *)
(*                                                                          *)
(* IInv is proved inductive: who holds the lock has in its hands what is    *)
(* stored (LockOK, CopyOK), so what it found on disk when it resumed is     *)
(* still there when it acts on it (RecordOK), and the safety properties     *)
(* follow step by step.                                                     *)
(****************************************************************************)
EXTENDS IntakeService, TLAPS

\* The values a submitter works with have their types.
LEMMA SubmitterFacts ==
    ASSUME TypeOK, SubmittersOK, NEW i \in Submitters, pc[i] # "idle"
    PROVE  /\ request[i] \in Request /\ request[i] # None
           /\ request[i].id \in Requests /\ request[i].digest \in Digests
           /\ Stored(i) \in Receipt \cup {None}
           /\ mine[i] \in Receipt \cup {None}
           /\ mine[i] # None => /\ mine[i] \in Receipt
                                /\ mine[i].proposal \in Proposals
                                /\ Mine(i) \in Record \cup {None}
  <1>1. request[i] \in Request /\ request[i] # None
    BY DEF TypeOK, SubmittersOK, CopyOK
  <1>2. request[i].id \in Requests /\ request[i].digest \in Digests
    BY <1>1 DEF Request
  <1> QED
    BY <1>1, <1>2 DEF TypeOK, Stored, Mine, Receipt

\* Whoever holds the lock has the stored receipt, and nobody else is at a
\* locked step.
LEMMA HolderFacts ==
    ASSUME IInv, NEW i \in Submitters, pc[i] \in LockedSteps
    PROVE  /\ request[i] \in Request /\ request[i].id \in Requests
           /\ mine[i] \in Receipt /\ mine[i].proposal \in Proposals
           /\ mine[i].status \in {"pending", "completed"}
           /\ mine[i].digest = request[i].digest
           /\ receipts[request[i].id] = mine[i] /\ mine[i] # None
           /\ Mine(i) \in Record \cup {None}
           /\ holder = i
           /\ \A j \in Submitters : j # i => pc[j] \notin LockedSteps
  <1>1. pc[i] # "idle"
    BY DEF LockedSteps
  <1> QED
    BY <1>1, SubmitterFacts DEF IInv, SubmittersOK, CopyOK, LockOK, Stored, LockedSteps

\* The record of a request's own proposal was created for that request.
LEMMA OwnRecord ==
    ASSUME IInv, NEW i \in Submitters, pc[i] \in LockedSteps, NEW p \in Proposals,
           records[p] # None, p = mine[i].proposal \/ records[p].request.id = request[i].id
    PROVE  p = mine[i].proposal /\ records[p].request = request[i]
  <1>1. /\ receipts[request[i].id] = mine[i] /\ mine[i] # None
        /\ request[i] \in Request /\ request[i].id \in Requests
        /\ mine[i].digest = request[i].digest
    BY HolderFacts
  <1>2. records[p] \in Record /\ records[p].request \in Request /\ records[p].request.id \in Requests
    BY DEF IInv, TypeOK, Record, Request
  <1>3. records[p].request.id = request[i].id
    BY <1>1, <1>2 DEF IInv, OneProposalPerRequest
  <1>4. p = mine[i].proposal /\ records[p].request.digest = request[i].digest
    BY <1>1, <1>3 DEF IInv, OneProposalPerRequest
  <1> QED
    BY <1>1, <1>2, <1>3, <1>4 DEF Request

\* At first nothing is stored and nobody submits.
LEMMA InitInv == Init => IInv
  BY BoundsAssumption, NoneAssumption, NoneIsNoValue DEF Init, IInv, TypeOK, LockOK, SubmittersOK, CopyOK,
     RecordOK, OneProposalPerRequest, CompletedHasProposal, DraftKeepsContent, Commit, Steps, LockedSteps

\* A submitter that leaves, with nothing written, leaves the rest as it is.
LEMMA LeaveKeeps ==
    ASSUME IInv, NEW i \in Submitters, Leave(i), UNCHANGED <<disk, tip>>, crashes' \in 0..MaxCrashes
    PROVE  IInv'
  <1>1. TypeOK'
    BY BoundsAssumption DEF IInv, TypeOK, Leave, disk, Steps, Commit
  <1>2. LockOK'
    BY NoneAssumption DEF IInv, TypeOK, LockOK, Leave, LockedSteps
  <1>3. SubmittersOK'
    <2> SUFFICES ASSUME NEW j \in Submitters PROVE (CopyOK(j) /\ RecordOK(j))'
      BY DEF SubmittersOK
    <2>1. CASE j = i
      BY <2>1 DEF IInv, TypeOK, Leave, CopyOK, RecordOK, LockedSteps
    <2>2. CASE j # i
      BY <2>2 DEF IInv, TypeOK, Leave, disk, SubmittersOK, CopyOK, RecordOK, Stored, Mine
    <2> QED
      BY <2>1, <2>2
  <1> QED
    BY <1>1, <1>2, <1>3 DEF IInv, disk, OneProposalPerRequest, CompletedHasProposal, DraftKeepsContent

\* A submitter that goes on under the lock, with nothing written, must find
\* what the next step relies on.
LEMMA GotoKeeps ==
    ASSUME IInv, NEW i \in Submitters, NEW step \in LockedSteps, pc[i] \in LockedSteps,
           pc[i] # "clear", step # "clear",
           Goto(i, step), UNCHANGED <<disk, tip, crashes>>, RecordOK(i)'
    PROVE  IInv'
  <1>1. TypeOK'
    BY DEF IInv, TypeOK, Goto, disk, Steps
  <1>2. LockOK'
    BY DEF IInv, TypeOK, LockOK, Goto
  <1>3. SubmittersOK'
    <2> SUFFICES ASSUME NEW j \in Submitters PROVE (CopyOK(j) /\ RecordOK(j))'
      BY DEF SubmittersOK
    <2>1. CASE j = i
      <3>1. CopyOK(i)
        BY DEF IInv, SubmittersOK
      <3>2. pc'[i] = step /\ UNCHANGED <<request, mine, receipts>>
        BY DEF IInv, TypeOK, Goto, disk
      <3> QED
        BY <2>1, <3>1, <3>2 DEF CopyOK, Stored, LockedSteps
    <2>2. CASE j # i
      BY <2>2 DEF IInv, TypeOK, Goto, disk, SubmittersOK, CopyOK, RecordOK, Stored, Mine
    <2> QED
      BY <2>1, <2>2
  <1> QED
    BY <1>1, <1>2, <1>3 DEF IInv, disk, OneProposalPerRequest, CompletedHasProposal, DraftKeepsContent

\* A step of the holder that writes only what is not a receipt.
LEMMA OthersKeep ==
    ASSUME IInv, NEW i \in Submitters, pc[i] \in LockedSteps, NEW j \in Submitters, j # i,
           pc'[j] = pc[j], request'[j] = request[j], mine'[j] = mine[j]
    PROVE  (CopyOK(j) /\ RecordOK(j))'
  <1>1. pc[j] \notin LockedSteps /\ CopyOK(j)
    BY HolderFacts DEF IInv, SubmittersOK
  <1> QED
    BY <1>1 DEF CopyOK, RecordOK, LockedSteps

\* The receipt of a request is written for the first time.
LEMMA ReserveKeeps ==
    ASSUME IInv, NEW i \in Submitters, NEW p \in Proposals, Reserve(i, p), UNCHANGED crashes
    PROVE  IInv'
  <1> DEFINE r == request[i].id
  <1>1. /\ pc[i] = "lock" /\ holder = None /\ receipts[r] = None
        /\ request[i] \in Request /\ r \in Requests /\ request[i] # None
        /\ NewReceipt(i, p) \in Receipt /\ NewReceipt(i, p) # None
    <2>1. pc[i] = "lock" /\ holder = None /\ receipts[r] = None
      BY DEF Reserve, AtLock, Stored
    <2>2. request[i] \in Request /\ r \in Requests /\ request[i].digest \in Digests /\ request[i] # None
      BY <2>1, SubmitterFacts DEF IInv
    <2>3. NewReceipt(i, p) \in Receipt
      BY <2>2 DEF NewReceipt, Receipt, IInv, TypeOK
    <2> QED
      BY <2>1, <2>2, <2>3, NoneIsNoValue
  <1>2. receipts' = [receipts EXCEPT ![r] = NewReceipt(i, p)] /\ UNCHANGED <<records, worktrees, staged>>
    BY DEF Reserve
  <1>3. TypeOK'
    BY <1>1, <1>2 DEF Reserve, Locked, IInv, TypeOK, Steps, LockedSteps
  <1>4. records[p] = None
    <2> SUFFICES ASSUME records[p] # None PROVE FALSE
      OBVIOUS
    <2>1. records[p].request.id \in Requests
      BY DEF IInv, TypeOK, Record, Request
    <2> QED
      BY <2>1 DEF Reserve, IInv, OneProposalPerRequest
  <1>5. LockOK'
    BY <1>1, NoneAssumption DEF Reserve, Locked, IInv, TypeOK, LockOK, LockedSteps
  <1>6. SubmittersOK'
    <2> SUFFICES ASSUME NEW j \in Submitters PROVE (CopyOK(j) /\ RecordOK(j))'
      BY DEF SubmittersOK
    <2>1. CASE j = i
      <3>1. /\ pc'[i] = "execute" /\ request'[i] = request[i] /\ mine'[i] = NewReceipt(i, p)
            /\ receipts'[r] = NewReceipt(i, p) /\ records' = records
        BY <1>1, <1>2 DEF Reserve, Locked, IInv, TypeOK
      <3> QED
        BY <1>1, <1>4, <2>1, <3>1 DEF CopyOK, RecordOK, NewReceipt, Stored, Mine, LockedSteps
    <2>2. CASE j # i
      <3>1. pc'[j] = pc[j] /\ request'[j] = request[j] /\ mine'[j] = mine[j]
        BY <2>2 DEF Reserve, Locked, IInv, TypeOK
      <3>2. pc[j] \notin LockedSteps /\ CopyOK(j)
        BY <1>1, NoneAssumption DEF IInv, LockOK, SubmittersOK
      <3> QED
        BY <3>1, <3>2 DEF CopyOK, RecordOK, LockedSteps
    <2> QED
      BY <2>1, <2>2
  <1>7. \A q \in Requests : q # r => receipts'[q] = receipts[q]
    BY <1>2 DEF IInv, TypeOK
  <1>8. receipts'[r] = NewReceipt(i, p) /\ NewReceipt(i, p).proposal = p /\ NewReceipt(i, p).status = "pending"
    BY <1>1, <1>2 DEF IInv, TypeOK, NewReceipt
  <1>9. OneProposalPerRequest'
    <2>1. ASSUME NEW q \in Proposals, records'[q] # None
          PROVE  LET s == records'[q].request.id
                 IN  /\ receipts'[s] # None
                     /\ receipts'[s].proposal = q
                     /\ receipts'[s].digest = records'[q].request.digest
                     /\ receipts'[s].base = records'[q].base
      <3>1. records[q] # None /\ records' = records /\ records[q].request.id \in Requests
        BY <1>2, <2>1 DEF IInv, TypeOK, Record, Request
      <3>2. records[q].request.id # r
        BY <1>1, <3>1 DEF IInv, OneProposalPerRequest
      <3> QED
        BY <1>7, <3>1, <3>2 DEF IInv, OneProposalPerRequest
    <2>2. ASSUME NEW q \in Requests, NEW s \in Requests, receipts'[q] # None, receipts'[s] # None,
                 receipts'[q].proposal = receipts'[s].proposal
          PROVE  q = s
      BY <1>7, <1>8, <2>2 DEF Reserve, IInv, OneProposalPerRequest
    <2> QED
      BY <2>1, <2>2 DEF OneProposalPerRequest
  <1>10. CompletedHasProposal'
    BY <1>2, <1>7, <1>8 DEF IInv, CompletedHasProposal
  <1>11. DraftKeepsContent'
    BY <1>2 DEF IInv, DraftKeepsContent
  <1> QED
    BY <1>3, <1>5, <1>6, <1>9, <1>10, <1>11 DEF IInv

\* The holder writes the record of its own proposal, for its own request and on
\* the reserved base.
LEMMA RecordSaved ==
    ASSUME IInv, NEW i \in Submitters, pc[i] \in LockedSteps, pc[i] # "clear",
           NEW rr \in Record, rr.request = request[i], rr.base = mine[i].base,
           rr.status = "draft" => request[i] \in staged,
           records' = [records EXCEPT ![mine[i].proposal] = rr], UNCHANGED <<receipts, staged>>
    PROVE  (OneProposalPerRequest /\ CompletedHasProposal /\ DraftKeepsContent)'
  <1> DEFINE p == mine[i].proposal
  <1>1. /\ p \in Proposals /\ request[i].id \in Requests
        /\ receipts[request[i].id] = mine[i] /\ mine[i] # None
        /\ mine[i].digest = request[i].digest /\ mine[i].status = "pending"
    BY HolderFacts DEF IInv, SubmittersOK, CopyOK
  <1>2. records'[p] = rr /\ \A q \in Proposals : q # p => records'[q] = records[q]
    BY <1>1 DEF IInv, TypeOK
  <1>3. OneProposalPerRequest'
    BY <1>1, <1>2 DEF IInv, OneProposalPerRequest
  <1>4. CompletedHasProposal'
    <2> SUFFICES ASSUME NEW q \in Requests, receipts[q] # None, receipts[q].status = "completed"
                 PROVE  /\ records'[receipts[q].proposal] # None
                        /\ records'[receipts[q].proposal].status \notin {"draft", "failed"}
      BY DEF CompletedHasProposal
    <2>1. receipts[q].proposal \in Proposals
      BY DEF IInv, TypeOK, Receipt
    <2>2. receipts[q].proposal # p
      BY <1>1 DEF IInv, OneProposalPerRequest
    <2> QED
      BY <1>2, <2>1, <2>2 DEF IInv, CompletedHasProposal
  <1>5. DraftKeepsContent'
    BY <1>2 DEF IInv, DraftKeepsContent
  <1> QED
    BY <1>3, <1>4, <1>5

\* The holder saves the outcome in its receipt.
LEMMA ReceiptSaved ==
    ASSUME IInv, NEW i \in Submitters, pc[i] \in LockedSteps, NEW s \in {"completed", "failed"},
           s = "completed" => Mine(i) # None /\ Mine(i).status \notin {"draft", "failed"},
           receipts' = [receipts EXCEPT ![request[i].id] = [mine[i] EXCEPT !.status = s]],
           UNCHANGED <<records, staged>>
    PROVE  (OneProposalPerRequest /\ CompletedHasProposal /\ DraftKeepsContent)'
  <1> DEFINE r == request[i].id
             new == [mine[i] EXCEPT !.status = s]
  <1>1. r \in Requests /\ mine[i] \in Receipt /\ receipts[r] = mine[i] /\ mine[i] # None
    BY HolderFacts
  <1>2. /\ new \in Receipt /\ new # None
        /\ new.proposal = mine[i].proposal /\ new.digest = mine[i].digest
        /\ new.base = mine[i].base /\ new.status = s
    BY <1>1, NoneIsNoValue DEF Receipt
  <1> HIDE DEF new
  <1>3. receipts'[r] = new /\ \A q \in Requests : q # r => receipts'[q] = receipts[q]
    BY <1>1 DEF new, IInv, TypeOK
  <1>4. OneProposalPerRequest'
    <2>1. \A q \in Requests :
             /\ receipts'[q] # None <=> receipts[q] # None
             /\ receipts[q] # None => /\ receipts'[q].proposal = receipts[q].proposal
                                      /\ receipts'[q].digest = receipts[q].digest
                                      /\ receipts'[q].base = receipts[q].base
      BY <1>1, <1>2, <1>3
    <2>2. \A q \in Proposals : records[q] # None => records[q].request.id \in Requests
      BY DEF IInv, TypeOK, Record, Request
    <2> QED
      BY <2>1, <2>2 DEF IInv, OneProposalPerRequest
  <1>5. CompletedHasProposal'
    BY <1>1, <1>2, <1>3 DEF IInv, CompletedHasProposal, Mine
  <1>6. DraftKeepsContent'
    BY DEF IInv, DraftKeepsContent
  <1> QED
    BY <1>4, <1>5, <1>6

\* Staged content goes when its request is completed.
LEMMA StagingCleared ==
    ASSUME IInv, NEW q \in Request, receipts[q.id] # None, receipts[q.id].status = "completed",
           staged' = staged \ {q}, UNCHANGED <<receipts, records>>
    PROVE  (OneProposalPerRequest /\ CompletedHasProposal /\ DraftKeepsContent)'
  <1>1. (OneProposalPerRequest /\ CompletedHasProposal)'
    BY DEF IInv, OneProposalPerRequest, CompletedHasProposal
  <1>2. DraftKeepsContent'
    <2> SUFFICES ASSUME NEW p \in Proposals, records[p] # None, records[p].status = "draft"
                 PROVE  records[p].request # q
      BY DEF IInv, DraftKeepsContent
    <2>1. records[p].request = q => receipts[q.id].proposal = p
      BY DEF IInv, OneProposalPerRequest
    <2>2. q.id \in Requests
      BY DEF Request
    <2> QED
      BY <2>1, <2>2 DEF IInv, CompletedHasProposal
  <1> QED
    BY <1>1, <1>2

\* Whatever reviewers do to a proposal, its record keeps its request and base
\* and does not become a draft or a failed one that it was not.
LEMMA ReviewSaves ==
    ASSUME IInv, NEW p \in Proposals, Review(p)
    PROVE  /\ records[p] \in Record
           /\ \E status \in {records[p].status, "materialized", "reviewed", "rejected"},
                 outcome \in {"none", "materialized", "failed"} :
                 records' = [records EXCEPT ![p].status = status, ![p].outcome = outcome]
  <1>1. records[p] \in Record /\ records[p] # None
    BY DEF Review, IInv, TypeOK
  <1>2. PICK s \in Standings!Reviewed(Standing(p)) :
           records' = [records EXCEPT ![p].status = s.status, ![p].outcome = s.outcome]
    BY DEF Review
  <1>3. /\ Standing(p).status = records[p].status
        /\ Standing(p).outcome = records[p].outcome
        /\ records[p].outcome \in {"none", "materialized", "failed"}
    BY <1>1 DEF Standing, Record
  <1> DEFINE old == Standing(p)
  <1> HIDE DEF old
  <1>4. old = [status |-> old.status, outcome |-> old.outcome, made |-> old.made]
    BY DEF old, Standing
  <1> DEFINE Next3 == Standings!Rejected(old) \cup Standings!Judged(old) \cup Standings!Cleaned(old)
  <1>5. \A t \in Next3 :
           /\ t.status \in {old.status, "materialized", "reviewed", "rejected"}
           /\ t.outcome = old.outcome
           /\ t = [status |-> t.status, outcome |-> t.outcome, made |-> t.made]
    <2> SUFFICES ASSUME NEW t \in Next3
                 PROVE  /\ t.status \in {old.status, "materialized", "reviewed", "rejected"}
                        /\ t.outcome = old.outcome
                        /\ t = [status |-> t.status, outcome |-> t.outcome, made |-> t.made]
      OBVIOUS
    <2>1. CASE t \in Standings!Rejected(old)
      BY <1>4, <2>1 DEF Standings!Rejected
    <2>2. CASE t \in Standings!Judged(old)
      BY <1>4, <2>2 DEF Standings!Judged
    <2>3. CASE t \in Standings!Cleaned(old)
      BY <1>4, <2>3 DEF Standings!Cleaned
    <2> QED
      BY <2>1, <2>2, <2>3
  <1>6. \/ s \in Next3
        \/ \E t \in Next3 : s = [t EXCEPT !.outcome = "none"]
    <2> HIDE DEF Next3
    <2>1. s \in Next3 \cup UNION {Standings!Forgotten(t) : t \in Next3}
      BY <1>2 DEF Standings!Reviewed, old, Next3
    <2> QED
      BY <2>1 DEF Standings!Forgotten
  <1>7. /\ s.status \in {old.status, "materialized", "reviewed", "rejected"}
        /\ s.outcome \in {old.outcome, "none"}
    BY <1>5, <1>6
  <1> QED
    BY <1>1, <1>2, <1>3, <1>7 DEF old

LEMMA ReviewKeeps ==
    ASSUME IInv, NEW p \in Proposals, Review(p), UNCHANGED crashes
    PROVE  IInv'
  <1>1. records[p] \in Record /\ UNCHANGED <<receipts, staged, tip, holder, local, crashes>>
        /\ worktrees' \subseteq Proposals
    <2>1. \E s \in Standings!Reviewed(Standing(p)) :
             worktrees' = IF s.made THEN worktrees \cup {p} ELSE worktrees \ {p}
      BY DEF Review
    <2> QED
      BY <2>1, ReviewSaves DEF Review, IInv, TypeOK
  <1>2. PICK s \in {records[p].status, "materialized", "reviewed", "rejected"},
             o \in {"none", "materialized", "failed"} :
           records' = [records EXCEPT ![p].status = s, ![p].outcome = o]
    BY ReviewSaves
  <1> QED
    <2> DEFINE rr == [records[p] EXCEPT !.status = s, !.outcome = o]
    <2>1. records' = [records EXCEPT ![p] = rr]
      BY <1>1, <1>2 DEF IInv, TypeOK
    <2>2. rr \in Record /\ rr # None /\ rr.status = s /\ rr.base = records[p].base /\ rr.request = records[p].request
      BY <1>1, NoneIsNoValue DEF Record
    <2>3. records[p] # None
      BY DEF Review
    <2>4. records'[p] = rr /\ \A q \in Proposals : q # p => records'[q] = records[q]
      BY <2>1 DEF IInv, TypeOK
    <2> HIDE DEF rr
    <2>5. TypeOK'
      <3>1. records' \in [Proposals -> Record \cup {None}]
        BY <2>1, <2>2, <2>4 DEF IInv, TypeOK
      <3> QED
        BY <1>1, <3>1 DEF IInv, TypeOK, local
    <2>6. LockOK'
      BY <1>1 DEF IInv, LockOK, local
    <2>7. SubmittersOK'
      <3> SUFFICES ASSUME NEW j \in Submitters PROVE (CopyOK(j) /\ RecordOK(j))'
        BY DEF SubmittersOK
      <3>1. CopyOK(j)'
        BY <1>1 DEF IInv, SubmittersOK, CopyOK, Stored, local
      <3>0. pc' = pc /\ request' = request /\ mine' = mine /\ staged' = staged
        BY <1>1 DEF local
      <3>2. CASE pc[j] \notin LockedSteps
        BY <3>0, <3>1, <3>2 DEF RecordOK, LockedSteps
      <3>3. CASE pc[j] \in LockedSteps
        <4>1. mine[j].proposal \in Proposals
          BY <3>3, HolderFacts
        <4>2. (Mine(j)' = None <=> Mine(j) = None) /\ (Mine(j) # None => Mine(j)'.status \in {Mine(j).status, "materialized", "reviewed", "rejected"})
          BY <2>2, <2>3, <2>4, <3>0, <4>1 DEF Mine
        <4>3. RecordOK(j)
          BY DEF IInv, SubmittersOK
        <4> QED
          BY <3>0, <3>1, <4>2, <4>3 DEF RecordOK
      <3> QED
        BY <3>1, <3>2, <3>3
    <2>8. OneProposalPerRequest'
      BY <1>1, <2>2, <2>3, <2>4 DEF IInv, OneProposalPerRequest
    <2>9. CompletedHasProposal'
      <3>1. \A q \in Requests : receipts[q] # None => receipts[q].proposal \in Proposals
        BY DEF IInv, TypeOK, Receipt
      <3> QED
        BY <1>1, <2>2, <2>4, <3>1 DEF IInv, CompletedHasProposal
    <2>10. DraftKeepsContent'
      BY <1>1, <2>2, <2>3, <2>4 DEF IInv, DraftKeepsContent
    <2> QED
      BY <2>5, <2>6, <2>7, <2>8, <2>9, <2>10 DEF IInv

-----------------------------------------------------------------------------
(* The steps of a submitter *)

\* What is left to show of a step of the holder that stays under the lock, once
\* its types and the three safety properties are known.
LEMMA HolderKeeps ==
    ASSUME IInv, NEW i \in Submitters, NEW step \in LockedSteps, pc[i] \in LockedSteps,
           pc' = [pc EXCEPT ![i] = step], UNCHANGED <<holder, request, base, tip, crashes>>,
           \A j \in Submitters : j # i => mine'[j] = mine[j],
           TypeOK', CopyOK(i)', RecordOK(i)',
           (OneProposalPerRequest /\ CompletedHasProposal /\ DraftKeepsContent)'
    PROVE  IInv'
  <1>1. LockOK'
    BY DEF IInv, TypeOK, LockOK
  <1>2. SubmittersOK'
    <2> SUFFICES ASSUME NEW j \in Submitters, j # i PROVE (CopyOK(j) /\ RecordOK(j))'
      BY DEF SubmittersOK
    <2> QED
      BY OthersKeep DEF IInv, TypeOK
  <1> QED
    BY <1>1, <1>2 DEF IInv

\* What is left to show of a step with which the holder leaves.
LEMMA HolderLeaves ==
    ASSUME IInv, NEW i \in Submitters, pc[i] \in LockedSteps, Leave(i), UNCHANGED <<tip, crashes>>,
           (OneProposalPerRequest /\ CompletedHasProposal /\ DraftKeepsContent)',
           receipts' \in [Requests -> Receipt \cup {None}], records' = records,
           worktrees' = worktrees, staged' \subseteq Request
    PROVE  IInv'
  <1>1. TypeOK'
    BY BoundsAssumption DEF IInv, TypeOK, Leave, Steps, Commit
  <1>2. LockOK'
    BY NoneAssumption DEF IInv, TypeOK, LockOK, Leave, LockedSteps
  <1>3. SubmittersOK'
    <2> SUFFICES ASSUME NEW j \in Submitters PROVE (CopyOK(j) /\ RecordOK(j))'
      BY DEF SubmittersOK
    <2>1. CASE j = i
      BY <2>1 DEF IInv, TypeOK, Leave, CopyOK, RecordOK, LockedSteps
    <2>2. CASE j # i
      BY <2>2, OthersKeep DEF IInv, TypeOK, Leave
    <2> QED
      BY <2>1, <2>2
  <1> QED
    BY <1>1, <1>2, <1>3 DEF IInv

\* Submit and Preview write nothing.
LEMMA PreviewKeeps ==
    ASSUME IInv, NEW i \in Submitters, UNCHANGED crashes,
           (\E r \in Requests, d \in Digests : Submit(i, r, d)) \/ Preview(i) \/ PreviewRejects(i)
    PROVE  IInv'
  <1>1. CASE Leave(i) /\ UNCHANGED <<disk, tip>>
    BY <1>1, LeaveKeeps DEF IInv, TypeOK
  <1>2. ASSUME NEW step \in {"preview", "lock"}, pc[i] \in {"idle", "preview"},
               pc' = [pc EXCEPT ![i] = step], UNCHANGED <<disk, tip, holder>>,
               request'[i] # None, TypeOK',
               \A j \in Submitters : j # i => request'[j] = request[j] /\ mine'[j] = mine[j]
        PROVE  IInv'
    <2>1. LockOK'
      BY <1>2 DEF IInv, TypeOK, LockOK, LockedSteps
    <2>2. SubmittersOK'
      <3> SUFFICES ASSUME NEW j \in Submitters PROVE (CopyOK(j) /\ RecordOK(j))'
        BY DEF SubmittersOK
      <3>1. CASE j = i
        BY <1>2, <3>1 DEF IInv, TypeOK, CopyOK, RecordOK, LockedSteps
      <3>2. CASE j # i
        BY <1>2, <3>2 DEF IInv, TypeOK, SubmittersOK, CopyOK, RecordOK, Stored, Mine, disk
      <3> QED
        BY <3>1, <3>2
    <2> QED
      BY <1>2, <2>1, <2>2 DEF IInv, disk, OneProposalPerRequest, CompletedHasProposal, DraftKeepsContent
  <1>3. ASSUME NEW r \in Requests, NEW d \in Digests, Submit(i, r, d)
        PROVE  IInv'
    <2>1. [id |-> r, digest |-> d] \in Request /\ [id |-> r, digest |-> d] # None
      BY NoneIsNoValue DEF Request
    <2>2. TypeOK'
      BY <1>3, <2>1 DEF Submit, IInv, TypeOK, disk, Steps
    <2> QED
      BY <1>2, <1>3, <2>1, <2>2 DEF Submit, IInv, TypeOK
  <1>4. CASE Preview(i) /\ ~Leave(i)
    <2>1. /\ pc[i] = "preview" /\ pc' = [pc EXCEPT ![i] = "lock"]
          /\ base' = [base EXCEPT ![i] = IF mine[i] = None THEN tip ELSE mine[i].base]
          /\ UNCHANGED <<holder, request, mine, disk, tip>>
      BY <1>4 DEF Preview
    <2>2. request[i] # None
      BY <2>1 DEF IInv, SubmittersOK, CopyOK
    <2>3. (IF mine[i] = None THEN tip ELSE mine[i].base) \in Commit
      BY DEF IInv, TypeOK, Receipt
    <2>4. TypeOK'
      BY <2>1, <2>3 DEF IInv, TypeOK, disk, Steps
    <2> QED
      BY <1>2, <2>1, <2>2, <2>4
  <1> QED
    BY <1>1, <1>3, <1>4 DEF Preview, PreviewRejects

\* Under the lock, a retry is told what is stored, or resumes it.
LEMMA EnterKeeps ==
    ASSUME IInv, NEW i \in Submitters, Enter(i), UNCHANGED crashes
    PROVE  IInv'
  <1>1. CASE \E p \in Proposals : Reserve(i, p)
    BY <1>1, ReserveKeeps
  <1>2. CASE Refuse(i)
    BY <1>2, LeaveKeeps DEF Refuse, IInv, TypeOK
  <1>3. CASE Reuse(i)
    <2>1. /\ pc[i] = "lock" /\ request[i] \in Request
          /\ receipts[request[i].id] # None /\ receipts[request[i].id].status = "completed"
          /\ staged' = staged \/ staged' = staged \ {request[i]}
          /\ UNCHANGED <<receipts, records, worktrees, tip>>
      BY <1>3, SubmitterFacts DEF Reuse, AtLock, Stored, IInv
    <2>2. (OneProposalPerRequest /\ CompletedHasProposal /\ DraftKeepsContent)'
      <3>1. CASE staged' = staged
        BY <2>1, <3>1 DEF IInv, OneProposalPerRequest, CompletedHasProposal, DraftKeepsContent
      <3> QED
        BY <2>1, <3>1, StagingCleared
    <2>3. Leave(i)
      BY <1>3 DEF Reuse
    <2>4. TypeOK'
      BY <2>1, <2>3, BoundsAssumption DEF IInv, TypeOK, Leave, Steps, Commit
    <2>5. LockOK'
      BY <2>3, NoneAssumption DEF IInv, TypeOK, LockOK, Leave, LockedSteps
    <2>6. SubmittersOK'
      <3> SUFFICES ASSUME NEW j \in Submitters PROVE (CopyOK(j) /\ RecordOK(j))'
        BY DEF SubmittersOK
      <3>1. CASE j = i
        BY <2>3, <3>1 DEF IInv, TypeOK, Leave, CopyOK, RecordOK, LockedSteps
      <3>2. CASE j # i
        <4>1. pc[j] \notin LockedSteps /\ CopyOK(j)
          BY <1>3, NoneAssumption DEF Reuse, AtLock, IInv, LockOK, SubmittersOK
        <4>2. pc'[j] = pc[j] /\ request'[j] = request[j]
          BY <2>3, <3>2 DEF Leave, IInv, TypeOK
        <4> QED
          BY <4>1, <4>2 DEF CopyOK, RecordOK, LockedSteps
      <3> QED
        BY <3>1, <3>2
    <2> QED
      BY <2>2, <2>4, <2>5, <2>6 DEF IInv
  <1>4. CASE Resume(i)
    <2>1. CASE Leave(i)
      BY <1>4, <2>1, LeaveKeeps DEF Resume, IInv, TypeOK
    <2>2. CASE ~Leave(i)
      <3> DEFINE record == records[Stored(i).proposal]
      <3>1. /\ pc[i] = "lock" /\ holder = None /\ Stored(i) # None
            /\ Stored(i).digest = request[i].digest /\ Stored(i).status = "pending"
            /\ UNCHANGED <<disk, tip>>
        BY <1>4 DEF Resume, AtLock
      <3>2. PICK step \in {"execute", "materialize", "complete"} :
               /\ Locked(i, Stored(i), step)
               /\ step = "execute" => record = None
               /\ step # "execute" => record # None
               /\ step = "complete" => record.status \notin {"draft", "failed"}
        BY <1>4, <2>2 DEF Resume
      <3>3. request[i] # None /\ request[i].id \in Requests /\ Stored(i) \in Receipt
        BY <3>1, SubmitterFacts DEF IInv
      <3>4. TypeOK'
        BY <3>1, <3>2, <3>3 DEF Locked, disk, IInv, TypeOK, Steps, LockedSteps
      <3>5. LockOK'
        BY <3>1, <3>2, NoneAssumption DEF Locked, IInv, TypeOK, LockOK, LockedSteps
      <3>6. SubmittersOK'
        <4> SUFFICES ASSUME NEW j \in Submitters PROVE (CopyOK(j) /\ RecordOK(j))'
          BY DEF SubmittersOK
        <4>1. CASE j = i
          <5>1. /\ pc'[i] = step /\ request'[i] = request[i] /\ mine'[i] = Stored(i)
                /\ UNCHANGED <<receipts, records, staged>>
            BY <3>1, <3>2 DEF Locked, disk, IInv, TypeOK
          <5> QED
            BY <3>1, <3>2, <3>3, <4>1, <5>1 DEF CopyOK, RecordOK, Stored, Mine, LockedSteps
        <4>2. CASE j # i
          <5>1. pc[j] \notin LockedSteps /\ CopyOK(j)
            BY <3>1, NoneAssumption DEF IInv, LockOK, SubmittersOK
          <5>2. pc'[j] = pc[j] /\ request'[j] = request[j]
            BY <3>2, <4>2 DEF Locked, IInv, TypeOK
          <5> QED
            BY <5>1, <5>2 DEF CopyOK, RecordOK, LockedSteps
        <4> QED
          BY <4>1, <4>2
      <3> QED
        BY <3>1, <3>4, <3>5, <3>6 DEF IInv, disk, OneProposalPerRequest, CompletedHasProposal, DraftKeepsContent
    <2> QED
      BY <2>1, <2>2
  <1> QED
    BY <1>1, <1>2, <1>3, <1>4 DEF Enter

\* Every other step of a submitter.
LEMMA ProceedKeeps ==
    ASSUME IInv, NEW i \in Submitters, Proceed(i), UNCHANGED crashes
    PROVE  IInv'
  <1>1. CASE Preview(i) \/ PreviewRejects(i)
    BY <1>1, PreviewKeeps
  <1> SUFFICES ASSUME ~(Preview(i) \/ PreviewRejects(i))
               PROVE  IInv'
    BY <1>1
  <1>2. pc[i] \in LockedSteps
    BY DEF Proceed, AssertTarget, StageOperations, CreateDraft, SubmissionFails, WorktreeAdd, ProposalsBusy,
       CommitAll, MaterializeFails, Complete, ClearStaging, Fail, LockedSteps
  <1>3. /\ request[i] \in Request /\ request[i].id \in Requests
        /\ mine[i] \in Receipt /\ mine[i] # None /\ mine[i].proposal \in Proposals
        /\ receipts[request[i].id] = mine[i] /\ mine[i].digest = request[i].digest
        /\ Mine(i) \in Record \cup {None}
    BY <1>2, HolderFacts
  <1>4. CopyOK(i) /\ RecordOK(i)
    BY DEF IInv, SubmittersOK
  <1>5. CASE AssertTarget(i)
    <2>1. CASE Leave(i)
      BY <1>5, <2>1, LeaveKeeps DEF AssertTarget, IInv, TypeOK
    <2>2. CASE Goto(i, "stage")
      <3>1. RecordOK(i)'
        BY <1>4, <1>5, <2>2 DEF AssertTarget, Goto, disk, IInv, TypeOK, RecordOK, Mine
      <3> QED
        BY <1>2, <1>5, <2>2, <3>1, GotoKeeps DEF AssertTarget, LockedSteps
    <2> QED
      BY <1>5, <2>1, <2>2 DEF AssertTarget
  <1>6. CASE SubmissionFails(i) \/ ProposalsBusy(i)
    <2>1. RecordOK(i)'
      BY <1>6 DEF SubmissionFails, ProposalsBusy, Goto, IInv, TypeOK, RecordOK
    <2> QED
      BY <1>2, <1>6, <2>1, GotoKeeps DEF SubmissionFails, ProposalsBusy, LockedSteps
  <1>7. CASE StageOperations(i)
    <2>1. /\ pc[i] = "stage" /\ pc' = [pc EXCEPT ![i] = "create_draft"]
          /\ staged' = staged \cup {request[i]}
          /\ UNCHANGED <<receipts, records, worktrees, tip, holder, request, base, mine>>
      BY <1>7 DEF StageOperations, Goto
    <2>2. TypeOK'
      BY <1>3, <2>1 DEF IInv, TypeOK, Steps, LockedSteps
    <2>3. CopyOK(i)' /\ RecordOK(i)'
      BY <1>4, <2>1 DEF IInv, TypeOK, CopyOK, RecordOK, Stored, Mine, LockedSteps
    <2>4. (OneProposalPerRequest /\ CompletedHasProposal /\ DraftKeepsContent)'
      BY <2>1 DEF IInv, OneProposalPerRequest, CompletedHasProposal, DraftKeepsContent
    <2> QED
      BY <1>2, <2>1, <2>2, <2>3, <2>4, HolderKeeps DEF LockedSteps
  <1>8. ASSUME NEW rr \in Record, rr.request = request[i], rr.base = mine[i].base,
               rr.status = "draft" => request[i] \in staged,
               NEW step \in {"materialize", "complete", "fail"},
               step = "complete" => rr.status \notin {"draft", "failed"},
               pc[i] # "clear",
               records' = [records EXCEPT ![mine[i].proposal] = rr],
               Goto(i, step), UNCHANGED <<receipts, worktrees, staged, tip>>
        PROVE  IInv'
    <2>1. (OneProposalPerRequest /\ CompletedHasProposal /\ DraftKeepsContent)'
      BY <1>2, <1>8, RecordSaved
    <2>2. pc'[i] = step /\ pc' = [pc EXCEPT ![i] = step] /\ UNCHANGED <<holder, request, base, mine>>
      BY <1>8 DEF Goto, IInv, TypeOK
    <2>3. records'[mine[i].proposal] = rr /\ rr # None
      BY <1>3, <1>8, NoneIsNoValue DEF IInv, TypeOK
    <2>4. TypeOK'
      BY <1>3, <1>8, <2>2 DEF IInv, TypeOK, Steps, LockedSteps
    <2>5. CopyOK(i)'
      BY <1>2, <1>4, <1>8, <2>2 DEF CopyOK, Stored, LockedSteps
    <2>6. RecordOK(i)'
      BY <1>8, <2>2, <2>3 DEF RecordOK, Mine
    <2> QED
      BY <1>2, <1>8, <2>1, <2>2, <2>4, <2>5, <2>6, HolderKeeps DEF LockedSteps
  <1>9. CASE CreateDraft(i)
    <2> DEFINE rr == [status |-> "draft", base |-> mine[i].base, request |-> request[i], outcome |-> "none"]
    <2>1. rr \in Record
      BY <1>3 DEF Record, Receipt
    <2>2. /\ request[i] \in staged /\ pc[i] = "create_draft"
          /\ records' = [records EXCEPT ![mine[i].proposal] = rr] /\ Goto(i, "materialize")
          /\ UNCHANGED <<receipts, worktrees, staged, tip>>
      BY <1>4, <1>9 DEF CreateDraft, RecordOK
    <2>3. rr.request = request[i] /\ rr.base = mine[i].base
      OBVIOUS
    <2> HIDE DEF rr
    <2> QED
      BY <1>8, <2>1, <2>2, <2>3
  <1>10. CASE WorktreeAdd(i)
    <2>1. CASE Mine(i).status # "draft"
      <3>1. /\ Goto(i, "fail") /\ UNCHANGED <<disk, tip>> /\ pc[i] = "materialize"
        BY <1>10, <2>1 DEF WorktreeAdd, disk
      <3>2. RecordOK(i)'
        BY <3>1 DEF Goto, IInv, TypeOK, RecordOK
      <3> QED
        BY <1>2, <3>1, <3>2, GotoKeeps DEF LockedSteps
    <2>2. CASE Mine(i).status = "draft"
      <3>1. PICK step \in {"undone", "commit"} : Goto(i, step)
        BY <1>10, <2>2 DEF WorktreeAdd
      <3>2. /\ pc[i] = "materialize" /\ worktrees' \subseteq Proposals
            /\ UNCHANGED <<receipts, records, staged, tip>>
        BY <1>3, <1>10, <2>2 DEF WorktreeAdd, IInv, TypeOK
      <3>3. pc'[i] = step /\ pc' = [pc EXCEPT ![i] = step] /\ UNCHANGED <<holder, request, base, mine>>
        BY <3>1 DEF Goto, IInv, TypeOK
      <3>4. TypeOK'
        BY <3>2, <3>3 DEF IInv, TypeOK, Steps, LockedSteps
      <3>5. CopyOK(i)' /\ RecordOK(i)'
        BY <1>4, <3>2, <3>3 DEF CopyOK, RecordOK, Stored, Mine, LockedSteps
      <3>6. (OneProposalPerRequest /\ CompletedHasProposal /\ DraftKeepsContent)'
        BY <3>2 DEF IInv, OneProposalPerRequest, CompletedHasProposal, DraftKeepsContent
      <3> QED
        BY <1>2, <3>2, <3>3, <3>4, <3>5, <3>6, HolderKeeps DEF LockedSteps
    <2> QED
      BY <2>1, <2>2
  <1>11. ASSUME pc[i] \in {"commit", "undone"}, NEW status \in {"materialized", "failed"},
                records' = [records EXCEPT ![mine[i].proposal].status = status,
                                           ![mine[i].proposal].outcome = status],
                Goto(i, IF status = "failed" THEN "fail" ELSE "complete"),
                UNCHANGED <<receipts, worktrees, staged, tip>>
         PROVE  IInv'
    <2> DEFINE p == mine[i].proposal
               rr == [records[p] EXCEPT !.status = status, !.outcome = status]
    <2>1. records[p] \in Record /\ records[p] # None
      BY <1>3, <1>4, <1>11 DEF RecordOK, Mine
    <2>2. rr \in Record /\ rr.status = status /\ rr.request = records[p].request /\ rr.base = records[p].base
      BY <2>1 DEF Record
    <2>3. rr.request = request[i] /\ rr.base = mine[i].base
      BY <1>2, <1>3, <2>1, <2>2, OwnRecord DEF IInv, OneProposalPerRequest
    <2>4. records' = [records EXCEPT ![p] = rr]
      BY <1>3, <1>11 DEF IInv, TypeOK
    <2> HIDE DEF rr
    <2> QED
      BY <1>8, <1>11, <2>2, <2>3, <2>4
  <1>12. CASE CommitAll(i)
    BY <1>11, <1>12 DEF CommitAll
  <1>13. CASE MaterializeFails(i)
    BY <1>11, <1>13 DEF MaterializeFails
  <1>14. CASE Complete(i)
    <2> DEFINE new == [mine[i] EXCEPT !.status = "completed"]
    <2>1. new \in Receipt /\ new # None /\ new.status = "completed" /\ new.digest = mine[i].digest
      BY <1>3, NoneIsNoValue DEF Receipt
    <2>2. /\ pc[i] = "complete" /\ pc' = [pc EXCEPT ![i] = "clear"]
          /\ mine' = [mine EXCEPT ![i] = new] /\ receipts' = [receipts EXCEPT ![request[i].id] = new]
          /\ UNCHANGED <<records, worktrees, staged, tip, holder, request, base>>
      BY <1>14 DEF Complete, SaveReceipt, IInv, TypeOK
    <2>3. (OneProposalPerRequest /\ CompletedHasProposal /\ DraftKeepsContent)'
      BY <1>2, <1>4, <2>2, ReceiptSaved DEF RecordOK
    <2> HIDE DEF new
    <2>4. TypeOK'
      BY <1>3, <2>1, <2>2 DEF IInv, TypeOK, Steps, LockedSteps
    <2>5. CopyOK(i)' /\ RecordOK(i)'
      BY <1>3, <1>4, <2>1, <2>2 DEF IInv, TypeOK, CopyOK, RecordOK, Stored, LockedSteps
    <2>6. \A j \in Submitters : j # i => mine'[j] = mine[j]
      BY <2>2 DEF IInv, TypeOK
    <2> QED
      BY <1>2, <2>2, <2>3, <2>4, <2>5, <2>6, HolderKeeps DEF LockedSteps
  <1>15. CASE ClearStaging(i)
    <2>1. /\ mine[i].status = "completed" /\ staged' = staged \ {request[i]} /\ Leave(i)
          /\ UNCHANGED <<receipts, records, worktrees, tip>>
      BY <1>2, <1>4, <1>15 DEF ClearStaging, CopyOK
    <2>2. (OneProposalPerRequest /\ CompletedHasProposal /\ DraftKeepsContent)'
      BY <1>3, <2>1, StagingCleared
    <2> QED
      BY <1>2, <2>1, <2>2, HolderLeaves DEF IInv, TypeOK
  <1>16. CASE Fail(i)
    <2> DEFINE new == [mine[i] EXCEPT !.status = "failed"]
    <2>1. /\ receipts' = [receipts EXCEPT ![request[i].id] = new] /\ Leave(i)
          /\ UNCHANGED <<records, worktrees, staged, tip>>
      BY <1>16 DEF Fail
    <2>2. new \in Receipt
      BY <1>3 DEF Receipt
    <2>3. (OneProposalPerRequest /\ CompletedHasProposal /\ DraftKeepsContent)'
      BY <1>2, <2>1, ReceiptSaved
    <2>4. receipts' \in [Requests -> Receipt \cup {None}] /\ staged' \subseteq Request
      BY <1>3, <2>1, <2>2 DEF IInv, TypeOK
    <2> QED
      BY <1>2, <2>1, <2>3, <2>4, HolderLeaves
  <1> QED
    BY <1>5, <1>6, <1>7, <1>9, <1>10, <1>12, <1>13, <1>14, <1>15, <1>16 DEF Proceed

\* Every step keeps the invariant.
LEMMA StepInv == IInv /\ [Next]_vars => IInv'
  <1> SUFFICES ASSUME IInv, [Next]_vars PROVE IInv'
    OBVIOUS
  <1>1. CASE UNCHANGED vars
    BY <1>1 DEF vars, disk, local, IInv, TypeOK, LockOK, SubmittersOK, CopyOK, RecordOK, Stored, Mine,
       OneProposalPerRequest, CompletedHasProposal, DraftKeepsContent
  <1>2. ASSUME NEW i \in Submitters, NEW r \in Requests, NEW d \in Digests, Submit(i, r, d), UNCHANGED crashes
        PROVE  IInv'
    BY <1>2, PreviewKeeps
  <1>3. CASE TargetMoves /\ UNCHANGED crashes
    <2>1. tip' \in Commit /\ UNCHANGED <<disk, holder, local, crashes>>
      BY <1>3, BoundsAssumption DEF TargetMoves, Commit, IInv, TypeOK
    <2> QED
      BY <2>1 DEF disk, local, IInv, TypeOK, LockOK, SubmittersOK, CopyOK, RecordOK, Stored, Mine,
         OneProposalPerRequest, CompletedHasProposal, DraftKeepsContent
  <1>4. ASSUME NEW i \in Submitters, Crash(i)
        PROVE  IInv'
    BY <1>4, LeaveKeeps, BoundsAssumption DEF Crash, IInv, TypeOK
  <1> QED
    BY <1>1, <1>2, <1>3, <1>4, EnterKeeps, ProceedKeeps, ReviewKeeps DEF Next

\* The inductive invariant, for any number of submitters, requests and crashes.
THEOREM Invariance == Spec => []IInv
  BY InitInv, StepInv, PTL DEF Spec

\* Every variable has its type in every reachable state.
THEOREM TypeCorrect == Spec => []TypeOK
  <1>1. IInv => TypeOK
    BY DEF IInv
  <1> QED
    BY <1>1, Invariance, PTL

\* No interleaving of retries, concurrent submitters, crashes and operators
\* makes two proposals of one request, or one proposal of two.
THEOREM OneProposal == Spec => []OneProposalPerRequest
  <1>1. IInv => OneProposalPerRequest
    BY DEF IInv
  <1> QED
    BY <1>1, Invariance, PTL

\* What is answered as done has been done.
THEOREM CompletedIsDone == Spec => []CompletedHasProposal
  <1>1. IInv => CompletedHasProposal
    BY DEF IInv
  <1> QED
    BY <1>1, Invariance, PTL

\* A draft always finds its staged content.
THEOREM ContentIsKept == Spec => []DraftKeepsContent
  <1>1. IInv => DraftKeepsContent
    BY DEF IInv
  <1> QED
    BY <1>1, Invariance, PTL

\* Only the holder of the lock writes receipts, and only over the pending one it
\* has in its hands.
LEMMA FrozenStep ==
    IInv /\ [Next]_vars => (\A r \in Requests : receipts[r] # None => ReceiptKept(r))
  <1> SUFFICES ASSUME IInv, [Next]_vars, NEW r \in Requests, receipts[r] # None
               PROVE  ReceiptKept(r)
    OBVIOUS
  <1>1. CASE UNCHANGED receipts
    BY <1>1 DEF ReceiptKept
  <1>2. ASSUME NEW i \in Submitters, NEW p \in Proposals, Reserve(i, p)
        PROVE  ReceiptKept(r)
    <2>1. request[i].id # r
      BY <1>2 DEF Reserve, Stored
    <2> QED
      BY <1>2, <2>1 DEF Reserve, ReceiptKept, IInv, TypeOK
  <1>3. ASSUME NEW i \in Submitters, Complete(i) \/ Fail(i)
        PROVE  ReceiptKept(r)
    <2>1. PICK s \in {"completed", "failed"} :
             receipts' = [receipts EXCEPT ![request[i].id] = [mine[i] EXCEPT !.status = s]]
      BY <1>3 DEF Complete, SaveReceipt, Fail, IInv, TypeOK
    <2>2. pc[i] \in LockedSteps /\ pc[i] # "clear"
      BY <1>3 DEF Complete, Fail, LockedSteps
    <2>3. /\ mine[i] \in Receipt /\ mine[i].status = "pending" /\ receipts[request[i].id] = mine[i]
          /\ request[i].id \in Requests
      BY <2>2, HolderFacts DEF IInv, SubmittersOK, CopyOK
    <2> DEFINE new == [mine[i] EXCEPT !.status = s]
    <2>4. /\ new \in Receipt /\ new # None /\ new.proposal = mine[i].proposal
          /\ new.digest = mine[i].digest /\ new.base = mine[i].base
      BY <2>3, NoneIsNoValue DEF Receipt
    <2> HIDE DEF new
    <2> QED
      BY <2>1, <2>3, <2>4 DEF new, ReceiptKept, IInv, TypeOK
  <1>4. ASSUME NEW i \in Submitters, Enter(i) PROVE UNCHANGED receipts \/ \E p \in Proposals : Reserve(i, p)
    BY <1>4 DEF Enter, Reuse, Refuse, Resume, disk
  <1>5. ASSUME NEW i \in Submitters, Proceed(i) PROVE UNCHANGED receipts \/ Complete(i) \/ Fail(i)
    BY <1>5 DEF Proceed, Preview, PreviewRejects, AssertTarget, StageOperations, CreateDraft, SubmissionFails,
       WorktreeAdd, ProposalsBusy, CommitAll, MaterializeFails, ClearStaging, disk
  <1> QED
    BY <1>1, <1>2, <1>3, <1>4, <1>5 DEF Next, Submit, Crash, Review, TargetMoves, vars, disk

\* A reservation and an outcome are never taken back.
THEOREM ReceiptsFrozen == Spec => ReceiptIsFrozen
  BY Invariance, FrozenStep, PTL DEF Spec, ReceiptIsFrozen

-----------------------------------------------------------------------------
(* The refinement of RequestLedger *)

\* Steps that write no receipt and make no record are invisible in the ledger.
LEMMA LedgerStutters ==
    ASSUME UNCHANGED receipts,
           \A p \in Proposals :
              /\ records'[p] = None <=> records[p] = None
              /\ records[p] # None => records'[p].request = records[p].request
    PROVE  UNCHANGED Ledger!vars
  <1>1. Reserved' = Reserved /\ Outcome' = Outcome
    BY DEF Reserved, Outcome
  <1>2. \A p \in Proposals :
           (IF records'[p] = None THEN None ELSE records'[p].request)
              = (IF records[p] = None THEN None ELSE records[p].request)
    OBVIOUS
  <1>3. Created' = Created
    BY <1>2 DEF Created
  <1> QED
    BY <1>1, <1>3 DEF Ledger!vars

\* A record keeps the request it was made for when its status is saved.
LEMMA StatusSaved ==
    ASSUME IInv, NEW p \in Proposals, records[p] # None, 
           NEW s \in {records[p].status, "materialized", "reviewed", "rejected", "failed"},
           NEW o \in {"none", "materialized", "failed"},
           records' = [records EXCEPT ![p].status = s, ![p].outcome = o],
           UNCHANGED receipts
    PROVE  UNCHANGED Ledger!vars
  <1>1. records[p] \in Record
    BY DEF IInv, TypeOK
  <1>2. records'[p] \in Record /\ records'[p].request = records[p].request
    BY <1>1 DEF IInv, TypeOK, Record
  <1>3. \A q \in Proposals : q # p => records'[q] = records[q]
    BY DEF IInv, TypeOK
  <1> QED
    BY <1>2, <1>3, NoneIsNoValue, LedgerStutters

\* The first receipt of a request reserves a proposal that nobody has.
LEMMA LedgerReserve ==
    ASSUME IInv, NEW i \in Submitters, NEW p \in Proposals, Reserve(i, p)
    PROVE  Ledger!Reserve(request[i].id, request[i].digest, p)
  <1> DEFINE r == request[i].id
             new == NewReceipt(i, p)
  <1>1. r \in Requests /\ request[i].digest \in Digests /\ base[i] \in Commit
    <2>1. pc[i] # "idle"
      BY DEF Reserve, AtLock
    <2> QED
      BY <2>1, SubmitterFacts DEF IInv, TypeOK
  <1>2. new \in Receipt /\ new # None
    BY <1>1, NoneIsNoValue DEF NewReceipt, Receipt
  <1>3. new.proposal = p /\ new.digest = request[i].digest /\ new.status = "pending"
    BY DEF NewReceipt
  <1> HIDE DEF new
  <1>4. /\ receipts[r] = None
        /\ \A q \in Requests : receipts[q] # None => receipts[q].proposal # p
        /\ receipts' = [receipts EXCEPT ![r] = new]
        /\ records' = records
    BY DEF new, Reserve, Stored
  <1>5. receipts'[r] = new /\ \A q \in Requests : q # r => receipts'[q] = receipts[q]
    BY <1>1, <1>4 DEF IInv, TypeOK
  <1> HIDE DEF r
  <1> QED
    BY <1>1, <1>2, <1>3, <1>4, <1>5 DEF Ledger!Reserve, Reserved, Outcome, Created, r

\* Only the holder of the lock makes a record, for its own pending receipt.
LEMMA LedgerCreate ==
    ASSUME IInv, NEW i \in Submitters, CreateDraft(i)
    PROVE  Ledger!Create(request[i].id, mine[i].proposal)
  <1> DEFINE r == request[i].id
             p == mine[i].proposal
             new == [status |-> "draft", base |-> mine[i].base, request |-> request[i], outcome |-> "none"]
  <1>1. pc[i] = "create_draft" /\ pc[i] \in LockedSteps
    BY DEF CreateDraft, LockedSteps
  <1>2. /\ request[i] \in Request /\ r \in Requests /\ request[i].digest \in Digests
        /\ mine[i] \in Receipt /\ p \in Proposals /\ mine[i].base \in Commit
        /\ receipts[r] = mine[i] /\ mine[i] # None /\ mine[i].digest = request[i].digest
    BY <1>1, HolderFacts DEF Receipt, Request
  <1>3. mine[i].status = "pending" /\ records[p] = None
    BY <1>1, <1>2 DEF IInv, SubmittersOK, CopyOK, RecordOK, Mine
  <1>4. new \in Record /\ new # None /\ new.request = request[i]
    <2>1. new \in Record
      BY <1>2 DEF Record
    <2> QED
      BY <2>1, NoneIsNoValue
  <1> HIDE DEF new
  <1>5. receipts' = receipts /\ records' = [records EXCEPT ![p] = new]
    BY DEF new, CreateDraft
  <1>6. records'[p] = new /\ \A q \in Proposals : q # p => records'[q] = records[q]
    BY <1>2, <1>5 DEF IInv, TypeOK
  <1>7. request[i] = [id |-> r, digest |-> mine[i].digest]
    BY <1>2 DEF Request
  <1>8. [proposal |-> p, digest |-> mine[i].digest] # None
    BY <1>2, NoneIsNoValue DEF Reservation
  <1> HIDE DEF r, p
  <1> QED
    BY <1>2, <1>3, <1>4, <1>5, <1>6, <1>7, <1>8 DEF Ledger!Create, Reserved, Outcome, Created, r, p

\* A request ends once, as completed only if its record is there.
LEMMA LedgerEnds ==
    ASSUME IInv, NEW i \in Submitters, Complete(i) \/ Fail(i)
    PROVE  Ledger!Complete(request[i].id) \/ Ledger!Fail(request[i].id)
  <1> DEFINE r == request[i].id
  <1>1. PICK s \in {"completed", "failed"} :
           /\ receipts' = [receipts EXCEPT ![r] = [mine[i] EXCEPT !.status = s]]
           /\ records' = records
           /\ s = "completed" => pc[i] = "complete"
    BY DEF Complete, SaveReceipt, Fail, IInv, TypeOK
  <1>2. pc[i] \in {"complete", "fail"} /\ pc[i] \in LockedSteps
    BY DEF Complete, Fail, LockedSteps
  <1>3. /\ r \in Requests /\ mine[i] \in Receipt /\ mine[i].proposal \in Proposals
        /\ mine[i].digest \in Digests /\ receipts[r] = mine[i] /\ mine[i] # None
    BY <1>2, HolderFacts DEF Receipt
  <1>4. /\ mine[i].status = "pending"
        /\ s = "completed" => records[mine[i].proposal] # None
    BY <1>1, <1>2 DEF IInv, SubmittersOK, CopyOK, RecordOK, Mine
  <1> DEFINE new == [mine[i] EXCEPT !.status = s]
  <1>5. /\ new \in Receipt /\ new # None /\ new.status = s
        /\ new.proposal = mine[i].proposal /\ new.digest = mine[i].digest
    BY <1>3, NoneIsNoValue DEF Receipt
  <1> HIDE DEF new
  <1>6. receipts'[r] = new /\ \A q \in Requests : q # r => receipts'[q] = receipts[q]
    BY <1>1, <1>3 DEF new, IInv, TypeOK
  <1>7. /\ [proposal |-> mine[i].proposal, digest |-> mine[i].digest] # None
        /\ records[mine[i].proposal] # None => records[mine[i].proposal].request # None
    <2>1. records[mine[i].proposal] # None => records[mine[i].proposal].request \in Request
      BY <1>3 DEF IInv, TypeOK, Record
    <2> QED
      BY <1>3, <2>1, NoneIsNoValue DEF Reservation
  <1> HIDE DEF r
  <1>8. Reserved[r] # None /\ Reserved[r].proposal = mine[i].proposal /\ Outcome[r] = "pending"
    BY <1>3, <1>4, <1>7 DEF Reserved, Outcome
  <1>9. Created' = Created
    BY <1>1 DEF Created
  <1>10. Reserved' = Reserved
    BY <1>3, <1>5, <1>6 DEF Reserved
  <1>11. Outcome' = [Outcome EXCEPT ![r] = s]
    BY <1>3, <1>5, <1>6 DEF Outcome
  <1>12. s = "completed" => Created[mine[i].proposal] # None
    BY <1>3, <1>4, <1>7 DEF Created
  <1>13. CASE s = "completed"
    BY <1>8, <1>9, <1>10, <1>11, <1>12, <1>13 DEF Ledger!Complete, r
  <1>14. CASE s = "failed"
    BY <1>8, <1>9, <1>10, <1>11, <1>14 DEF Ledger!Fail, r
  <1> QED
    BY <1>13, <1>14

\* Every step of the intake is a step of the ledger or invisible in it.
LEMMA LedgerStep == IInv /\ [Next]_vars => [Ledger!Next]_(Ledger!vars)
  <1> SUFFICES ASSUME IInv, [Next]_vars PROVE Ledger!Next \/ UNCHANGED Ledger!vars
    OBVIOUS
  <1>1. CASE UNCHANGED <<receipts, records>>
    BY <1>1, LedgerStutters
  <1>2. ASSUME NEW i \in Submitters, NEW p \in Proposals, Reserve(i, p)
        PROVE  Ledger!Next
    <2>1. request[i].id \in Requests /\ request[i].digest \in Digests
      BY <1>2, SubmitterFacts DEF Reserve, AtLock, IInv
    <2> QED
      BY <1>2, <2>1, LedgerReserve DEF Ledger!Next
  <1>3. ASSUME NEW i \in Submitters, CreateDraft(i) \/ Complete(i) \/ Fail(i)
        PROVE  Ledger!Next
    <2>1. pc[i] \in LockedSteps
      BY <1>3 DEF CreateDraft, Complete, Fail, LockedSteps
    <2>2. request[i].id \in Requests /\ mine[i].proposal \in Proposals
      BY <2>1, HolderFacts
    <2>3. CASE CreateDraft(i)
      BY <2>2, <2>3, LedgerCreate DEF Ledger!Next
    <2>4. CASE Complete(i) \/ Fail(i)
      <3>1. Ledger!Complete(request[i].id) \/ Ledger!Fail(request[i].id)
        BY <2>4, LedgerEnds
      <3> QED
        BY <2>2, <3>1 DEF Ledger!Next
    <2> QED
      BY <1>3, <2>3, <2>4
  <1>4. ASSUME NEW i \in Submitters, CommitAll(i) \/ MaterializeFails(i)
        PROVE  UNCHANGED Ledger!vars
    <2>1. pc[i] \in LockedSteps
      BY <1>4 DEF CommitAll, MaterializeFails, LockedSteps
    <2>2. mine[i].proposal \in Proposals /\ records[mine[i].proposal] # None
      BY <1>4, <2>1, HolderFacts DEF CommitAll, MaterializeFails, IInv, SubmittersOK, RecordOK, Mine
    <2>3. PICK s \in {"materialized", "failed"} :
             /\ records' = [records EXCEPT ![mine[i].proposal].status = s,
                                           ![mine[i].proposal].outcome = s]
             /\ UNCHANGED receipts
      BY <1>4 DEF CommitAll, MaterializeFails
    <2> DEFINE p == mine[i].proposal
    <2> HIDE DEF p
    <2>4. p \in Proposals /\ records[p] # None
          /\ records' = [records EXCEPT ![p].status = s, ![p].outcome = s]
      BY <2>2, <2>3 DEF p
    <2> QED
      BY <2>3, <2>4, StatusSaved
  <1>5. ASSUME NEW p \in Proposals, Review(p)
        PROVE  UNCHANGED Ledger!vars
    <2>1. records[p] # None /\ UNCHANGED receipts
      BY <1>5 DEF Review
    <2> QED
      BY <1>5, <2>1, ReviewSaves, StatusSaved
  <1>6. ASSUME NEW i \in Submitters, Enter(i)
        PROVE  UNCHANGED <<receipts, records>> \/ \E p \in Proposals : Reserve(i, p)
    BY <1>6 DEF Enter, Reuse, Refuse, Resume, disk
  <1>7. ASSUME NEW i \in Submitters, Proceed(i)
        PROVE  \/ UNCHANGED <<receipts, records>>
               \/ CreateDraft(i) \/ Complete(i) \/ Fail(i)
               \/ CommitAll(i) \/ MaterializeFails(i)
    BY <1>7 DEF Proceed, Preview, PreviewRejects, AssertTarget, StageOperations, SubmissionFails,
       WorktreeAdd, ProposalsBusy, ClearStaging, disk
  <1> QED
    BY <1>1, <1>2, <1>3, <1>4, <1>5, <1>6, <1>7 DEF Next, Submit, Crash, TargetMoves, vars, disk

\* The intake implements RequestLedger: for every request one proposal is
\* reserved, made at most once and before the request counts as completed,
\* whatever submitters, crashes, faults and operators do.
THEOREM LedgerRefinement == Spec => ImplementsRequestLedger
  <1>1. Init => Ledger!Init
    BY DEF Init, Ledger!Init, Reserved, Outcome, Created
  <1> QED
    BY <1>1, LedgerStep, Invariance, PTL DEF Spec, Ledger!Spec, ImplementsRequestLedger

-----------------------------------------------------------------------------
(* The refinement of ProposalStandings *)

\* A proposal has a worktree only after its record; a draft has not come to
\* anything yet.
Untold(p) ==
    /\ records[p] = None => p \notin worktrees
    /\ records[p] # None /\ records[p].status = "draft" => records[p].outcome = "none"

\* While a submitter is inside materialize, its proposal has come to nothing
\* and the worktree is there; a reject is all that can have happened to it.
MaterializeOK(i) ==
    pc[i] \in {"commit", "undone"} =>
        /\ Mine(i).status \in {"draft", "rejected"}
        /\ Mine(i).outcome = "none"
        /\ mine[i].proposal \in worktrees

Tells ==
    /\ \A p \in Proposals : Untold(p)
    /\ \A i \in Submitters : MaterializeOK(i)

Shown == [p \in Proposals |-> Standing(p)]

\* The standing of a proposal, and the record of which it is made.
LEMMA StandingFacts ==
    ASSUME TypeOK, NEW p \in Proposals
    PROVE  /\ Standing(p) \in Standings!Standing
           /\ Standing(p).made = (p \in worktrees)
           /\ records[p] # None => /\ records[p] \in Record
                                   /\ Standing(p).status = records[p].status
                                   /\ Standing(p).outcome = records[p].outcome
           /\ records[p] = None => Standing(p).status = "none" /\ Standing(p).outcome = "none"
  <1>1. (p \in worktrees) \in BOOLEAN
    OBVIOUS
  <1>2. records[p] # None => records[p] \in Record
    BY DEF TypeOK
  <1> QED
    BY <1>1, <1>2 DEF Standing, Standings!Standing, Record

\* Steps that write no record and touch no worktree are invisible, and what the
\* holder knows in the middle of materialize it knew before.
LEMMA StandingQuiet ==
    ASSUME Tells, UNCHANGED <<records, worktrees>>,
           \A i \in Submitters : pc'[i] \in {"commit", "undone"} => pc'[i] = pc[i] /\ mine'[i] = mine[i]
    PROVE  Tells' /\ Shown' = Shown
  <1>1. ASSUME NEW i \in Submitters PROVE MaterializeOK(i)'
    BY DEF Tells, MaterializeOK, Mine
  <1>2. \A p \in Proposals : Untold(p)' /\ Standing(p)' = Standing(p)
    BY DEF Tells, Untold, Standing
  <1> QED
    BY <1>1, <1>2 DEF Tells, Shown

\* A step that is about one proposal.
LEMMA ShownChange ==
    ASSUME NEW p \in Proposals, NEW t, Standing(p)' = t,
           \A q \in Proposals \ {p} : records'[q] = records[q] /\ (q \in worktrees' <=> q \in worktrees)
    PROVE  Shown' = [Shown EXCEPT ![p] = t]
  <1>1. \A q \in Proposals \ {p} : Standing(q)' = Standing(q)
    BY DEF Standing
  <1> QED
    BY <1>1 DEF Shown

\* The holder's step on its own proposal leaves the other submitters outside
\* materialize.
LEMMA OwnStep ==
    ASSUME IInv, Tells, NEW i \in Submitters, pc[i] \in LockedSteps, NEW p \in Proposals,
           \A j \in Submitters \ {i} : pc'[j] = pc[j],
           \A q \in Proposals \ {p} : records'[q] = records[q] /\ (q \in worktrees' <=> q \in worktrees),
           Untold(p)', MaterializeOK(i)'
    PROVE  Tells'
  <1>1. ASSUME NEW j \in Submitters PROVE MaterializeOK(j)'
    <2>1. CASE j # i
      <3>1. pc'[j] \notin LockedSteps
        BY <2>1, HolderFacts
      <3> QED
        BY <3>1 DEF MaterializeOK, LockedSteps
    <2> QED
      BY <2>1
  <1>2. ASSUME NEW q \in Proposals PROVE Untold(q)'
    BY DEF Tells, Untold
  <1> QED
    BY <1>1, <1>2 DEF Tells

\* create_draft is called on a proposal that nothing is stored of.
LEMMA DraftShown ==
    ASSUME IInv, Tells, NEW i \in Submitters, CreateDraft(i)
    PROVE  Tells' /\ \E p \in Proposals : Standings!CreateDraft(p)
  <1>1. pc[i] = "create_draft" /\ pc[i] \in LockedSteps
    BY DEF CreateDraft, LockedSteps
  <1>2. mine[i].proposal \in Proposals /\ mine[i].base \in Commit /\ request[i] \in Request
    BY <1>1, HolderFacts DEF Receipt
  <1>p. PICK p \in Proposals : p = mine[i].proposal
    BY <1>2
  <1>n. PICK new : new = [status |-> "draft", base |-> mine[i].base, request |-> request[i], outcome |-> "none"]
    OBVIOUS
  <1>3. records[p] = None
    BY <1>1, <1>p DEF IInv, SubmittersOK, RecordOK, Mine
  <1>4. new \in Record /\ new # None /\ new.status = "draft" /\ new.outcome = "none"
    BY <1>2, <1>n, NoneIsNoValue DEF Record
  <1>5. /\ records' = [records EXCEPT ![p] = new] /\ worktrees' = worktrees
        /\ pc' = [pc EXCEPT ![i] = "materialize"]
    BY <1>n, <1>p DEF CreateDraft, Goto
  <1>6. records'[p] = new /\ \A q \in Proposals \ {p} : records'[q] = records[q]
    BY <1>2, <1>5 DEF IInv, TypeOK
  <1>7. pc'[i] = "materialize" /\ \A j \in Submitters \ {i} : pc'[j] = pc[j]
    BY <1>5 DEF IInv, TypeOK
  <1>8. p \notin worktrees /\ (p \in worktrees) = FALSE
    BY <1>2, <1>3 DEF Tells, Untold
  <1>9. Tells'
    <2>1. Untold(p)' /\ MaterializeOK(i)'
      BY <1>4, <1>6, <1>7 DEF Untold, MaterializeOK
    <2> QED
      BY <1>1, <1>2, <1>5, <1>6, <1>7, <2>1, OwnStep
  <1>10. Standing(p) = [status |-> "none", outcome |-> "none", made |-> FALSE]
    BY <1>3, <1>8 DEF Standing
  <1>11. Standing(p)' = [status |-> "draft", outcome |-> "none", made |-> FALSE]
    BY <1>4, <1>5, <1>6, <1>8 DEF Standing
  <1>12. Shown' = [Shown EXCEPT ![p] = [status |-> "draft", outcome |-> "none", made |-> FALSE]]
    BY <1>2, <1>5, <1>6, <1>11, ShownChange
  <1>13. Shown[p] = [status |-> "none", outcome |-> "none", made |-> FALSE]
    BY <1>2, <1>10 DEF Shown
  <1>14. [Shown[p] EXCEPT !.status = "draft"] = [status |-> "draft", outcome |-> "none", made |-> FALSE]
    <2> DEFINE s == Shown[p]
               t == [s EXCEPT !.status = "draft"]
    <2>1. s \in [status : {"none"}, outcome : {"none"}, made : {FALSE}]
      BY <1>13
    <2> HIDE DEF s
    <2>2. t \in [status : {"draft"}, outcome : {"none"}, made : {FALSE}]
      BY <2>1
    <2> HIDE DEF t
    <2>3. t = [status |-> "draft", outcome |-> "none", made |-> FALSE]
      BY <2>2
    <2> QED
      BY <2>3 DEF t, s
  <1>15. Shown[p].status = "none"
    BY <1>13
  <1> QED
    BY <1>9, <1>12, <1>14, <1>15, Zenon DEF Standings!CreateDraft, Standings!Change, Shown

\* materialize adds the worktree of a draft; of another proposal it touches
\* nothing.
LEMMA WorktreeShown ==
    ASSUME IInv, Tells, NEW i \in Submitters, WorktreeAdd(i)
    PROVE  Tells' /\ (Shown' = Shown \/ \E p \in Proposals : Standings!AddWorktree(p))
  <1>1. pc[i] = "materialize" /\ pc[i] \in LockedSteps
    BY DEF WorktreeAdd, LockedSteps
  <1>2. PICK p \in Proposals : p = mine[i].proposal
    BY <1>1, HolderFacts
  <1>3. records[p] # None /\ records[p] \in Record
    BY <1>1, <1>2 DEF IInv, TypeOK, SubmittersOK, RecordOK, Mine
  <1>4. CASE records[p].status # "draft"
    <2>1. UNCHANGED <<records, worktrees>> /\ Goto(i, "fail")
      BY <1>2, <1>4 DEF WorktreeAdd, Mine
    <2>2. \A j \in Submitters : pc'[j] \in {"commit", "undone"} => pc'[j] = pc[j] /\ mine'[j] = mine[j]
      BY <2>1 DEF Goto, IInv, TypeOK
    <2> QED
      BY <2>1, <2>2, StandingQuiet
  <1>5. CASE records[p].status = "draft"
    <2>1. /\ UNCHANGED <<records, mine>> /\ worktrees' = worktrees \cup {p}
          /\ pc' = [pc EXCEPT ![i] = IF p \in worktrees THEN "undone" ELSE "commit"]
      BY <1>2, <1>5 DEF WorktreeAdd, Mine, Goto
    <2>2. records[p].outcome = "none"
      BY <1>2, <1>3, <1>5 DEF Tells, Untold
    <2>3. Untold(p)' /\ MaterializeOK(i)'
      BY <1>2, <1>3, <1>5, <2>1, <2>2 DEF Untold, MaterializeOK, Mine
    <2>4. \A j \in Submitters \ {i} : pc'[j] = pc[j]
      BY <2>1 DEF IInv, TypeOK
    <2>5. Tells'
      BY <1>1, <1>2, <2>1, <2>3, <2>4, OwnStep
    <2>6. Standing(p) = [status |-> "draft", outcome |-> "none", made |-> p \in worktrees]
      BY <1>3, <1>5, <2>2 DEF Standing
    <2>7. Standing(p)' = [status |-> "draft", outcome |-> "none", made |-> TRUE]
      BY <1>3, <1>5, <2>1, <2>2 DEF Standing
    <2>8. Shown' = [Shown EXCEPT ![p] = [status |-> "draft", outcome |-> "none", made |-> TRUE]]
      BY <1>2, <2>1, <2>7, ShownChange
    <2>9. Shown[p] = [status |-> "draft", outcome |-> "none", made |-> p \in worktrees]
      BY <1>2, <2>6 DEF Shown
    <2>10. [Shown[p] EXCEPT !.made = TRUE] = [status |-> "draft", outcome |-> "none", made |-> TRUE]
      <3> DEFINE s == Shown[p]
                 t == [s EXCEPT !.made = TRUE]
      <3>1. s \in [status : {"draft"}, outcome : {"none"}, made : BOOLEAN]
        BY <2>9
      <3> HIDE DEF s
      <3>2. t \in [status : {"draft"}, outcome : {"none"}, made : {TRUE}]
        BY <3>1
      <3> HIDE DEF t
      <3>3. t = [status |-> "draft", outcome |-> "none", made |-> TRUE]
        BY <3>2
      <3> QED
        BY <3>3 DEF t, s
    <2>11. Standings!Materializing(p)
      BY <2>9 DEF Standings!Materializing, Shown
    <2> QED
      BY <1>2, <2>5, <2>8, <2>10, <2>11 DEF Standings!AddWorktree, Standings!Change, Shown
  <1> QED
    BY <1>4, <1>5

\* materialize saves what it came to: as materialized only with the worktree
\* there.
LEMMA MaterializeShown ==
    ASSUME IInv, Tells, NEW i \in Submitters, CommitAll(i) \/ MaterializeFails(i)
    PROVE  Tells' /\ \E p \in Proposals : Standings!EndMaterialize(p)
  <1>1. pc[i] \in {"commit", "undone"} /\ pc[i] \in LockedSteps
    BY DEF CommitAll, MaterializeFails, LockedSteps
  <1>2. PICK p \in Proposals : p = mine[i].proposal
    BY <1>1, HolderFacts
  <1>3. /\ records[p] # None /\ records[p] \in Record
        /\ records[p].status \in {"draft", "rejected"} /\ records[p].outcome = "none"
        /\ p \in worktrees
    <2>1. records[p] # None
      BY <1>1, <1>2 DEF IInv, SubmittersOK, RecordOK, Mine
    <2>2. records[p] \in Record
      BY <1>2, <2>1 DEF IInv, TypeOK
    <2> QED
      BY <1>1, <1>2, <2>1, <2>2 DEF Tells, MaterializeOK, Mine
  <1>4. PICK o \in {"materialized", "failed"} :
           records' = [records EXCEPT ![p].status = o, ![p].outcome = o]
    BY <1>2 DEF CommitAll, MaterializeFails
  <1>5. /\ worktrees' = worktrees
        /\ pc' = [pc EXCEPT ![i] = "complete"] \/ pc' = [pc EXCEPT ![i] = "fail"]
    BY DEF CommitAll, MaterializeFails, Goto
  <1>6. /\ records'[p] \in Record /\ records'[p].status = o /\ records'[p].outcome = o
        /\ \A q \in Proposals \ {p} : records'[q] = records[q]
    BY <1>2, <1>3, <1>4 DEF IInv, TypeOK, Record
  <1>7. /\ pc'[i] \notin {"commit", "undone"}
        /\ \A j \in Submitters \ {i} : pc'[j] = pc[j]
    BY <1>5 DEF IInv, TypeOK
  <1>8. records'[p] # None
    BY <1>6, NoneIsNoValue
  <1>9. Tells'
    <2>1. Untold(p)' /\ MaterializeOK(i)'
      BY <1>6, <1>7, <1>8 DEF Untold, MaterializeOK
    <2> QED
      BY <1>1, <1>2, <1>5, <1>6, <1>7, <2>1, OwnStep
  <1>10. Standing(p) = [status |-> records[p].status, outcome |-> "none", made |-> TRUE]
    BY <1>3 DEF Standing
  <1>11. Standing(p)' = [status |-> o, outcome |-> o, made |-> TRUE]
    BY <1>3, <1>5, <1>6, <1>8 DEF Standing
  <1>12. Shown' = [Shown EXCEPT ![p] = [status |-> o, outcome |-> o, made |-> TRUE]]
    BY <1>2, <1>5, <1>6, <1>11, ShownChange
  <1>13. Shown[p] = [status |-> records[p].status, outcome |-> "none", made |-> TRUE]
    BY <1>2, <1>10 DEF Shown
  <1>14. [Shown[p] EXCEPT !.status = o, !.outcome = o] = [status |-> o, outcome |-> o, made |-> TRUE]
    <2> DEFINE s == Shown[p]
               st == records[p].status
               t == [s EXCEPT !.status = o, !.outcome = o]
    <2>1. s = [status |-> st, outcome |-> "none", made |-> TRUE]
      BY <1>13
    <2> HIDE DEF s, st
    <2>2. s \in [status : {st}, outcome : {"none"}, made : {TRUE}]
      BY <2>1
    <2>3. t \in [status : {o}, outcome : {o}, made : {TRUE}]
      BY <2>2
    <2> HIDE DEF t
    <2>4. t = [status |-> o, outcome |-> o, made |-> TRUE]
      BY <2>3
    <2> QED
      BY <2>4 DEF t, s
  <1>15. Standings!Materializing(p)
    BY <1>3, <1>13 DEF Standings!Materializing, Shown
  <1>16. o \in {"failed"} \cup {a \in {"materialized"} : Shown[p].made}
    BY <1>13
  <1> QED
    <2>1. [status |-> o, outcome |-> o, made |-> TRUE]
             \in {[Shown[p] EXCEPT !.status = outcome, !.outcome = outcome] :
                    outcome \in {"failed"} \cup {a \in {"materialized"} : Shown[p].made}}
      BY <1>14, <1>16, Zenon
    <2> QED
      BY <1>9, <1>12, <1>15, <2>1, Zenon DEF Standings!EndMaterialize, Standings!Change, Shown

\* What reviewers make of a standing: while materialize has not come to
\* anything, they can only reject.
LEMMA ReviewedFacts ==
    ASSUME NEW old \in Standings!Standing, NEW s \in Standings!Reviewed(old)
    PROVE  /\ s \in Standings!Standing
           /\ old.status # "none"
           /\ s.status \in {old.status, "materialized", "reviewed", "rejected"}
           /\ s.outcome \in {old.outcome, "none"}
           /\ old.outcome = "none" => s.status = "rejected" /\ s.made = old.made
  <1> DEFINE Next3 == Standings!Rejected(old) \cup Standings!Judged(old) \cup Standings!Cleaned(old)
  <1>1. old.status # "none" /\ s \in Next3 \cup UNION {Standings!Forgotten(t) : t \in Next3}
    BY DEF Standings!Reviewed
  <1>2. ASSUME NEW t \in Next3
        PROVE  /\ t \in Standings!Standing
               /\ t.status \in {old.status, "materialized", "reviewed", "rejected"}
               /\ t.outcome = old.outcome
               /\ old.outcome = "none" => t.status = "rejected" /\ t.made = old.made
    <2>1. CASE t \in Standings!Rejected(old)
      BY <2>1 DEF Standings!Rejected, Standings!Standing
    <2>2. CASE t \in Standings!Judged(old)
      <3>1. PICK status \in {"materialized", "reviewed"} : t = [old EXCEPT !.status = status]
        BY <2>2 DEF Standings!Judged
      <3>2. old.outcome = "materialized"
        BY <2>2 DEF Standings!Judged
      <3> QED
        BY <3>1, <3>2 DEF Standings!Standing
    <2>3. CASE t \in Standings!Cleaned(old)
      <3>1. PICK made \in BOOLEAN : t = [old EXCEPT !.made = made]
        BY <2>3 DEF Standings!Cleaned
      <3>2. old.outcome # "none"
        BY <2>3 DEF Standings!Cleaned
      <3> QED
        BY <3>1, <3>2 DEF Standings!Standing
    <2> QED
      BY <2>1, <2>2, <2>3
  <1> HIDE DEF Next3
  <1>3. CASE s \in Next3
    BY <1>1, <1>2, <1>3
  <1>4. ASSUME NEW t \in Next3, s \in Standings!Forgotten(t)
        PROVE  /\ s \in Standings!Standing
               /\ s.status = t.status /\ s.made = t.made /\ s.outcome = "none"
    BY <1>2, <1>4 DEF Standings!Forgotten, Standings!Standing
  <1> QED
    BY <1>1, <1>2, <1>3, <1>4

\* What reviewers do to a proposal is a review of its standing.
LEMMA ReviewShown ==
    ASSUME IInv, Tells, NEW p \in Proposals, Review(p)
    PROVE  Tells' /\ Standings!Review(p)
  <1>1. PICK s \in Standings!Reviewed(Standing(p)) :
           /\ records' = [records EXCEPT ![p].status = s.status, ![p].outcome = s.outcome]
           /\ worktrees' = IF s.made THEN worktrees \cup {p} ELSE worktrees \ {p}
    BY DEF Review
  <1>2. records[p] # None /\ UNCHANGED <<pc, mine>>
    BY DEF Review, local
  <1>3. /\ Standing(p) \in Standings!Standing
        /\ Standing(p).made = (p \in worktrees)
        /\ records[p] \in Record
        /\ Standing(p).status = records[p].status
        /\ Standing(p).outcome = records[p].outcome
    BY <1>2, StandingFacts DEF IInv
  <1>4. /\ s \in Standings!Standing
        /\ s.status \in {records[p].status, "materialized", "reviewed", "rejected"}
        /\ s.outcome \in {"none", "materialized", "failed"}
        /\ records[p].outcome = "none" => /\ s.status = "rejected" /\ s.outcome = "none"
                                          /\ s.made = (p \in worktrees)
    <2>1. s.outcome \in {"none", "materialized", "failed"}
      BY <1>3, ReviewedFacts DEF Standings!Standing
    <2> QED
      BY <1>3, <2>1, ReviewedFacts
  <1>5. s.made \in BOOLEAN /\ s = [status |-> s.status, outcome |-> s.outcome, made |-> s.made]
    BY <1>4 DEF Standings!Standing
  <1>6. /\ records'[p] # None /\ records'[p].status = s.status /\ records'[p].outcome = s.outcome
        /\ \A q \in Proposals \ {p} : records'[q] = records[q]
    <2> DEFINE st == s.status
               o == s.outcome
    <2>1. st \in {records[p].status, "materialized", "reviewed", "rejected"} /\ o \in {"none", "materialized", "failed"}
      BY <1>4
    <2>2. records' = [records EXCEPT ![p].status = st, ![p].outcome = o]
      BY <1>1
    <2> HIDE DEF st, o
    <2>3. records'[p] \in Record /\ records'[p].status = st /\ records'[p].outcome = o
      BY <1>3, <2>1, <2>2 DEF IInv, TypeOK, Record
    <2>4. \A q \in Proposals \ {p} : records'[q] = records[q]
      BY <2>2 DEF IInv, TypeOK
    <2> QED
      BY <2>3, <2>4, NoneIsNoValue DEF st, o
  <1>7. /\ p \in worktrees' <=> s.made
        /\ \A q \in Proposals \ {p} : q \in worktrees' <=> q \in worktrees
    BY <1>1, <1>5
  <1>8. Standing(p)' = s
    <2>1. (p \in worktrees)' = s.made
      BY <1>5, <1>7
    <2> QED
      BY <1>5, <1>6, <2>1 DEF Standing
  <1>9. Standings!Review(p)
    <2>1. Shown' = [Shown EXCEPT ![p] = s] /\ Shown[p] = Standing(p)
      BY <1>6, <1>7, <1>8, ShownChange DEF Shown
    <2> QED
      BY <2>1 DEF Standings!Review, Standings!Change, Shown
  <1>10. ASSUME NEW q \in Proposals PROVE Untold(q)'
    <2>1. CASE q = p
      <3>1. records[p].status = "draft" => records[p].outcome = "none"
        BY <1>2 DEF Tells, Untold
      <3> QED
        BY <1>4, <1>6, <2>1, <3>1 DEF Untold
    <2>2. CASE q # p
      BY <1>6, <1>7, <2>2 DEF Tells, Untold
    <2> QED
      BY <2>1, <2>2
  <1>11. ASSUME NEW j \in Submitters, pc[j] \in {"commit", "undone"} PROVE MaterializeOK(j)'
    <2>1. mine[j].proposal \in Proposals
      <3>1. pc[j] \in LockedSteps
        BY <1>11 DEF LockedSteps
      <3> QED
        BY <3>1, HolderFacts
    <2>2. /\ Mine(j).status \in {"draft", "rejected"} /\ Mine(j).outcome = "none"
          /\ mine[j].proposal \in worktrees
      BY <1>11 DEF Tells, MaterializeOK
    <2>3. CASE mine[j].proposal = p
      <3>1. s.status = "rejected" /\ s.outcome = "none" /\ s.made
        BY <1>4, <2>2, <2>3 DEF Mine
      <3> QED
        BY <1>2, <1>6, <1>7, <2>3, <3>1 DEF MaterializeOK, Mine
    <2>4. CASE mine[j].proposal # p
      BY <1>2, <1>6, <1>7, <2>1, <2>2, <2>4 DEF MaterializeOK, Mine
    <2> QED
      BY <2>3, <2>4
  <1>12. ASSUME NEW j \in Submitters PROVE MaterializeOK(j)'
    BY <1>2, <1>11 DEF MaterializeOK
  <1> QED
    BY <1>9, <1>10, <1>12 DEF Tells

\* Every step of the intake is a step of the standings or invisible in them.
LEMMA StandingStep == IInv /\ Tells /\ [Next]_vars => Tells' /\ [Standings!Next]_Shown
  <1> SUFFICES ASSUME IInv, Tells, [Next]_vars
               PROVE  Tells' /\ (Standings!Next \/ Shown' = Shown)
    OBVIOUS
  <1> DEFINE Quiet == /\ UNCHANGED <<records, worktrees>>
                      /\ \A i \in Submitters :
                            pc'[i] \in {"commit", "undone"} => pc'[i] = pc[i] /\ mine'[i] = mine[i]
  <1>1. CASE Quiet
    BY <1>1, StandingQuiet
  <1> HIDE DEF Quiet
  <1>2. ASSUME NEW i \in Submitters,
               CreateDraft(i) \/ WorktreeAdd(i) \/ CommitAll(i) \/ MaterializeFails(i)
        PROVE  Tells' /\ (Standings!Next \/ Shown' = Shown)
    BY <1>2, DraftShown, WorktreeShown, MaterializeShown DEF Standings!Next
  <1>3. ASSUME NEW p \in Proposals, Review(p)
        PROVE  Tells' /\ (Standings!Next \/ Shown' = Shown)
    BY <1>3, ReviewShown DEF Standings!Next
  <1>4. CASE UNCHANGED vars \/ TargetMoves
    <2>1. records' = records /\ worktrees' = worktrees /\ pc' = pc /\ mine' = mine
      BY <1>4 DEF vars, disk, local, TargetMoves
    <2> QED
      BY <1>1, <2>1 DEF Quiet
  <1>5. ASSUME NEW i \in Submitters, NEW step \in Steps \ {"commit", "undone"},
               pc' = [pc EXCEPT ![i] = step], UNCHANGED <<records, worktrees>>,
               \A j \in Submitters \ {i} : mine'[j] = mine[j]
        PROVE  Quiet
    BY <1>5 DEF Quiet, IInv, TypeOK
  <1>6. ASSUME NEW i \in Submitters, Leave(i)
        PROVE  pc' = [pc EXCEPT ![i] = "idle"] /\ \A j \in Submitters \ {i} : mine'[j] = mine[j]
    BY <1>6 DEF Leave, IInv, TypeOK
  <1>7. ASSUME NEW i \in Submitters, NEW r \in Requests, NEW d \in Digests, Submit(i, r, d)
        PROVE  Quiet
    <2>1. /\ pc' = [pc EXCEPT ![i] = "preview"] /\ UNCHANGED <<records, worktrees>>
          /\ \A j \in Submitters \ {i} : mine'[j] = mine[j]
      BY <1>7 DEF Submit, disk, IInv, TypeOK
    <2> QED
      BY <1>5, <2>1 DEF Steps
  <1>8. ASSUME NEW i \in Submitters, Crash(i)
        PROVE  Quiet
    BY <1>5, <1>6, <1>8 DEF Crash, disk, Steps
  <1>9. ASSUME NEW i \in Submitters, Enter(i)
        PROVE  Quiet
    <2>1. UNCHANGED <<records, worktrees>>
      BY <1>9 DEF Enter, Reserve, Reuse, Refuse, Resume, disk
    <2>2. \/ Leave(i)
          \/ \E step \in {"execute", "materialize", "complete"} :
                pc' = [pc EXCEPT ![i] = step] /\ \A j \in Submitters \ {i} : mine'[j] = mine[j]
      <3>1. ASSUME NEW receipt, NEW step \in {"execute", "materialize", "complete"}, Locked(i, receipt, step)
            PROVE  pc' = [pc EXCEPT ![i] = step] /\ \A j \in Submitters \ {i} : mine'[j] = mine[j]
        BY <3>1 DEF Locked, IInv, TypeOK
      <3>2. CASE \E p \in Proposals : Reserve(i, p)
        BY <3>1, <3>2 DEF Reserve
      <3>3. CASE Reuse(i) \/ Refuse(i)
        BY <3>3 DEF Reuse, Refuse
      <3>4. CASE Resume(i)
        <4> DEFINE record == records[Stored(i).proposal]
        <4>1. CASE record = None
          BY <3>1, <3>4, <4>1 DEF Resume
        <4>2. CASE record # None /\ ~Agrees(Stored(i), record, request[i])
          BY <3>4, <4>2 DEF Resume
        <4>3. CASE record # None /\ Agrees(Stored(i), record, request[i])
          <5>1. Locked(i, Stored(i), IF record.status = "draft" THEN "materialize" ELSE "complete")
            BY <3>4, <4>3 DEF Resume
          <5> QED
            BY <3>1, <5>1
        <4> QED
          BY <4>1, <4>2, <4>3
      <3> QED
        BY <1>9, <3>2, <3>3, <3>4 DEF Enter
    <2> QED
      BY <1>5, <1>6, <2>1, <2>2 DEF Steps, LockedSteps
  <1>10. ASSUME NEW i \in Submitters, Proceed(i)
         PROVE  \/ Quiet
                \/ CreateDraft(i) \/ WorktreeAdd(i) \/ CommitAll(i) \/ MaterializeFails(i)
    <2>1. CASE PreviewRejects(i) \/ ClearStaging(i) \/ Fail(i)
      BY <1>5, <1>6, <2>1 DEF PreviewRejects, ClearStaging, Fail, disk, Steps
    <2>2. CASE Preview(i)
      <3>1. UNCHANGED <<records, worktrees>> /\ (Leave(i) \/ (pc' = [pc EXCEPT ![i] = "lock"] /\ mine' = mine))
        BY <2>2 DEF Preview, disk
      <3> QED
        BY <1>5, <1>6, <3>1 DEF Steps
    <2>3. CASE AssertTarget(i) \/ StageOperations(i) \/ SubmissionFails(i) \/ ProposalsBusy(i)
      <3>1. /\ UNCHANGED <<records, worktrees>>
            /\ \/ Leave(i)
               \/ \E step \in {"stage", "create_draft", "fail"} : Goto(i, step)
        BY <2>3 DEF AssertTarget, StageOperations, SubmissionFails, ProposalsBusy, disk
      <3>2. ASSUME NEW step \in {"stage", "create_draft", "fail"}, Goto(i, step)
            PROVE  Quiet
        BY <1>5, <3>1, <3>2 DEF Goto, Steps, LockedSteps
      <3> QED
        BY <1>5, <1>6, <3>1, <3>2 DEF Steps
    <2>4. CASE Complete(i)
      <3>1. /\ pc' = [pc EXCEPT ![i] = "clear"] /\ UNCHANGED <<records, worktrees>>
            /\ \A j \in Submitters \ {i} : mine'[j] = mine[j]
        BY <2>4 DEF Complete, SaveReceipt, IInv, TypeOK
      <3> QED
        BY <1>5, <3>1 DEF Steps, LockedSteps
    <2> QED
      BY <1>10, <2>1, <2>2, <2>3, <2>4 DEF Proceed
  <1> QED
    BY <1>1, <1>2, <1>3, <1>4, <1>7, <1>8, <1>9, <1>10 DEF Next

\* At first no proposal is known.
LEMMA StandingInit == Init => Tells /\ Standings!Init
  <1> SUFFICES ASSUME Init PROVE Tells /\ Standings!Init
    OBVIOUS
  <1>1. Tells
    BY DEF Init, Tells, Untold, MaterializeOK
  <1>2. ASSUME NEW p \in Proposals
        PROVE  Standing(p) = [status |-> "none", outcome |-> "none", made |-> FALSE]
    <2>1. records[p] = None /\ (p \in worktrees) = FALSE
      BY DEF Init
    <2> QED
      BY <2>1 DEF Standing
  <1> QED
    BY <1>1, <1>2 DEF Standings!Init

\* The intake makes the two calls it may make of the proposal service as
\* ProposalStandings has them: one create_draft for a proposal, one materialize
\* that comes to something, however often a submission is cut short and resumed
\* and whatever reviewers do meanwhile.
THEOREM StandingsRefinement == Spec => ImplementsStandings
  <1> DEFINE Inv == IInv /\ Tells
  <1>1. Init => Inv /\ Standings!Init
    BY InitInv, StandingInit
  <1>2. Inv /\ [Next]_vars => Inv' /\ [Standings!Next]_Shown
    BY StepInv, StandingStep
  <1> QED
    BY <1>1, <1>2, PTL DEF Spec, ImplementsStandings, Standings!Spec, Shown

================================================================================
