--------------------------- MODULE ProposalStandings ---------------------------
(****************************************************************************)
(* What one component may rely on that leaves a proposal to others for a    *)
(* while: how its record and its worktree change when create_draft and      *)
(* materialize are called once each and every other method of               *)
(* ProposalService any number of times, overlapping, on stale records.      *)
(* ProposalService implements this specification, and IntakeService, which  *)
(* makes the two calls, takes Reviewed for what reviewers do meanwhile.     *)
(****************************************************************************)
CONSTANT Proposals

VARIABLE standing

\* "reviewed" stands for validated, approved, applied and stale.
\*   outcome: what materialize came to, as long as the record says so or the
\*            copy of it that somebody has loaded and not returned yet
\*   made:    the directory or the branch of a worktree is there
Standing == [status : {"none", "draft", "materialized", "reviewed", "rejected", "failed"},
             outcome : {"none", "materialized", "failed"},
             made : BOOLEAN]

TypeOK == standing \in [Proposals -> Standing]

Init == standing = [p \in Proposals |-> [status |-> "none", outcome |-> "none", made |-> FALSE]]

Rejected(s) == {[s EXCEPT !.status = "rejected"]}

\* validate, approve and apply save what they have loaded: over a rejection,
\* too, if they loaded it before.
Judged(s) ==
    {[s EXCEPT !.status = status] :
        status \in IF s.outcome = "materialized" THEN {"materialized", "reviewed"} ELSE {}}

\* cleanup removes the worktree that the record names, or did when it was
\* loaded; an apply that is under way writes its audit record where it was.
Cleaned(s) ==
    {[s EXCEPT !.made = made] : made \in IF s.outcome = "none" THEN {} ELSE BOOLEAN}

\* A reject that was loaded before materialize ended saves a record without
\* an outcome; the last copy that has it goes when its call returns.
Forgotten(s) ==
    {[s EXCEPT !.outcome = "none"] : status \in {"rejected"} \cap {s.status}}

Reviewed(s) ==
    IF s.status = "none" THEN {}
    ELSE LET next == Rejected(s) \cup Judged(s) \cup Cleaned(s)
         IN  next \cup UNION {Forgotten(t) : t \in next}

Change(p, next) ==
    \E s \in next : standing' = [standing EXCEPT ![p] = s]

CreateDraft(p) ==
    /\ standing[p].status = "none"
    /\ Change(p, {[standing[p] EXCEPT !.status = "draft"]})

\* materialize, which a reject may overlap: the worktree first, the record last.
Materializing(p) == standing[p].status \in {"draft", "rejected"} /\ standing[p].outcome = "none"

AddWorktree(p) ==
    /\ Materializing(p)
    /\ Change(p, {[standing[p] EXCEPT !.made = TRUE]})

EndMaterialize(p) ==
    /\ Materializing(p)
    /\ Change(p, {[standing[p] EXCEPT !.status = outcome, !.outcome = outcome] :
                      outcome \in {"failed"} \cup {o \in {"materialized"} : standing[p].made}})

Review(p) == Change(p, Reviewed(standing[p]))

Next == \E p \in Proposals : CreateDraft(p) \/ AddWorktree(p) \/ EndMaterialize(p) \/ Review(p)

Spec == Init /\ [][Next]_standing
================================================================================
