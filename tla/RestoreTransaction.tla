--------------------------- MODULE RestoreTransaction ---------------------------
(****************************************************************************)
(* RuntimeAdapter.apply_restore of src/self_nomad/adapters/base.py: a plan  *)
(* made earlier is written into the directory of an agent runtime, which    *)
(* may be running and writing there all the while.                          *)
(*                                                                          *)
(*   digest -> check the plan -> copy to a stage -> verify the stage ->     *)
(*   recheck -> back up -> move the original away -> move the stage in ->   *)
(*   verify live -> finish;     on an exception: remove live -> put back    *)
(*                                                                          *)
(* A directory is a function from the paths that matter to what is there.   *)
(* Nothing locks it: several processes may restore it at the same time, and *)
(* each of them may die and be run again.                                   *)
(****************************************************************************)
EXTENDS Naturals

CONSTANTS
    Restorers,  \* processes that restore this directory
    Paths,      \* artifacts in the runtime directory
    Planned,    \* those that mappings of the plans have as destination
    None,       \* nothing there
    Existing,   \* whether there is a runtime directory at first
    Faults,     \* what may go wrong
    MaxRestores,\* a bound: how many restores are started
    MaxWrites   \* a bound: how often the runtime writes

\* error: an I/O error at any phase, as failure_injector makes them
\* crash: a process dies
\* write: the runtime writes and removes artifacts in its directory
\* start: the runtime makes its directory when there is none
ASSUME PlanAssumption == Planned \subseteq Paths
ASSUME FaultsAssumption == Faults \subseteq {"error", "crash", "write", "start"}
ASSUME ExistingAssumption == Existing \in BOOLEAN
ASSUME BoundsAssumption == MaxRestores \in Nat /\ MaxWrites \in Nat
\* None is no content and no directory.
ASSUME NoneAssumption ==
    None \notin {"before", "canonical", "own", "any"} \cup [Paths -> {"before", "canonical", "own", None}]

VARIABLES
    live,       \* the runtime directory
    backups,    \* what copies of replaced artifacts the backup directories hold
    leftovers,  \* rollback directories nobody will remove any more
    restores,   \* how many restores have been started
    writes,     \* how often the runtime has written
    job,        \* the local variables of each restorer, and its next step
    original,   \* history: the directory before anything happened
    owed,       \* history: what must not get lost at each path, or "any"
    written,    \* history: the paths the runtime has written
    misled      \* history: a restorer found no directory because another had it away

vars == <<live, backups, leftovers, restores, writes, job, original, owed, written, misled>>

\* before: any restore; canonical: the self-repository; own: the runtime.
Values == {"before", "canonical", "own"}
Tree == [Paths -> Values \cup {None}]
Empty == [p \in Paths |-> None]

Steps == {"idle", "digest", "check", "copy", "verify_stage", "recheck", "back_up", "move_original",
          "move_stage", "verify_live", "finish", "remove_live", "put_back"}

Job == [pc : Steps,
        plan : Tree,                \* what the plan found at each destination
        existed : BOOLEAN,          \* original_exists
        digest : Tree,              \* original_digest
        stage : Tree \cup {None},   \* the stage directory
        rollback : Tree \cup {None},\* the rollback directory
        swapped : BOOLEAN]          \* the stage has been moved in

TypeOK ==
    /\ live \in Tree \cup {None}
    /\ backups \subseteq Planned \X Values
    /\ leftovers \subseteq Tree
    /\ restores \in 0..MaxRestores
    /\ writes \in 0..MaxWrites
    /\ job \in [Restorers -> Job]
    /\ original \in Tree \cup {None}
    /\ owed \in [Paths -> Values \cup {None, "any"}]
    /\ written \subseteq Paths
    /\ misled \in BOOLEAN

-----------------------------------------------------------------------------

\* tree_digest and Path.exists of what may not be there: an absent directory
\* has the digest of an empty one.
Contents(directory) == IF directory = None THEN Empty ELSE directory

\* What is there at first: something of the runtime, what the self-repository
\* has, or nothing.
Found == {t \in [Paths -> {"before", "canonical", None}] : \A p \in Paths \ Planned : t[p] = "before"}

Idle == [pc |-> "idle", plan |-> Empty, existed |-> FALSE, digest |-> Empty,
         stage |-> None, rollback |-> None, swapped |-> FALSE]

Init ==
    /\ live \in IF Existing THEN Found ELSE {None}
    /\ backups = {}
    /\ leftovers = {}
    /\ restores = 0
    /\ writes = 0
    /\ job = [r \in Restorers |-> Idle]
    /\ original = live
    /\ owed = Contents(live)
    /\ written = {}
    /\ misled = FALSE

\* The mappings that are not identical.
Applicable(r) == {p \in Planned : job[r].plan[p] # "canonical"}

At(r, step) == job[r].pc = step
Goto(r, step) == job' = [job EXCEPT ![r].pc = step]

\* The restore is over: the stage is removed, what the rollback directory holds
\* stays where it is.
Stop(r) == job' = [job EXCEPT ![r] = Idle]

\* Nothing on disk changes.
Looks == UNCHANGED <<live, backups, leftovers>>
Bookkeeping == UNCHANGED <<restores, writes, original, owed, written, misled>>

-----------------------------------------------------------------------------
(* The restore *)

\* plan_restore: mapping_action reads what is at every destination.
Plan(r) ==
    /\ At(r, "idle")
    /\ restores < MaxRestores
    /\ restores' = restores + 1
    /\ job' = [job EXCEPT ![r] = [Idle EXCEPT
                  !.pc = "digest",
                  !.plan = [p \in Paths |-> IF p \in Planned THEN Contents(live)[p] ELSE None]]]
    /\ UNCHANGED <<live, backups, leftovers, writes, original, owed, written, misled>>

\* Another restorer is between its two renames.
Away(r) == live = None /\ \E o \in Restorers \ {r} : job[o].rollback # None

Digest(r) ==
    /\ At(r, "digest")
    /\ job' = [job EXCEPT ![r] = [@ EXCEPT !.pc = "check", !.existed = live # None, !.digest = Contents(live)]]
    /\ misled' = (misled \/ Away(r))
    /\ Looks
    /\ UNCHANGED <<restores, writes, original, owed, written>>

\* "runtime changed after plan", or nothing to do.
Check(r) ==
    /\ At(r, "check")
    /\ IF Applicable(r) # {} /\ \A p \in Planned : Contents(live)[p] = job[r].plan[p]
       THEN Goto(r, "copy")
       ELSE Stop(r)
    /\ Looks
    /\ Bookkeeping

\* Mutant: the artifacts are staged without the directory around them.
CopyArtifactsOnly(r) ==
    /\ At(r, "copy")
    /\ job' = [job EXCEPT ![r] = [@ EXCEPT !.pc = "verify_stage",
                  !.stage = [p \in Paths |-> IF p \in Applicable(r) THEN "canonical" ELSE None]]]
    /\ Looks
    /\ Bookkeeping

\* copytree, which fails if the directory has gone, then the artifacts of the
\* applicable mappings over it.
Copy(r) ==
    /\ At(r, "copy")
    /\ IF job[r].existed /\ live = None
       THEN Goto(r, "remove_live")
       ELSE job' = [job EXCEPT ![r] = [@ EXCEPT !.pc = "verify_stage",
                !.stage = [p \in Paths |-> IF p \in Applicable(r) THEN "canonical"
                                           ELSE IF job[r].existed THEN live[p] ELSE None]]]
    /\ Looks
    /\ Bookkeeping

\* What a verification compares: every mapping, the identical ones included.
Restored(directory) == \A p \in Planned : Contents(directory)[p] = "canonical"

VerifyStage(r) ==
    /\ At(r, "verify_stage")
    /\ Goto(r, IF Restored(job[r].stage) THEN "recheck" ELSE "remove_live")
    /\ Looks
    /\ Bookkeeping

\* Mutant: the directory is not looked at again.
Unwatched(r) == TRUE

\* "runtime changed while restore was staging": what is compared is how it was
\* before the copy and how it is now.
Unchanged(r) == job[r].existed => Contents(live) = job[r].digest

\* A directory that another restorer has away passes for an empty one.
Recheck(r) ==
    /\ At(r, "recheck")
    /\ Goto(r, IF Unchanged(r) THEN "back_up" ELSE "remove_live")
    /\ misled' = (misled \/ (job[r].existed /\ Unchanged(r) /\ Away(r)))
    /\ Looks
    /\ UNCHANGED <<restores, writes, original, owed, written>>

BackUp(r) ==
    /\ At(r, "back_up")
    /\ backups' = backups \cup
           {<<p, Contents(live)[p]>> : p \in {q \in Applicable(r) : Contents(live)[q] # None}}
    /\ Goto(r, "move_original")
    /\ UNCHANGED <<live, leftovers>>
    /\ Bookkeeping

\* There is nothing to move, and os.replace fails, if another restorer has the
\* directory away.
MoveOriginal(r) ==
    /\ At(r, "move_original")
    /\ IF ~job[r].existed
       THEN Goto(r, "move_stage") /\ UNCHANGED live
       ELSE IF live = None
       THEN Goto(r, "remove_live") /\ UNCHANGED live
       ELSE /\ job' = [job EXCEPT ![r] = [@ EXCEPT !.pc = "move_stage", !.rollback = live]]
            /\ live' = None
    /\ UNCHANGED <<backups, leftovers>>
    /\ Bookkeeping

\* os.replace puts a directory in the place of nothing or of an empty one.
Free == live \in {None, Empty}

MoveStage(r) ==
    /\ At(r, "move_stage")
    /\ IF Free
       THEN /\ live' = job[r].stage
            /\ job' = [job EXCEPT ![r] = [@ EXCEPT !.pc = "verify_live", !.stage = None, !.swapped = TRUE]]
       ELSE Goto(r, "remove_live") /\ UNCHANGED live
    /\ UNCHANGED <<backups, leftovers>>
    /\ Bookkeeping

VerifyLive(r) ==
    /\ At(r, "verify_live")
    /\ Goto(r, IF Restored(live) THEN "finish" ELSE "remove_live")
    /\ Looks
    /\ Bookkeeping

\* The rollback directory goes.
Finish(r) ==
    /\ At(r, "finish")
    /\ Stop(r)
    /\ Looks
    /\ Bookkeeping

-----------------------------------------------------------------------------
(* Failure and rollback *)

Fails(r) ==
    /\ "error" \in Faults
    /\ job[r].pc \in {"copy", "verify_stage", "recheck", "back_up", "move_original", "move_stage",
                      "verify_live", "finish"}
    /\ Goto(r, "remove_live")
    /\ Looks
    /\ Bookkeeping

\* Mutant: the live directory goes although the stage has not been moved in.
RemoveLiveAnyway(r) ==
    /\ At(r, "remove_live")
    /\ live' = None
    /\ Goto(r, "put_back")
    /\ UNCHANGED <<backups, leftovers>>
    /\ Bookkeeping

RemoveLive(r) ==
    /\ At(r, "remove_live")
    /\ live' = IF job[r].swapped THEN None ELSE live
    /\ Goto(r, "put_back")
    /\ UNCHANGED <<backups, leftovers>>
    /\ Bookkeeping

\* The original goes back; or, if there was none, whatever is there goes.  If
\* something else is in its place, that is RecoveryRequiredError.
PutBack(r) ==
    /\ At(r, "put_back")
    /\ IF job[r].rollback # None
       THEN IF Free THEN live' = job[r].rollback /\ UNCHANGED leftovers
                    ELSE leftovers' = leftovers \cup {job[r].rollback} /\ UNCHANGED live
       ELSE /\ live' = IF job[r].existed THEN live ELSE None
            /\ UNCHANGED leftovers
    /\ Stop(r)
    /\ UNCHANGED backups
    /\ Bookkeeping

Crash(r) ==
    /\ "crash" \in Faults
    /\ ~At(r, "idle")
    /\ leftovers' = leftovers \cup ({job[r].rollback} \ {None})
    /\ Stop(r)
    /\ UNCHANGED <<live, backups>>
    /\ Bookkeeping

-----------------------------------------------------------------------------
(* The runtime *)

\* From here on the restore does not look at the directory before it replaces it.
PastRecheck(r) ==
    job[r].pc \in {"back_up", "move_original", "move_stage", "verify_live", "finish", "remove_live", "put_back"}

\* There was no directory, so there is nothing to recheck.
NoRecheck(r) == ~job[r].existed /\ job[r].pc \notin {"idle", "digest"}

\* r has copied the directory, and what comes back at p was there when r took its
\* digest: the recheck cannot tell that the copy has something else, or nothing.
\* If a mapping goes to p, the copy does not matter, and the backup is still to be
\* made.
ComesBack(r, p, value) ==
    job[r].pc \in {"verify_stage", "recheck"} /\ job[r].digest[p] = value /\ p \notin Applicable(r)

\* The runtime makes, replaces or removes an artifact; what it writes may be what
\* was there before, or what the self-repository has.  If nothing is there it
\* makes its directory.
RuntimeWrites(p, value) ==
    /\ IF live = None THEN "start" \in Faults ELSE "write" \in Faults
    /\ Contents(live)[p] # value
    /\ writes < MaxWrites
    /\ writes' = writes + 1
    /\ live' = [Contents(live) EXCEPT ![p] = value]
    /\ owed' = [owed EXCEPT ![p] =
           IF \E r \in Restorers : PastRecheck(r) \/ NoRecheck(r) \/ ComesBack(r, p, value)
           THEN "any" ELSE value]
    /\ written' = written \cup {p}
    /\ UNCHANGED <<backups, leftovers, restores, job, original, misled>>

-----------------------------------------------------------------------------

Restore(r) ==
    \/ Plan(r)
    \/ Digest(r)
    \/ Check(r)
    \/ Copy(r)
    \/ VerifyStage(r)
    \/ Recheck(r)
    \/ BackUp(r)
    \/ MoveOriginal(r)
    \/ MoveStage(r)
    \/ VerifyLive(r)
    \/ Finish(r)
    \/ Fails(r)
    \/ RemoveLive(r)
    \/ PutBack(r)

Next ==
    \/ \E r \in Restorers : Restore(r) \/ Crash(r)
    \/ \E p \in Paths, value \in Values \cup {None} : RuntimeWrites(p, value)

Spec == Init /\ [][Next]_vars

-----------------------------------------------------------------------------
(* Safety *)

Directories == ({live} \cup {job[r].rollback : r \in Restorers} \cup leftovers) \ {None}

Kept(p, value) == (\E t \in Directories : t[p] = value) \/ <<p, value>> \in backups

\* Whatever goes wrong, at every moment, what was in the directory before the
\* restores and what the runtime wrote there before the recheck is still in the
\* directory, in a rollback directory or, if it was replaced, in the backups.
\* Not owed is what it wrote while a restore ran that had found no directory (see
\* RuntimeNotRemoved), and what it put back after a restore had copied the
\* directory without it (see RecheckedStage).  Restores may overlap; the one case in
\* which they lose content is that of OriginalNotLost, as long as the runtime does
\* not make a directory of its own while one of them has the original away: the
\* other may take that for the original (MCRestoreTransactionOverlap).
ContentKept == ~misled => \A p \in Paths : owed[p] \in Values => Kept(p, owed[p])

\* When the restores are over, and none needs recovery by hand, the directory is
\* what it was or has all planned artifacts replaced and nothing else: the paths
\* that the runtime has written aside.
AllOrNothing ==
    (\A r \in Restorers : At(r, "idle")) /\ leftovers = {} /\ ~misled =>
        LET untouched == Paths \ written
        IN  /\ \A p \in untouched \ Planned : Contents(live)[p] = Contents(original)[p]
            /\ \/ \A p \in untouched \cap Planned : Contents(live)[p] = Contents(original)[p]
               \/ \A p \in untouched \cap Planned : Contents(live)[p] = "canonical"

-----------------------------------------------------------------------------
(* Statements of the documentation that the code does not keep *)

\* tests/integration/test_adapters.py: a change of the runtime during staging
\* makes the restore give up "without overwrite".  A recovery may only remove
\* what the restore has put there.
RuntimeNotRemoved ==
    [][\A r \in Restorers : PutBack(r) =>
          \A p \in Paths : Contents(live)[p] = "own" => Contents(live')[p] = "own"]_vars

\* docs/runtime-portability.md: "Automatic rollback of the original directory on
\* failure."  A restore that looks while another has the directory away takes it
\* for missing; its own move then fails, and its rollback removes the directory
\* that the other has just restored.
OriginalNotLost == \A p \in Paths : owed[p] = "before" => Kept(p, "before")

\* tests/integration/test_adapters.py: a change of the runtime "during staging
\* aborts without overwrite", and docs/runtime-portability.md: "Anything not listed
\* in the plan is out of scope."  So what the plan does not mention has been
\* staged as it was when the restore began.  The recheck compares the directory
\* with the digest and never the stage: an artifact that is changed or removed
\* while it is copied, and is put back, is replaced by what it was for a moment.
RecheckedStage ==
    \A r \in Restorers : job[r].pc \in {"back_up", "move_original", "move_stage"} /\ job[r].existed =>
        \A p \in Paths \ Planned : job[r].stage[p] = job[r].digest[p]
=================================================================================
