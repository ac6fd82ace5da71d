----------------------- MODULE RestoreTransactionProofs -----------------------
(****************************************************************************)
(* What holds of RestoreTransaction for every set of restorers, paths and   *)
(* mappings and any number of restores.                                     *)
(*                                                                          *)
(* What is owed at a path is saved once it is in a backup or a leftover     *)
(* directory, for nobody removes those.  Until then it is at risk, and the  *)
(* invariant says where it is: in the directory if there is one, and in     *)
(* every rollback directory; and that whoever is about to replace the       *)
(* directory has it in the stage.                                           *)
(****************************************************************************)
EXTENDS RestoreTransaction, TLAPS

\* The hypothesis of the theorems on content: as long as another restorer may
\* come, the runtime does not make the directory that a restore has away.
StartsAlone == "start" \in Faults => \E r \in Restorers : Restorers = {r}

Before == {"idle", "digest", "check", "copy"}
Staged == {"verify_stage", "recheck", "back_up", "move_original", "move_stage"}
Committed == {"back_up", "move_original", "move_stage"}

\* The local variables of a restorer, by its next step.
JobOK(r) ==
    /\ job[r].pc \in Before \cup (Staged \ {"move_stage"}) => job[r].rollback = None /\ ~job[r].swapped
    /\ job[r].pc = "move_stage" => ~job[r].swapped /\ (job[r].existed => job[r].rollback # None)
    /\ job[r].swapped /\ job[r].existed => job[r].rollback # None
    /\ job[r].rollback # None => job[r].existed
    /\ job[r].pc \in Staged => job[r].stage # None
    /\ job[r].pc \in Staged \ {"verify_stage"} => Restored(job[r].stage)
    /\ job[r].pc \in Staged \cup {"copy"} => Applicable(r) # {}
    /\ job[r].pc \in {"verify_live", "finish"} => job[r].swapped

-----------------------------------------------------------------------------
(* Where the content is *)

Saved(p) == <<p, owed[p]>> \in backups \/ \E t \in leftovers : t[p] = owed[p]

AtRisk(p) == owed[p] \in Values /\ ~Saved(p)

\* Something of the directory is nowhere but in it.
Needed == (Existing /\ leftovers = {}) \/ (\E p \in Paths : AtRisk(p))

\* r has the directory away, and will put it back unless its stage gets in.
Holds(r) ==
    /\ job[r].rollback # None
    /\ \/ job[r].pc \in {"move_stage", "put_back"}
       \/ job[r].pc = "remove_live" /\ ~job[r].swapped

\* The runtime may have made another directory meanwhile.
Displaced == "start" \in Faults /\ \E r \in Restorers : Holds(r)

\* The runtime has written since r took the digest, and not what was there then:
\* the recheck will see it.
Outdated(r, p) == job[r].digest[p] # owed[p]

RestorerKnows(r, p) ==
    /\ job[r].rollback # None => job[r].rollback[p] = owed[p] /\ (p \in Planned => owed[p] = "canonical")
    /\ job[r].pc \in Committed => job[r].digest[p] = owed[p]
    /\ job[r].pc \in {"move_original", "move_stage"} /\ p \in Applicable(r) => owed[p] = "canonical"
    /\ job[r].pc \in Staged /\ p \notin Applicable(r) => job[r].stage[p] = owed[p] \/ Outdated(r, p)

Whereabouts ==
    /\ \A p \in Paths : AtRisk(p) =>
          /\ live # None => live[p] = owed[p] \/ Displaced
          /\ \A r \in Restorers : RestorerKnows(r, p)
    /\ Needed =>
          /\ live = None => \E r \in Restorers : Holds(r)
          /\ \A r \in Restorers : job[r].pc \notin {"idle", "digest"} => job[r].existed

-----------------------------------------------------------------------------
(* What the directory may look like *)

\* Where the values of a directory come from.
Sourced(t) ==
    \A p \in Paths \ written :
        t[p] \in {Contents(original)[p], None} \cup {v \in {"canonical"} : p \in Planned}

\* The planned artifacts that the runtime has not written are all as they were or
\* all replaced.
Uniform(t) ==
    \/ \A p \in Planned \ written : t[p] = Contents(original)[p]
    \/ \A p \in Planned \ written : t[p] = "canonical"

Provenance ==
    /\ original = None <=> ~Existing
    /\ \A p \in Paths : /\ p \notin written => owed[p] = Contents(original)[p]
                        /\ Existing /\ p \notin Planned => Contents(original)[p] = "before"
    /\ live # None => Sourced(live)
    /\ \A r \in Restorers : /\ job[r].rollback # None => Sourced(job[r].rollback)
                            /\ job[r].stage # None => Sourced(job[r].stage)
    /\ ~misled /\ leftovers = {} =>
          /\ live # None => Uniform(live) \/ Displaced
          /\ \A r \in Restorers : job[r].rollback # None => Uniform(job[r].rollback)

IInv ==
    /\ TypeOK
    /\ \A r \in Restorers : JobOK(r)
    /\ ~misled => Whereabouts
    /\ Provenance

-----------------------------------------------------------------------------
(* Types, and the local variables of each restorer *)

LEMMA EmptyFacts == Empty \in Tree /\ Empty # None /\ None \notin Tree
  BY NoneAssumption DEF Empty, Tree, Values

LEMMA ContentsFacts == TypeOK => Contents(live) \in Tree
  BY EmptyFacts DEF TypeOK, Contents

LEMMA JobFacts ==
    ASSUME TypeOK, NEW r \in Restorers
    PROVE  /\ job[r] \in Job /\ job[r].pc \in Steps /\ job[r].plan \in Tree
           /\ job[r].existed \in BOOLEAN /\ job[r].digest \in Tree /\ job[r].swapped \in BOOLEAN
           /\ job[r].stage \in Tree \cup {None} /\ job[r].rollback \in Tree \cup {None}
           /\ Contents(live) \in Tree
  BY ContentsFacts DEF TypeOK, Job

LEMMA IdleFacts == Idle \in Job
  BY EmptyFacts DEF Idle, Job, Steps

LEMMA InitType == Init => TypeOK
  <1>1. Found \subseteq Tree
    BY DEF Found, Tree, Values
  <1>2. SUFFICES ASSUME Init PROVE TypeOK
    OBVIOUS
  <1>3. live \in Tree \cup {None}
    BY <1>1, <1>2 DEF Init
  <1>4. Contents(live) \in [Paths -> Values \cup {None, "any"}]
    BY <1>3, EmptyFacts DEF Contents, Tree
  <1>5. job \in [Restorers -> Job]
    BY <1>2, IdleFacts DEF Init
  <1>6. /\ restores \in 0..MaxRestores /\ writes \in 0..MaxWrites
        /\ leftovers \subseteq Tree /\ written \subseteq Paths /\ misled \in BOOLEAN
    <2>1. restores = 0 /\ writes = 0 /\ leftovers = {} /\ written = {} /\ misled = FALSE
      BY <1>2 DEF Init
    <2>2. restores \in 0..MaxRestores /\ writes \in 0..MaxWrites
      BY <2>1, BoundsAssumption
    <2>3. misled \in BOOLEAN
      BY <2>1
    <2> QED
      BY <2>1, <2>2, <2>3
  <1>7. backups \subseteq Planned \X Values
    BY <1>2 DEF Init
  <1>8. original \in Tree \cup {None} /\ owed \in [Paths -> Values \cup {None, "any"}]
    BY <1>2, <1>3, <1>4 DEF Init
  <1> QED
    BY <1>3, <1>5, <1>6, <1>7, <1>8 DEF TypeOK

\* What a step does to the local variables of its restorer.
LEMMA GotoFacts ==
    ASSUME TypeOK, NEW r \in Restorers, NEW step \in Steps, Goto(r, step)
    PROVE  /\ job' \in [Restorers -> Job]
           /\ \A o \in Restorers \ {r} : job'[o] = job[o]
           /\ job'[r].pc = step
           /\ job'[r].plan = job[r].plan /\ job'[r].existed = job[r].existed
           /\ job'[r].digest = job[r].digest /\ job'[r].stage = job[r].stage
           /\ job'[r].rollback = job[r].rollback /\ job'[r].swapped = job[r].swapped
  BY DEF TypeOK, Goto, Job

LEMMA StopFacts ==
    ASSUME TypeOK, NEW r \in Restorers, Stop(r)
    PROVE  /\ job' \in [Restorers -> Job]
           /\ \A o \in Restorers \ {r} : job'[o] = job[o]
           /\ job'[r] = Idle
  BY IdleFacts DEF TypeOK, Stop

LEMMA PlanFacts ==
    ASSUME TypeOK, NEW r \in Restorers, Plan(r)
    PROVE  /\ job' \in [Restorers -> Job]
           /\ \A o \in Restorers \ {r} : job'[o] = job[o]
           /\ job'[r] = [Idle EXCEPT !.pc = "digest", !.plan = job'[r].plan]
  <1> DEFINE found == [p \in Paths |-> IF p \in Planned THEN Contents(live)[p] ELSE None]
             j == [Idle EXCEPT !.pc = "digest", !.plan = found]
  <1>1. found \in Tree
    BY JobFacts DEF Tree
  <1>2. job' = [job EXCEPT ![r] = j]
    BY DEF Plan
  <1> HIDE DEF found
  <1>3. j \in Job /\ j.plan = found
    BY <1>1, IdleFacts DEF Job, Idle, Steps
  <1> QED
    BY <1>2, <1>3 DEF TypeOK

LEMMA DigestFacts ==
    ASSUME TypeOK, NEW r \in Restorers, Digest(r)
    PROVE  /\ job' \in [Restorers -> Job]
           /\ \A o \in Restorers \ {r} : job'[o] = job[o]
           /\ job'[r].pc = "check" /\ job'[r].plan = job[r].plan
           /\ job'[r].existed = (live # None) /\ job'[r].digest = Contents(live)
           /\ job'[r].stage = job[r].stage
           /\ job'[r].rollback = job[r].rollback /\ job'[r].swapped = job[r].swapped
  <1> DEFINE j == [job[r] EXCEPT !.pc = "check", !.existed = live # None, !.digest = Contents(live)]
  <1>1. job' = [job EXCEPT ![r] = j]
    BY DEF Digest
  <1>2. j \in Job
    BY JobFacts DEF Job, Steps
  <1> QED
    BY <1>1, <1>2, JobFacts DEF TypeOK, Job

LEMMA CopyFacts ==
    ASSUME TypeOK, NEW r \in Restorers, Copy(r), ~(job[r].existed /\ live = None)
    PROVE  /\ job' \in [Restorers -> Job]
           /\ \A o \in Restorers \ {r} : job'[o] = job[o]
           /\ job'[r].pc = "verify_stage" /\ job'[r].plan = job[r].plan
           /\ job'[r].existed = job[r].existed /\ job'[r].digest = job[r].digest
           /\ job'[r].rollback = job[r].rollback /\ job'[r].swapped = job[r].swapped
           /\ job'[r].stage \in Tree
           /\ \A p \in Paths : job'[r].stage[p] = IF p \in Applicable(r) THEN "canonical"
                                                 ELSE IF job[r].existed THEN live[p] ELSE None
  <1> DEFINE staged == [p \in Paths |-> IF p \in Applicable(r) THEN "canonical"
                                        ELSE IF job[r].existed THEN live[p] ELSE None]
             j == [job[r] EXCEPT !.pc = "verify_stage", !.stage = staged]
  <1>1. staged \in Tree
    BY JobFacts DEF TypeOK, Tree, Values
  <1>2. job' = [job EXCEPT ![r] = j]
    BY DEF Copy
  <1>3. \A p \in Paths : staged[p] = IF p \in Applicable(r) THEN "canonical"
                                     ELSE IF job[r].existed THEN live[p] ELSE None
    OBVIOUS
  <1> HIDE DEF staged
  <1>4. j \in Job
    BY <1>1, JobFacts DEF Job, Steps
  <1>5. j.pc = "verify_stage" /\ j.plan = job[r].plan /\ j.existed = job[r].existed
        /\ j.digest = job[r].digest /\ j.rollback = job[r].rollback
        /\ j.swapped = job[r].swapped /\ j.stage = staged
    BY JobFacts DEF Job
  <1> HIDE DEF j
  <1>6. job'[r] = j /\ job' \in [Restorers -> Job] /\ \A o \in Restorers \ {r} : job'[o] = job[o]
    BY <1>2, <1>4 DEF TypeOK
  <1> QED
    BY <1>1, <1>3, <1>5, <1>6

LEMMA MoveOriginalFacts ==
    ASSUME TypeOK, NEW r \in Restorers, MoveOriginal(r), job[r].existed, live # None
    PROVE  /\ job' \in [Restorers -> Job]
           /\ \A o \in Restorers \ {r} : job'[o] = job[o]
           /\ job'[r].pc = "move_stage" /\ job'[r].plan = job[r].plan
           /\ job'[r].existed = job[r].existed /\ job'[r].digest = job[r].digest
           /\ job'[r].stage = job[r].stage /\ job'[r].swapped = job[r].swapped
           /\ job'[r].rollback = live /\ live' = None
  <1> DEFINE j == [job[r] EXCEPT !.pc = "move_stage", !.rollback = live]
  <1>1. job' = [job EXCEPT ![r] = j] /\ live' = None
    BY DEF MoveOriginal
  <1>2. j \in Job
    BY JobFacts DEF TypeOK, Job, Steps
  <1> QED
    BY <1>1, <1>2, JobFacts DEF TypeOK, Job

LEMMA MoveStageFacts ==
    ASSUME TypeOK, NEW r \in Restorers, MoveStage(r), Free
    PROVE  /\ job' \in [Restorers -> Job]
           /\ \A o \in Restorers \ {r} : job'[o] = job[o]
           /\ job'[r].pc = "verify_live" /\ job'[r].plan = job[r].plan
           /\ job'[r].existed = job[r].existed /\ job'[r].digest = job[r].digest
           /\ job'[r].stage = None /\ job'[r].swapped = TRUE
           /\ job'[r].rollback = job[r].rollback /\ live' = job[r].stage
  <1> DEFINE j == [job[r] EXCEPT !.pc = "verify_live", !.stage = None, !.swapped = TRUE]
  <1>1. job' = [job EXCEPT ![r] = j] /\ live' = job[r].stage
    BY DEF MoveStage
  <1>2. j \in Job
    BY JobFacts DEF TypeOK, Job, Steps
  <1> QED
    BY <1>1, <1>2, JobFacts DEF TypeOK, Job


LEMMA TypeStep == TypeOK /\ [Next]_vars => TypeOK'
  <1> SUFFICES ASSUME TypeOK, [Next]_vars
               PROVE  TypeOK'
    OBVIOUS
  <1> USE DEF Bookkeeping, Looks
  <1>1. CASE UNCHANGED vars
    BY <1>1 DEF vars, TypeOK
  <1>2. ASSUME NEW r \in Restorers, Plan(r) PROVE TypeOK'
    <2>1. restores' \in 0..MaxRestores
      BY <1>2, BoundsAssumption DEF Plan, TypeOK
    <2> QED
      BY <1>2, <2>1, PlanFacts DEF Plan, TypeOK
  <1>3. ASSUME NEW r \in Restorers, Digest(r) PROVE TypeOK'
    <2>1. misled' \in BOOLEAN
      BY <1>3 DEF Digest, TypeOK
    <2> QED
      BY <1>3, <2>1, DigestFacts DEF Digest, TypeOK
  <1>4. ASSUME NEW r \in Restorers, Looks, Bookkeeping,
               (\E step \in Steps : Goto(r, step)) \/ Stop(r)
        PROVE  TypeOK'
    BY <1>4, GotoFacts, StopFacts DEF TypeOK
  <1>5. ASSUME NEW r \in Restorers, Check(r) \/ VerifyStage(r) \/ VerifyLive(r) \/ Finish(r)
                                    \/ Fails(r)
        PROVE  TypeOK'
    BY <1>4, <1>5 DEF Check, VerifyStage, VerifyLive, Finish, Fails, Steps
  <1>6. ASSUME NEW r \in Restorers, Copy(r) PROVE TypeOK'
    <2>1. CASE job[r].existed /\ live = None
      BY <1>4, <1>6, <2>1 DEF Copy, Steps
    <2>2. CASE ~(job[r].existed /\ live = None)
      BY <1>6, <2>2, CopyFacts DEF Copy, TypeOK
    <2> QED
      BY <2>1, <2>2
  <1>7. ASSUME NEW r \in Restorers, BackUp(r) PROVE TypeOK'
    <2>1. job' \in [Restorers -> Job]
      BY <1>7, GotoFacts DEF BackUp, Steps
    <2>2. backups' \subseteq Planned \X Values
      BY <1>7, JobFacts, PlanAssumption DEF BackUp, Applicable, TypeOK, Tree
    <2> QED
      BY <1>7, <2>1, <2>2 DEF BackUp, TypeOK
  <1>8. ASSUME NEW r \in Restorers, MoveOriginal(r) PROVE TypeOK'
    <2>1. CASE job[r].existed /\ live # None
      BY <1>8, <2>1, MoveOriginalFacts DEF MoveOriginal, TypeOK
    <2>2. CASE ~(job[r].existed /\ live # None)
      BY <1>4, <1>8, <2>2 DEF MoveOriginal, Steps
    <2> QED
      BY <2>1, <2>2
  <1>9. ASSUME NEW r \in Restorers, MoveStage(r) PROVE TypeOK'
    <2>1. CASE Free
      BY <1>9, <2>1, MoveStageFacts, JobFacts DEF MoveStage, TypeOK
    <2>2. CASE ~Free
      BY <1>4, <1>9, <2>2 DEF MoveStage, Steps
    <2> QED
      BY <2>1, <2>2
  <1>10. ASSUME NEW r \in Restorers, RemoveLive(r) PROVE TypeOK'
    BY <1>10, GotoFacts DEF RemoveLive, TypeOK, Steps
  <1>11. ASSUME NEW r \in Restorers, PutBack(r) PROVE TypeOK'
    BY <1>11, StopFacts, JobFacts DEF PutBack, TypeOK
  <1>12. ASSUME NEW r \in Restorers, Crash(r) PROVE TypeOK'
    BY <1>12, StopFacts, JobFacts DEF Crash, TypeOK
  <1>13. ASSUME NEW p \in Paths, NEW value \in Values \cup {None}, RuntimeWrites(p, value) PROVE TypeOK'
    <2>1. live' \in Tree
      BY <1>13, ContentsFacts DEF RuntimeWrites, Tree
    <2>2. owed' \in [Paths -> Values \cup {None, "any"}]
      BY <1>13 DEF RuntimeWrites, TypeOK
    <2>3. writes' \in 0..MaxWrites
      BY <1>13, BoundsAssumption DEF RuntimeWrites, TypeOK
    <2> QED
      BY <1>13, <2>1, <2>2, <2>3 DEF RuntimeWrites, TypeOK
  <1>14. ASSUME NEW r \in Restorers, Recheck(r) PROVE TypeOK'
    <2>1. job' \in [Restorers -> Job]
      BY <1>14, GotoFacts DEF Recheck, Steps
    <2>2. misled' \in BOOLEAN
      BY <1>14 DEF Recheck, TypeOK
    <2> QED
      BY <1>14, <2>1, <2>2 DEF Recheck, TypeOK
  <1> QED
    BY <1>1, <1>2, <1>3, <1>5, <1>6, <1>7, <1>8, <1>9, <1>10, <1>11, <1>12, <1>13, <1>14
    DEF Next, Restore

\* Every variable has its type in every reachable state.
THEOREM TypeCorrect == Spec => []TypeOK
  BY InitType, TypeStep, PTL DEF Spec

LEMMA JobOKKept ==
    ASSUME NEW r \in Restorers, JobOK(r), job'[r] = job[r]
    PROVE  JobOK(r)'
  BY DEF JobOK, Applicable, Restored, Contents

LEMMA IdleOK ==
    ASSUME NEW r \in Restorers, job'[r] = Idle
    PROVE  JobOK(r)'
  BY DEF JobOK, Idle, Before, Staged

LEMMA JobOKStep ==
    ASSUME TypeOK, \A r \in Restorers : JobOK(r), NEW r \in Restorers, Restore(r) \/ Crash(r)
    PROVE  JobOK(r)'
  <1> USE DEF JobOK, Before, Staged, At
  <1>0. JobOK(r)
    OBVIOUS
  <1>1. CASE Plan(r)
    <2>1. job'[r] = [Idle EXCEPT !.pc = "digest", !.plan = job'[r].plan]
      BY <1>1, PlanFacts
    <2>2. /\ job'[r].pc = "digest" /\ job'[r].stage = Idle.stage /\ job'[r].rollback = Idle.rollback
          /\ job'[r].existed = Idle.existed /\ job'[r].swapped = Idle.swapped /\ job'[r].digest = Idle.digest
      BY <2>1 DEF Idle
    <2> QED
      BY <2>2 DEF Idle
  <1>2. CASE Digest(r)
    BY <1>0, <1>2, DigestFacts DEF Digest
  <1>3. CASE Check(r)
    <2>1. CASE Stop(r)
      BY <2>1, StopFacts, IdleOK
    <2>2. CASE Goto(r, "copy") /\ Applicable(r) # {}
      BY <1>0, <1>3, <2>2, GotoFacts DEF Check, Steps, Applicable
    <2> QED
      BY <1>3, <2>1, <2>2 DEF Check
  <1>4. CASE Copy(r)
    <2>1. CASE job[r].existed /\ live = None
      BY <1>0, <1>4, <2>1, GotoFacts DEF Copy, Steps
    <2>2. CASE ~(job[r].existed /\ live = None)
      <3>1. /\ job'[r].pc = "verify_stage" /\ job'[r].plan = job[r].plan
            /\ job'[r].rollback = job[r].rollback /\ job'[r].swapped = job[r].swapped
            /\ job'[r].existed = job[r].existed /\ job'[r].stage \in Tree /\ job[r].pc = "copy"
        BY <1>4, <2>2, CopyFacts DEF Copy
      <3> QED
        BY <1>0, <3>1, EmptyFacts DEF Applicable
    <2> QED
      BY <2>1, <2>2
  <1>5. CASE VerifyStage(r)
    BY <1>0, <1>5, GotoFacts DEF VerifyStage, Steps, Applicable, Restored, Contents
  <1>6. CASE Recheck(r)
    BY <1>0, <1>6, GotoFacts DEF Recheck, Steps, Applicable, Restored, Contents
  <1>7. CASE BackUp(r)
    BY <1>0, <1>7, GotoFacts DEF BackUp, Steps, Applicable, Restored, Contents
  <1>8. CASE MoveOriginal(r)
    <2>1. CASE job[r].existed /\ live # None
      <3>1. /\ job'[r].pc = "move_stage" /\ job'[r].plan = job[r].plan
            /\ job'[r].rollback = live /\ job'[r].swapped = job[r].swapped
            /\ job'[r].existed /\ job'[r].stage = job[r].stage /\ job[r].pc = "move_original"
        BY <1>8, <2>1, MoveOriginalFacts DEF MoveOriginal
      <3> QED
        BY <1>0, <2>1, <3>1 DEF Applicable, Restored, Contents
    <2>2. CASE ~(job[r].existed /\ live # None)
      BY <1>0, <1>8, <2>2, GotoFacts DEF MoveOriginal, Steps, Applicable, Restored, Contents
    <2> QED
      BY <2>1, <2>2
  <1>9. CASE MoveStage(r)
    <2>1. CASE Free
      BY <1>0, <1>9, <2>1, MoveStageFacts DEF MoveStage
    <2>2. CASE ~Free
      BY <1>0, <1>9, <2>2, GotoFacts DEF MoveStage, Steps
    <2> QED
      BY <2>1, <2>2
  <1>10. CASE VerifyLive(r)
    BY <1>0, <1>10, GotoFacts DEF VerifyLive, Steps
  <1>11. CASE Fails(r)
    BY <1>0, <1>11, GotoFacts DEF Fails, Steps
  <1>12. CASE RemoveLive(r)
    BY <1>0, <1>12, GotoFacts DEF RemoveLive, Steps
  <1>13. CASE Finish(r) \/ PutBack(r) \/ Crash(r)
    BY <1>13, StopFacts, IdleOK DEF Finish, PutBack, Crash
  <1> QED
    BY <1>1, <1>2, <1>3, <1>4, <1>5, <1>6, <1>7, <1>8, <1>9, <1>10, <1>11, <1>12, <1>13 DEF Restore

\* What a step of a restorer can do to the directories.
LEMMA Effects ==
    ASSUME TypeOK, \A r \in Restorers : JobOK(r), NEW r \in Restorers, Restore(r) \/ Crash(r)
    PROVE  /\ job' \in [Restorers -> Job] /\ \A o \in Restorers \ {r} : job'[o] = job[o]
           /\ original' = original /\ owed' = owed /\ written' = written /\ (misled => misled')
           /\ leftovers \subseteq leftovers' /\ backups \subseteq backups'
           /\ \/ live' \in {live, None}
              \/ live' = job[r].stage /\ job[r].pc = "move_stage"
              \/ live' = job[r].rollback /\ job[r].rollback # None
           /\ \/ job'[r].rollback \in {job[r].rollback, None}
              \/ job'[r].rollback = live /\ live # None /\ job[r].pc = "move_original"
           /\ \/ job'[r].stage \in {job[r].stage, None}
              \/ /\ job[r].pc = "copy" /\ (job[r].existed => live # None)
                 /\ \A p \in Paths : job'[r].stage[p] = IF p \in Applicable(r) THEN "canonical"
                                                       ELSE IF job[r].existed THEN live[p] ELSE None
           /\ \/ ~job'[r].existed
              \/ job[r].existed /\ job'[r].digest = job[r].digest
              \/ live # None /\ job'[r].digest = live
  <1> USE DEF Looks, Bookkeeping
  <1>1. CASE Plan(r)
    BY <1>1, PlanFacts DEF Plan, Idle
  <1>2. CASE Digest(r)
    BY <1>2, DigestFacts DEF Digest, Contents
  <1>3. ASSUME (\E step \in Steps : Goto(r, step)) \/ Stop(r)
        PROVE  /\ job' \in [Restorers -> Job] /\ \A o \in Restorers \ {r} : job'[o] = job[o]
               /\ job'[r].rollback \in {job[r].rollback, None}
               /\ job'[r].stage \in {job[r].stage, None}
               /\ \/ ~job'[r].existed
                  \/ job[r].existed /\ job'[r].digest = job[r].digest
    <2>1. CASE \E step \in Steps : Goto(r, step)
      <3>1. PICK step \in Steps : Goto(r, step)
        BY <2>1
      <3> QED
        BY <3>1, GotoFacts, JobFacts
    <2>2. CASE Stop(r)
      BY <2>2, StopFacts DEF Idle
    <2> QED
      BY <1>3, <2>1, <2>2
  <1>4. CASE Check(r) \/ VerifyStage(r) \/ VerifyLive(r) \/ Finish(r) \/ Fails(r)
    BY <1>3, <1>4 DEF Check, VerifyStage, VerifyLive, Finish, Fails, Steps
  <1>5. CASE Copy(r)
    <2>1. CASE job[r].existed /\ live = None
      BY <1>3, <1>5, <2>1 DEF Copy, Steps
    <2>2. CASE ~(job[r].existed /\ live = None)
      BY <1>5, <2>2, CopyFacts DEF Copy, At
    <2> QED
      BY <2>1, <2>2
  <1>6. CASE BackUp(r)
    BY <1>3, <1>6 DEF BackUp, Steps
  <1>7. CASE MoveOriginal(r)
    <2>1. CASE job[r].existed /\ live # None
      BY <1>7, <2>1, MoveOriginalFacts DEF MoveOriginal, At
    <2>2. CASE ~(job[r].existed /\ live # None)
      BY <1>3, <1>7, <2>2 DEF MoveOriginal, Steps
    <2> QED
      BY <2>1, <2>2
  <1>8. CASE MoveStage(r)
    <2>1. CASE Free
      BY <1>8, <2>1, MoveStageFacts DEF MoveStage, At
    <2>2. CASE ~Free
      BY <1>3, <1>8, <2>2 DEF MoveStage, Steps
    <2> QED
      BY <2>1, <2>2
  <1>9. CASE RemoveLive(r)
    BY <1>3, <1>9 DEF RemoveLive, Steps
  <1>10. CASE PutBack(r)
    BY <1>3, <1>10 DEF PutBack
  <1>11. CASE Crash(r)
    BY <1>3, <1>11 DEF Crash
  <1>12. CASE Recheck(r)
    <2>1. misled => misled'
      BY <1>12 DEF Recheck
    <2> QED
      BY <1>3, <1>12, <2>1 DEF Recheck, Steps
  <1> QED
    BY <1>1, <1>2, <1>4, <1>5, <1>6, <1>7, <1>8, <1>9, <1>10, <1>11, <1>12 DEF Restore

-----------------------------------------------------------------------------
\* A stage that is verified has an artifact in it.
LEMMA StageFilled ==
    ASSUME TypeOK, NEW r \in Restorers, JobOK(r), job[r].pc = "move_stage"
    PROVE  /\ job[r].stage \in Tree /\ job[r].stage # Empty
           /\ \A p \in Planned : job[r].stage[p] = "canonical"
  <1>1. /\ job[r].stage \in Tree /\ \A p \in Planned : job[r].stage[p] = "canonical"
        /\ Applicable(r) # {}
    BY JobFacts DEF JobOK, Staged, Restored, Contents
  <1>2. PICK p \in Planned : job[r].stage[p] = "canonical"
    BY <1>1 DEF Applicable
  <1>3. Empty[p] = None
    BY PlanAssumption DEF Empty
  <1> QED
    BY <1>1, <1>2, <1>3, NoneAssumption

-----------------------------------------------------------------------------
(* The content at risk *)

\* What the lemmas of this section assume of the state.
Known ==
    /\ StartsAlone
    /\ TypeOK
    /\ \A r \in Restorers : JobOK(r)
    /\ Whereabouts

\* A step of a restorer puts nothing at risk.
LEMMA RiskFalls ==
    ASSUME Known, NEW r \in Restorers, Restore(r) \/ Crash(r)
    PROVE  /\ \A p \in Paths : AtRisk(p)' => AtRisk(p)
           /\ Needed' => Needed
  <1>1. \A p \in Paths : AtRisk(p)' => AtRisk(p)
    BY Effects DEF Known, AtRisk, Saved
  <1>2. leftovers' = {} => leftovers = {}
    BY Effects DEF Known
  <1> QED
    BY <1>1, <1>2 DEF Needed

\* Another restorer knows as much as before.
LEMMA OthersKnow ==
    ASSUME NEW o \in Restorers, job'[o] = job[o], owed' = owed
    PROVE  /\ Holds(o)' <=> Holds(o)
           /\ \A p \in Paths : RestorerKnows(o, p) => RestorerKnows(o, p)'
  BY DEF Holds, RestorerKnows, Applicable, Outdated

LEMMA IdleKnows ==
    ASSUME NEW r \in Restorers, job'[r] = Idle
    PROVE  \A p \in Paths : RestorerKnows(r, p)'
  BY DEF RestorerKnows, Idle, Committed, Staged

\* What is left to show of a step of a restorer.
LEMMA StepRisk ==
    ASSUME Known, NEW r \in Restorers, Restore(r) \/ Crash(r),
           \A p \in Paths : AtRisk(p) /\ AtRisk(p)' =>
               /\ live' # None => live'[p] = owed[p] \/ Displaced'
               /\ RestorerKnows(r, p)',
           Needed /\ Needed' => /\ live' = None => \E o \in Restorers : Holds(o)'
                                /\ job'[r].pc \notin {"idle", "digest"} => job'[r].existed
    PROVE  Whereabouts'
  <1>1. /\ \A p \in Paths : AtRisk(p)' => AtRisk(p)
        /\ Needed' => Needed
    BY RiskFalls
  <1>2. owed' = owed /\ \A o \in Restorers \ {r} : job'[o] = job[o]
    BY Effects DEF Known
  <1>3. ASSUME NEW p \in Paths, AtRisk(p)', NEW o \in Restorers
        PROVE  RestorerKnows(o, p)'
    BY <1>1, <1>2, <1>3, OthersKnow DEF Known, Whereabouts
  <1>4. ASSUME Needed', NEW o \in Restorers, job'[o].pc \notin {"idle", "digest"}
        PROVE  job'[o].existed
    BY <1>1, <1>2, <1>4 DEF Known, Whereabouts
  <1> QED
    BY <1>1, <1>2, <1>3, <1>4 DEF Whereabouts

\* A step that leaves the directory where it is.
LEMMA QuietRisk ==
    ASSUME Known, NEW r \in Restorers, Restore(r) \/ Crash(r),
           live' = live, Holds(r) => Holds(r)' \/ ~Needed',
           \A p \in Paths : AtRisk(p) /\ AtRisk(p)' => RestorerKnows(r, p)',
           Needed /\ Needed' => (job'[r].pc \notin {"idle", "digest"} => job'[r].existed)
    PROVE  Whereabouts'
  <1>1. owed' = owed /\ \A o \in Restorers \ {r} : job'[o] = job[o]
    BY Effects DEF Known
  <1>2. \A o \in Restorers : Holds(o) => Holds(o)' \/ ~Needed'
    BY <1>1, OthersKnow
  <1>3. \A p \in Paths : AtRisk(p)' => Needed'
    BY DEF Needed
  <1>4. Displaced => Displaced' \/ ~Needed'
    BY <1>2 DEF Displaced
  <1> QED
    BY <1>2, <1>3, <1>4, StepRisk DEF Known, Whereabouts

\* While r does not have the directory away, it is the one that matters.
LEMMA InPlace ==
    ASSUME Known, NEW r \in Restorers, job[r].pc \notin {"move_stage", "remove_live", "put_back"},
           live # None
    PROVE  \A p \in Paths : AtRisk(p) => live[p] = owed[p]
  BY DEF Known, StartsAlone, Whereabouts, Displaced, Holds

\* Steps up to the recheck, on a directory that is there if it is needed.
LEMMA LookingRisk ==
    ASSUME Known, ~misled', NEW r \in Restorers,
           Plan(r) \/ Digest(r) \/ Check(r) \/ Copy(r) \/ VerifyStage(r) \/ Recheck(r)
    PROVE  Whereabouts'
  <1> USE DEF At, Before, Staged, Committed
  <1>1. Restore(r) /\ JobOK(r) /\ live' = live
    BY DEF Restore, Known, Plan, Digest, Check, Copy, VerifyStage, Recheck, Looks
  <1>2. ~Holds(r) /\ job[r].rollback = None
    BY <1>1 DEF Holds, JobOK, Plan, Digest, Check, Copy, VerifyStage, Recheck
  <1>3. live # None => \A p \in Paths : AtRisk(p) => live[p] = owed[p]
    BY InPlace DEF Plan, Digest, Check, Copy, VerifyStage, Recheck
  <1>4. owed' = owed
    BY <1>1, Effects DEF Known
  <1>5. \A p \in Paths : AtRisk(p) => RestorerKnows(r, p)
    BY DEF Known, Whereabouts
  <1>6. Needed => (job[r].pc \notin {"idle", "digest"} => job[r].existed)
    BY DEF Known, Whereabouts
  <1>7. CASE Plan(r)
    <2>1. job'[r].pc = "digest" /\ job'[r].rollback = None
      BY <1>7, PlanFacts DEF Known, Idle
    <2>2. \A p \in Paths : RestorerKnows(r, p)'
      BY <2>1 DEF RestorerKnows
    <2> QED
      BY <1>1, <1>2, <2>1, <2>2, QuietRisk
  <1>8. CASE Digest(r)
    <2>1. Needed => live # None
      BY <1>2, <1>8 DEF Known, Whereabouts, Digest, Away, Holds
    <2>2. /\ job'[r].pc = "check" /\ job'[r].existed = (live # None)
          /\ job'[r].digest = Contents(live) /\ job'[r].rollback = None
      BY <1>2, <1>8, DigestFacts DEF Known
    <2>3. ASSUME NEW p \in Paths, AtRisk(p) PROVE RestorerKnows(r, p)'
      <3>1. live # None /\ live[p] = owed[p]
        BY <1>3, <2>1, <2>3 DEF Needed
      <3> QED
        BY <1>4, <2>2, <3>1 DEF RestorerKnows, Contents
    <2> QED
      BY <1>1, <1>2, <2>1, <2>2, <2>3, QuietRisk
  <1>9. CASE Check(r)
    <2>1. CASE Stop(r)
      <3>1. job'[r] = Idle /\ Idle.pc = "idle"
        BY <2>1, StopFacts DEF Known, Idle
      <3>2. \A p \in Paths : RestorerKnows(r, p)'
        BY <3>1, IdleKnows
      <3> QED
        BY <1>1, <1>2, <3>1, <3>2, QuietRisk
    <2>2. CASE Goto(r, "copy") /\ \A p \in Planned : Contents(live)[p] = job[r].plan[p]
      <3>1. /\ job'[r].pc = "copy" /\ job'[r].existed = job[r].existed /\ job[r].pc = "check"
            /\ job'[r].digest = job[r].digest /\ job'[r].rollback = None /\ job'[r].plan = job[r].plan
        BY <1>2, <1>9, <2>2, GotoFacts DEF Known, Steps, Check
      <3>2. \A p \in Paths : RestorerKnows(r, p)'
        BY <3>1 DEF RestorerKnows
      <3> QED
        BY <1>1, <1>2, <1>6, <3>1, <3>2, QuietRisk
    <2> QED
      BY <1>9, <2>1, <2>2 DEF Check
  <1>10. ASSUME Goto(r, "remove_live"), job[r].pc \notin {"idle", "digest"}
         PROVE  Whereabouts'
    <2>1. /\ job'[r].pc = "remove_live" /\ job'[r].existed = job[r].existed
          /\ job'[r].digest = job[r].digest /\ job'[r].rollback = None
      BY <1>2, <1>10, GotoFacts DEF Known, Steps
    <2>2. \A p \in Paths : AtRisk(p) => RestorerKnows(r, p)'
      BY <1>4, <1>5, <1>10, <2>1 DEF RestorerKnows, Outdated
    <2> QED
      BY <1>1, <1>2, <1>6, <1>10, <2>1, <2>2, QuietRisk
  <1>11. CASE Copy(r)
    <2>1. CASE job[r].existed /\ live = None
      BY <1>10, <1>11, <2>1 DEF Copy
    <2>2. CASE ~(job[r].existed /\ live = None)
      <3>1. /\ job'[r].pc = "verify_stage" /\ job'[r].existed = job[r].existed /\ job[r].pc = "copy"
            /\ job'[r].digest = job[r].digest /\ job'[r].rollback = None /\ job'[r].plan = job[r].plan
            /\ \A p \in Paths : job'[r].stage[p] = IF p \in Applicable(r) THEN "canonical"
                                                   ELSE IF job[r].existed THEN live[p] ELSE None
        BY <1>2, <1>11, <2>2, CopyFacts DEF Known, Copy
      <3>2. ASSUME NEW p \in Paths, AtRisk(p) PROVE RestorerKnows(r, p)'
        <4>1. job[r].existed /\ live # None /\ live[p] = owed[p]
          BY <1>3, <1>6, <2>2, <3>1, <3>2 DEF Needed
        <4>2. p \notin Applicable(r) => job'[r].stage[p] = owed[p]
          BY <3>1, <4>1
        <4> QED
          BY <1>4, <3>1, <4>2 DEF RestorerKnows, Applicable, Outdated
      <3> QED
        BY <1>1, <1>2, <1>6, <3>1, <3>2, QuietRisk
    <2> QED
      BY <2>1, <2>2
  <1>12. CASE VerifyStage(r)
    <2>1. CASE Goto(r, "remove_live")
      BY <1>10, <1>12, <2>1 DEF VerifyStage
    <2>2. CASE Goto(r, "recheck")
      <3>1. /\ job'[r].pc = "recheck" /\ job'[r].existed = job[r].existed /\ job[r].pc = "verify_stage"
            /\ job'[r].digest = job[r].digest /\ job'[r].rollback = None /\ job'[r].plan = job[r].plan
            /\ job'[r].stage = job[r].stage
        BY <1>2, <1>12, <2>2, GotoFacts DEF Known, Steps, VerifyStage
      <3>2. \A p \in Paths : AtRisk(p) => RestorerKnows(r, p)'
        BY <1>4, <1>5, <3>1 DEF RestorerKnows, Applicable, Outdated
      <3> QED
        BY <1>1, <1>2, <1>6, <3>1, <3>2, QuietRisk
    <2> QED
      BY <1>12, <2>1, <2>2 DEF VerifyStage
  <1>13. CASE Recheck(r)
    <2>1. CASE ~Unchanged(r)
      BY <1>10, <1>13, <2>1 DEF Recheck
    <2>2. CASE Unchanged(r)
      <3>1. /\ job'[r].pc = "back_up" /\ job'[r].existed = job[r].existed /\ job[r].pc = "recheck"
            /\ job'[r].digest = job[r].digest /\ job'[r].rollback = None /\ job'[r].plan = job[r].plan
            /\ job'[r].stage = job[r].stage
        BY <1>2, <1>13, <2>2, GotoFacts DEF Known, Steps, Recheck
      <3>2. ASSUME NEW p \in Paths, AtRisk(p)
            PROVE  job[r].digest[p] = owed[p]
        <4>1. job[r].existed /\ Contents(live) = job[r].digest
          BY <1>6, <2>2, <3>1, <3>2 DEF Needed, Unchanged
        <4>2. live # None
          <5>1. ~Away(r)
            BY <1>13, <2>2, <4>1 DEF Recheck
          <5> QED
            BY <1>2, <3>2, <5>1 DEF Known, Whereabouts, Needed, Away, Holds
        <4> QED
          BY <1>3, <3>2, <4>1, <4>2 DEF Contents
      <3>3. \A p \in Paths : AtRisk(p) => RestorerKnows(r, p)'
        BY <1>4, <1>5, <3>1, <3>2 DEF RestorerKnows, Applicable, Outdated
      <3> QED
        BY <1>1, <1>2, <1>6, <3>1, <3>3, QuietRisk
    <2> QED
      BY <2>1, <2>2
  <1> QED
    BY <1>7, <1>8, <1>9, <1>11, <1>12, <1>13

\* The backup, and the two renames.
LEMMA ReplacingRisk ==
    ASSUME Known, NEW r \in Restorers, BackUp(r) \/ MoveOriginal(r) \/ MoveStage(r)
    PROVE  Whereabouts'
  <1> USE DEF At, Before, Staged, Committed
  <1>1. Restore(r) /\ JobOK(r)
    BY DEF Restore, Known
  <1>2. owed' = owed
    BY <1>1, Effects DEF Known
  <1>3. \A p \in Paths : AtRisk(p) => RestorerKnows(r, p)
    BY DEF Known, Whereabouts
  <1>4. Needed => job[r].existed
    BY DEF Known, Whereabouts, BackUp, MoveOriginal, MoveStage
  <1>5. ASSUME NEW p \in Paths, AtRisk(p)
        PROVE  /\ job[r].digest[p] = owed[p] /\ ~Outdated(r, p)
               /\ p \in Planned \ Applicable(r) => owed[p] = "canonical"
    <2>1. job[r].digest[p] = owed[p]
      BY <1>3, <1>5 DEF RestorerKnows, BackUp, MoveOriginal, MoveStage
    <2>2. p \in Planned \ Applicable(r) => owed[p] = "canonical"
      BY <1>1, <1>3, <1>5, <2>1, EmptyFacts
      DEF RestorerKnows, Outdated, BackUp, MoveOriginal, MoveStage, JobOK, Restored, Contents
    <2> QED
      BY <2>1, <2>2 DEF Outdated
  <1>6. CASE BackUp(r)
    <2>1. /\ job'[r].pc = "move_original" /\ job'[r].existed = job[r].existed /\ job[r].pc = "back_up"
          /\ job'[r].digest = job[r].digest /\ job'[r].rollback = job[r].rollback
          /\ job[r].rollback = None
          /\ job'[r].plan = job[r].plan /\ job'[r].stage = job[r].stage /\ live' = live
      BY <1>1, <1>6, GotoFacts DEF Known, Steps, BackUp, JobOK
    <2>2. ASSUME NEW p \in Paths, AtRisk(p), AtRisk(p)', p \in Applicable(r)
          PROVE  owed[p] = "canonical"
      <3>1. CASE live # None
        <4>1. live[p] = owed[p] /\ owed[p] # None
          BY <2>1, <2>2, <3>1, InPlace, NoneAssumption DEF AtRisk, Values
        <4>2. <<p, owed[p]>> \in backups'
          BY <1>6, <2>2, <3>1, <4>1 DEF BackUp, Contents
        <4> QED
          BY <1>2, <2>2, <4>2 DEF AtRisk, Saved
      <3>2. CASE live = None
        <4>1. PICK o \in Restorers : Holds(o)
          BY <2>2, <3>2 DEF Known, Whereabouts, Needed
        <4> QED
          BY <2>2, <4>1 DEF Known, Whereabouts, RestorerKnows, Holds, Applicable
      <3> QED
        BY <3>1, <3>2
    <2>3. \A p \in Paths : AtRisk(p) /\ AtRisk(p)' => RestorerKnows(r, p)'
      BY <1>2, <1>3, <1>5, <2>1, <2>2 DEF RestorerKnows, Applicable, Outdated
    <2>4. ~Holds(r)
      BY <2>1 DEF Holds
    <2> QED
      BY <1>1, <1>4, <2>1, <2>3, <2>4, QuietRisk
  <1>7. CASE MoveOriginal(r) /\ job[r].existed /\ live # None
    <2>1. /\ job'[r].pc = "move_stage" /\ job'[r].existed = job[r].existed
          /\ job[r].pc = "move_original" /\ job'[r].digest = job[r].digest /\ job'[r].rollback = live
          /\ job'[r].plan = job[r].plan /\ job'[r].stage = job[r].stage /\ live' = None
      BY <1>7, MoveOriginalFacts DEF Known, MoveOriginal
    <2>2. ASSUME NEW p \in Paths, AtRisk(p)
          PROVE  live[p] = owed[p] /\ (p \in Planned => owed[p] = "canonical")
      BY <1>3, <1>5, <1>7, <2>1, <2>2, InPlace DEF RestorerKnows
    <2>3. \A p \in Paths : AtRisk(p) => RestorerKnows(r, p)'
      BY <1>2, <1>3, <1>5, <2>1, <2>2 DEF RestorerKnows, Applicable, Outdated
    <2>4. Holds(r)'
      BY <1>7, <2>1 DEF Holds
    <2> QED
      BY <1>1, <1>7, <2>1, <2>3, <2>4, StepRisk
  <1>8. CASE MoveOriginal(r) /\ ~job[r].existed
    <2>1. /\ ~Needed /\ Restore(r)
      BY <1>1, <1>4, <1>8
    <2> QED
      BY <2>1, StepRisk DEF Needed
  <1>9. CASE MoveOriginal(r) /\ job[r].existed /\ live = None
    <2>1. /\ job'[r].pc = "remove_live" /\ job'[r].existed = job[r].existed
          /\ job[r].pc = "move_original" /\ job'[r].digest = job[r].digest
          /\ job'[r].rollback = job[r].rollback /\ job[r].rollback = None
          /\ live' = live
      BY <1>1, <1>9, GotoFacts DEF Known, Steps, MoveOriginal, JobOK
    <2>2. \A p \in Paths : AtRisk(p) => RestorerKnows(r, p)'
      BY <1>2, <1>5, <2>1 DEF RestorerKnows
    <2> QED
      BY <1>1, <1>9, <2>1, <2>2, QuietRisk DEF Holds
  <1>10. CASE MoveStage(r) /\ Free
    <2>1. /\ job'[r].pc = "verify_live" /\ job'[r].existed = job[r].existed
          /\ job[r].pc = "move_stage" /\ job'[r].digest = job[r].digest
          /\ job'[r].rollback = job[r].rollback /\ live' = job[r].stage
      BY <1>10, MoveStageFacts DEF Known, MoveStage
    <2>2. ASSUME NEW p \in Paths, AtRisk(p)
          PROVE  live'[p] = owed[p] /\ RestorerKnows(r, p)'
      <3>1. p \notin Planned => job[r].stage[p] = owed[p]
        BY <1>3, <1>5, <2>1, <2>2 DEF RestorerKnows, Applicable
      <3>2. p \in Planned => job[r].stage[p] = "canonical" /\ owed[p] = "canonical"
        BY <1>1, <1>3, <1>5, <2>1, <2>2, StageFilled DEF Known, RestorerKnows
      <3>3. RestorerKnows(r, p)'
        BY <1>2, <1>3, <1>5, <2>1, <2>2 DEF RestorerKnows
      <3> QED
        BY <2>1, <3>1, <3>2, <3>3
    <2>3. live' # None
      BY <1>1, <2>1, StageFilled, EmptyFacts DEF Known
    <2> QED
      BY <1>1, <1>4, <2>1, <2>2, <2>3, StepRisk
  <1>11. CASE MoveStage(r) /\ ~Free
    <2>1. /\ job'[r].pc = "remove_live" /\ job'[r].existed = job[r].existed
          /\ job[r].pc = "move_stage" /\ job'[r].digest = job[r].digest
          /\ job'[r].rollback = job[r].rollback /\ live' = live /\ ~job'[r].swapped
      BY <1>1, <1>11, GotoFacts DEF Known, Steps, MoveStage, JobOK
    <2>2. \A p \in Paths : AtRisk(p) => RestorerKnows(r, p)'
      BY <1>2, <1>3, <1>5, <2>1 DEF RestorerKnows
    <2>3. Holds(r) => Holds(r)'
      BY <2>1 DEF Holds
    <2> QED
      BY <1>1, <1>4, <2>1, <2>2, <2>3, QuietRisk
  <1> QED
    BY <1>6, <1>7, <1>8, <1>9, <1>10, <1>11

\* The rest of a restore: once more a look, the end, failures and the recovery.
LEMMA EndingRisk ==
    ASSUME Known, NEW r \in Restorers,
           VerifyLive(r) \/ Finish(r) \/ Fails(r) \/ RemoveLive(r) \/ PutBack(r) \/ Crash(r)
    PROVE  Whereabouts'
  <1> USE DEF At, Before, Staged, Committed
  <1>1. JobOK(r) /\ (Restore(r) \/ Crash(r))
    BY DEF Restore, Known
  <1>2. owed' = owed
    BY <1>1, Effects DEF Known
  <1>3. \A p \in Paths : AtRisk(p) => RestorerKnows(r, p)
    BY DEF Known, Whereabouts
  <1>4. Needed => (job[r].pc \notin {"idle", "digest"} => job[r].existed)
    BY DEF Known, Whereabouts
  <1>5. ASSUME NEW step \in {"finish", "remove_live", "put_back"}, Goto(r, step), job[r].pc \notin {"idle", "digest"}
        PROVE  /\ \A p \in Paths : AtRisk(p) => RestorerKnows(r, p)'
               /\ Needed => (job'[r].pc \notin {"idle", "digest"} => job'[r].existed)
               /\ job'[r].pc = step /\ job'[r].rollback = job[r].rollback
               /\ job'[r].swapped = job[r].swapped
    <2>1. /\ job'[r].pc = step /\ job'[r].existed = job[r].existed
          /\ job'[r].digest = job[r].digest /\ job'[r].rollback = job[r].rollback
          /\ job'[r].swapped = job[r].swapped
      BY <1>5, GotoFacts DEF Known, Steps
    <2> QED
      BY <1>2, <1>3, <1>4, <1>5, <2>1 DEF RestorerKnows, Outdated
  <1>6. CASE VerifyLive(r)
    <2>1. live' = live /\ ~Holds(r) /\ job[r].pc = "verify_live"
      BY <1>6 DEF VerifyLive, Looks, Holds
    <2>2. CASE Goto(r, "finish")
      BY <1>1, <1>5, <2>1, <2>2, QuietRisk
    <2>3. CASE Goto(r, "remove_live")
      BY <1>1, <1>5, <2>1, <2>3, QuietRisk
    <2> QED
      BY <1>6, <2>2, <2>3 DEF VerifyLive
  <1>7. CASE Fails(r)
    <2>1. live' = live /\ job[r].pc \notin {"idle", "digest", "remove_live", "put_back"}
          /\ Goto(r, "remove_live")
      BY <1>7 DEF Fails, Looks
    <2>2. Holds(r) => Holds(r)'
      BY <1>1, <1>5, <2>1 DEF Holds, JobOK
    <2> QED
      BY <1>1, <1>5, <2>1, <2>2, QuietRisk
  <1>8. CASE RemoveLive(r)
    <2>1. job[r].pc = "remove_live" /\ Goto(r, "put_back")
      BY <1>8 DEF RemoveLive
    <2>2. CASE ~job[r].swapped
      <3>1. live' = live /\ (Holds(r) => Holds(r)')
        BY <1>5, <1>8, <2>1, <2>2 DEF RemoveLive, Holds
      <3> QED
        BY <1>1, <1>5, <2>1, <3>1, QuietRisk
    <2>3. CASE job[r].swapped
      <3>1. live' = None /\ (Needed => Holds(r)')
        BY <1>1, <1>4, <1>5, <1>8, <2>1, <2>3 DEF RemoveLive, Holds, JobOK
      <3> QED
        BY <1>1, <1>5, <2>1, <3>1, StepRisk
    <2> QED
      BY <2>2, <2>3
  <1>9. ASSUME Stop(r)
        PROVE  /\ \A p \in Paths : RestorerKnows(r, p)'
               /\ job'[r].pc = "idle"
    <2>1. job'[r] = Idle /\ Idle.pc = "idle"
      BY <1>9, StopFacts DEF Known, Idle
    <2> QED
      BY <2>1, IdleKnows
  <1>10. CASE Finish(r)
    <2>1. live' = live /\ ~Holds(r) /\ Stop(r)
      BY <1>10 DEF Finish, Looks, Holds
    <2> QED
      BY <1>1, <1>9, <2>1, QuietRisk
  <1>11. ASSUME job[r].rollback # None, job[r].rollback \in leftovers'
         PROVE  ~Needed'
    <2>1. ASSUME NEW p \in Paths, AtRisk(p)' PROVE FALSE
      BY <1>1, <1>2, <1>3, <1>11, <2>1, RiskFalls DEF RestorerKnows, AtRisk, Saved
    <2> QED
      BY <1>11, <2>1 DEF Needed
  <1>12. CASE Crash(r)
    <2>1. live' = live /\ Stop(r) /\ (job[r].rollback # None => job[r].rollback \in leftovers')
      BY <1>12 DEF Crash
    <2>2. Holds(r) => ~Needed'
      BY <1>11, <2>1 DEF Holds
    <2> QED
      BY <1>1, <1>9, <2>1, <2>2, QuietRisk
  <1>13. CASE PutBack(r)
    <2>1. Stop(r) /\ job[r].pc = "put_back"
      BY <1>13 DEF PutBack
    <2>2. CASE job[r].rollback # None /\ Free
      <3>1. live' = job[r].rollback /\ live' # None
        BY <1>13, <2>2 DEF PutBack
      <3>2. \A p \in Paths : AtRisk(p) => live'[p] = owed[p]
        BY <1>3, <2>2, <3>1 DEF RestorerKnows
      <3> QED
        BY <1>1, <1>9, <2>1, <3>1, <3>2, StepRisk
    <2>3. CASE job[r].rollback # None /\ ~Free
      <3>1. live' = live /\ job[r].rollback \in leftovers'
        BY <1>13, <2>3 DEF PutBack
      <3> QED
        BY <1>1, <1>9, <1>11, <2>1, <2>3, <3>1, QuietRisk
    <2>4. CASE job[r].rollback = None /\ job[r].existed
      <3>1. live' = live /\ ~Holds(r)
        BY <1>13, <2>4 DEF PutBack, Holds
      <3> QED
        BY <1>1, <1>9, <2>1, <3>1, QuietRisk
    <2>5. CASE ~job[r].existed
      <3>1. ~Needed
        BY <1>4, <2>1, <2>5
      <3> QED
        BY <1>1, <3>1, StepRisk DEF Needed
    <2> QED
      BY <2>2, <2>3, <2>4, <2>5
  <1> QED
    BY <1>6, <1>7, <1>8, <1>10, <1>12, <1>13

LEMMA NothingMoves ==
    ASSUME Whereabouts, UNCHANGED <<live, backups, leftovers, job, owed>>
    PROVE  Whereabouts'
  BY DEF Whereabouts, Needed, AtRisk, Saved, Displaced, Holds, RestorerKnows, Applicable, Outdated

\* What the runtime writes is in the directory, and whoever may still replace
\* that has an outdated digest.
LEMMA WriteRisk ==
    ASSUME Known, NEW p \in Paths, NEW value \in Values \cup {None}, RuntimeWrites(p, value)
    PROVE  Whereabouts'
  <1>1. /\ Contents(live) \in Tree /\ owed \in [Paths -> Values \cup {None, "any"}]
        /\ live' = [Contents(live) EXCEPT ![p] = value]
        /\ job' = job /\ backups' = backups /\ leftovers' = leftovers
    BY ContentsFacts DEF Known, TypeOK, RuntimeWrites
  <1>2. /\ live' # None /\ live'[p] = value
        /\ \A q \in Paths \ {p} : live'[q] = Contents(live)[q] /\ owed'[q] = owed[q]
    BY <1>1, EmptyFacts DEF RuntimeWrites, Tree
  <1>3. Displaced' <=> Displaced
    BY <1>1 DEF Displaced, Holds
  <1>4. \A q \in Paths \ {p} : AtRisk(q)' <=> AtRisk(q)
    BY <1>1, <1>2 DEF AtRisk, Saved
  <1>5. ASSUME NEW q \in Paths \ {p}, AtRisk(q)'
        PROVE  /\ live'[q] = owed'[q] \/ Displaced'
               /\ \A r \in Restorers : RestorerKnows(r, q)'
    <2>1. AtRisk(q) /\ \A r \in Restorers : RestorerKnows(r, q)
      BY <1>4, <1>5 DEF Known, Whereabouts
    <2>2. \A r \in Restorers : RestorerKnows(r, q)'
      BY <1>1, <1>2, <2>1 DEF RestorerKnows, Applicable, Outdated
    <2>3. CASE live # None
      BY <1>2, <1>3, <2>1, <2>2, <2>3 DEF Known, Whereabouts, Contents
    <2>4. CASE live = None
      <3>1. "start" \in Faults /\ \E r \in Restorers : Holds(r)
        BY <2>1, <2>4 DEF Known, Whereabouts, Needed, RuntimeWrites
      <3> QED
        BY <1>3, <2>2, <3>1 DEF Displaced
    <2> QED
      BY <2>3, <2>4
  <1>6. CASE owed'[p] \notin Values
    <2>1. ~AtRisk(p)'
      BY <1>6 DEF AtRisk
    <2>2. Needed' => Needed
      BY <1>1, <1>4, <2>1 DEF Needed
    <2> QED
      BY <1>1, <1>2, <1>5, <2>1, <2>2 DEF Known, Whereabouts
  <1>7. CASE owed'[p] = value /\ \A r \in Restorers : /\ ~PastRecheck(r) /\ ~NoRecheck(r)
                                                       /\ ~ComesBack(r, p, value)
    <2>1. ASSUME NEW r \in Restorers PROVE RestorerKnows(r, p)'
      <3>1. job[r].pc \in {"idle", "digest", "check", "copy", "verify_stage", "recheck"}
            /\ job[r].rollback = None
        BY <1>7, JobFacts DEF PastRecheck, Known, Steps, JobOK, Before, Staged
      <3>2. p \notin Applicable(r) /\ job[r].pc \in {"verify_stage", "recheck"} => job[r].digest[p] # value
        BY <1>7 DEF ComesBack
      <3> QED
        BY <1>1, <1>7, <3>1, <3>2 DEF RestorerKnows, Outdated, Staged, Committed, Applicable
    <2>2. \A r \in Restorers : job[r].pc \notin {"idle", "digest"} => job[r].existed
      BY <1>7 DEF NoRecheck
    <2> QED
      BY <1>1, <1>2, <1>5, <1>7, <2>1, <2>2 DEF Whereabouts
  <1>8. owed'[p] \notin Values \/ <1>7!1
    BY <1>1 DEF RuntimeWrites, Values
  <1> QED
    BY <1>6, <1>7, <1>8

LEMMA InitWhereabouts == Init => Whereabouts
  <1> SUFFICES ASSUME Init PROVE Whereabouts
    OBVIOUS
  <1>1. \A r \in Restorers : job[r] = Idle
    BY DEF Init
  <1>2. ASSUME NEW p \in Paths, NEW r \in Restorers PROVE RestorerKnows(r, p)
    <2>1. job[r].pc = "idle" /\ job[r].rollback = None
      BY <1>1 DEF Idle
    <2> QED
      BY <2>1 DEF RestorerKnows, Committed, Staged
  <1>3. \A p \in Paths : live # None => live[p] = owed[p]
    BY DEF Init, Contents
  <1>4. ASSUME live = None PROVE ~Needed
    <2>1. ~Existing
      <3>1. Existing => live \in Tree
        BY DEF Init, Found, Tree, Values
      <3> QED
        BY <1>4, <3>1, NoneAssumption, EmptyFacts
    <2>2. \A p \in Paths : owed[p] = None
      BY <1>4 DEF Init, Contents, Empty
    <2> QED
      BY <2>1, <2>2, NoneAssumption DEF Needed, AtRisk, Values
  <1> QED
    BY <1>1, <1>2, <1>3, <1>4 DEF Whereabouts, Idle

LEMMA RiskStep == Known /\ ~misled' /\ [Next]_vars => Whereabouts'
  <1> SUFFICES ASSUME Known, ~misled', [Next]_vars PROVE Whereabouts'
    OBVIOUS
  <1>1. CASE UNCHANGED vars
    BY <1>1, NothingMoves DEF vars, Known
  <1> QED
    BY <1>1, LookingRisk, ReplacingRisk, EndingRisk, WriteRisk DEF Next, Restore

-----------------------------------------------------------------------------
(* What directories look like *)

LEMMA InitProvenance == Init => Provenance
  <1> SUFFICES ASSUME Init PROVE Provenance
    OBVIOUS
  <1>1. \A r \in Restorers : job[r].rollback = None /\ job[r].stage = None
    BY DEF Init, Idle
  <1>2. original = live /\ owed = Contents(original) /\ (original = None <=> ~Existing)
    <2>1. Existing => live \in Tree
      BY DEF Init, Found, Tree, Values
    <2> QED
      BY <2>1, EmptyFacts DEF Init
  <1>3. \A p \in Paths \ Planned : original # None => original[p] = "before"
    BY DEF Init, Found
  <1>4. live # None => Sourced(live) /\ Uniform(live)
    BY <1>2, PlanAssumption DEF Sourced, Uniform, Contents
  <1> QED
    BY <1>1, <1>2, <1>3, <1>4 DEF Provenance, Contents

\* Who has the directory away keeps it, puts it back, leaves it to be recovered
\* or gets its stage in.
LEMMA HoldsStep ==
    ASSUME TypeOK, NEW r \in Restorers, JobOK(r), Restore(r) \/ Crash(r), Holds(r)
    PROVE  \/ Holds(r)'
           \/ leftovers' # {}
           \/ live' = job[r].stage /\ job[r].pc = "move_stage"
           \/ live' = job[r].rollback
  <1> USE DEF At
  <1>1. job[r].pc \in {"move_stage", "remove_live", "put_back"} /\ job[r].rollback # None
    BY DEF Holds
  <1>2. CASE Goto(r, "remove_live") /\ job[r].pc = "move_stage"
    BY <1>1, <1>2, GotoFacts DEF Holds, Steps, JobOK
  <1>3. CASE MoveStage(r)
    BY <1>2, <1>3 DEF MoveStage
  <1>4. CASE Fails(r)
    BY <1>1, <1>2, <1>4 DEF Fails
  <1>5. CASE RemoveLive(r)
    BY <1>1, <1>5, GotoFacts DEF RemoveLive, Holds, Steps
  <1>6. CASE PutBack(r)
    BY <1>1, <1>6 DEF PutBack
  <1>7. CASE Crash(r)
    BY <1>1, <1>7 DEF Crash
  <1> QED
    BY <1>1, <1>3, <1>4, <1>5, <1>6, <1>7
    DEF Restore, Plan, Digest, Check, Copy, VerifyStage, Recheck, BackUp, MoveOriginal, VerifyLive, Finish

LEMMA RestoreProvenance ==
    ASSUME StartsAlone, TypeOK, \A r \in Restorers : JobOK(r), Provenance,
           NEW r \in Restorers, Restore(r) \/ Crash(r)
    PROVE  Provenance'
  <1>1. /\ original' = original /\ owed' = owed /\ written' = written /\ \A o \in Restorers \ {r} : job'[o] = job[o]
        /\ ~misled' /\ leftovers' = {} => ~misled /\ leftovers = {}
    BY Effects
  <1>3. live' # None => Sourced(live')
    BY Effects, EmptyFacts, StageFilled DEF Provenance
  <1>4. ASSUME NEW o \in Restorers
        PROVE  /\ job'[o].rollback # None => Sourced(job'[o].rollback)
               /\ job'[o].stage # None => Sourced(job'[o].stage)
    <2>1. CASE o # r
      BY <1>1, <2>1 DEF Provenance
    <2>2. CASE o = r
      <3>1. job'[r].rollback # None => Sourced(job'[r].rollback)
        BY Effects DEF Provenance
      <3>2. CASE job'[r].stage \in {job[r].stage, None}
        BY <2>2, <3>1, <3>2 DEF Provenance
      <3>3. CASE /\ job[r].existed => live # None
                 /\ \A p \in Paths : job'[r].stage[p] = IF p \in Applicable(r) THEN "canonical"
                                                        ELSE IF job[r].existed THEN live[p] ELSE None
        BY <2>2, <3>1, <3>3, NoneAssumption DEF Provenance, Sourced, Applicable
      <3> QED
        BY <3>2, <3>3, Effects
    <2> QED
      BY <2>1, <2>2
  <1>5. ASSUME ~misled', leftovers' = {}, live' # None
        PROVE  Uniform(live') \/ Displaced'
    <2>1. CASE live' = live
      <3>1. CASE Displaced
        <4>1. Holds(r) /\ "start" \in Faults
          <5>1. "start" \in Faults /\ \E o \in Restorers : Holds(o)
            BY <3>1 DEF Displaced
          <5>2. PICK q \in Restorers : Restorers = {q}
            BY <5>1 DEF StartsAlone
          <5> QED
            BY <5>1, <5>2
        <4> QED
          BY <1>1, <1>5, <4>1, HoldsStep, StageFilled DEF Displaced, Uniform, Provenance, Holds
      <3>2. CASE ~Displaced
        BY <1>1, <1>5, <2>1, <3>2 DEF Provenance
      <3> QED
        BY <3>1, <3>2
    <2>2. CASE live' = job[r].stage /\ job[r].pc = "move_stage"
      BY <2>2, StageFilled DEF Uniform
    <2>3. CASE live' = job[r].rollback /\ job[r].rollback # None
      BY <1>1, <1>5, <2>3 DEF Provenance
    <2> QED
      BY <1>5, <2>1, <2>2, <2>3, Effects
  <1>6. ASSUME ~misled', leftovers' = {}, NEW o \in Restorers, job'[o].rollback # None
        PROVE  Uniform(job'[o].rollback)
    <2>1. CASE job'[o].rollback = job[o].rollback
      BY <1>1, <1>6, <2>1 DEF Provenance
    <2>2. CASE o = r /\ job'[r].rollback = live /\ live # None /\ job[r].pc = "move_original"
      <3>1. ~Displaced
        BY <2>2 DEF StartsAlone, Displaced, Holds
      <3> QED
        BY <1>1, <1>6, <2>2, <3>1 DEF Provenance
    <2> QED
      BY <1>1, <1>6, <2>1, <2>2, Effects
  <1>7. /\ live' # None => Sourced(live)'
        /\ \A o \in Restorers : /\ job'[o].rollback # None => Sourced(job[o].rollback)'
                                /\ job'[o].stage # None => Sourced(job[o].stage)'
    BY <1>1, <1>3, <1>4 DEF Sourced
  <1>8. ~misled' /\ leftovers' = {} =>
            /\ live' # None => Uniform(live)' \/ Displaced'
            /\ \A o \in Restorers : job'[o].rollback # None => Uniform(job[o].rollback)'
    BY <1>1, <1>5, <1>6, PlanAssumption DEF Uniform
  <1> QED
    BY <1>1, <1>7, <1>8 DEF Provenance

LEMMA WriteProvenance ==
    ASSUME TypeOK, ~misled => Whereabouts, Provenance,
           NEW p \in Paths, NEW value \in Values \cup {None}, RuntimeWrites(p, value)
    PROVE  Provenance'
  <1>1. /\ Contents(live) \in Tree /\ live' = [Contents(live) EXCEPT ![p] = value]
        /\ job' = job /\ leftovers' = leftovers /\ original' = original /\ misled' = misled
        /\ written' = written \cup {p}
    BY ContentsFacts DEF TypeOK, RuntimeWrites
  <1>2. /\ live' # None
        /\ \A q \in Paths \ {p} : live'[q] = Contents(live)[q] /\ owed'[q] = owed[q]
    BY <1>1, EmptyFacts DEF RuntimeWrites, Tree, TypeOK
  <1>3. Sourced(live)'
    <2>1. CASE live # None
      BY <1>1, <1>2, <2>1 DEF Provenance, Sourced, Contents
    <2>2. CASE live = None
      BY <1>1, <1>2, <2>2 DEF Sourced, Contents, Empty
    <2> QED
      BY <2>1, <2>2
  <1>4. Displaced' <=> Displaced
    BY <1>1 DEF Displaced, Holds
  <1>5. \A r \in Restorers : /\ job'[r].rollback # None => Sourced(job[r].rollback)'
                             /\ job'[r].stage # None => Sourced(job[r].stage)'
    BY <1>1 DEF Provenance, Sourced
  <1>6. ASSUME ~misled', leftovers' = {}
        PROVE  /\ Uniform(live)' \/ Displaced'
               /\ \A r \in Restorers : job[r].rollback # None => Uniform(job[r].rollback)'
    <2>1. \A r \in Restorers : job[r].rollback # None => Uniform(job[r].rollback)'
      BY <1>1, <1>6, PlanAssumption DEF Provenance, Uniform
    <2>2. CASE live # None
      BY <1>1, <1>2, <1>4, <1>6, <2>1, <2>2, PlanAssumption DEF Provenance, Uniform, Contents
    <2>3. CASE live = None /\ Existing
      <3>1. \E r \in Restorers : Holds(r)
        BY <1>1, <1>6, <2>3 DEF Whereabouts, Needed
      <3> QED
        BY <1>4, <2>1, <2>3, <3>1 DEF Displaced, RuntimeWrites
    <2>4. CASE live = None /\ ~Existing
      <3>1. original = None
        BY <2>4 DEF Provenance
      <3>2. \A q \in Paths \ {p} : live'[q] = Contents(original)[q]
        BY <1>2, <2>4, <3>1 DEF Contents
      <3> QED
        BY <1>1, <2>1, <3>2, PlanAssumption DEF Uniform
    <2> QED
      BY <2>2, <2>3, <2>4
  <1>7. /\ original' = None <=> ~Existing
        /\ \A q \in Paths : /\ q \notin written' => owed'[q] = Contents(original)'[q]
                            /\ Existing /\ q \notin Planned => Contents(original)'[q] = "before"
    BY <1>1, <1>2 DEF Provenance, Contents
  <1>8. ~misled' /\ leftovers' = {} =>
            /\ live' # None => Uniform(live)' \/ Displaced'
            /\ \A r \in Restorers : job'[r].rollback # None => Uniform(job[r].rollback)'
    BY <1>1, <1>6
  <1> QED
    BY <1>3, <1>5, <1>7, <1>8 DEF Provenance

-----------------------------------------------------------------------------
(* The theorems *)

LEMMA InitInv == Init => IInv
  <1>1. ASSUME Init, NEW r \in Restorers PROVE JobOK(r)
    <2>1. /\ job[r].pc = "idle" /\ job[r].rollback = None
          /\ job[r].existed = FALSE /\ job[r].swapped = FALSE
      BY <1>1 DEF Init, Idle
    <2> QED
      BY <2>1 DEF JobOK, Before, Staged
  <1> QED
    BY <1>1, InitType, InitWhereabouts, InitProvenance DEF IInv

LEMMA StepInv == StartsAlone /\ IInv /\ [Next]_vars => IInv'
  <1> SUFFICES ASSUME StartsAlone, IInv, [Next]_vars PROVE IInv'
    OBVIOUS
  <1>1. TypeOK'
    BY TypeStep DEF IInv
  <1>2. ASSUME NEW r \in Restorers PROVE JobOK(r)'
    <2>1. CASE job'[r] = job[r]
      BY <2>1, JobOKKept DEF IInv
    <2>2. CASE job'[r] # job[r]
      <3>1. PICK o \in Restorers : Restore(o) \/ Crash(o)
        BY <2>2 DEF Next, RuntimeWrites, vars
      <3>2. o = r
        BY <2>2, <3>1, Effects DEF IInv
      <3> QED
        BY <3>1, <3>2, JobOKStep DEF IInv
    <2> QED
      BY <2>1, <2>2
  <1>3. ~misled' => ~misled
    BY Effects DEF IInv, Next, RuntimeWrites, vars
  <1>4. ~misled' => Whereabouts'
    BY <1>3, RiskStep DEF IInv, Known
  <1>5. Provenance'
    <2>1. CASE UNCHANGED vars
      BY <2>1 DEF vars, IInv, Provenance, Sourced, Uniform, Displaced, Holds
    <2> QED
      BY <2>1, RestoreProvenance, WriteProvenance DEF IInv, Next
  <1> QED
    BY <1>1, <1>2, <1>4, <1>5 DEF IInv

\* The inductive invariant, for any number of restorers, paths and restores.
THEOREM Invariance == StartsAlone /\ Spec => []IInv
  <1>1. StartsAlone /\ Init => StartsAlone /\ IInv
    BY InitInv
  <1>2. StartsAlone /\ IInv /\ [Next]_vars => (StartsAlone /\ IInv)'
    <2>1. StartsAlone => StartsAlone'
      BY DEF StartsAlone
    <2> QED
      BY <2>1, StepInv
  <1> QED
    BY <1>1, <1>2, PTL DEF Spec

\* Whatever errors, deaths and overlaps there are, what a restore owes is in the
\* directory, in a rollback directory or in the backups.
THEOREM RestoreKeepsContent == StartsAlone /\ Spec => []ContentKept
  <1>1. IInv => ContentKept
    <2> SUFFICES ASSUME IInv, ~misled, NEW p \in Paths, owed[p] \in Values
                 PROVE  Kept(p, owed[p])
      BY DEF ContentKept
    <2>1. CASE Saved(p)
      <3>1. None \notin leftovers
        BY NoneAssumption DEF IInv, TypeOK, Tree, Values
      <3> QED
        BY <2>1, <3>1 DEF Saved, Kept, Directories
    <2>2. CASE AtRisk(p) /\ live # None /\ live[p] = owed[p]
      BY <2>2 DEF Kept, Directories
    <2>3. CASE AtRisk(p) /\ \E r \in Restorers : Holds(r)
      <3>1. PICK r \in Restorers : job[r].rollback # None
        BY <2>3 DEF Holds
      <3>2. job[r].rollback[p] = owed[p]
        BY <2>3, <3>1 DEF IInv, Whereabouts, RestorerKnows
      <3> QED
        BY <3>1, <3>2 DEF Kept, Directories
    <2> QED
      BY <2>1, <2>2, <2>3 DEF IInv, Whereabouts, Needed, AtRisk, Displaced
  <1> QED
    BY <1>1, Invariance, PTL

\* When all restores are over, and nothing is left to recover by hand, every
\* planned artifact is replaced or none, and nothing else.
THEOREM RestoreIsAllOrNothing == StartsAlone /\ Spec => []AllOrNothing
  <1>1. IInv => AllOrNothing
    <2> SUFFICES ASSUME IInv, \A r \in Restorers : At(r, "idle"), leftovers = {}, ~misled
                 PROVE  /\ \A p \in Paths \ (Planned \cup written) : Contents(live)[p] = Contents(original)[p]
                        /\ \/ \A p \in Planned \ written : Contents(live)[p] = Contents(original)[p]
                           \/ \A p \in Planned \ written : Contents(live)[p] = "canonical"
      BY PlanAssumption DEF AllOrNothing
    <2>1. \A r \in Restorers : ~Holds(r)
      BY DEF At, Holds
    <2>2. CASE live = None
      <3>1. ~Existing
        BY <2>1, <2>2 DEF IInv, Whereabouts, Needed
      <3>2. original = None
        BY <3>1 DEF IInv, Provenance
      <3> QED
        BY <2>2, <3>2 DEF Contents
    <2>3. CASE live # None
      <3>1. Uniform(live) /\ Sourced(live) /\ live \in Tree
        BY <2>1, <2>3 DEF IInv, Provenance, Displaced, TypeOK
      <3>2. ASSUME NEW p \in Paths \ (Planned \cup written)
            PROVE  live[p] = Contents(original)[p]
        <4>1. CASE Existing
          <5>1. owed[p] = "before" /\ Contents(original)[p] = "before"
            BY <3>2, <4>1 DEF IInv, Provenance
          <5>2. AtRisk(p)
            BY <3>2, <5>1 DEF IInv, TypeOK, AtRisk, Saved, Values
          <5> QED
            BY <2>1, <2>3, <3>2, <5>1, <5>2 DEF IInv, Whereabouts, Displaced
        <4>2. CASE ~Existing
          <5>1. Contents(original)[p] = None
            BY <3>2, <4>2 DEF IInv, Provenance, Contents, Empty
          <5> QED
            BY <3>1, <3>2, <5>1 DEF Sourced
        <4> QED
          BY <4>1, <4>2
      <3> QED
        BY <2>3, <3>1, <3>2 DEF Uniform, Contents
    <2> QED
      BY <2>2, <2>3
  <1> QED
    BY <1>1, Invariance, PTL

===============================================================================
