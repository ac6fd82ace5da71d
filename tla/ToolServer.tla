------------------------------ MODULE ToolServer ------------------------------
(****************************************************************************)
(* The MCP server of src/self_nomad/mcp_server/tools.py: tool calls of      *)
(* several clients run in threads of their own over one store of proposal   *)
(* records, which other processes change at the same time.                  *)
(*                                                                          *)
(* A client walks through proposal_list page by page: each page is a new    *)
(* listing of the store, whose files are read one after the other, and the  *)
(* cursor holds the id of the last proposal of the page.  Or it validates a *)
(* proposal, which loads the record up to three times.                      *)
(*                                                                          *)
(* Ids are numbers, in the order of their hexadecimal digits; 0 is none.    *)
(****************************************************************************)
EXTENDS Integers, SequencesExt

CONSTANTS
    Ids,        \* the ids proposals get, at random
    Walkers,    \* clients that list the proposals, with one call in flight each
    Validators, \* clients that validate proposals, likewise
    Limits,     \* page sizes that are asked for
    Filters,    \* values of the status argument, None among them
    None,
    MaxChanges, \* changes other processes make
    MaxWalks    \* walks of each client, and validations

ASSUME IdsAssumption == Ids \subseteq Nat \ {0}
ASSUME LimitsAssumption == Limits \subseteq Nat \ {0}
ASSUME BoundsAssumption == MaxChanges \in Nat /\ MaxWalks \in Nat

Clients == Walkers \cup Validators

VARIABLES
    record,     \* the status in each record file, or None
    intact,     \* whether the worktree holds what the proposal declares
    call,       \* what each client's call is at
    walk,       \* what each client knows of its walk
    changes,    \* how often other processes have changed something
    asked       \* what each client has begun

vars == <<record, intact, call, walk, changes, asked>>

Status == {"materialized", "validated", "approved", "rejected"}

\* names, found: proposal_list, the files left to read and the proposals that
\* matched so far; id, mine: proposal_validate and what it loaded.
\* sound is history: the worktree was intact at some time during the call.
Call == [pc : {"idle", "read", "first_load", "load", "verify", "save", "reload"},
         names : SUBSET Ids,
         found : Seq(Ids),
         id : Ids \cup {0},
         mine : Status \cup {None},
         again : BOOLEAN,
         sound : BOOLEAN]

\* steady is history: the proposals that were there, and matched, all along.
Walk == [state : {"none", "open", "done"},
         status : Filters \cup {None},
         limit : Limits \cup {0},
         cursor : Ids \cup {0},
         items : Seq(Ids),
         steady : SUBSET Ids]

TypeOK ==
    /\ record \in [Ids -> Status \cup {None}]
    /\ intact \in [Ids -> BOOLEAN]
    /\ call \in [Clients -> Call]
    /\ walk \in [Clients -> Walk]
    /\ changes \in 0..MaxChanges
    /\ asked \in [Clients -> 0..MaxWalks]

Idle == [pc |-> "idle", names |-> {}, found |-> <<>>, id |-> 0, mine |-> None,
         again |-> FALSE, sound |-> FALSE]

Init ==
    /\ record \in [Ids -> {"materialized", "validated", None}]
    /\ intact = [p \in Ids |-> TRUE]
    /\ call = [c \in Clients |-> Idle]
    /\ walk = [c \in Clients |-> [state |-> "none", status |-> None, limit |-> 0, cursor |-> 0,
                                  items |-> <<>>, steady |-> {}]]
    /\ changes = 0
    /\ asked = [c \in Clients |-> 0]

At(c, step) == call[c].pc = step
Answers(c) == call' = [call EXCEPT ![c] = Idle]

Matches(status, filter) == status # None /\ (filter = None \/ status = filter)

\* Whoever changes the status of a proposal may take it out of the walks' sight.
Saves(p, status) ==
    /\ record' = [record EXCEPT ![p] = status]
    /\ walk' = [c \in Clients |->
                   IF Matches(status, walk[c].status) THEN walk[c]
                   ELSE [walk[c] EXCEPT !.steady = @ \ {p}]]

-----------------------------------------------------------------------------
(* proposal_list *)

StartWalk(c, status, limit) ==
    /\ At(c, "idle")
    /\ c \in Walkers
    /\ walk[c].state # "open"
    /\ asked[c] < MaxWalks
    /\ asked' = [asked EXCEPT ![c] = @ + 1]
    /\ walk' = [walk EXCEPT ![c] = [state |-> "open", status |-> status, limit |-> limit, cursor |-> 0,
                                    items |-> <<>>, steady |-> {p \in Ids : Matches(record[p], status)}]]
    /\ UNCHANGED <<record, intact, call, changes>>

\* records.glob("*.json")
Names == {p \in Ids : record[p] # None}

CallList(c) ==
    /\ At(c, "idle")
    /\ walk[c].state = "open"
    /\ call' = [call EXCEPT ![c] = [Idle EXCEPT !.pc = "read", !.names = Names]]
    /\ UNCHANGED <<record, intact, walk, changes, asked>>

Lowest(S) == CHOOSE p \in S : \A q \in S : p <= q

\* The files are read in the order of their names, one after the other.  That
\* is the order of the ids, so sorting the records again changes nothing; the
\* status a record was read with decides, later on, whether the filter drops it.
ReadRecord(c) ==
    /\ At(c, "read")
    /\ call[c].names # {}
    /\ LET p == Lowest(call[c].names)
       IN  call' = [call EXCEPT ![c].names = @ \ {p},
                                ![c].found = IF Matches(record[p], walk[c].status) THEN Append(@, p) ELSE @]
    /\ UNCHANGED <<record, intact, walk, changes, asked>>

\* Mutant: the page begins after the cursor's proposal, which may be gone.
StartAfterFound(records, after) ==
    IF after = 0 THEN 1
    ELSE IF after \in ToSet(records) THEN SelectInSeq(records, LAMBDA p : p = after) + 1
    ELSE Len(records) + 1

Start(records, after) ==
    LET later == {i \in DOMAIN records : records[i] > after}
    IN  IF later = {} THEN Len(records) + 1 ELSE Lowest(later)

\* Mutant: every page has a cursor.
AlwaysMore(records, start, limit) == TRUE

More(records, start, limit) == start + limit - 1 < Len(records)

ProposalList(c) ==
    /\ At(c, "read")
    /\ call[c].names = {}
    /\ LET records == call[c].found
           limit   == walk[c].limit
           start   == Start(records, walk[c].cursor)
           page    == SubSeq(records, start, Min({start + limit - 1, Len(records)}))
           more    == More(records, start, limit)
       IN  walk' = [walk EXCEPT ![c].items = @ \o page,
                                ![c].cursor = IF more /\ page # <<>> THEN Last(page) ELSE @,
                                ![c].state = IF more THEN "open" ELSE "done"]
    /\ Answers(c)
    /\ UNCHANGED <<record, intact, changes, asked>>

-----------------------------------------------------------------------------
(* proposal_validate *)

CallValidate(c, p) ==
    /\ At(c, "idle")
    /\ c \in Validators
    /\ walk[c].state # "open"
    /\ asked[c] < MaxWalks
    /\ asked' = [asked EXCEPT ![c] = @ + 1]
    /\ call' = [call EXCEPT ![c] = [Idle EXCEPT !.pc = "first_load", !.id = p, !.sound = intact[p]]]
    /\ UNCHANGED <<record, intact, walk, changes>>

\* Mutant: a proposal that is validated already is not verified again.
LoadOnce(c) ==
    /\ At(c, "first_load")
    /\ IF record[call[c].id] = None THEN Answers(c)
       ELSE call' = [call EXCEPT ![c].again = record[call[c].id] = "validated",
                                 ![c].pc = IF record[call[c].id] = "validated" THEN "reload" ELSE "load"]
    /\ UNCHANGED <<record, intact, walk, changes, asked>>

\* The tool loads the record to see whether it is validated already.
FirstLoad(c) ==
    /\ At(c, "first_load")
    /\ IF record[call[c].id] = None THEN Answers(c)
       ELSE call' = [call EXCEPT ![c].again = record[call[c].id] = "validated", ![c].pc = "load"]
    /\ UNCHANGED <<record, intact, walk, changes, asked>>

\* ProposalService.validate, which refuses other statuses.
Load(c) ==
    /\ At(c, "load")
    /\ IF record[call[c].id] \in {"materialized", "validated"}
       THEN call' = [call EXCEPT ![c].mine = record[call[c].id], ![c].pc = "verify"]
       ELSE Answers(c)
    /\ UNCHANGED <<record, intact, walk, changes, asked>>

\* _verify_or_invalidate: a drifted proposal is saved as materialized.
Verify(c) ==
    /\ At(c, "verify")
    /\ IF intact[call[c].id]
       THEN /\ call' = [call EXCEPT ![c].pc = "save"]
            /\ UNCHANGED <<record, walk>>
       ELSE Answers(c) /\ Saves(call[c].id, "materialized")
    /\ UNCHANGED <<intact, changes, asked>>

\* The strict validation of the worktree has findings.
ValidationFailed(c) ==
    /\ At(c, "save")
    /\ Answers(c)
    /\ UNCHANGED <<record, intact, walk, changes, asked>>

Save(c) ==
    /\ At(c, "save")
    /\ Saves(call[c].id, "validated")
    /\ IF call[c].again THEN call' = [call EXCEPT ![c].pc = "reload"] ELSE Answers(c)
    /\ UNCHANGED <<intact, changes, asked>>

\* The answer shows the record as it is by now.
Reload(c) ==
    /\ At(c, "reload")
    /\ Answers(c)
    /\ UNCHANGED <<record, intact, walk, changes, asked>>

-----------------------------------------------------------------------------
(* Other processes *)

\* What submissions and the operator's commands do to a record.
Moves == {<<None, "materialized">>, <<"materialized", "validated">>, <<"validated", "approved">>,
          <<"validated", "materialized">>, <<"materialized", "rejected">>, <<"validated", "rejected">>,
          <<"approved", "rejected">>}

OtherProcess(p) ==
    /\ changes < MaxChanges
    /\ \E m \in Moves : record[p] = m[1] /\ Saves(p, m[2])
    /\ changes' = changes + 1
    /\ UNCHANGED <<intact, call, asked>>

\* Somebody writes in the worktree, or takes back what was written.
WorktreeChanges(p) ==
    /\ changes < MaxChanges
    /\ record[p] # None
    /\ intact' = [intact EXCEPT ![p] = ~@]
    /\ call' = [c \in Clients |-> IF call[c].id = p /\ intact'[p] THEN [call[c] EXCEPT !.sound = TRUE] ELSE call[c]]
    /\ changes' = changes + 1
    /\ UNCHANGED <<record, walk, asked>>

-----------------------------------------------------------------------------

ListStep(c) == CallList(c) \/ ReadRecord(c) \/ ProposalList(c)
ValidateStep(c) == FirstLoad(c) \/ Load(c) \/ Verify(c) \/ ValidationFailed(c) \/ Save(c) \/ Reload(c)

Next ==
    \/ \E c \in Clients :
          \/ \E status \in Filters, limit \in Limits : StartWalk(c, status, limit)
          \/ ListStep(c)
          \/ \E p \in Ids : CallValidate(c, p)
          \/ ValidateStep(c)
    \/ \E p \in Ids : OtherProcess(p) \/ WorktreeChanges(p)

Spec == Init /\ [][Next]_vars

\* The server runs every call to its end, and a client that has begun a walk
\* asks for the next page as long as it gets a cursor.
FairSpec == Spec /\ \A c \in Clients : WF_vars(ListStep(c))

-----------------------------------------------------------------------------
(* Safety *)

\* A walk shows no proposal twice, though every page is a new listing, and when
\* it is over it has shown every one that was there from its first page to its
\* last and matched the filter all the time, whatever was created or changed
\* around it, before the cursor or after it.
WalksShowEachOnce ==
    \A c \in Clients :
        /\ IsInjective(walk[c].items)
        /\ walk[c].state = "done" => walk[c].steady \subseteq ToSet(walk[c].items)

AnswersOk(c) == \/ Save(c) /\ ~call[c].again
                \/ Reload(c)

\* A validation that answers ok has found the worktree as declared at some
\* moment of this very call, for a proposal that was validated before as well.
OkMeansVerified == [][\A c \in Clients : AnswersOk(c) => call[c].sound]_vars

-----------------------------------------------------------------------------
(* Liveness *)

\* Every walk comes to a page without a cursor, however small the pages are.
WalkEnds == \A c \in Clients : walk[c].state = "open" ~> walk[c].state = "done"

-----------------------------------------------------------------------------
(* A statement of the documentation that the code does not keep *)

\* docs/mcp.md: "per-repository proposal and intake locks still serialize
\* writers".  A validation saves the record it has loaded, whatever has been
\* saved since.
WritersAreSerialized == [][\A c \in Clients : Save(c) => record[call[c].id] = call[c].mine]_vars
================================================================================
