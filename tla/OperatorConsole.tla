--------------------------- MODULE OperatorConsole ---------------------------
(****************************************************************************)
(* The operator's three ways to the same services: the screens of           *)
(* src/self_nomad/tui/app.py, the pages of gui/app.py, which the tabs of a   *)
(* browser ask for and gui/server.py serves in a thread per request, and    *)
(* the commands import and restore of cli.py.                               *)
(*                                                                          *)
(* All of them plan first and write later; what lies at a path may change   *)
(* at any time.  A plan is the path and what was found there.  Whether the  *)
(* services then accept the plan is the matter of RuntimeTransfer and       *)
(* RestoreTransaction.                                                      *)
(****************************************************************************)
EXTENDS Naturals

CONSTANTS
    Tabs,       \* browser tabs
    Threads,    \* threads of the server, each of which serves one request at a time
    Surfaces,   \* those of "tui", "gui" and "cli" that operators use
    Paths,      \* runtime directories and archives
    None,
    MaxChanges  \* a bound: how often what lies at the paths changes, for each surface

ASSUME SurfacesAssumption == Surfaces \subseteq {"tui", "gui", "cli"}
ASSUME ChangesAssumption == MaxChanges \in [Surfaces -> Nat]

VARIABLES
    surface,    \* which one is used: each is a process of its own
    version,    \* of what lies at the paths
    screen,     \* the screen of the TUI
    slot,       \* GuiApp._import_plan and _restore_plan
    request,    \* what each thread works on
    page,       \* what each tab waits for and shows
    written     \* history: what the last step has written

vars == <<surface, version, screen, slot, request, page, written>>

Directions == {"import", "restore"}
Plan == [direction : Directions \cup {"install"}, path : Paths, seen : Nat]
PlanOrNone == Plan \cup {None}

Planned(direction, path) == [direction |-> direction, path |-> path, seen |-> version]

\* shown: the plan or the summary on the screen; input: the path typed in;
\* plan: what the screen keeps, which also enables its second button.
Screen == [name : Directions \cup {"check", "other"}, input : Paths, plan : PlanOrNone, shown : PlanOrNone]

\* alone is history: since it was asked for, no other preview of its direction has
\* been on the way to the slot.
Request == [pc : {"idle", "asked", "planned", "stored", "confirming"},
            tab : Tabs \cup {None},
            direction : Directions,
            path : Paths \cup {None},
            plan : PlanOrNone,
            alone : BOOLEAN]

\* A tab waits for the answer to its last request only.  latest and alone are
\* history: the plan it has displayed last, for each direction, and whether that
\* was asked for, and is, without another on the way or in its place.
Page == [awaits : Threads \cup {None},
         latest : [Directions -> PlanOrNone],
         alone : [Directions -> BOOLEAN]]

\* What was written where, what the screen or the page showed then, and whether that
\* had been alone.
Write == [by : {"tui", "gui", "cli"}, plan : Plan, shown : PlanOrNone, alone : BOOLEAN]

ASSUME ValuesAssumption == None \notin Plan \cup Threads

TypeOK ==
    /\ surface \in Surfaces
    /\ version \in 0..MaxChanges[surface]
    /\ screen \in Screen
    /\ slot \in [Directions -> PlanOrNone]
    /\ request \in [Threads -> Request]
    /\ page \in [Tabs -> Page]
    /\ written \in Write \cup {None}

Fresh(name, path) == [name |-> name, input |-> path, plan |-> None, shown |-> None]

Idle == [pc |-> "idle", tab |-> None, direction |-> "import", path |-> None, plan |-> None,
         alone |-> FALSE]

Init ==
    /\ surface \in Surfaces
    /\ version = 0
    /\ screen \in {Fresh("other", p) : p \in Paths}
    /\ slot = [d \in Directions |-> None]
    /\ request = [h \in Threads |-> Idle]
    /\ page = [t \in Tabs |-> [awaits |-> None,
                               latest |-> [d \in Directions |-> None],
                               alone |-> [d \in Directions |-> FALSE]]]
    /\ written = None

Writes(by, plan, shown, alone) ==
    written' = [by |-> by, plan |-> plan, shown |-> shown, alone |-> alone]

WritesNothing == written' = None

-----------------------------------------------------------------------------
(* The TUI *)

\* Every function key makes a new screen.
SwitchScreen(name) ==
    /\ screen' = Fresh(name, screen.input)
    /\ WritesNothing
    /\ UNCHANGED <<surface, version, slot, request, page>>

Type(path) ==
    /\ screen' = [screen EXCEPT !.input = path]
    /\ WritesNothing
    /\ UNCHANGED <<surface, version, slot, request, page>>

\* A preview that fails leaves the plan and the screen as they are.
TuiPreview ==
    /\ screen.name \in Directions
    /\ LET plan == Planned(screen.name, screen.input)
       IN  screen' = [screen EXCEPT !.plan = plan, !.shown = plan]
    /\ WritesNothing
    /\ UNCHANGED <<surface, version, slot, request, page>>

\* Mutant: the second button plans again, from what is typed in by now.
TypedPlan == Planned(screen.name, screen.input)

KeptPlan == screen.plan

Enabled == screen.plan # None

TuiConfirm ==
    /\ screen.name \in Directions
    /\ Enabled
    /\ Writes("tui", KeptPlan, screen.shown, TRUE)
    /\ UNCHANGED <<surface, version, screen, slot, request, page>>

TuiCheck ==
    /\ screen.name = "check"
    /\ LET summary == Planned("install", screen.input)
       IN  screen' = [screen EXCEPT !.plan = summary, !.shown = summary]
    /\ WritesNothing
    /\ UNCHANGED <<surface, version, slot, request, page>>

\* The archive is read from the input once more.
TuiInstall ==
    /\ screen.name = "check"
    /\ Enabled
    /\ Writes("tui", Planned("install", screen.input), screen.shown, TRUE)
    /\ UNCHANGED <<surface, version, screen, slot, request, page>>

-----------------------------------------------------------------------------
(* The GUI *)

At(h, step) == request[h].pc = step

\* A preview that has not reached the slot.
OnTheWay(h, direction) == request[h].pc \in {"asked", "planned"} /\ request[h].direction = direction

\* Any tab may ask at any time.  What it has asked for before is still worked on, but
\* it no longer waits for that.
RequestPreview(t, h, direction, path) ==
    /\ At(h, "idle")
    /\ request' = [g \in Threads |->
           IF g = h
           THEN [pc |-> "asked", tab |-> t, direction |-> direction, path |-> path, plan |-> None,
                 alone |-> \A o \in Threads : ~OnTheWay(o, direction)]
           ELSE [request[g] EXCEPT !.alone = @ /\ request[g].direction # direction]]
    /\ page' = [u \in Tabs |-> [page[u] EXCEPT !.awaits = IF u = t THEN h ELSE @,
                                               !.alone[direction] = FALSE]]
    /\ WritesNothing
    /\ UNCHANGED <<surface, version, screen, slot>>

MakePlan(h) ==
    /\ At(h, "asked")
    /\ request' = [request EXCEPT ![h] = [@ EXCEPT !.pc = "planned", !.plan = Planned(request[h].direction, request[h].path)]]
    /\ WritesNothing
    /\ UNCHANGED <<surface, version, screen, slot, page>>

\* The page of a tab comes, unless the tab no longer waits for it.
Answers(h, shown) ==
    /\ request' = [request EXCEPT ![h] = Idle]
    /\ page' = [t \in Tabs |-> IF page[t].awaits = h THEN shown[t] ELSE page[t]]

\* An error instead of a plan.
PreviewFails(h) ==
    /\ At(h, "asked")
    /\ Answers(h, [t \in Tabs |-> [page[t] EXCEPT !.awaits = None]])
    /\ WritesNothing
    /\ UNCHANGED <<surface, version, screen, slot>>

\* Mutant: one slot for the previews of both directions.
SharedSlot(direction) == Directions

SlotsFor(direction) == {direction}

StorePlan(h) ==
    /\ At(h, "planned")
    /\ slot' = [d \in Directions |-> IF d \in SlotsFor(request[h].direction) THEN request[h].plan ELSE slot[d]]
    /\ request' = [request EXCEPT ![h].pc = "stored"]
    /\ WritesNothing
    /\ UNCHANGED <<surface, version, screen, page>>

\* By now the slot may hold another plan.
Respond(h) ==
    /\ At(h, "stored")
    /\ LET d == request[h].direction
       IN  Answers(h, [t \in Tabs |-> [page[t] EXCEPT !.awaits = None,
                                                      !.latest[d] = request[h].plan,
                                                      !.alone[d] = request[h].alone]])
    /\ WritesNothing
    /\ UNCHANGED <<surface, version, screen, slot>>

\* "preview the restore before writing"
RequestConfirm(t, h, direction) ==
    /\ At(h, "idle")
    /\ slot[direction] # None
    /\ request' = [request EXCEPT ![h] = [Idle EXCEPT !.pc = "confirming", !.tab = t, !.direction = direction]]
    /\ page' = [page EXCEPT ![t].awaits = h]
    /\ WritesNothing
    /\ UNCHANGED <<surface, version, screen, slot>>

\* The slot is read a second time.
GuiConfirm(h) ==
    /\ At(h, "confirming")
    /\ LET d == request[h].direction
           t == request[h].tab
       IN  Writes("gui", slot[d], page[t].latest[d], page[t].alone[d])
    /\ Answers(h, [t \in Tabs |-> [page[t] EXCEPT !.awaits = None]])
    /\ UNCHANGED <<surface, version, screen, slot>>

\* A tab goes to another page, or is closed.
Leave(t) ==
    /\ page' = [page EXCEPT ![t].awaits = None]
    /\ WritesNothing
    /\ UNCHANGED <<surface, version, screen, slot, request>>

\* The page that checks an archive installs one without that.
GuiInstall(path) ==
    /\ Writes("gui", Planned("install", path), None, FALSE)
    /\ UNCHANGED <<surface, version, screen, slot, request, page>>

-----------------------------------------------------------------------------
(* Commands *)

\* With --yes the command plans, and writes what it has planned.
CommandYes(direction, path) ==
    /\ Writes("cli", Planned(direction, path), None, FALSE)
    /\ UNCHANGED <<surface, version, screen, slot, request, page>>

-----------------------------------------------------------------------------

Changes ==
    /\ version < MaxChanges[surface]
    /\ version' = version + 1
    /\ WritesNothing
    /\ UNCHANGED <<surface, screen, slot, request, page>>

Tui == \/ \E n \in Directions \cup {"check", "other"} : SwitchScreen(n)
       \/ \E p \in Paths : Type(p)
       \/ TuiPreview \/ TuiConfirm \/ TuiCheck \/ TuiInstall

Gui == \/ \E t \in Tabs, h \in Threads, d \in Directions :
              \/ \E p \in Paths : RequestPreview(t, h, d, p)
              \/ RequestConfirm(t, h, d)
       \/ \E h \in Threads :
              MakePlan(h) \/ PreviewFails(h) \/ StorePlan(h) \/ Respond(h) \/ GuiConfirm(h)
       \/ \E t \in Tabs : Leave(t)
       \/ \E p \in Paths : GuiInstall(p)

Next ==
    \/ surface = "tui" /\ Tui
    \/ surface = "gui" /\ Gui
    \/ surface = "cli" /\ \E d \in Directions, p \in Paths : CommandYes(d, p)
    \/ Changes

Spec == Init /\ [][Next]_vars

-----------------------------------------------------------------------------

\* What is confirmed is what is shown.  A screen of the TUI imports or restores the
\* plan on it, whatever has been typed in, has changed or has failed since.  A tab
\* confirms the plan it has displayed last for this direction, if this one was
\* alone: while it was made no other preview of the direction was on the way, of
\* this tab or another, and none has been asked for since; previews of the other
\* direction, failures and confirmations of any tab do not matter.  What happens
\* otherwise is shown by ShownPlansAreApplied, and of archives that are installed
\* by InstallsWhatWasChecked.
ConfirmsWhatItShows ==
    written # None /\ written.alone /\ written.plan.direction \in Directions =>
        written.plan = written.shown

-----------------------------------------------------------------------------
(* Statements of the documentation that the code does not keep *)

\* docs/adapter-authoring.md: an adapter "applies only a previously displayed
\* restore plan".  A command with --yes displays nothing.
AppliedPlansWereDisplayed ==
    written # None /\ written.plan.direction = "restore" => written.shown # None

\* The same of a tab that shows a preview: what it restores is that.  But it may be
\* what another tab has previewed since, or another request of this one whose page
\* never came, being superseded by the one shown or still on its way.
ShownPlansAreApplied ==
    written # None /\ written.plan.direction = "restore" /\ written.by = "gui" /\ written.shown # None =>
        written.plan = written.shown

\* docs/cli-reference.md on the TUI: "Only after a preview: [...] install"
\* writes; the preview of an archive is its check.
InstallsWhatWasChecked ==
    written # None /\ written.plan.direction = "install" =>
        written.shown # None /\ written.plan.path = written.shown.path
===============================================================================
