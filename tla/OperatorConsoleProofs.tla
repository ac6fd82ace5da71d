------------------------ MODULE OperatorConsoleProofs ------------------------
EXTENDS OperatorConsole, TLAPS

-----------------------------------------------------------------------------
(* The inductive invariant *)

\* The TUI shows what it keeps, on the screens that plan and write: the screen of
\* an archive differs, which keeps a summary and reads its input again.
ScreenOK == screen.name \in Directions => screen.shown = screen.plan

Quiet(d) == \A h \in Threads : ~OnTheWay(h, d)

\* A request that confirms has found a plan, and nobody empties a slot.  A preview
\* that is alone is the only one on its way to the slot until it gets there, and
\* then its plan is there.
RequestOK(h) ==
    /\ request[h].pc \in {"planned", "stored"} => request[h].plan \in Plan
    /\ request[h].pc = "asked" => request[h].path \in Paths
    /\ request[h].pc = "confirming" => request[h].tab \in Tabs /\ slot[request[h].direction] \in Plan
    /\ request[h].alone /\ request[h].pc \in {"asked", "planned"} =>
          \A o \in Threads \ {h} : ~OnTheWay(o, request[h].direction)
    /\ request[h].alone /\ request[h].pc = "stored" =>
          slot[request[h].direction] = request[h].plan /\ Quiet(request[h].direction)

\* The plan that a page shows, and that was alone, is in the slot.
PageOK(t, d) == page[t].alone[d] => slot[d] = page[t].latest[d] /\ Quiet(d)

IInv ==
    /\ TypeOK
    /\ ScreenOK
    /\ \A h \in Threads : RequestOK(h)
    /\ \A t \in Tabs, d \in Directions : PageOK(t, d)
    /\ ConfirmsWhatItShows

-----------------------------------------------------------------------------
(* The steps *)

LEMMA TypeFacts ==
    ASSUME TypeOK
    PROVE  /\ screen \in Screen /\ slot \in [Directions -> PlanOrNone]
           /\ request \in [Threads -> Request] /\ page \in [Tabs -> Page]
           /\ version \in Nat
           /\ \A h \in Threads : request[h] \in Request /\ request[h].direction \in Directions
           /\ \A t \in Tabs : /\ page[t] \in Page /\ page[t].latest \in [Directions -> PlanOrNone]
                              /\ page[t].alone \in [Directions -> BOOLEAN]
           /\ None \notin Plan /\ None \notin Threads
  <1>1. request \in [Threads -> Request] /\ page \in [Tabs -> Page]
    BY DEF TypeOK
  <1>2. \A h \in Threads : request[h] \in Request /\ request[h].direction \in Directions
    BY <1>1 DEF Request
  <1>3. \A t \in Tabs : /\ page[t] \in Page /\ page[t].latest \in [Directions -> PlanOrNone]
                        /\ page[t].alone \in [Directions -> BOOLEAN]
    BY <1>1 DEF Page
  <1>4. version \in Nat
    BY ChangesAssumption DEF TypeOK
  <1> QED
    BY <1>1, <1>2, <1>3, <1>4, ValuesAssumption DEF TypeOK

LEMMA PlannedFacts ==
    ASSUME TypeOK, NEW direction \in Directions \cup {"install"}, NEW path \in Paths
    PROVE  Planned(direction, path) \in Plan /\ Planned(direction, path).direction = direction
  BY TypeFacts DEF Planned, Plan

\* A write, in one place.
LEMMA WriteFacts ==
    ASSUME NEW by \in {"tui", "gui", "cli"}, NEW plan \in Plan, NEW shown \in PlanOrNone,
           NEW alone \in BOOLEAN, Writes(by, plan, shown, alone)
    PROVE  /\ written' \in Write /\ written'.by = by /\ written'.plan = plan
           /\ written'.shown = shown /\ written'.alone = alone
  BY DEF Writes, Write

LEMMA NothingWritten ==
    ASSUME WritesNothing
    PROVE  /\ written' \in Write \cup {None}
           /\ ConfirmsWhatItShows'
  BY DEF WritesNothing, ConfirmsWhatItShows

\* What is shown and written is not about the requests.
LEMMA GuiKept ==
    ASSUME IInv, UNCHANGED <<slot, request, page>>
    PROVE  /\ \A h \in Threads : RequestOK(h)'
           /\ \A t \in Tabs, d \in Directions : PageOK(t, d)'
  BY DEF IInv, RequestOK, PageOK, Quiet, OnTheWay

\* The TUI on a new or another screen, with nothing written.
LEMMA ScreenStep ==
    ASSUME IInv, screen' \in Screen, ScreenOK', UNCHANGED <<surface, version, slot, request, page>>,
           WritesNothing
    PROVE  IInv'
  <1>1. TypeOK'
    BY NothingWritten DEF IInv, TypeOK
  <1> QED
    BY <1>1, GuiKept, NothingWritten DEF IInv

\* A write that leaves the screen, the slots and what the tabs have as they are.
LEMMA WriteStep ==
    ASSUME IInv, written' \in Write, ConfirmsWhatItShows',
           UNCHANGED <<surface, version, screen, slot, request, page>>
    PROVE  IInv'
  <1>1. TypeOK'
    BY DEF IInv, TypeOK
  <1>2. ScreenOK'
    BY DEF IInv, ScreenOK
  <1> QED
    BY <1>1, <1>2, GuiKept DEF IInv

LEMMA SwitchScreenStep ==
    ASSUME IInv, NEW name \in Directions \cup {"check", "other"}, SwitchScreen(name)
    PROVE  IInv'
  <1>1. screen.input \in Paths
    BY DEF IInv, TypeOK, Screen
  <1>2. screen' \in Screen /\ ScreenOK'
    BY <1>1 DEF SwitchScreen, Fresh, Screen, PlanOrNone, ScreenOK
  <1> QED
    BY <1>2, ScreenStep DEF SwitchScreen

LEMMA TypeStep ==
    ASSUME IInv, NEW path \in Paths, Type(path)
    PROVE  IInv'
  <1>1. screen \in Screen
    BY DEF IInv, TypeOK
  <1>2. screen' \in Screen /\ screen'.name = screen.name /\ screen'.plan = screen.plan /\ screen'.shown = screen.shown
    BY <1>1 DEF Type, Screen
  <1>3. ScreenOK'
    BY <1>2 DEF IInv, ScreenOK
  <1> QED
    BY <1>2, <1>3, ScreenStep DEF Type

LEMMA TuiPreviewStep ==
    ASSUME IInv, TuiPreview
    PROVE  IInv'
  <1>1. screen \in Screen /\ screen.name \in Directions /\ TypeOK
    BY DEF IInv, TypeOK, TuiPreview
  <1>2. PICK plan \in Plan : plan = Planned(screen.name, screen.input)
    BY <1>1, PlannedFacts DEF Screen
  <1>3. screen' = [screen EXCEPT !.plan = plan, !.shown = plan]
    BY <1>2 DEF TuiPreview
  <1>4. screen' \in Screen /\ screen'.plan = plan /\ screen'.shown = plan
    BY <1>1, <1>3 DEF Screen, PlanOrNone
  <1> QED
    BY <1>4, ScreenStep DEF TuiPreview, ScreenOK

LEMMA TuiCheckStep ==
    ASSUME IInv, TuiCheck
    PROVE  IInv'
  <1>1. screen \in Screen /\ screen.name = "check" /\ TypeOK
    BY DEF IInv, TypeOK, TuiCheck
  <1>2. PICK plan \in Plan : plan = Planned("install", screen.input)
    BY <1>1, PlannedFacts DEF Screen
  <1>3. screen' = [screen EXCEPT !.plan = plan, !.shown = plan]
    BY <1>2 DEF TuiCheck
  <1>4. screen' \in Screen /\ screen'.name = "check"
    BY <1>1, <1>3 DEF Screen, PlanOrNone
  <1> QED
    BY <1>4, ScreenStep DEF TuiCheck, ScreenOK, Directions

LEMMA TuiConfirmStep ==
    ASSUME IInv, TuiConfirm
    PROVE  IInv'
  <1>1. screen \in Screen /\ screen.shown = screen.plan /\ screen.plan \in Plan
    BY DEF IInv, TypeOK, TuiConfirm, Enabled, Screen, PlanOrNone, ScreenOK
  <1>2. Writes("tui", screen.plan, screen.shown, TRUE)
    BY DEF TuiConfirm, KeptPlan
  <1>3. written' \in Write /\ written'.plan = screen.plan /\ written'.shown = screen.shown
    BY <1>1, <1>2, WriteFacts DEF PlanOrNone
  <1> QED
    BY <1>1, <1>3, WriteStep DEF TuiConfirm, ConfirmsWhatItShows

LEMMA TuiInstallStep ==
    ASSUME IInv, TuiInstall
    PROVE  IInv'
  <1>1. screen \in Screen /\ TypeOK
    BY DEF IInv, TypeOK
  <1>2. PICK plan \in Plan : plan = Planned("install", screen.input) /\ plan.direction = "install"
    BY <1>1, PlannedFacts DEF Screen
  <1>3. screen.shown \in PlanOrNone
    BY <1>1 DEF Screen
  <1>4. Writes("tui", plan, screen.shown, TRUE)
    BY <1>2 DEF TuiInstall
  <1>5. written' \in Write /\ written'.by = "tui" /\ written'.plan = plan
    BY <1>2, <1>3, <1>4, WriteFacts
  <1>6. ConfirmsWhatItShows'
    BY <1>2, <1>5, ValuesAssumption DEF ConfirmsWhatItShows, Directions
  <1> QED
    BY <1>5, <1>6, WriteStep DEF TuiInstall

LEMMA CommandYesStep ==
    ASSUME IInv, NEW d \in Directions, NEW p \in Paths, CommandYes(d, p)
    PROVE  IInv'
  <1>1. PICK plan \in Plan : plan = Planned(d, p)
    BY PlannedFacts DEF IInv
  <1>2. Writes("cli", plan, None, FALSE)
    BY <1>1 DEF CommandYes
  <1>3. written' \in Write /\ written'.by = "cli" /\ written'.alone = FALSE
    BY <1>2, WriteFacts DEF PlanOrNone
  <1> QED
    BY <1>3, WriteStep DEF CommandYes, ConfirmsWhatItShows

LEMMA GuiInstallStep ==
    ASSUME IInv, NEW p \in Paths, GuiInstall(p)
    PROVE  IInv'
  <1>1. PICK plan \in Plan : plan = Planned("install", p)
    BY PlannedFacts DEF IInv
  <1>2. Writes("gui", plan, None, FALSE)
    BY <1>1 DEF GuiInstall
  <1>3. written' \in Write /\ written'.by = "gui" /\ written'.alone = FALSE
    BY <1>2, WriteFacts DEF PlanOrNone
  <1> QED
    BY <1>3, WriteStep DEF GuiInstall, ConfirmsWhatItShows

LEMMA ChangesStep ==
    ASSUME IInv, Changes
    PROVE  IInv'
  <1>1. TypeOK'
    <2>1. version' \in 0..MaxChanges[surface']
      BY ChangesAssumption DEF IInv, TypeOK, Changes
    <2> QED
      BY <2>1, NothingWritten DEF IInv, TypeOK, Changes
  <1>2. ScreenOK'
    BY DEF IInv, ScreenOK, Changes
  <1> QED
    BY <1>1, <1>2, GuiKept, NothingWritten DEF IInv, Changes

-----------------------------------------------------------------------------
(* The requests of the tabs *)

\* What is left to show of a step of the GUI.
LEMMA GuiStep ==
    ASSUME IInv, UNCHANGED <<surface, version, screen>>,
           request' \in [Threads -> Request], page' \in [Tabs -> Page], slot' \in [Directions -> PlanOrNone],
           \A h \in Threads : RequestOK(h)', \A t \in Tabs, d \in Directions : PageOK(t, d)',
           written' \in Write \cup {None}, ConfirmsWhatItShows'
    PROVE  IInv'
  <1>1. TypeOK'
    BY DEF IInv, TypeOK
  <1>2. ScreenOK'
    BY DEF IInv, ScreenOK
  <1> QED
    BY <1>1, <1>2 DEF IInv

\* One thread goes on, and the others work on what they worked on.
LEMMA RequestSet ==
    ASSUME TypeOK, NEW h \in Threads, NEW w \in Request, request' = [request EXCEPT ![h] = w]
    PROVE  request' \in [Threads -> Request] /\ request'[h] = w /\ \A g \in Threads \ {h} : request'[g] = request[g]
  BY TypeFacts

LEMMA IdleFacts == Idle \in Request /\ Idle.pc = "idle"
  BY DEF Idle, Request, PlanOrNone, Directions

\* The answer to a request is shown by a tab that waits for it.
LEMMA AnswersFacts ==
    ASSUME TypeOK, NEW h \in Threads, NEW shown \in [Tabs -> Page], Answers(h, shown)
    PROVE  /\ request' \in [Threads -> Request] /\ request'[h] = Idle
           /\ \A g \in Threads \ {h} : request'[g] = request[g]
           /\ page' \in [Tabs -> Page]
           /\ \A t \in Tabs : page'[t] = page[t] \/ page'[t] = shown[t]
  BY RequestSet, IdleFacts, TypeFacts DEF Answers

\* The end of a request that was not on its way to a slot any more, or never gets
\* there, and a step that leaves the slots and where everybody is.
LEMMA EndKeeps ==
    ASSUME IInv, NEW h \in Threads, slot' = slot, request'[h].pc \in {"idle", "confirming"},
           \A g \in Threads \ {h} : request'[g] = request[g]
    PROVE  /\ \A g \in Threads \ {h} : RequestOK(g)'
           /\ \A d \in Directions : Quiet(d) => Quiet(d)'
  <1>1. \A g \in Threads, d \in Directions : OnTheWay(g, d)' => OnTheWay(g, d)
    BY DEF OnTheWay
  <1>2. \A d \in Directions : Quiet(d) => Quiet(d)'
    BY <1>1 DEF Quiet
  <1>3. ASSUME NEW g \in Threads \ {h}
        PROVE  RequestOK(g)'
    <2>1. RequestOK(g) /\ request'[g] = request[g] /\ request[g].direction \in Directions
      BY <1>3, TypeFacts DEF IInv
    <2> QED
      BY <1>1, <1>2, <2>1 DEF RequestOK
  <1> QED
    BY <1>2, <1>3

LEMMA RequestPreviewStep ==
    ASSUME IInv, NEW t \in Tabs, NEW h \in Threads, NEW d \in Directions, NEW p \in Paths,
           RequestPreview(t, h, d, p)
    PROVE  IInv'
  <1>1. TypeOK /\ request[h].pc = "idle" /\ UNCHANGED <<surface, version, screen, slot>> /\ WritesNothing
    BY DEF IInv, RequestPreview, At
  <1> DEFINE new == [pc |-> "asked", tab |-> t, direction |-> d, path |-> p, plan |-> None,
                     alone |-> \A o \in Threads : ~OnTheWay(o, d)]
             old(g) == [request[g] EXCEPT !.alone = @ /\ request[g].direction # d]
             shown(u) == [page[u] EXCEPT !.awaits = IF u = t THEN h ELSE @, !.alone[d] = FALSE]
  <1>2. /\ new \in Request /\ new.pc = "asked" /\ new.direction = d /\ new.path = p
        /\ (new.alone => Quiet(d))
    BY DEF Request, PlanOrNone, Quiet
  <1>3. ASSUME NEW g \in Threads
        PROVE  /\ old(g) \in Request /\ old(g).pc = request[g].pc /\ old(g).tab = request[g].tab
               /\ old(g).direction = request[g].direction /\ old(g).plan = request[g].plan
               /\ old(g).path = request[g].path
               /\ (old(g).alone => request[g].alone /\ request[g].direction # d)
    <2>1. request[g] \in Request
      BY <1>1, TypeFacts
    <2>2. (request[g].alone /\ request[g].direction # d) \in BOOLEAN
      OBVIOUS
    <2> QED
      BY <2>1, <2>2 DEF Request
  <1>4. ASSUME NEW u \in Tabs
        PROVE  /\ shown(u) \in Page /\ shown(u).latest = page[u].latest
               /\ \A e \in Directions : shown(u).alone[e] => page[u].alone[e] /\ e # d
    <2>1. page[u] \in Page /\ page[u].alone \in [Directions -> BOOLEAN]
      BY <1>1, TypeFacts
    <2> QED
      BY <2>1 DEF Page
  <1>5. /\ request' = [g \in Threads |-> IF g = h THEN new ELSE old(g)]
        /\ page' = [u \in Tabs |-> shown(u)]
    BY DEF RequestPreview
  <1> HIDE DEF new, old, shown
  <1>6. /\ request' \in [Threads -> Request] /\ request'[h] = new
        /\ \A g \in Threads \ {h} : request'[g] = old(g)
        /\ page' \in [Tabs -> Page] /\ \A u \in Tabs : page'[u] = shown(u)
    BY <1>2, <1>3, <1>4, <1>5
  <1>7. \A e \in Directions \ {d} : Quiet(e) => Quiet(e)'
    BY <1>2, <1>3, <1>6 DEF Quiet, OnTheWay
  <1>8. RequestOK(h)'
    <2>1. Quiet(d) => \A o \in Threads \ {h} : ~OnTheWay(o, d)'
      BY <1>3, <1>6 DEF Quiet, OnTheWay
    <2> QED
      BY <1>2, <1>6, <2>1 DEF RequestOK
  <1>9. ASSUME NEW g \in Threads \ {h}
        PROVE  RequestOK(g)'
    <2>1. RequestOK(g) /\ request[g].direction \in Directions
      BY <1>1, TypeFacts DEF IInv
    <2>2. ASSUME NEW o \in Threads \ {g}, request[g].direction # d, OnTheWay(o, request[g].direction)'
          PROVE  OnTheWay(o, request[g].direction)
      BY <1>2, <1>3, <1>6, <2>2 DEF OnTheWay
    <2> QED
      BY <1>1, <1>3, <1>6, <1>7, <2>1, <2>2 DEF RequestOK
  <1>10. \A u \in Tabs, e \in Directions : PageOK(u, e)'
    BY <1>1, <1>4, <1>6, <1>7 DEF IInv, PageOK
  <1>11. \A g \in Threads : RequestOK(g)'
    BY <1>8, <1>9
  <1> QED
    BY <1>1, <1>6, <1>10, <1>11, TypeFacts, NothingWritten, GuiStep

LEMMA MakePlanStep ==
    ASSUME IInv, NEW h \in Threads, MakePlan(h)
    PROVE  IInv'
  <1>1. /\ TypeOK /\ request[h] \in Request /\ request[h].pc = "asked" /\ RequestOK(h)
        /\ UNCHANGED <<surface, version, screen, slot, page>> /\ WritesNothing
    BY TypeFacts DEF IInv, MakePlan, At
  <1>2. PICK plan \in Plan : plan = Planned(request[h].direction, request[h].path)
    BY <1>1, TypeFacts, PlannedFacts DEF RequestOK
  <1> DEFINE w == [request[h] EXCEPT !.pc = "planned", !.plan = plan]
  <1>3. w \in Request /\ w.pc = "planned" /\ w.plan = plan /\ w.direction = request[h].direction /\ w.alone = request[h].alone
    BY <1>1 DEF Request, PlanOrNone
  <1>4. request' = [request EXCEPT ![h] = w]
    BY <1>2 DEF MakePlan
  <1> HIDE DEF w
  <1>5. request' \in [Threads -> Request] /\ request'[h] = w /\ \A g \in Threads \ {h} : request'[g] = request[g]
    BY <1>1, <1>3, <1>4, RequestSet
  <1>6. \A g \in Threads, d \in Directions : OnTheWay(g, d)' <=> OnTheWay(g, d)
    BY <1>1, <1>3, <1>5 DEF OnTheWay
  <1>7. ASSUME NEW g \in Threads
        PROVE  RequestOK(g)'
    <2>1. RequestOK(g) /\ request[g].direction \in Directions
      BY <1>1, TypeFacts DEF IInv
    <2> QED
      BY <1>1, <1>3, <1>5, <1>6, <2>1 DEF RequestOK, Quiet
  <1>8. \A t \in Tabs, d \in Directions : PageOK(t, d)'
    BY <1>1, <1>6 DEF IInv, PageOK, Quiet
  <1> QED
    BY <1>1, <1>5, <1>7, <1>8, TypeFacts, NothingWritten, GuiStep

LEMMA PreviewFailsStep ==
    ASSUME IInv, NEW h \in Threads, PreviewFails(h)
    PROVE  IInv'
  <1>1. /\ TypeOK /\ UNCHANGED <<surface, version, screen, slot>> /\ WritesNothing
    BY DEF IInv, PreviewFails
  <1> DEFINE shown == [t \in Tabs |-> [page[t] EXCEPT !.awaits = None]]
  <1>2. /\ shown \in [Tabs -> Page]
        /\ \A t \in Tabs : shown[t].latest = page[t].latest /\ shown[t].alone = page[t].alone
    BY <1>1, TypeFacts DEF Page
  <1>3. Answers(h, shown)
    BY DEF PreviewFails
  <1> HIDE DEF shown
  <1>4. /\ request' \in [Threads -> Request] /\ request'[h] = Idle
        /\ \A g \in Threads \ {h} : request'[g] = request[g]
        /\ page' \in [Tabs -> Page] /\ \A t \in Tabs : page'[t] = page[t] \/ page'[t] = shown[t]
    BY <1>1, <1>2, <1>3, AnswersFacts
  <1>5. /\ \A g \in Threads \ {h} : RequestOK(g)'
        /\ \A d \in Directions : Quiet(d) => Quiet(d)'
    BY <1>1, <1>4, IdleFacts, EndKeeps
  <1>6. RequestOK(h)'
    BY <1>4, IdleFacts DEF RequestOK
  <1>7. \A t \in Tabs, d \in Directions : PageOK(t, d)'
    BY <1>1, <1>2, <1>4, <1>5 DEF IInv, PageOK
  <1>8. \A g \in Threads : RequestOK(g)'
    BY <1>5, <1>6
  <1> QED
    BY <1>1, <1>4, <1>7, <1>8, TypeFacts, NothingWritten, GuiStep

LEMMA StorePlanStep ==
    ASSUME IInv, NEW h \in Threads, StorePlan(h)
    PROVE  IInv'
  <1>1. /\ TypeOK /\ request[h] \in Request /\ request[h].pc = "planned" /\ request[h].plan \in Plan
        /\ RequestOK(h)
        /\ UNCHANGED <<surface, version, screen, page>> /\ WritesNothing
    BY TypeFacts DEF IInv, StorePlan, At, RequestOK
  <1>2. PICK d \in Directions : d = request[h].direction
    BY <1>1, TypeFacts
  <1> DEFINE w == [request[h] EXCEPT !.pc = "stored"]
  <1>3. w \in Request /\ w.pc = "stored" /\ w.plan = request[h].plan /\ w.direction = d /\ w.alone = request[h].alone
    BY <1>1, <1>2 DEF Request
  <1>4. request' = [request EXCEPT ![h] = w]
    BY DEF StorePlan
  <1> HIDE DEF w
  <1>5. request' \in [Threads -> Request] /\ request'[h] = w /\ \A g \in Threads \ {h} : request'[g] = request[g]
    BY <1>1, <1>3, <1>4, RequestSet
  <1>6. slot' = [e \in Directions |-> IF e \in {d} THEN request[h].plan ELSE slot[e]]
    BY <1>2 DEF StorePlan, SlotsFor
  <1>7. /\ slot' \in [Directions -> PlanOrNone] /\ slot'[d] = request[h].plan
        /\ \A e \in Directions \ {d} : slot'[e] = slot[e]
    BY <1>1, <1>6, TypeFacts DEF PlanOrNone
  <1>8. OnTheWay(h, d) /\ \A g \in Threads, e \in Directions : OnTheWay(g, e)' => OnTheWay(g, e) /\ g # h
    BY <1>1, <1>2, <1>3, <1>5 DEF OnTheWay
  <1>9. ~Quiet(d) /\ \A e \in Directions : Quiet(e) => Quiet(e)'
    BY <1>8 DEF Quiet
  <1>10. RequestOK(h)'
    <2>1. request[h].alone => Quiet(d)'
      BY <1>1, <1>2, <1>8 DEF RequestOK, Quiet
    <2> QED
      BY <1>1, <1>3, <1>5, <1>7, <2>1 DEF RequestOK
  <1>11. ASSUME NEW g \in Threads \ {h}
         PROVE  RequestOK(g)'
    <2>1. RequestOK(g) /\ request'[g] = request[g] /\ request[g].direction \in Directions
      BY <1>1, <1>5, TypeFacts DEF IInv
    <2>2. CASE request[g].direction = d
      BY <1>1, <1>7, <1>8, <1>9, <2>1, <2>2 DEF RequestOK
    <2>3. CASE request[g].direction # d
      BY <1>7, <1>8, <1>9, <2>1, <2>3 DEF RequestOK
    <2> QED
      BY <2>2, <2>3
  <1>12. ASSUME NEW t \in Tabs, NEW e \in Directions
         PROVE  PageOK(t, e)'
    BY <1>1, <1>7, <1>9 DEF IInv, PageOK
  <1>13. \A g \in Threads : RequestOK(g)'
    BY <1>10, <1>11
  <1> QED
    BY <1>1, <1>5, <1>7, <1>12, <1>13, TypeFacts, NothingWritten, GuiStep

LEMMA RespondStep ==
    ASSUME IInv, NEW h \in Threads, Respond(h)
    PROVE  IInv'
  <1>1. /\ TypeOK /\ request[h] \in Request /\ request[h].pc = "stored" /\ RequestOK(h)
        /\ UNCHANGED <<surface, version, screen, slot>> /\ WritesNothing
    BY TypeFacts DEF IInv, Respond, At
  <1>2. PICK d \in Directions : d = request[h].direction
    BY <1>1, TypeFacts
  <1>3. request[h].plan \in PlanOrNone /\ request[h].alone \in BOOLEAN
    BY <1>1 DEF Request
  <1> DEFINE answer(t) == [page[t] EXCEPT !.awaits = None, !.latest[d] = request[h].plan, !.alone[d] = request[h].alone]
             shown == [t \in Tabs |-> answer(t)]
  <1>4. ASSUME NEW t \in Tabs
        PROVE  /\ answer(t) \in Page
               /\ answer(t).latest[d] = request[h].plan /\ answer(t).alone[d] = request[h].alone
               /\ \A e \in Directions \ {d} : /\ answer(t).latest[e] = page[t].latest[e]
                                              /\ answer(t).alone[e] = page[t].alone[e]
    <2>1. /\ page[t] \in Page /\ page[t].alone \in [Directions -> BOOLEAN]
          /\ page[t].latest \in [Directions -> PlanOrNone]
      BY <1>1, TypeFacts
    <2> QED
      BY <1>3, <2>1 DEF Page
  <1> HIDE DEF answer
  <1>5. shown \in [Tabs -> Page] /\ \A t \in Tabs : shown[t] = answer(t)
    BY <1>4
  <1>6. Answers(h, shown)
    BY <1>2 DEF Respond, answer
  <1> HIDE DEF shown
  <1>7. /\ request' \in [Threads -> Request] /\ request'[h] = Idle
        /\ \A g \in Threads \ {h} : request'[g] = request[g]
        /\ page' \in [Tabs -> Page] /\ \A t \in Tabs : page'[t] = page[t] \/ page'[t] = answer(t)
    BY <1>1, <1>5, <1>6, AnswersFacts
  <1>8. /\ \A g \in Threads \ {h} : RequestOK(g)'
        /\ \A e \in Directions : Quiet(e) => Quiet(e)'
    BY <1>1, <1>7, IdleFacts, EndKeeps
  <1>9. RequestOK(h)'
    BY <1>7, IdleFacts DEF RequestOK
  <1>10. ASSUME NEW t \in Tabs, NEW e \in Directions
         PROVE  PageOK(t, e)'
    <2>1. CASE page'[t] = page[t]
      BY <1>1, <1>8, <2>1 DEF IInv, PageOK
    <2>2. CASE page'[t] = answer(t) /\ e = d
      BY <1>1, <1>2, <1>4, <1>8, <2>2 DEF RequestOK, PageOK
    <2>3. CASE page'[t] = answer(t) /\ e # d
      BY <1>1, <1>4, <1>8, <2>3 DEF IInv, PageOK
    <2> QED
      BY <1>7, <2>1, <2>2, <2>3
  <1>11. \A g \in Threads : RequestOK(g)'
    BY <1>8, <1>9
  <1> QED
    BY <1>1, <1>7, <1>10, <1>11, TypeFacts, NothingWritten, GuiStep

LEMMA RequestConfirmStep ==
    ASSUME IInv, NEW t \in Tabs, NEW h \in Threads, NEW d \in Directions, RequestConfirm(t, h, d)
    PROVE  IInv'
  <1>1. /\ TypeOK /\ slot[d] \in Plan
        /\ UNCHANGED <<surface, version, screen, slot>> /\ WritesNothing
    BY TypeFacts DEF IInv, RequestConfirm, PlanOrNone
  <1> DEFINE w == [Idle EXCEPT !.pc = "confirming", !.tab = t, !.direction = d]
             waits == [page[t] EXCEPT !.awaits = h]
  <1>2. w \in Request /\ w.pc = "confirming" /\ w.tab = t /\ w.direction = d /\ w.alone = FALSE
    BY DEF Idle, Request, PlanOrNone
  <1>3. request' = [request EXCEPT ![h] = w]
    BY DEF RequestConfirm
  <1> HIDE DEF w
  <1>4. request' \in [Threads -> Request] /\ request'[h] = w /\ \A g \in Threads \ {h} : request'[g] = request[g]
    BY <1>1, <1>2, <1>3, RequestSet
  <1>5. waits \in Page /\ waits.latest = page[t].latest /\ waits.alone = page[t].alone
    BY <1>1, TypeFacts DEF Page
  <1>6. page' = [page EXCEPT ![t] = waits]
    BY DEF RequestConfirm
  <1> HIDE DEF waits
  <1>7. /\ page' \in [Tabs -> Page]
        /\ \A u \in Tabs : page'[u].latest = page[u].latest /\ page'[u].alone = page[u].alone
    BY <1>1, <1>5, <1>6, TypeFacts
  <1>8. /\ \A g \in Threads \ {h} : RequestOK(g)'
        /\ \A e \in Directions : Quiet(e) => Quiet(e)'
    BY <1>1, <1>2, <1>4, EndKeeps
  <1>9. RequestOK(h)'
    BY <1>1, <1>2, <1>4 DEF RequestOK
  <1>10. \A u \in Tabs, e \in Directions : PageOK(u, e)'
    BY <1>1, <1>7, <1>8 DEF IInv, PageOK
  <1>11. \A g \in Threads : RequestOK(g)'
    BY <1>8, <1>9
  <1> QED
    BY <1>1, <1>4, <1>7, <1>10, <1>11, TypeFacts, NothingWritten, GuiStep

LEMMA LeaveStep ==
    ASSUME IInv, NEW t \in Tabs, Leave(t)
    PROVE  IInv'
  <1>1. /\ TypeOK /\ UNCHANGED <<surface, version, screen, slot, request>> /\ WritesNothing
    BY DEF IInv, Leave
  <1> DEFINE gone == [page[t] EXCEPT !.awaits = None]
  <1>2. gone \in Page /\ gone.latest = page[t].latest /\ gone.alone = page[t].alone
    BY <1>1, TypeFacts DEF Page
  <1>3. page' = [page EXCEPT ![t] = gone]
    BY DEF Leave
  <1> HIDE DEF gone
  <1>4. /\ page' \in [Tabs -> Page]
        /\ \A u \in Tabs : page'[u].latest = page[u].latest /\ page'[u].alone = page[u].alone
    BY <1>1, <1>2, <1>3, TypeFacts
  <1>5. \A g \in Threads : RequestOK(g)'
    BY <1>1 DEF IInv, RequestOK, Quiet, OnTheWay
  <1>6. \A u \in Tabs, e \in Directions : PageOK(u, e)'
    BY <1>1, <1>4 DEF IInv, PageOK, Quiet, OnTheWay
  <1> QED
    BY <1>1, <1>4, <1>5, <1>6, TypeFacts, NothingWritten, GuiStep

LEMMA GuiConfirmStep ==
    ASSUME IInv, NEW h \in Threads, GuiConfirm(h)
    PROVE  IInv'
  <1>1. /\ TypeOK /\ request[h].pc = "confirming" /\ RequestOK(h)
        /\ UNCHANGED <<surface, version, screen, slot>>
    BY DEF IInv, GuiConfirm, At
  <1>2. PICK d \in Directions : d = request[h].direction
    BY <1>1, TypeFacts
  <1>3. PICK t \in Tabs : t = request[h].tab
    BY <1>1 DEF RequestOK
  <1>4. slot[d] \in Plan /\ page[t].latest[d] \in PlanOrNone /\ page[t].alone[d] \in BOOLEAN
    BY <1>1, <1>2, TypeFacts DEF RequestOK
  <1>5. Writes("gui", slot[d], page[t].latest[d], page[t].alone[d])
    BY <1>2, <1>3 DEF GuiConfirm
  <1>6. /\ written' \in Write /\ written'.by = "gui" /\ written'.plan = slot[d]
        /\ written'.shown = page[t].latest[d] /\ written'.alone = page[t].alone[d]
    BY <1>4, <1>5, WriteFacts
  <1>7. ConfirmsWhatItShows'
    BY <1>6 DEF IInv, PageOK, ConfirmsWhatItShows
  <1> DEFINE shown == [u \in Tabs |-> [page[u] EXCEPT !.awaits = None]]
  <1>9. /\ shown \in [Tabs -> Page]
        /\ \A u \in Tabs : shown[u].latest = page[u].latest /\ shown[u].alone = page[u].alone
    BY <1>1, TypeFacts DEF Page
  <1>10. Answers(h, shown)
    BY DEF GuiConfirm
  <1> HIDE DEF shown
  <1>11. /\ request' \in [Threads -> Request] /\ request'[h] = Idle
         /\ \A g \in Threads \ {h} : request'[g] = request[g]
         /\ page' \in [Tabs -> Page] /\ \A u \in Tabs : page'[u] = page[u] \/ page'[u] = shown[u]
    BY <1>1, <1>9, <1>10, AnswersFacts
  <1>12. /\ \A g \in Threads \ {h} : RequestOK(g)'
         /\ \A e \in Directions : Quiet(e) => Quiet(e)'
    BY <1>1, <1>11, IdleFacts, EndKeeps
  <1>13. RequestOK(h)'
    BY <1>11, IdleFacts DEF RequestOK
  <1>14. \A u \in Tabs, e \in Directions : PageOK(u, e)'
    BY <1>1, <1>9, <1>11, <1>12 DEF IInv, PageOK
  <1>15. \A g \in Threads : RequestOK(g)'
    BY <1>12, <1>13
  <1> QED
    BY <1>1, <1>6, <1>7, <1>11, <1>14, <1>15, TypeFacts, GuiStep

-----------------------------------------------------------------------------
(* The invariant *)

LEMMA InitInvariant == Init => IInv
  <1> SUFFICES ASSUME Init
               PROVE  IInv
    OBVIOUS
  <1>1. TypeOK
    <2>1. screen \in Screen
      BY DEF Init, Fresh, Screen, PlanOrNone
    <2>2. slot \in [Directions -> PlanOrNone]
      BY DEF Init, PlanOrNone
    <2>3. request \in [Threads -> Request]
      BY IdleFacts DEF Init
    <2>4. page \in [Tabs -> Page]
      BY DEF Init, Page, PlanOrNone
    <2>5. version \in 0..MaxChanges[surface]
      BY ChangesAssumption DEF Init
    <2> QED
      BY <2>1, <2>2, <2>3, <2>4, <2>5 DEF Init, TypeOK
  <1>2. ScreenOK
    BY DEF Init, ScreenOK, Fresh
  <1>3. \A h \in Threads : RequestOK(h)
    BY IdleFacts DEF Init, RequestOK
  <1>4. \A t \in Tabs, d \in Directions : PageOK(t, d)
    BY DEF Init, PageOK
  <1>5. ConfirmsWhatItShows
    BY DEF Init, ConfirmsWhatItShows
  <1> QED
    BY <1>1, <1>2, <1>3, <1>4, <1>5 DEF IInv

LEMMA NextInvariant == IInv /\ [Next]_vars => IInv'
  <1> SUFFICES ASSUME IInv, [Next]_vars
               PROVE  IInv'
    OBVIOUS
  <1>1. CASE Tui
    BY <1>1, SwitchScreenStep, TypeStep, TuiPreviewStep, TuiConfirmStep, TuiCheckStep, TuiInstallStep DEF Tui
  <1>2. CASE Gui
    BY <1>2, RequestPreviewStep, MakePlanStep, PreviewFailsStep, StorePlanStep, RespondStep,
       RequestConfirmStep, GuiConfirmStep, LeaveStep, GuiInstallStep DEF Gui
  <1>3. CASE \E d \in Directions, p \in Paths : CommandYes(d, p)
    BY <1>3, CommandYesStep
  <1>4. CASE Changes
    BY <1>4, ChangesStep
  <1>5. CASE UNCHANGED vars
    <2>1. TypeOK'
      BY <1>5 DEF IInv, TypeOK, vars
    <2>2. /\ \A h \in Threads : RequestOK(h)'
          /\ \A t \in Tabs, d \in Directions : PageOK(t, d)'
      BY <1>5, GuiKept DEF vars
    <2>3. ConfirmsWhatItShows' /\ ScreenOK'
      BY <1>5 DEF IInv, ConfirmsWhatItShows, ScreenOK, vars
    <2> QED
      BY <2>1, <2>2, <2>3 DEF IInv
  <1> QED
    BY <1>1, <1>2, <1>3, <1>4, <1>5 DEF Next

\* Types, the screen of the TUI, and for previews that are alone: what is in the
\* slot and who may still change it.
THEOREM Invariance == Spec => []IInv
  BY InitInvariant, NextInvariant, PTL DEF Spec

\* Above all, only plans are ever written: no confirmation finds an empty slot,
\* which is read a second time by then.
THEOREM TypeCorrect == Spec => []TypeOK
  <1>1. IInv => TypeOK
    BY DEF IInv
  <1> QED
    BY <1>1, Invariance, PTL

\* What a screen of the TUI imports or restores is the plan on it, and what a tab does
\* is the plan it has displayed last, if that was alone from its request on, for any
\* number of tabs and threads.
THEOREM ShownIsWritten == Spec => []ConfirmsWhatItShows
  <1>1. IInv => ConfirmsWhatItShows
    BY DEF IInv
  <1> QED
    BY <1>1, Invariance, PTL
===============================================================================
