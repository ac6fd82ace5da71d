# A verification project for self-nomad 1.4.1

self-nomad keeps an agent's portable "self" (persona, memory, skills, policies)
in a Git repository. Changes come in as *proposals*, are reviewed in private
worktrees and land on a branch; runtimes are filled from the repository by
*restores*. This directory holds TLA+ models of the parts where the order of
steps matters, TLC runs for small instances of them, and TLAPS proofs of the
most important properties for every instance. Paths are relative to the root of
the repository, which is `src/` in `PROJECT.json`.

## The system

| component | state it keeps | operations | whom it meets |
| --- | --- | --- | --- |
| proposal service (`proposals/service.py`, `store.py`) | a record file per proposal, a worktree and branch per proposal, one lock file per repository | create_draft, materialize, validate, approve, reject, apply, cleanup | the target branch and its checkout, which the operator uses too; worktrees agents can write in |
| Git backend (`git/backend.py`) | none of its own | one `git` process per call, with a timeout | every caller |
| intake (`intake/`) | a receipt per request_id, staged content per digest, one lock file | preview, submit | agents, that retry; the proposal service, of which it calls create_draft and materialize |
| restore (`adapters/base.py`) | stage, rollback and backup directories | plan_restore, apply_restore | the agent runtime, which may be running |
| adapters (`adapters/*.py`) | none | detect, plan_import, plan_restore, materialize_import | runtime directories, restore, proposals |
| snapshot, hub (`snapshot/`, `hub/`) | archives, temporary directories | pack, check, install, pull, publish | the file system |
| repository, manifest, policy | the repository's files | validate, digest | proposals, intake |
| record files (`filesystem/atomic.py`) | one file per record, receipt or staged content | write a temporary file, sync it, replace | every store, processes that die, the disk |
| MCP server (`mcp_server/`) | none; a cursor is in the client's hands | check arguments, list, get, validate, preview, submit; map errors; suggest steps | agents, in threads; the proposal store |
| GUI, TUI, CLI, `SelfNomad` | GUI: the plan between two requests; TUI: the plan of a screen | translate calls to the services | all of the above, in processes and threads of their own |

There is no daemon: every interface calls the services in its own process (the
MCP server in threads), and all they share is on disk. What makes the system
hard is therefore

- *interleaving*: validate, approve, reject and cleanup read and replace whole
  record files without the lock that materialize and apply hold; the operator
  and the agents use the same Git repository and need no lock at all;
- *stale state*: HEAD, cleanliness and contents of worktrees are looked at by
  one Git process and relied on by a later one;
- *crashes and timeouts* between two writes, of a submission in particular,
  which has six of them, and of a restore, which has two renames;
- *retries*: agents submit again when they got no answer;
- *kept plans*: the GUI shows a plan in one request and carries it out in another;
- *shared names*: packs to one file share a temporary file, a pull opens the
  archive twice, and installs meet in one destination;
- *pages*: each page of a listing is a new listing of a store that changes.

`PROJECT.json` lists each of these under `hazards`, at the line where it bites.

What each component must guarantee:

- proposals: nothing reaches the target branch but the declared change of an
  approved proposal on the base it was drafted on; records say "applied" only of
  what is in the branch; the operator's edits are not overwritten; finished
  proposals stay finished; every call returns and frees the lock;
- intake: one request, one proposal; what a receipt reserves never changes; an
  interrupted submission can be resumed or ends in failure;
- restore: all planned artifacts or none; nothing of the runtime is lost that the
  restore could have seen;
- adapters and sessions: nothing is left out silently; a restore overwrites only
  what was shown and leaves what the repository holds; it comes back unchanged;
- snapshot and hub: an installed or published pack is the one that was checked,
  and the file at the drop is whole;
- record files: who reads gets a whole record, the old or the new;
- MCP server: a walk shows every proposal once; "ok" is about the proposal as it
  is now; answers tell nothing the caller made up, and suggest what works;
- consoles: what is confirmed is what was shown, also if previews overtake each other.

## The modules

| module | models |
| --- | --- |
| `Commits` | the Git vocabulary: a commit is the sequence of changes that leads to it |
| `TargetBranch` | abstract: what the proposal workflow promises about the branch |
| `ProposalService` | the proposal service, store, worktrees, checkout, lock |
| `ProposalStandings` | abstract: how a proposal changes under calls that overlap, as one who has lent it out may see it |
| `IntakeService` | `IntakeService.submit` with receipts, staging and retries |
| `RequestLedger` | abstract: what a submission promises to the agent |
| `AtomicFile` | `atomic_write_bytes` with readers, failing writers and losses of power |
| `RecordRegister` | abstract: a file that is saved in one step |
| `RestoreTransaction` | `RuntimeAdapter.apply_restore`, several at a time, against a running runtime |
| `RuntimeTransfer` | the tables of the adapters, import and restore plans, and the sessions that keep and confirm them |
| `Snapshot` | pack, publish, pull and install around one file drop and one destination |
| `ToolServer` | the MCP tools that list and validate proposals, over a store others change |
| `ToolBoundary` | one tool call: arguments, errors, the answer, and the steps it suggests |
| `OperatorConsole` | the plans that the TUI, the GUI and the commands show and carry out |
| `MC*` | instances and symmetry sets for TLC |
| `ProposalServiceProofs`, `IntakeServiceProofs`, `AtomicFileProofs`, `RestoreTransactionProofs`, `RuntimeTransferProofs`, `SnapshotProofs`, `McpServerProofs` (of `ToolServer` and `ToolBoundary`), `OperatorConsoleProofs` | theorems |

The modules meet as follows. `ProposalService` and `IntakeService` read and write
records in one step; `AtomicFile` implements `RecordRegister`, which says that
this is what the stores get. `IntakeService` calls two methods of the proposal
service and leaves the proposal to reviewers in between: what these may do to
it is the operator `Reviewed` of `ProposalStandings`. `ProposalService`
implements that specification with callers that overlap and die, and
`IntakeService`, with `Reviewed` for its environment, implements it as well, so
that each keeps what the other relies on. `ToolServer` takes from
`ProposalService` how the status of a record may move, `RuntimeTransfer` from
`TargetBranch` that a proposal lands on its base or not at all and from
`RestoreTransaction` that a restore is one step, and `OperatorConsole` leaves to
both whether a plan is accepted.

### ProposalService

A *caller* is a thread or process inside a method. `pc[i]` is the step it is at,
`rec[i]` the copy of the record it loaded when it entered and will save as a
whole. A method is cut into actions where something another party can change is
read or written; everything between two such points is one action. `lock` is
`FileLock(store.lock_path)`; callers that find it taken are not entered (a lock
timeout raises before anything is read or written).

A proposal worktree is its directory, its branch, its HEAD and what is
uncommitted in it. The checkout is the working copy the operator has of the
repository: its branch, the commit its files are at, and whether something is
edited. Edits are *early* or *late*, depending on whether an apply has found the
checkout clean and not refreshed it yet.

The content of a commit is the changes in its ancestry. A proposal commit is
`Declared(p)` if it makes exactly the declared operations and `Undeclared(p)` if
`git add -A` swept up something else, which is what the diff in
`_verify_declared_tree` tells apart. A tree is identified with its commit. The
environment (constant `Disturbances`) may kill a caller between any two steps,
make `update-ref` time out with or without effect, write and commit in proposal
worktrees, commit on the target, edit in the checkout and switch its branch.

### IntakeService

A *submitter* is a process inside `submit`. The preview runs before the lock and
what it saw (`mine`, `base`) is used after it; the receipt is read again under
the lock. Resuming enters the chain of steps at the first one whose effect is
missing. A proposal record shows only the statuses intake tells apart:
"reviewed" is validated, approved, applied or stale. `Review` is whatever
`ProposalStandings` lets reviewers do; `outcome`, a history variable in the
record, is what materialize came to, which stale copies in the hands of
reviewers depend on. Requests are an id and a digest; staged content exists or
not.

`RequestLedger` has a request reserved, its draft created, and the request
completed or failed, each once.

### AtomicFile

A file is its content and whether that is on the disk. It is never shared by two
names, so that it is handed from a writer's temporary path to the path of the
record, and from there to whoever opens it. `settled` is what the directory on
the disk names: nothing ever syncs the directory, so that a loss of power can
take back a save that has returned, as a whole (`Restart` in `RecordRegister`).

### RestoreTransaction

A directory is a function from paths to what is there ("before", the
repository's "canonical" content, the runtime's "own" writing, or nothing).
Restorers may overlap, die and be run again, up to `MaxRestores` times. The
runtime writes at any moment: it makes, replaces or removes an artifact, and may
put back what was there before (`RuntimeWrites`), also while the directory is
being copied. `owed` is a history variable: what must not get lost at each path;
so are `written`, the paths the runtime has written, and `misled`, set when a
restorer finds no directory because another one has it away. Backups are kept,
rollback directories that no restore will touch again are `leftovers`.

### RuntimeTransfer

A directory tree is a function from paths to contents, a path a sequence of
names; the digest of no file, which a mapping keeps where there was nothing, is
`NoDigest`. `home` is the runtime directory, `repo` the working tree of the
self-repository, `version` its tip. The seven adapters are tables (`Rows`) and
the exceptions the code makes to them: `DailyPlace` and `InstructionFile`
choose by what they find, `ImportPlace` and `RestorePlace` are not the same.
`PlanImport` and `PlanRestore` make the plans; `imports` and `restores` are the
slots `GuiApp` keeps them in. A confirmation uses the plan in the slot, however
old it is. What a confirmation copies are the files under the sources of the
mappings, each at the same path below its destination (`Moved`, `Merged`), and it is
`Written` over what was there. Restoring is one step: `RestoreTransaction` says that it is all or
nothing. An import that is confirmed becomes a proposal, which lands on its base
or not at all: that is what `TargetBranch` promises.

### Snapshot

Packers and pullers are processes. The drop and the temporary path beside it name
inodes, so that a packer may write in a file that another has emptied, moved or
unlinked. A repository is a handful of parts with version numbers; an archive is
its profile, the fields in its manifest and the files in it, or `Torn`. An
empty directory is in the staged tree and not in the archive. Installs test,
remove and make the destination in steps of their own and copy one part after
the other. `count` holds what is used up of each bound. History variables say
whether two packers have been at the temporary path at a time (`overlapped`),
whether one has failed or died before it had moved what it wrote (`troubled`), and
which archives were installed (`opened`).

### ToolServer

Ids are numbers in the order of the file names. `proposal_list` lists the names,
reads one file after the other, keeps those that match, cuts a page and gives
back a cursor; the code filters after reading, by what it read, and sorts once
more by the order it read in, so that keeping a record or not can be decided as
it is read. `proposal_validate` loads the record up to three times. Other processes
create proposals, move their status and write in worktrees. `steady` and `sound`
are history: what was there all along, and whether the worktree was as declared
at some moment of the call.

### ToolBoundary

An argument is the class of values it belongs to (a proper one, a wrong type, a
cursor that decodes to something else, ...). Of a request that Pydantic refuses
only the location of the error matters, which `safe_path_from_loc` walks along to
keep out names that the caller made up. `Clauses` is the order in which
`map_exception` asks for classes, `Base` their hierarchy and `Lineage` a class
with all it is derived from. `Follow` does the
first step an answer suggests, if the status of the proposal lets it.

### OperatorConsole

A plan is a path and the version of what lay there. The TUI, the GUI and a
command are processes that share nothing but the disk, so that a behaviour has
one of them (`surface`) and sees the others as changes. A preview that fails
leaves screen and plan as they are and is no step. In the GUI a request is a
thread of its own (`request`), apart from the tab that has sent it (`page`): a tab
may ask again, go elsewhere or be closed (`Leave`) while its request is worked
on to the end, and only the page it still waits for is displayed. The plan is made,
stored in the one slot of its direction and displayed in three steps; a
confirmation reads the slot twice. The GUI installs an archive in one request
(`GuiInstall`), the TUI after a check. What a page has displayed last, and whether
that preview was `alone`, is history.

## The runs

| run | instance | shows |
| --- | --- | --- |
| `proposal_race` | 1 proposal, 2 callers, every disturbance | `TypeOK`, `OnlyApprovedLands`, `ApprovalBindsDeclaredTree`, `AppliedIsInHistory`, `EarlyEditsSurvive`, `ImplementsStandings` |
| `proposal_serial` | 2 proposals, 1 caller, crashes, timeouts, commits, fairness | `ImplementsTargetBranch`, `RejectedStaysOut`, `TerminalIsFinal`, `LiveProposalKeepsWorktree`, `EveryCallReturns` |
| `proposal_rejected_lands` | 1 proposal, 2 callers | that `RejectedStaysOut` fails when callers overlap |
| `intake_race` | 2 submitters, 2 requests, 2 digests, all faults, 1 crash | `TypeOK`, `OneProposalPerRequest`, `CompletedHasProposal`, `DraftKeepsContent`, `ReceiptIsFrozen` |
| `intake_live` | 2 submitters, 1 request, 2 digests, 2 crashes, fairness | `PendingSettles`, `ImplementsRequestLedger`, `ImplementsStandings` |
| `restore` | 2 restorers, 3 paths, 2 planned, 2 restores, 2 writes, errors, deaths | `ContentKept`, `AllOrNothing` |
| `transfer` | 4 adapters, 60 pairs of runtime and repository, 2 plans, 1 import, 1 edit | `RestoreOmitsNothing`, `ImportThenRestoreLosesNothing`, `RestoreOverwritesWhatWasShown`, `RestoredIsCanonical`, `RestoreComesBack` |
| `snapshot` | 2 packers, 2 pullers, 3 calls, 1 edit, 1 foreign write, 1 death | `DropIsWhole`, `QuietDropIsWhole`, `PulledIsChecked`, `ForeignFilesSurvive`, `InstalledIsExact` |
| `tool_server` | 1 walker, 2 validators, 3 ids, pages of 1 and 2, 2 changes, fairness | `WalksShowEachOnce`, `OkMeansVerified`, `WalkEnds` |
| `tool_boundary` | every tool, class of arguments, location and error, fairness | `PathsArePublic`, `SuggestionsWork` |
| `console` | the TUI, or commands, with 2 changes, or 2 tabs and 2 threads; 2 paths | `ConfirmsWhatItShows` |
| `atomic_file` | 2 writers, 1 reader, 2 values, errors, deaths, losses of power | `TypeOK`, `ReadsAreWhole`, `ImplementsRecordRegister` |

The type invariants of the other modules hold in their instances too; `TypeOK`
is among the properties of the runs where theorems rest on it.

Some of the properties deserve a word. `RejectedStaysOut` and `TerminalIsFinal`
hold of one caller at a time, crashes included (`proposal_serial`), and fail as
soon as two callers overlap (`proposal_rejected_lands`), because reject, approve
and validate do not take the lock. The properties of `proposal_race`, on the
other hand, hold in spite of that: records are overwritten, but every record
anybody may save is sound, and the compare-and-swap decides the rest.

`ImplementsStandings` is checked of both services with one proposal or one
request: a standing is about one proposal, and nothing in it depends on others.

`ContentKept` exempts four things. What the runtime writes between the recheck
and the swap no code could keep without the runtime's cooperation. What it writes
while a restore runs that had found no directory is removed by a rollback
(`MCRestoreTransactionFresh`). What it puts back after a restore has copied the directory
without it (`ComesBack`) is lost: the recheck compares the directory with the
digest of before, finds it as it was, and never looks at the stage, which lacks
the artifact or has what it was for a moment. If no mapping goes there it is not
backed up, and the original is removed. The code could see this and does not
(`MCRestoreTransactionReverted`). Where a mapping goes, the copy does not matter, and
nothing is exempt. And finally what happens after a restorer has found no
directory because another one had it away. The run `restore` has writes, removals
and put-backs at every moment: in every other order of them and the steps of
the restores, everything is kept.

The restore swaps directories with two renames, so a process that dies between
them leaves no runtime directory ("atomic directory swap",
docs/runtime-portability.md:154); `ContentKept` then finds everything in the
rollback directory. An edit made in the checkout after apply found it clean
(ADR 0008: "a dirty worktree must not be overwritten") is overwritten by the
refresh; `EarlyEditsSurvive` says that no earlier one is.

`RestoreOverwritesWhatWasShown` and `RestoredIsCanonical` hold because
`apply_restore` compares the runtime with the plan and the stage with the
repository, for mappings the plan calls identical, too. `RestoreOmitsNothing`
holds of restores; of imports the same (`ImportOmitsNothing`) fails for the
workspace adapters. `ImportThenRestoreLosesNothing` compares the plans of one
adapter in both directions, which use different places for instructions and
daily notes.

`DropIsWhole` is about packs that do not overlap: while one writes, another may
empty its temporary file, move it to the drop half-written, and unlink that of a
third. `QuietDropIsWhole` is about those that do overlap: once nobody is between
opening the temporary file and moving it, the drop is whole, unless one of them
has failed or died. The reason is a count: each packer moves one file, so that of
those who share a file the last finds none, and that is an error; a pack that
finds its file gone and took this for success (the mutant `Overlooked`) would leave
a torn drop behind that no one has been told of. In the meantime the drop may be
torn, also after a publish that has succeeded. A pull that succeeds installed what it checked
(`PulledIsChecked`); one that finds out that the file was replaced between its
two openings has left the other archive's tree at the destination. With two
pullers and one empty destination the second may remove the directory that the
first has just made. If they install one archive, whoever succeeds leaves
exactly it (`InstalledIsExact`); if they install two, every directory is still
that of the archive whose install succeeds, but the manifest can be the other's.

`WalksShowEachOnce` is about proposals that are there, and match, all the time;
one that comes, goes or changes its status meanwhile may be shown or not.
`ConfirmsWhatItShows` is about every confirmation on a screen of the TUI, and about
those in a tab that displays a preview which was alone: of that direction no other
has been on the way since it was asked for, from this tab or another.  Requests
of the other direction may overtake it, fail, or be confirmed.
`SuggestionsWork` has the operator do what is suggested and nothing else.

### Statements the code does not keep

While modelling, these statements of the documentation, a docstring or a test
turned out not to be kept. The first is a run; each of the others has a
configuration of its own, beside those of the runs, under which TLC prints a
behaviour that violates it.

| configuration | property | what happens |
| --- | --- | --- |
| `MCProposalServiceRejected` | `RejectedStaysOut` | a reject that overlaps validate, approve or apply is overwritten by a stale copy of the record, and the proposal lands |
| `MCIntakeServiceCrash` | `CrashesResume` | a submitter dies after `git worktree add`; the retry fails on the directory that is left, for good (docs/agent-intake.md:127, "Incomplete materialization resumes from the receipt") |
| `MCRestoreTransactionGap` | `OriginalNotLost` | a restore that looks between the two renames of another takes the directory for missing, and its rollback removes what the other has restored (docs/runtime-portability.md:156, "Automatic rollback of the original directory on failure") |
| `MCRestoreTransactionOverlap` | `ContentKept` | of two restores, one takes the directory that the runtime made, while the other had the original away, for the original (docs/runtime-portability.md:156 again) |
| `MCRestoreTransactionReverted` | `RecheckedStage` | an artifact no mapping names is removed or changed while the directory is copied, and put back before the recheck, which passes; the stage without it replaces the directory (tests/integration/test_adapters.py:186, "aborts_without_overwrite"; docs/runtime-portability.md:164, "Anything not listed in the plan is out of scope.") |
| `MCRestoreTransactionFresh` | `RuntimeNotRemoved` | there was no directory at first; one the runtime makes meanwhile is removed by the rollback (tests/integration/test_adapters.py:186, "aborts_without_overwrite") |
| `MCRuntimeTransferSilent` | `ImportOmitsNothing` | daily notes are neither imported nor reported once another file lies beside them (docs/adapter-authoring.md:16, "Never silently omit an artifact") |
| `MCSnapshotDrop` | `GoodDropStays` | publish replaces the drop and checks it afterwards (hub/client.py:40, "Pack, check, and copy the archive to a file-drop path") |
| `MCSnapshotMixture` | `InstalledValidates` | two installs of different archives: one succeeds with the other's manifest (docs/python-api.md:83, "assert installed.repository.validate(strict=True).valid") |
| `MCToolServerWriters` | `WritersAreSerialized` | a validation saves the record it loaded over what another process has saved (docs/mcp.md:142, "proposal and intake locks still serialize writers") |
| `MCToolBoundaryEscaped` | `MalformedIsEnveloped` | a cursor that decodes to JSON other than an object raises a `TypeError` out of the middleware (docs/mcp.md:116, "always return the envelope") |
| `MCToolBoundaryInternal` | `InternalMeansServer` | a proposal_id the middleware takes and the SDK does not convert is answered as an internal error (docs/mcp.md:110) |
| `MCOperatorConsoleYes` | `AppliedPlansWereDisplayed` | `restore --yes` applies a plan nobody has seen (docs/adapter-authoring.md:5, "applies only a previously displayed restore plan") |
| `MCOperatorConsoleSuperseded` | `ShownPlansAreApplied` | a tab asks for a second preview before the first has come; the thread of the first is the last to store its plan, which the tab then confirms and has never displayed (docs/adapter-authoring.md:5 again) |
| `MCOperatorConsoleTabs` | `ShownPlansAreApplied` | a tab confirms the plan that another tab has previewed since |
| `MCOperatorConsoleInstall` | `InstallsWhatWasChecked` | the TUI installs the archive typed in after the check of another (docs/cli-reference.md:77, "Only after a preview") |

Two more have no configuration: a drifted proposal goes back to materialized, not
to stale as docs/architecture.md:58-59 has it (`Invalidated` in
`ProposalService`); and an apply that dies after the ref update leaves an approved
record, which the next apply makes stale although the change has landed.

### Bounds

- Callers and submitters: two. The interleavings in question are a method that
  loses what another has written; the theorems need no such bound.
- Proposals: two, for two that compete for one base; a third adds none. Two
  callers *and* two proposals are not needed: what the callers share is one
  record, or the lock, under which only one of them can be applying.
- `MaxEdits`, `MaxTip` = 1: a branch that has moved once has moved.
- `MaxCrashes` = 1 or 2: a retry that dies too.
- `MaxRestores` = 2: a restore after one that died or failed, or beside it.
- `MaxWrites` = 2: a removal or a change and the put-back, between any steps of two
  restores. In `restore` the runtime does not make its directory anew while one
  of the two has it away (`MCRestoreTransactionOverlap` is about that); of one
  restorer and such a runtime the theorems hold.
- Paths: two that are replaced, for "all or none", and one that is not.
- `transfer`: a plan, a change behind its back, and its confirmation need one edit;
  two plans are one of each direction, or a newer one in the same slot; one import,
  for a repository that changes by landing. The initial runtimes have instructions
  and notes in every combination of the places the adapters look at.
- `snapshot`: three calls are two packs, one that overlaps or follows the other,
  and a pull that opens the drop twice; or one pack and two installs, at the same
  time or one after the death of the other. One edit, for two packs that differ,
  of a directory, which may come to be empty, or of a file (`Edited`).
- `tool_server`: three proposals and pages of one or two, for a page boundary
  before, at and after a change. Walks only read, so that one walker is enough.
- `console`: two paths, for one typed in after a preview of the other; two changes,
  for one before and one after that preview. Two threads, since a request can be
  overtaken by one other at a time, as often as one likes; two tabs, for a preview
  in one between the two requests of the other. Plans of pages differ in their
  paths already, so that there are no changes beside them (`FewChanges`).
- `atomic_file`: two writers, since a third would only be another temporary file.

Deadlock is checked in the runs of `ProposalService`, `IntakeService` and
`AtomicFile`. In the others everything may have been done as often as the bounds
allow, or the one call of `ToolBoundary` is over.

### Fairness

`ProposalService!FairSpec` is weak fairness of each caller's next step: inside a
method nothing waits for anybody, every Git call has a timeout, and the lock is
held by then. Nobody has to call anything.
`IntakeService!FairSpec` is weak fairness of the steps of a submitter, strong
fairness of taking the intake lock (`FileLock` polls, and its holders come
to an end), and strong fairness of `Retry`: that an agent keeps submitting a
pending request is an assumption about agents, which the receipt exists for.
`ToolServer!FairSpec` is weak fairness of the steps of each walk: a tool call waits
for nobody, and a client that got a cursor asks for the next page; it is an
assumption about clients, without which a walk just stops.
`ToolBoundary!Spec` is weak fairness of its steps: the call comes to an answer,
and the suggested steps are taken.

## What is proved

For all values of the constants, from the assumptions named in the modules
(the sets of disturbances and faults, natural bounds, `None` distinct from
everything else, numbers for ids; that places in the adapters' tables and in the
manifest, and files in the trees, are paths; that the names a caller makes up are
none of the schema's):

- `ProposalServiceProofs`: `TypeCorrect`, `ApprovedLandingsOnly`,
  `AppliedStaysInHistory`, `ApprovalsBound`, `EarlyEditsKept`; `Refinement`:
  ProposalService implements TargetBranch; `StandingsRefinement`: it implements
  ProposalStandings. From the hypothesis `OneCaller`, that there is one caller:
  `LiveWorktreesKept`, `TerminalRecordsFinal`, `RejectedNeverLands`.
- `IntakeServiceProofs`: `TypeCorrect`, `OneProposal`, `CompletedIsDone`,
  `ContentIsKept`, `ReceiptsFrozen`; `LedgerRefinement`: IntakeService implements
  RequestLedger; `StandingsRefinement`: it implements ProposalStandings.
- `AtomicFileProofs`: `TypeCorrect`, `WholeReads`, and `RegisterRefinement`:
  AtomicFile implements RecordRegister.
- `RestoreTransactionProofs`: `TypeCorrect`; from the hypothesis `StartsAlone`,
  `RestoreKeepsContent` and `RestoreIsAllOrNothing`.
- `RuntimeTransferProofs`: `TypeCorrect`, `NothingOmitted`, `ShownIsOverwritten`,
  `CanonicalIsRestored`; from the hypothesis `PlainLayout`, `NothingLost` and
  `ComesBack`.
- `SnapshotProofs`: `TypeCorrect`, `DropWhole`, `QuietDropWhole`, `PulledChecked`,
  `ForeignKept`, `InstalledExactly`.
- `McpServerProofs`: `TypeCorrect`, `PagesShowEachOnce`, `OkIsVerified` of
  ToolServer; `PublicPaths` of ToolBoundary, with `SafePathFacts` about locations of
  every length.
- `OperatorConsoleProofs`: `TypeCorrect`, `ShownIsWritten`.

Each rests on an inductive invariant (`IInv`, theorem `Invariance` of each module),
which TLC has checked on the small instances too, that of RestoreTransaction on
those that `StartsAlone` admits.

*Proposals.* The invariant says, beyond the types: where a caller can
be in which method (`CallsOK`), that the lock is held from the first step of
materialize and apply to their last (`LockOK`), that every record, on disk *or in
a caller's hands*, claims only what is so (`RecordsOK`, `Sound`: this is what
makes unlocked saves harmless), and what apply knows at each step (`CallerOK`).
The hard part is the refresh after the compare-and-swap: `reset --hard` sets the
branch once more, and `CallerOK` says why this removes nothing that landed
before: between the two nobody else lands, since the lock is held, and what came
on top are commits of the operator. With one caller there is more to say
(`Serial`): the record on the disk stays what the caller has loaded, so that a save
never takes back what another has saved (`Current`), and a live proposal has its
worktree, also the one that is about to be saved as live.

*Standings.* What the two services rely on in each other is that a proposal changes
for others only as `Reviewed` of ProposalStandings has it. Both need one thing more
for that, `Tells`. In ProposalService it is that all the records that tell of a
proposal, on disk and in callers' hands, agree on what materialize came to
(`Agreed`); that nobody but materialize saves a draft or a failure (`HolderOK`); and
that all the others can do to a proposal it is working on is to reject it
(`MaterializerOK`). In IntakeService it is that a draft has come to nothing yet
(`Untold`), also while a submitter is inside materialize (`MaterializeOK`). Every
action is then a step of ProposalStandings, or changes nothing one can see of it.

*Intake.* The holder of the lock has in its hands what is stored (`CopyOK`), and
knows what it needs to of the record (`RecordOK`).

*Record files.* What is at the path, in the directory on the disk or in a
reader's hands is whole and was synced before it got there.

*Restores.* What is owed may be at risk as long as it is in no backup and in no
leftover rollback directory. `Whereabouts` says where it is then: in the directory
or, if the directory is away, in the rollback directory of the restorer that
`Holds` it; that a digest taken before is of it or refuses the swap; and that a
stage has it, unless its digest differs and the recheck is still to come
(`RestorerKnows`). This is where a put-back has to be exempt: it would make the
digest right again, and not the stage.
`Provenance` says of each tree what it can be made of, and that it has all planned
artifacts replaced or none (`Uniform`). `StartsAlone` is the price: if the runtime
may make its directory anew while a restore has it away, the theorems are about
one restorer. This is no artefact of the proof: with two restorers and such
a runtime `ContentKept` is false (`MCRestoreTransactionOverlap`). Without such a
runtime the theorems are about any number of restorers, that overlap, fail and die.

*Adapters.* `NothingOmitted` is a case analysis over the tables: every class has a
row, or is listed as staying behind, in each of them; `Covered` is its lemma.
`ShownIsOverwritten` and `CanonicalIsRestored` hold because a kept plan says what
`seen` was (`PlanIsAsShown`) and `apply_restore` compares both sides once more.
`Counted` bounds the versions by the proposals and edits there have been.

`ComesBack` and `NothingLost` are about what is where. The lemmas on paths say what
remains of a path below a place (`RestFacts`, `BelowFacts`), and that of two places
on the way to one file one is on the way to the other (`OnOneWay`); those on trees,
which file a digest, a copy, an import and the stage have, and from where
(`DigestFacts` to `StagedFacts`). What a runtime has where a restore writes, an
import reads there (`SamePlace`), although the two choose differently: for daily
notes because `memory/daily` with content goes first, for instructions because
`CLAUDE.md`, or `AGENTS.md`, is a *file*, for which alone the adapters ask. So a file
there must not be a directory: `StayPlain` says that no restore, import or landing
makes one. For this, a restore may put below `AGENTS.md` and `CLAUDE.md` nothing but
instructions (`PlaceFor`, from the tables), and an import below the manifest's
instructions nothing but instructions (`OneClass`).

`PlainLayout` is what this starts from: the places of the manifest do not lie in
one another (`Apart`), and at first, and after every edit, the four files of
instructions are files. The code demands neither: the schema of the manifest takes
one path for two classes, and TLC then finds that the second class is lost; with a
directory `CLAUDE.md`, or a directory of instructions in the repository, both
properties fail. Every layout that `self-nomad init` writes is plain, and so are
those of the run `transfer`, in which TLC has checked the whole invariant.

*Packs.* While packs do not overlap, the packer at work has the temporary file for
itself, and it is not the file at the drop (`Alone`); a packer that died leaves
one that the next empties. When packs overlap and none fails, there are never more
files to be moved than packers that will move one (`Sharing`): a file that two
have opened is at the temporary path only while two are at work, and a torn one at
the drop only while one is. What a puller copied is what it opened, or was written
later by somebody else (`PullerOK`); nobody copies where somebody else was
before (`EarlyOK`); and what lies at the destination comes from an archive that
was opened (`OriginOK`), which with one archive leaves nothing else.

*Pages.* What a walk has shown ascends and is not beyond its cursor, and every
steady proposal up to the cursor has been shown (`WalkOK`); a listing under way
has found a steady proposal or has it still to read, and what it found ascends
and precedes what is left (`ReadOK`). A page goes on after the cursor, also if
the proposal there is gone, so both survive it (`PageFacts`). For validations:
whoever is past verifying was sound (`SoundOK`).

*Public paths.* An answer names an argument only as `ArgumentError` has made it of the
arguments (`BoundaryOK`), and a path into the request is what the loop of
`safe_path_from_loc` has kept. The loop is a recursive function here; that it is
one up to every length, and that after `i` names the path is "request" and a
beginning of the location, below `source` in the context of `source` (`PlaceOK`),
follows from a least counterexample each (`SafePathLoops`, `SafePathLoopFacts`). So
`SafePathFacts` holds of locations of any length, of which the run has some.

*Consoles.* The TUI shows the plan it keeps (`ScreenOK`). Of pages only those
that were alone can be relied on. A request that is alone is the only one on its
way to the slot until its plan is there, and from then on nothing is on the
way (`RequestOK`, `Quiet`); so the plan that its page shows is the one in the
slot until somebody asks for another, which ends its being alone (`PageOK`). That
a second request of the same tab, or of another, does end it is no restriction
of the proof: `MCOperatorConsoleSuperseded` and `MCOperatorConsoleTabs` show what
happens then.

Only model-checked, and why:

- `EveryCallReturns`, `PendingSettles`, `WalkEnds`, `SuggestionsWork`: they need
  fairness, which is out of the prover's reach.
- `ImportThenRestoreLosesNothing` and `RestoreComesBack` are theorems in plain
  layouts only, and fail in others (see above).

## What is not modelled

Parsing, schemas, rendering, sanitising and risk classification are pure
functions with unit tests. An I/O error inside `store.save` is a crash in the
models of the services; `AtomicFile` shows that either leaves a whole file. Ties
of timestamps and garbage collection of Git objects are not modelled. Of the
adapters, several Hermes profiles, Hermes' limits on characters and the search
for further sensitive files are left out, of packs the caps and names of archive
members, of installs the first Git commit. Of the consoles the review prompts,
the lists and the other commands are left out: each calls one method of a service
and keeps nothing. `repository init` writes a tree once and refuses one that is
there; the request loader reads one file; the scripts for releases run by hand.
`PROJECT.json` names every component left out and why.

## Plan

In this order, the most important first:

1. done: `ProposalService` with `TargetBranch`, runs and theorems.
2. done: `IntakeService`, runs and theorems.
3. done: `RestoreTransaction`, with restores that overlap and a runtime that puts
   back what it has changed, runs and theorems.
4. done: `RuntimeTransfer`, runs and theorems. To do: character limits of Hermes.
5. done: `Snapshot` with two pullers, runs and theorems.
6. done: `ToolServer`, `ToolBoundary`, `OperatorConsole`, runs and theorems.
7. done: `AtomicFile`, run and theorems.
8. done: intake composed with the proposal service through `ProposalStandings`;
   both refinements are theorems.
