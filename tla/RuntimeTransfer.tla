---------------------------- MODULE RuntimeTransfer ----------------------------
(****************************************************************************)
(* The adapters of src/self_nomad/adapters/ and the sessions that use them: *)
(* a plan says what would move between the self-repository and a runtime    *)
(* directory, is shown, is kept (by the GUI or the TUI between two          *)
(* requests), and is confirmed later, when either side may have changed.    *)
(*                                                                          *)
(*   preview_import  -> confirm_import -> a proposal, that may land         *)
(*   preview_restore -> apply_restore                                       *)
(*                                                                          *)
(* A file is named by the sequence of names that lead to it, a directory    *)
(* tree is a function from the files in it to their contents. Restoring is  *)
(* one step here: RestoreTransaction shows that it is all or nothing.       *)
(****************************************************************************)
EXTENDS Naturals, Sequences, FiniteSets, SequencesExt, Functions

CONSTANTS
    None,        \* no plan, no place, no path in the manifest
    Adapters,    \* the registered adapters in use
    Canonical,   \* the manifest: the place of each class in the repository
    FirstHomes,  \* the runtime directories to start from
    FirstRepos,  \* the self-repositories to start from
    Edits,       \* what the runtime and the operator may write, side by side
    MaxEdits,    \* how often they do
    MaxPreviews, \* how many plans are made
    MaxProposals \* how many imports are confirmed

Classes == {"instructions", "persona", "identity", "user_profile", "long_term_memory",
            "daily_memory", "knowledge", "skills", "tool_notes", "workflows", "evaluations"}

\* Thin wrappers and claude-code extend agents-md.
Workspace == {"agents-md", "claude-code", "codex", "cursor", "copilot"}

ASSUME AdaptersAssumption == Adapters \subseteq Workspace \cup {"hermes", "openclaw"}
\* Files and directories, from the root of a tree.
Path == Seq(STRING) \ {<<>>}

ASSUME CanonicalAssumption == DOMAIN Canonical = Classes /\ \A c \in Classes : Canonical[c] \in {None} \cup Path

ASSUME TreesAssumption ==
    /\ \A tree \in FirstHomes \cup FirstRepos : DOMAIN tree \subseteq Path
    /\ \A e \in Edits.home \cup Edits.repo : e.file \in Path
ASSUME BoundsAssumption == {MaxEdits, MaxPreviews, MaxProposals} \subseteq Nat

VARIABLES
    home,      \* the runtime directory
    repo,      \* the working tree of the self-repository, at its branch's tip
    version,   \* the tip of that branch
    imports,   \* GuiApp._import_plan
    restores,  \* GuiApp._restore_plan
    proposals, \* imports proposed and not landed
    edits,     \* how many edits there have been
    previews,  \* how many plans have been made
    proposed,  \* how many imports have been confirmed
    seen       \* history: the runtime directory when the restore was previewed

vars == <<home, repo, version, imports, restores, proposals, edits, previews, proposed, seen>>

-----------------------------------------------------------------------------
(* Trees *)

Under(tree, place) == {f \in DOMAIN tree : IsPrefix(place, f)}

\* Path.exists: a directory is there when a file is in it.
Exists(tree, place) == Under(tree, place) # {}

IsFile(tree, place) == place \in DOMAIN tree

\* tree_digest tells apart what differs in relative paths or contents.
TreeDigest(tree, place) ==
    [r \in {SubSeq(f, Len(place) + 1, Len(f)) : f \in Under(tree, place)} |-> tree[place \o r]]

\* No digest: what there is none of, and what the digest of no file would be.
NoDigest == <<>>

\* The same files, at another place.
Moved(content, place) ==
    [f \in {place \o r : r \in DOMAIN content} |-> content[SubSeq(f, Len(place) + 1, Len(f))]]

\* One of the trees has each file, if none of them reaches into another.
Merged(trees) ==
    [f \in UNION {DOMAIN tree : tree \in trees} |-> (CHOOSE tree \in trees : f \in DOMAIN tree)[f]]

\* What is written replaces what was there.
Written(files, tree) ==
    [f \in DOMAIN files \cup DOMAIN tree |-> IF f \in DOMAIN files THEN files[f] ELSE tree[f]]

\* Without the files that are, or lie, in one of the places.
Without(tree, places) ==
    Restrict(tree, DOMAIN tree \ UNION {Under(tree, place) : place \in places})

\* A .gitkeep keeps a directory in Git and is not content.
HasPortableContent(tree, place) ==
    \E f \in Under(tree, place) : f = place \/ Last(f) # ".gitkeep"

-----------------------------------------------------------------------------
(* Where an adapter finds and puts a class *)

WorkspaceRows ==
    [instructions |-> <<"AGENTS.md">>, persona |-> <<"SOUL.md">>, identity |-> <<"IDENTITY.md">>,
     user_profile |-> <<"USER.md">>, long_term_memory |-> <<"MEMORY.md">>,
     tool_notes |-> <<"TOOLS.md">>, skills |-> <<"skills">>]

HermesPairs ==
    [persona |-> <<"SOUL.md">>, long_term_memory |-> <<"memories", "MEMORY.md">>,
     user_profile |-> <<"memories", "USER.md">>, skills |-> <<"skills">>]

OpenClawPairs ==
    [instructions |-> <<"AGENTS.md">>, persona |-> <<"SOUL.md">>, identity |-> <<"IDENTITY.md">>,
     user_profile |-> <<"USER.md">>, tool_notes |-> <<"TOOLS.md">>,
     long_term_memory |-> <<"MEMORY.md">>, daily_memory |-> <<"memory">>, skills |-> <<"skills">>]

Rows(a) ==
    CASE a \in Workspace -> WorkspaceRows
      [] a = "hermes" -> HermesPairs
      [] a = "openclaw" -> OpenClawPairs

Row(a, c) == IF c \in DOMAIN Rows(a) THEN Rows(a)[c] ELSE None

CopilotFile == <<".github", "copilot-instructions.md">>

\* The places in the tables are places.
Places ==
    Range(WorkspaceRows) \cup Range(HermesPairs) \cup Range(OpenClawPairs)
    \cup {<<"memory", "daily">>, <<"memory">>, <<"CLAUDE.md">>, <<"AGENTS.md">>, CopilotFile}

ASSUME PlacesAssumption == Places \subseteq Path /\ None \notin Places

\* The names that look like the date of a note.
DateNotes == {"2026-09-18.md", "2026-09-19.md"}

\* daily_runtime_relative: memory/daily, or memory when only dated notes and
\* hidden files lie directly in it.
DailyPlace(tree) ==
    LET notes == {f \in Under(tree, <<"memory">>) : Len(f) = 2 /\ f[2] # ".gitkeep"}
    IN  IF HasPortableContent(tree, <<"memory", "daily">>) THEN <<"memory", "daily">>
        ELSE IF notes # {} /\ \A f \in notes : f[2] \in DateNotes THEN <<"memory">>
        ELSE None

\* Mutant: AGENTS.md wins.
AgentsFileFirst(tree) ==
    IF IsFile(tree, <<"AGENTS.md">>) THEN <<"AGENTS.md">>
    ELSE IF IsFile(tree, <<"CLAUDE.md">>) THEN <<"CLAUDE.md">>
    ELSE None

\* instruction_file: CLAUDE.md wins over AGENTS.md.
InstructionFile(tree) ==
    IF IsFile(tree, <<"CLAUDE.md">>) THEN <<"CLAUDE.md">>
    ELSE IF IsFile(tree, <<"AGENTS.md">>) THEN <<"AGENTS.md">>
    ELSE None

\* Where an import reads class c of the runtime directory.
ImportPlace(a, c) ==
    CASE a \in Workspace /\ c = "daily_memory" -> DailyPlace(home)
      [] a = "claude-code" /\ c = "instructions" -> InstructionFile(home)
      [] a = "copilot" /\ c = "instructions" /\ ~IsFile(home, <<"AGENTS.md">>)
             /\ IsFile(home, CopilotFile) -> CopilotFile
      [] OTHER -> Row(a, c)

\* Where a restore writes class c in the runtime directory.
RestorePlace(a, c) ==
    CASE a \in Workspace /\ c = "daily_memory" -> <<"memory", "daily">>
      [] a = "claude-code" /\ c = "instructions" -> <<"CLAUDE.md">>
      [] OTHER -> Row(a, c)

\* No place that a restore writes to lies in another.
ASSUME RestorePlacesAssumption ==
    \A a \in Adapters : \A c, d \in {x \in Classes : RestorePlace(a, x) # None} :
        c # d => ~IsPrefix(RestorePlace(a, c), RestorePlace(a, d))

\* Mutant: has_portable_content forgets directories.
IsThere(a, tree, place) == IsFile(tree, place)

\* Workspace adapters move what has content, the others whatever is there.
Worth(a, tree, place) ==
    IF a \in Workspace THEN HasPortableContent(tree, place) ELSE Exists(tree, place)

-----------------------------------------------------------------------------
(* Plans *)

\* RuntimeAdapter.mapping_action, and the mapping made of its result.
MappingOf(c, from, source, to, destination) ==
    LET before == IF Exists(to, destination) THEN TreeDigest(to, destination) ELSE NoDigest
    IN  [artifact |-> c, source |-> source, destination |-> destination, before_sha256 |-> before,
         action |-> IF before = NoDigest THEN "add"
                    ELSE IF TreeDigest(from, source) = before THEN "identical" ELSE "replace"]

\* What the adapters list as staying behind whatever is there: runtime state
\* and credentials, then the classes they have no mapping for.
WorkspaceExcluded ==
    {"credentials", "claude_state", "codex_state", "cursor_state", "dependencies", "git_metadata"}
    \cup {"knowledge", "workflows", "evaluations"}

HermesExcluded ==
    {"credentials", "sessions", "configuration", "cron_jobs", "plugins", "checkpoints", "backups",
     "state_snapshots", "logs", "gateway_state"}
    \cup {"instructions", "identity", "daily_memory", "knowledge", "tool_notes", "workflows",
          "evaluations"}

OpenClawExcluded ==
    {"heartbeat", "startup", "bootstrap", "canvas", "configuration", "credentials", "sessions",
     "agent_databases"}
    \cup {"knowledge", "workflows", "evaluations"}

\* What they list because of what they find on either side.
DailyExcluded ==
    {x \in {"daily_memory"} :
        /\ DailyPlace(home) = None
        /\ Canonical[x] # None => ~HasPortableContent(repo, Canonical[x])}

ClaudeCodeExcluded ==
    {x \in {"agents_md"} : IsFile(home, <<"CLAUDE.md">>) /\ IsFile(home, <<"AGENTS.md">>)}
    \cup {x \in {"instructions"} : InstructionFile(home) = None}

CursorExcluded ==
    {x \in {"cursor_rule"} : \E f \in Under(home, <<".cursor", "rules">>) : Len(f) = 3}
    \cup {"cursor_secret"}

CopilotExcluded ==
    {x \in {"copilot_instructions"} : IsFile(home, <<"AGENTS.md">>) /\ IsFile(home, CopilotFile)}

Exclusions(a) ==
    CASE a = "hermes" -> HermesExcluded
      [] a = "openclaw" -> OpenClawExcluded
      [] a \in Workspace ->
           WorkspaceExcluded \cup DailyExcluded
           \cup CASE a = "claude-code" -> ClaudeCodeExcluded
                  [] a = "codex" -> {"codex_auth"}
                  [] a = "cursor" -> CursorExcluded
                  [] a = "copilot" -> CopilotExcluded
                  [] OTHER -> {}

PlanImport(a) ==
    LET moved == {c \in Classes : /\ Canonical[c] # None
                                  /\ ImportPlace(a, c) # None
                                  /\ Worth(a, home, ImportPlace(a, c))}
    IN  [adapter |-> a, exclusions |-> Exclusions(a),
         mappings |-> {MappingOf(c, home, ImportPlace(a, c), repo, Canonical[c]) : c \in moved}]

PlanRestore(a) ==
    LET moved == {c \in Classes : /\ Canonical[c] # None
                                  /\ RestorePlace(a, c) # None
                                  /\ Worth(a, repo, Canonical[c])}
    IN  [adapter |-> a, exclusions |-> Exclusions(a),
         mappings |-> {MappingOf(c, repo, Canonical[c], home, RestorePlace(a, c)) : c \in moved}]

Artifacts(plan) == {m.artifact : m \in plan.mappings}

Applicable(plan) == {m \in plan.mappings : m.action # "identical"}

-----------------------------------------------------------------------------
(* Importing *)

IsAgentsWorkspace == IsFile(home, <<"AGENTS.md">>) \/ HasPortableContent(home, <<"skills">>)

IsClaudeWorkspace == InstructionFile(home) # None \/ Exists(home, <<".claude">>)

HermesCompatible ==
    \E marker \in {<<"SOUL.md">>, <<"config.yaml">>, <<"memories">>, <<"skills">>} : Exists(home, marker)

OpenClawMarked ==
    \E marker \in {<<"AGENTS.md">>, <<"SOUL.md">>, <<"IDENTITY.md">>, <<"USER.md">>, <<"MEMORY.md">>,
                   <<"skills">>} : Exists(home, marker)

\* RuntimeAdapter.detect of the directory the operator names.
Detected(a) ==
    CASE a = "agents-md" -> IsAgentsWorkspace
      [] a = "claude-code" -> IsClaudeWorkspace
      [] a = "codex" -> IsFile(home, <<"AGENTS.md">>) \/ Exists(home, <<".codex">>)
      [] a = "cursor" -> IsFile(home, <<"AGENTS.md">>) \/ Exists(home, <<".cursor", "rules">>)
      [] a = "copilot" -> IsFile(home, <<"AGENTS.md">>) \/ IsFile(home, CopilotFile)
      [] a = "hermes" -> HermesCompatible
      [] a = "openclaw" -> OpenClawMarked

PreviewImport(a) ==
    /\ previews < MaxPreviews
    /\ Detected(a)
    /\ imports' = PlanImport(a)
    /\ previews' = previews + 1
    /\ UNCHANGED <<home, repo, version, restores, proposals, edits, proposed, seen>>

\* materialize_import: the files a plan that is not "identical" brings, as
\* they are now. Files that are gone from the runtime are not in it.
Materialized(plan, tree) ==
    Merged({Moved(TreeDigest(tree, m.source), m.destination) : m \in Applicable(plan)})

\* create_import_proposal: every staged file becomes an operation that adds or
\* replaces it; the proposal is based on the tip of the branch.
ConfirmImport ==
    /\ imports # None
    /\ proposed < MaxProposals
    /\ \A m \in Applicable(imports) : Exists(home, m.source)
    /\ DOMAIN Materialized(imports, home) # {}
    /\ proposals' = proposals \cup {[base |-> version, files |-> Materialized(imports, home)]}
    /\ proposed' = proposed + 1
    /\ UNCHANGED <<home, repo, version, imports, restores, edits, previews, seen>>

\* What TargetBranch promises of an approved proposal: it lands on its base.
Land(p) ==
    /\ p.base = version
    /\ repo' = Written(p.files, repo)
    /\ version' = version + 1
    /\ proposals' = proposals \ {p}
    /\ UNCHANGED <<home, imports, restores, edits, previews, proposed, seen>>

-----------------------------------------------------------------------------
(* Restoring *)

PreviewRestore(a) ==
    /\ previews < MaxPreviews
    /\ restores' = PlanRestore(a)
    /\ seen' = home
    /\ previews' = previews + 1
    /\ UNCHANGED <<home, repo, version, imports, proposals, edits, proposed>>

\* adapter.validate: strictly, no artifact of the manifest is missing, and
\* every directory in skills has a SKILL.md.
Valid ==
    /\ \A c \in Classes : Canonical[c] # None => Exists(repo, Canonical[c])
    /\ Canonical["skills"] # None =>
         \A f \in Under(repo, Canonical["skills"]) :
             Len(f) > Len(Canonical["skills"]) + 1 =>
                 IsFile(repo, SubSeq(f, 1, Len(Canonical["skills"]) + 1) \o <<"SKILL.md">>)

\* Mutant: only what the plan found there is compared.
UnchangedIfFound(m) ==
    m.before_sha256 # NoDigest => TreeDigest(home, m.destination) = m.before_sha256

\* "runtime changed after plan"
UnchangedSince(m) ==
    IF m.before_sha256 = NoDigest
    THEN ~Exists(home, m.destination)
    ELSE Exists(home, m.destination) /\ TreeDigest(home, m.destination) = m.before_sha256

\* The stage: a copy of the runtime directory with the artifacts replaced, in
\* any order (RestorePlacesAssumption).
Staged(plan) ==
    Written(Materialized(plan, repo), Without(home, {m.destination : m \in Applicable(plan)}))

\* Mutant: only what was copied is verified.
CopiesVerified(plan, stage) ==
    \A m \in Applicable(plan) : TreeDigest(stage, m.destination) = TreeDigest(repo, m.source)

\* "staged restore verification failed": everything the plan maps, also what
\* it found identical, must be as the repository is now.
Verified(plan, stage) ==
    \A m \in plan.mappings :
        /\ Exists(stage, m.destination)
        /\ TreeDigest(stage, m.destination) = TreeDigest(repo, m.source)

ApplyRestore ==
    /\ restores # None
    /\ Valid
    /\ \A m \in restores.mappings : UnchangedSince(m)
    /\ Applicable(restores) # {}
    /\ \A m \in Applicable(restores) : Exists(repo, m.source)
    /\ Verified(restores, Staged(restores))
    /\ home' = Staged(restores)
    /\ UNCHANGED <<repo, version, imports, restores, proposals, edits, previews, proposed, seen>>

-----------------------------------------------------------------------------
(* The environment *)

\* A file is written, or removed if there is no value.
Edited(tree, file, value) ==
    IF value = None THEN Restrict(tree, DOMAIN tree \ {file}) ELSE Written([f \in {file} |-> value], tree)

RuntimeEdits(file, value) ==
    /\ edits < MaxEdits
    /\ home' = Edited(home, file, value)
    /\ edits' = edits + 1
    /\ UNCHANGED <<repo, version, imports, restores, proposals, previews, proposed, seen>>

OperatorEdits(file, value) ==
    /\ edits < MaxEdits
    /\ repo' = Edited(repo, file, value)
    /\ version' = version + 1
    /\ edits' = edits + 1
    /\ UNCHANGED <<home, imports, restores, proposals, previews, proposed, seen>>

Init ==
    /\ home \in FirstHomes
    /\ repo \in FirstRepos
    /\ version = 0
    /\ imports = None
    /\ restores = None
    /\ proposals = {}
    /\ edits = 0
    /\ previews = 0
    /\ proposed = 0
    /\ seen = home

Next ==
    \/ \E a \in Adapters : PreviewImport(a) \/ PreviewRestore(a)
    \/ ConfirmImport
    \/ \E p \in proposals : Land(p)
    \/ ApplyRestore
    \/ \E e \in Edits.home : RuntimeEdits(e.file, e.value)
    \/ \E e \in Edits.repo : OperatorEdits(e.file, e.value)

Spec == Init /\ [][Next]_vars

-----------------------------------------------------------------------------
(* Properties *)

TypeOK ==
    /\ version \in 0..(MaxEdits + MaxProposals)
    /\ edits \in 0..MaxEdits
    /\ previews \in 0..MaxPreviews
    /\ proposed \in 0..MaxProposals
    /\ \A plan \in {imports, restores} \ {None} :
          /\ plan.adapter \in Adapters
          /\ \A m \in plan.mappings : /\ m.artifact \in Classes
                                      /\ m.action \in {"add", "replace", "identical"}
                                      /\ m.action = "add" <=> m.before_sha256 = NoDigest
    /\ \A p \in proposals : p.base \in 0..version

\* A restore has written: the runtime directory changes, and not by its runtime.
Restored == home' # home /\ edits' = edits

\* A restore never overwrites, nor removes with a directory it replaces,
\* anything the operator was not shown: in every place the plan maps, the
\* runtime directory is as it was when the plan was made, however long the GUI
\* kept the plan and however often it was confirmed.
RestoreOverwritesWhatWasShown ==
    [][Restored => \A m \in restores.mappings :
          TreeDigest(home, m.destination) = TreeDigest(seen, m.destination)]_vars

\* A restore that succeeds leaves, in every place the plan maps, what the
\* repository holds now, also where the plan found nothing to do and the
\* repository has moved on since.
RestoredIsCanonical ==
    [][Restored => \A m \in restores.mappings :
          TreeDigest(home', m.destination) = TreeDigest(repo, Canonical[m.artifact])]_vars

\* What a restore has written comes back unchanged: an import planned right
\* after it, by the same adapter, finds every restored artifact (that has any
\* content) and finds it identical.
RestoreComesBack ==
    [][Restored => \A m \in restores.mappings :
          HasPortableContent(repo, m.source) => \E n \in PlanImport(restores.adapter)'.mappings :
              n.artifact = m.artifact /\ n.action = "identical"]_vars

\* No class of the repository that has content is left out of a restore plan
\* without a word: it is mapped, or it is listed as excluded.
RestoreOmitsNothing ==
    \A a \in Adapters :
        LET plan == PlanRestore(a)
        IN  \A c \in Classes \ (Artifacts(plan) \cup plan.exclusions) :
                Canonical[c] = None \/ ~HasPortableContent(repo, Canonical[c])

\* Where a runtime may keep class c.
KnownPlaces(a, c) ==
    CASE a \in Workspace /\ c = "daily_memory" -> {<<"memory", "daily">>, <<"memory">>}
      [] a = "claude-code" /\ c = "instructions" -> {<<"CLAUDE.md">>, <<"AGENTS.md">>}
      [] a = "copilot" /\ c = "instructions" -> {<<"AGENTS.md">>, CopilotFile}
      [] OTHER -> {Row(a, c)} \ {None}

\* The same of imports (docs/adapter-authoring.md:49 "no silent drops"): a
\* class of which the runtime has content is mapped or listed.
ImportOmitsNothing ==
    \A a \in Adapters : Detected(a) =>
        LET plan == PlanImport(a)
        IN  \A c \in Classes \ (Artifacts(plan) \cup plan.exclusions) :
                \A place \in KnownPlaces(a, c) : ~HasPortableContent(home, place)

\* Once everything an import proposes is in the repository, a restore by the
\* same adapter takes nothing from the runtime: every file it replaces was
\* imported, although import and restore do not use the same places.
ImportThenRestoreLosesNothing ==
    \A a \in Adapters : Detected(a) =>
        LET landed == Written(Materialized(PlanImport(a), home), repo)
        IN  \A m \in PlanRestore(a).mappings : \A f \in Under(home, m.destination) :
                LET r == SubSeq(f, Len(m.destination) + 1, Len(f))
                IN  \/ f # m.destination /\ Last(f) = ".gitkeep"
                    \/ IsFile(landed, m.source \o r) /\ landed[m.source \o r] = home[f]

=============================================================================
