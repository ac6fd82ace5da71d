------------------------ MODULE RuntimeTransferProofs ------------------------
EXTENDS RuntimeTransfer, FiniteSetTheorems, SequenceTheorems, TLAPS

-----------------------------------------------------------------------------
(* Paths *)

Names == Seq(STRING)

\* What remains of a path below a place.
Rest(f, place) == SubSeq(f, Len(place) + 1, Len(f))

\* A path below a place is the place, and what remains.
LEMMA RestFacts ==
    ASSUME NEW p \in Names, NEW f \in Names, IsPrefix(p, f)
    PROVE  /\ Rest(f, p) \in Names
           /\ f = p \o Rest(f, p)
           /\ Rest(f, p) = <<>> <=> f = p
           /\ f # p => Len(Rest(f, p)) > 0 /\ Last(f) = Last(Rest(f, p))
  <1>1. /\ Len(p) \in Nat /\ Len(f) \in Nat /\ Len(p) <= Len(f)
        /\ SubSeq(p, 1, Len(p)) = SubSeq(f, 1, Len(p))
    BY LenProperties DEF Names, IsPrefix
  <1>2. \A i \in 1..Len(p) : p[i] = f[i]
    BY <1>1
  <1> DEFINE r == Rest(f, p)
  <1>3. /\ r \in Names /\ Len(r) = Len(f) - Len(p)
        /\ \A i \in 1..Len(f) - Len(p) : r[i] = f[Len(p) + i]
    BY <1>1, SubSeqProperties DEF Names, Rest
  <1> HIDE DEF r
  <1>4. f = p \o r
    <2>1. p \o r \in Names /\ Len(p \o r) = Len(f)
      BY <1>1, <1>3, ConcatProperties DEF Names
    <2>2. \A i \in 1..Len(f) : (p \o r)[i] = f[i]
      BY <1>1, <1>2, <1>3, ConcatProperties DEF Names
    <2> QED
      BY <2>1, <2>2, SeqEqual DEF Names
  <1>5. r = <<>> <=> f = p
    <2>1. r = <<>> => f = p
      BY <1>4, ConcatEmptySeq DEF Names
    <2>2. f = p => Len(r) = 0
      BY <1>1, <1>3
    <2> QED
      BY <1>3, <2>1, <2>2, EmptySeq DEF Names
  <1>6. f # p => Len(r) > 0 /\ Last(f) = Last(r)
    <2> SUFFICES ASSUME f # p
                 PROVE  Len(r) > 0 /\ Last(f) = Last(r)
      OBVIOUS
    <2>1. Len(r) \in Nat /\ Len(r) # 0
      BY <1>3, <1>5, EmptySeq, LenProperties DEF Names
    <2> QED
      BY <1>1, <1>3, <2>1 DEF Last
  <1> QED
    BY <1>3, <1>4, <1>5, <1>6 DEF r

LEMMA BelowFacts ==
    ASSUME NEW p \in Names, NEW r \in Names
    PROVE  /\ p \o r \in Names
           /\ IsPrefix(p, p \o r)
           /\ Rest(p \o r, p) = r
  <1>1. /\ Len(p) \in Nat /\ Len(r) \in Nat
        /\ p \o r \in Names /\ Len(p \o r) = Len(p) + Len(r)
        /\ \A i \in 1..Len(p) : (p \o r)[i] = p[i]
        /\ \A i \in 1..Len(r) : (p \o r)[Len(p) + i] = r[i]
    BY LenProperties, ConcatProperties DEF Names
  <1> DEFINE f == p \o r
  <1> HIDE DEF f
  <1>2. IsPrefix(p, f)
    <2>1. SubSeq(p, 1, Len(p)) = SubSeq(f, 1, Len(p))
      BY <1>1 DEF f
    <2> QED
      BY <1>1, <2>1 DEF IsPrefix, f
  <1>3. Rest(f, p) = r
    <2>1. /\ Rest(f, p) \in Names /\ Len(Rest(f, p)) = Len(r)
          /\ \A i \in 1..Len(r) : Rest(f, p)[i] = f[Len(p) + i]
      BY <1>1, SubSeqProperties DEF Names, Rest, f
    <2> QED
      BY <1>1, <2>1, SeqEqual DEF Names, f
  <1> QED
    BY <1>1, <1>2, <1>3 DEF f

\* Of two places on the way to one file, one is on the way to the other.
LEMMA OnOneWay ==
    ASSUME NEW p \in Names, NEW q \in Names, NEW f \in Names, IsPrefix(p, f), IsPrefix(q, f)
    PROVE  IsPrefix(p, q) \/ IsPrefix(q, p)
  <1>1. /\ Len(p) \in Nat /\ Len(q) \in Nat /\ Len(f) \in Nat /\ Len(p) <= Len(f) /\ Len(q) <= Len(f)
        /\ SubSeq(p, 1, Len(p)) = SubSeq(f, 1, Len(p))
        /\ SubSeq(q, 1, Len(q)) = SubSeq(f, 1, Len(q))
    BY LenProperties DEF Names, IsPrefix
  <1>2. (\A i \in 1..Len(p) : p[i] = f[i]) /\ (\A i \in 1..Len(q) : q[i] = f[i])
    BY <1>1
  <1>3. CASE Len(p) <= Len(q)
    <2>1. \A i \in 1..Len(p) : p[i] = q[i]
      BY <1>1, <1>2, <1>3
    <2>2. SubSeq(p, 1, Len(p)) = SubSeq(q, 1, Len(p))
      BY <1>1, <2>1
    <2> QED
      BY <1>3, <2>2 DEF IsPrefix
  <1>4. CASE Len(q) <= Len(p)
    <2>1. \A i \in 1..Len(q) : q[i] = p[i]
      BY <1>1, <1>2, <1>4
    <2>2. SubSeq(q, 1, Len(q)) = SubSeq(p, 1, Len(q))
      BY <1>1, <2>1
    <2> QED
      BY <1>4, <2>2 DEF IsPrefix
  <1> QED
    BY <1>1, <1>3, <1>4

LEMMA EmptyRest ==
    ASSUME NEW p \in Names
    PROVE  <<>> \in Names /\ p \o <<>> = p /\ IsPrefix(p, p) /\ Rest(p, p) = <<>>
  <1>1. <<>> \in Names /\ p \o <<>> = p
    BY ConcatEmptySeq, EmptySeq DEF Names
  <1> QED
    BY <1>1, BelowFacts

-----------------------------------------------------------------------------
(* Trees *)

Tree(tree) == DOMAIN tree \subseteq Names

\* A digest has the rests of the paths below the place.
LEMMA DigestFacts ==
    ASSUME NEW tree, Tree(tree), NEW p \in Names
    PROVE  /\ DOMAIN TreeDigest(tree, p) \subseteq Names
           /\ \A r \in Names : r \in DOMAIN TreeDigest(tree, p) <=> p \o r \in DOMAIN tree
           /\ \A r \in DOMAIN TreeDigest(tree, p) : TreeDigest(tree, p)[r] = tree[p \o r]
  <1> DEFINE rests == {SubSeq(f, Len(p) + 1, Len(f)) : f \in Under(tree, p)}
  <1>1. TreeDigest(tree, p) = [r \in rests |-> tree[p \o r]]
    BY DEF TreeDigest
  <1>2. /\ \A r \in rests : \E f \in Under(tree, p) : r = Rest(f, p)
        /\ \A f \in Under(tree, p) : Rest(f, p) \in rests
    BY DEF Rest
  <1> HIDE DEF rests
  <1>3. \A f \in Under(tree, p) : f \in DOMAIN tree /\ f \in Names /\ IsPrefix(p, f)
    BY DEF Under, Tree
  <1>4. ASSUME NEW r \in rests
        PROVE  r \in Names /\ p \o r \in DOMAIN tree
    <2>1. PICK f \in Under(tree, p) : r = Rest(f, p)
      BY <1>2
    <2>2. r \in Names /\ f = p \o r
      BY <1>3, <2>1, RestFacts
    <2> QED
      BY <1>3, <2>2
  <1>5. ASSUME NEW r \in Names, p \o r \in DOMAIN tree
        PROVE  r \in rests
    <2>1. p \o r \in Under(tree, p) /\ Rest(p \o r, p) = r
      BY <1>5, BelowFacts DEF Under
    <2> QED
      BY <1>2, <2>1
  <1> QED
    BY <1>1, <1>4, <1>5

LEMMA MovedFacts ==
    ASSUME NEW content, DOMAIN content \subseteq Names, NEW p \in Names
    PROVE  /\ DOMAIN Moved(content, p) \subseteq Names
           /\ \A f \in DOMAIN Moved(content, p) : \E r \in DOMAIN content : f = p \o r
           /\ \A r \in DOMAIN content : /\ p \o r \in DOMAIN Moved(content, p)
                                        /\ Moved(content, p)[p \o r] = content[r]
  <1>1. Moved(content, p) = [f \in {p \o r : r \in DOMAIN content} |-> content[Rest(f, p)]]
    BY DEF Moved, Rest
  <1> QED
    BY <1>1, BelowFacts

LEMMA MergedFacts ==
    ASSUME NEW trees
    PROVE  /\ \A f : f \in DOMAIN Merged(trees) <=> \E tree \in trees : f \in DOMAIN tree
           /\ \A f \in DOMAIN Merged(trees) : \E tree \in trees : f \in DOMAIN tree /\ Merged(trees)[f] = tree[f]
  <1> DEFINE files == UNION {DOMAIN tree : tree \in trees}
             One(f) == CHOOSE tree \in trees : f \in DOMAIN tree
  <1>1. Merged(trees) = [f \in files |-> One(f)[f]]
    BY DEF Merged
  <1>2. \A f : f \in files <=> \E tree \in trees : f \in DOMAIN tree
    OBVIOUS
  <1>3. \A f \in files : One(f) \in trees /\ f \in DOMAIN One(f)
    BY <1>2
  <1> HIDE DEF files, One
  <1> QED
    BY <1>1, <1>2, <1>3

LEMMA WrittenFacts ==
    ASSUME NEW files, NEW tree
    PROVE  /\ DOMAIN Written(files, tree) = DOMAIN files \cup DOMAIN tree
           /\ \A f \in DOMAIN files : Written(files, tree)[f] = files[f]
           /\ \A f \in DOMAIN tree \ DOMAIN files : Written(files, tree)[f] = tree[f]
  BY DEF Written

\* What a mapping copies: the files under its source, to its destination.
Copied(m, tree) == Moved(TreeDigest(tree, m.source), m.destination)

LEMMA CopiedFacts ==
    ASSUME NEW tree, Tree(tree), NEW m, m.source \in Names, m.destination \in Names
    PROVE  /\ DOMAIN Copied(m, tree) \subseteq Names
           /\ \A f \in DOMAIN Copied(m, tree) :
                 \E r \in Names : f = m.destination \o r /\ m.source \o r \in DOMAIN tree
           /\ \A r \in Names : m.source \o r \in DOMAIN tree =>
                 /\ m.destination \o r \in DOMAIN Copied(m, tree)
                 /\ Copied(m, tree)[m.destination \o r] = tree[m.source \o r]
  <1> DEFINE content == TreeDigest(tree, m.source)
  <1>1. /\ DOMAIN content \subseteq Names
        /\ \A r \in Names : r \in DOMAIN content <=> m.source \o r \in DOMAIN tree
        /\ \A r \in DOMAIN content : content[r] = tree[m.source \o r]
    BY DigestFacts
  <1> DEFINE place == m.destination
  <1>2. Copied(m, tree) = Moved(content, place) /\ place \in Names /\ place = m.destination
    BY DEF Copied
  <1> HIDE DEF content, place
  <1> DEFINE files == Moved(content, place)
  <1>3. /\ DOMAIN files \subseteq Names
        /\ \A f \in DOMAIN files : \E r \in DOMAIN content : f = place \o r
        /\ \A r \in DOMAIN content : place \o r \in DOMAIN files /\ files[place \o r] = content[r]
    BY <1>1, <1>2, MovedFacts
  <1> HIDE DEF files
  <1>4. Copied(m, tree) = files
    BY <1>2 DEF files
  <1> QED
    BY <1>1, <1>2, <1>3, <1>4

\* The mappings of a plan are between places.
Placed(plan) == \A m \in plan.mappings : m.source \in Path /\ m.destination \in Path

\* Every file an import or a restore brings is below the source of a mapping.
LEMMA MaterializedFacts ==
    ASSUME NEW tree, Tree(tree), NEW plan, Placed(plan)
    PROVE  /\ DOMAIN Materialized(plan, tree) \subseteq Names
           /\ \A f \in DOMAIN Materialized(plan, tree) :
                 \E m \in Applicable(plan), r \in Names :
                    /\ f = m.destination \o r
                    /\ m.source \o r \in DOMAIN tree
                    /\ Materialized(plan, tree)[f] = tree[m.source \o r]
           /\ \A m \in Applicable(plan), r \in Names :
                 m.source \o r \in DOMAIN tree => m.destination \o r \in DOMAIN Materialized(plan, tree)
  <1> DEFINE trees == {Moved(TreeDigest(tree, m.source), m.destination) : m \in Applicable(plan)}
             M == Materialized(plan, tree)
  <1>1. M = Merged(trees)
    BY DEF Materialized
  <1>2. /\ \A t \in trees : \E m \in Applicable(plan) : t = Copied(m, tree)
        /\ \A m \in Applicable(plan) : Copied(m, tree) \in trees
    BY DEF Copied
  <1> HIDE DEF trees, M
  <1>3. \A m \in Applicable(plan) : m.source \in Names /\ m.destination \in Names
    BY DEF Applicable, Placed, Path, Names
  <1>4. ASSUME NEW f \in DOMAIN M
        PROVE  f \in Names /\ \E m \in Applicable(plan), r \in Names :
                    /\ f = m.destination \o r
                    /\ m.source \o r \in DOMAIN tree
                    /\ M[f] = tree[m.source \o r]
    <2>1. PICK t \in trees : f \in DOMAIN t /\ M[f] = t[f]
      BY <1>1, MergedFacts
    <2>2. PICK m \in Applicable(plan) : t = Copied(m, tree)
      BY <1>2
    <2>3. m.source \in Names /\ m.destination \in Names
      BY <1>3
    <2>4. f \in Names
      BY <2>1, <2>2, <2>3, CopiedFacts
    <2>5. PICK r \in Names : f = m.destination \o r /\ m.source \o r \in DOMAIN tree
      BY <2>1, <2>2, <2>3, CopiedFacts
    <2>6. t[f] = tree[m.source \o r]
      BY <2>2, <2>3, <2>5, CopiedFacts
    <2> QED
      BY <2>1, <2>4, <2>5, <2>6
  <1>5. ASSUME NEW m \in Applicable(plan), NEW r \in Names, m.source \o r \in DOMAIN tree
        PROVE  m.destination \o r \in DOMAIN M
    <2>1. m.destination \o r \in DOMAIN Copied(m, tree)
      BY <1>3, <1>5, CopiedFacts
    <2> QED
      BY <1>1, <1>2, <2>1, MergedFacts
  <1> QED
    BY <1>4, <1>5 DEF M

LEMMA BroughtFacts ==
    ASSUME NEW tree, Tree(tree), NEW plan, Placed(plan), NEW f \in DOMAIN Materialized(plan, tree)
    PROVE  /\ f \in Names
           /\ \E m \in Applicable(plan), r \in Names : f = m.destination \o r /\ m.source \o r \in DOMAIN tree
  <1>1. /\ DOMAIN Materialized(plan, tree) \subseteq Names
        /\ \A g \in DOMAIN Materialized(plan, tree) :
              \E m \in Applicable(plan), r \in Names :
                 /\ g = m.destination \o r
                 /\ m.source \o r \in DOMAIN tree
                 /\ Materialized(plan, tree)[g] = tree[m.source \o r]
        /\ \A m \in Applicable(plan), r \in Names :
              m.source \o r \in DOMAIN tree => m.destination \o r \in DOMAIN Materialized(plan, tree)
    BY MaterializedFacts
  <1>2. \E m \in Applicable(plan), r \in Names :
           /\ f = m.destination \o r
           /\ m.source \o r \in DOMAIN tree
           /\ Materialized(plan, tree)[f] = tree[m.source \o r]
    BY <1>1, Zenon
  <1> QED
    BY <1>1, <1>2, Zenon

\* A file of the stage was there, or a mapping has brought it.
LEMMA StagedFacts ==
    ASSUME Tree(home), Tree(repo), NEW plan, Placed(plan)
    PROVE  \A f \in DOMAIN Staged(plan) :
              \/ f \in DOMAIN home
              \/ \E m \in Applicable(plan), r \in Names :
                    f = m.destination \o r /\ m.source \o r \in DOMAIN repo /\ f \in Names
  <1> DEFINE rest == Without(home, {m.destination : m \in Applicable(plan)})
  <1>1. Staged(plan) = Written(Materialized(plan, repo), rest)
    BY DEF Staged
  <1>2. DOMAIN rest \subseteq DOMAIN home
    BY DEF Without, Restrict
  <1> HIDE DEF rest
  <1> DEFINE files == Materialized(plan, repo)
  <1>3. /\ DOMAIN files \subseteq Names
        /\ \A f \in DOMAIN files : \E m \in Applicable(plan), r \in Names :
              f = m.destination \o r /\ m.source \o r \in DOMAIN repo
    BY BroughtFacts
  <1> HIDE DEF files
  <1>4. DOMAIN Written(files, rest) = DOMAIN files \cup DOMAIN rest
    BY WrittenFacts
  <1> QED
    BY <1>1, <1>2, <1>3, <1>4 DEF files

-----------------------------------------------------------------------------
(* Where classes go *)

LEMMA AdapterCases ==
    ASSUME NEW a \in Adapters
    PROVE  a \in Workspace \/ (a = "hermes" /\ a \notin Workspace) \/ (a = "openclaw" /\ a \notin Workspace)
  BY AdaptersAssumption DEF Workspace

LEMMA RowsFacts ==
    ASSUME NEW a \in Adapters
    PROVE  /\ a \in Workspace => Rows(a) = WorkspaceRows
           /\ a = "hermes" => Rows(a) = HermesPairs
           /\ a = "openclaw" => Rows(a) = OpenClawPairs
  BY DEF Rows, Workspace
\* What has a row has a place, whatever the manifest and the runtime are like.
LEMMA RowFacts ==
    ASSUME NEW a \in Adapters, NEW c \in DOMAIN Rows(a)
    PROVE  Row(a, c) # None
  <1>1. Row(a, c) = Rows(a)[c]
    BY DEF Row
  <1>2. Rows(a) \in {WorkspaceRows, HermesPairs, OpenClawPairs}
    BY AdapterCases, RowsFacts
  <1>3. Rows(a)[c] \in Range(Rows(a))
    BY DEF Range
  <1> QED
    BY <1>1, <1>2, <1>3, PlacesAssumption DEF Places

LEMMA RestorePlaceFacts ==
    ASSUME NEW a \in Adapters, NEW c \in Classes
    PROVE  /\ c \in DOMAIN Rows(a) => RestorePlace(a, c) # None
           /\ a \in Workspace /\ c = "daily_memory" => RestorePlace(a, c) # None
  <1>1. CASE a \in Workspace /\ c = "daily_memory"
    <2>1. RestorePlace(a, c) = <<"memory", "daily">>
      BY <1>1 DEF RestorePlace
    <2> QED
      BY <2>1, PlacesAssumption DEF Places
  <1>2. CASE ~(a \in Workspace /\ c = "daily_memory") /\ a = "claude-code" /\ c = "instructions"
    <2>1. RestorePlace(a, c) = <<"CLAUDE.md">>
      BY <1>2 DEF RestorePlace
    <2> QED
      BY <1>2, <2>1, PlacesAssumption DEF Places
  <1>3. CASE ~(a \in Workspace /\ c = "daily_memory") /\ ~(a = "claude-code" /\ c = "instructions")
    <2>1. RestorePlace(a, c) = Row(a, c)
      BY <1>3 DEF RestorePlace
    <2> QED
      BY <1>3, <2>1, RowFacts
  <1> QED
    BY <1>1, <1>2, <1>3

\* The places of instructions: files, if the layout is plain.
Single == {<<"AGENTS.md">>, <<"CLAUDE.md">>, CopilotFile}

\* What is below AGENTS.md or CLAUDE.md is instructions.
PlaceFor(place, c) ==
    /\ place \in Path
    /\ place[1] \in {"AGENTS.md", "CLAUDE.md"} => c = "instructions" /\ place = <<place[1]>>
    /\ place[1] # ".github"

LEMMA TablesFacts ==
    /\ \A c \in DOMAIN WorkspaceRows : PlaceFor(WorkspaceRows[c], c)
    /\ \A c \in DOMAIN HermesPairs : PlaceFor(HermesPairs[c], c)
    /\ \A c \in DOMAIN OpenClawPairs : PlaceFor(OpenClawPairs[c], c)
    /\ PlaceFor(<<"CLAUDE.md">>, "instructions")
    /\ PlaceFor(<<"memory", "daily">>, "daily_memory")
  <1> DEFINE Fits(place, c) == /\ place[1] \in {"AGENTS.md", "CLAUDE.md"} => c = "instructions" /\ place = <<place[1]>>
                               /\ place[1] # ".github"
  <1>1. \A place, c : PlaceFor(place, c) <=> place \in Path /\ Fits(place, c)
    BY DEF PlaceFor
  <1>2. \A c \in DOMAIN WorkspaceRows : WorkspaceRows[c] \in Path /\ Fits(WorkspaceRows[c], c)
    <2>1. \A c \in DOMAIN WorkspaceRows : Fits(WorkspaceRows[c], c)
      BY DEF WorkspaceRows
    <2>2. Range(WorkspaceRows) \subseteq Path
      BY PlacesAssumption DEF Places
    <2> QED
      BY <2>1, <2>2 DEF Range
  <1>3. \A c \in DOMAIN HermesPairs : HermesPairs[c] \in Path /\ Fits(HermesPairs[c], c)
    <2>1. \A c \in DOMAIN HermesPairs : Fits(HermesPairs[c], c)
      BY DEF HermesPairs
    <2>2. Range(HermesPairs) \subseteq Path
      BY PlacesAssumption DEF Places
    <2> QED
      BY <2>1, <2>2 DEF Range
  <1>4. \A c \in DOMAIN OpenClawPairs : OpenClawPairs[c] \in Path /\ Fits(OpenClawPairs[c], c)
    <2>1. \A c \in DOMAIN OpenClawPairs : Fits(OpenClawPairs[c], c)
      BY DEF OpenClawPairs
    <2>2. Range(OpenClawPairs) \subseteq Path
      BY PlacesAssumption DEF Places
    <2> QED
      BY <2>1, <2>2 DEF Range
  <1>5. /\ <<"CLAUDE.md">> \in Path /\ Fits(<<"CLAUDE.md">>, "instructions")
        /\ <<"memory", "daily">> \in Path /\ Fits(<<"memory", "daily">>, "daily_memory")
    BY PlacesAssumption DEF Places
  <1> HIDE DEF Fits
  <1> QED
    BY <1>1, <1>2, <1>3, <1>4, <1>5

LEMMA RowPlaceFacts ==
    ASSUME NEW a \in Adapters, NEW c \in Classes, Row(a, c) # None
    PROVE  /\ PlaceFor(Row(a, c), c)
           /\ c = "instructions" => Row(a, c) = <<"AGENTS.md">>
  <1>1. c \in DOMAIN Rows(a) /\ Row(a, c) = Rows(a)[c]
    BY DEF Row
  <1>2. Rows(a) \in {WorkspaceRows, HermesPairs, OpenClawPairs}
    BY AdapterCases, RowsFacts
  <1>3. \A t \in {WorkspaceRows, HermesPairs, OpenClawPairs} :
           "instructions" \in DOMAIN t => t["instructions"] = <<"AGENTS.md">>
    BY DEF WorkspaceRows, HermesPairs, OpenClawPairs
  <1> QED
    BY <1>1, <1>2, <1>3, TablesFacts

LEMMA RestoresTo ==
    ASSUME NEW a \in Adapters, NEW c \in Classes, RestorePlace(a, c) # None
    PROVE  PlaceFor(RestorePlace(a, c), c)
  BY RowPlaceFacts, TablesFacts DEF RestorePlace

LEMMA ImportsFrom ==
    ASSUME NEW a \in Adapters, NEW c \in Classes, ImportPlace(a, c) # None
    PROVE  /\ ImportPlace(a, c) \in Path
           /\ c = "instructions" => ImportPlace(a, c) \in Single
  <1>1. CASE a \in Workspace /\ c = "daily_memory"
    <2>1. ImportPlace(a, c) = DailyPlace(home)
      BY <1>1 DEF ImportPlace
    <2>2. DailyPlace(home) \in {<<"memory", "daily">>, <<"memory">>, None}
      BY DEF DailyPlace
    <2>3. <<"memory", "daily">> \in Path /\ <<"memory">> \in Path
      BY PlacesAssumption DEF Places
    <2> QED
      BY <1>1, <2>1, <2>2, <2>3
  <1>2. CASE ~(a \in Workspace /\ c = "daily_memory") /\ a = "claude-code" /\ c = "instructions"
    <2>1. ImportPlace(a, c) = InstructionFile(home)
      BY <1>2 DEF ImportPlace
    <2>2. InstructionFile(home) \in {<<"CLAUDE.md">>, <<"AGENTS.md">>, None}
      BY DEF InstructionFile
    <2>3. <<"CLAUDE.md">> \in Path /\ <<"AGENTS.md">> \in Path
      BY PlacesAssumption DEF Places
    <2> QED
      BY <2>1, <2>2, <2>3 DEF Single
  <1>3. CASE /\ ~(a \in Workspace /\ c = "daily_memory") /\ ~(a = "claude-code" /\ c = "instructions")
             /\ a = "copilot" /\ c = "instructions"
             /\ ~IsFile(home, <<"AGENTS.md">>) /\ IsFile(home, CopilotFile)
    <2>1. ImportPlace(a, c) = CopilotFile
      BY <1>3 DEF ImportPlace
    <2>2. CopilotFile \in Path
      BY PlacesAssumption DEF Places
    <2> QED
      BY <2>1, <2>2 DEF Single
  <1>4. CASE /\ ~(a \in Workspace /\ c = "daily_memory") /\ ~(a = "claude-code" /\ c = "instructions")
             /\ ~(/\ a = "copilot" /\ c = "instructions"
                  /\ ~IsFile(home, <<"AGENTS.md">>) /\ IsFile(home, CopilotFile))
    <2>1. ImportPlace(a, c) = Row(a, c)
      BY <1>4 DEF ImportPlace
    <2> QED
      BY <2>1, RowPlaceFacts DEF Single, PlaceFor
  <1> QED
    BY <1>1, <1>2, <1>3, <1>4

\* Every class has a place or is listed as staying behind.
LEMMA Covered ==
    ASSUME NEW a \in Adapters, NEW c \in Classes, RestorePlace(a, c) = None
    PROVE  c \in Exclusions(a)
  <1>1. c \notin DOMAIN Rows(a) /\ ~(a \in Workspace /\ c = "daily_memory")
    BY RestorePlaceFacts
  <1>2. CASE a \in Workspace
    <2>1. c \notin DOMAIN WorkspaceRows /\ c # "daily_memory"
      BY <1>1, <1>2, RowsFacts
    <2>2. c \in {"knowledge", "workflows", "evaluations"}
      BY <2>1 DEF WorkspaceRows, Classes
    <2>3. c \in WorkspaceExcluded
      BY <2>2 DEF WorkspaceExcluded
    <2>4. a # "hermes" /\ a # "openclaw"
      BY <1>2 DEF Workspace
    <2>5. WorkspaceExcluded \subseteq Exclusions(a)
      BY <1>2, <2>4 DEF Exclusions
    <2> QED
      BY <2>3, <2>5
  <1>3. CASE a = "hermes"
    <2>1. c \notin DOMAIN HermesPairs
      BY <1>1, <1>3, RowsFacts
    <2>2. c \in HermesExcluded
      BY <2>1 DEF HermesPairs, Classes, HermesExcluded
    <2> QED
      BY <1>3, <2>2 DEF Exclusions, Workspace
  <1>4. CASE a = "openclaw"
    <2>1. c \notin DOMAIN OpenClawPairs
      BY <1>1, <1>4, RowsFacts
    <2>2. c \in OpenClawExcluded
      BY <2>1 DEF OpenClawPairs, Classes, OpenClawExcluded
    <2> QED
      BY <1>4, <2>2 DEF Exclusions, Workspace
  <1> QED
    BY <1>2, <1>3, <1>4, AdapterCases

\* What has content is worth moving.
LEMMA ContentIsWorth ==
    ASSUME NEW a \in Adapters, NEW tree, NEW place, HasPortableContent(tree, place)
    PROVE  Worth(a, tree, place)
  BY DEF Worth, HasPortableContent, Exists

-----------------------------------------------------------------------------
(* Plans *)

LEMMA MappingFacts ==
    ASSUME NEW c, NEW from, NEW source, NEW to, NEW destination
    PROVE  LET m == MappingOf(c, from, source, to, destination)
           IN  /\ m.artifact = c /\ m.source = source /\ m.destination = destination
               /\ m.before_sha256 = IF Exists(to, destination) THEN TreeDigest(to, destination) ELSE NoDigest
               /\ m.action \in {"add", "replace", "identical"}
               /\ m.action = "add" <=> m.before_sha256 = NoDigest
  <1> DEFINE before == IF Exists(to, destination) THEN TreeDigest(to, destination) ELSE NoDigest
             action == IF before = NoDigest THEN "add"
                       ELSE IF TreeDigest(from, source) = before THEN "identical" ELSE "replace"
  <1>1. MappingOf(c, from, source, to, destination) =
            [artifact |-> c, source |-> source, destination |-> destination, before_sha256 |-> before,
             action |-> action]
    BY DEF MappingOf
  <1>2. action \in {"add", "replace", "identical"} /\ (action = "add" <=> before = NoDigest)
    OBVIOUS
  <1> HIDE DEF before, action
  <1>3. LET m == MappingOf(c, from, source, to, destination)
        IN  /\ m.artifact = c /\ m.source = source /\ m.destination = destination
            /\ m.before_sha256 = before /\ m.action = action
    BY <1>1
  <1> QED
    BY <1>2, <1>3 DEF before

\* A mapping of a restore plan, as the repository and the runtime were then.
Mapping(m, runtime) ==
    /\ m.artifact \in Classes
    /\ m.source = Canonical[m.artifact]
    /\ m.before_sha256 = IF Exists(runtime, m.destination) THEN TreeDigest(runtime, m.destination) ELSE NoDigest

PlanTyped(plan) ==
    /\ plan.adapter \in Adapters
    /\ \A m \in plan.mappings : /\ m.artifact \in Classes
                                /\ m.action \in {"add", "replace", "identical"}
                                /\ m.action = "add" <=> m.before_sha256 = NoDigest

LEMMA PlanRestoreFacts ==
    ASSUME NEW a \in Adapters
    PROVE  /\ PlanTyped(PlanRestore(a))
           /\ \A m \in PlanRestore(a).mappings : Mapping(m, home)
           /\ \A c \in Classes : /\ Canonical[c] # None /\ RestorePlace(a, c) # None
                                 /\ Worth(a, repo, Canonical[c])
                                 => c \in Artifacts(PlanRestore(a))
           /\ PlanRestore(a).exclusions = Exclusions(a)
  <1> DEFINE moved == {c \in Classes : /\ Canonical[c] # None
                                       /\ RestorePlace(a, c) # None
                                       /\ Worth(a, repo, Canonical[c])}
             Made(c) == MappingOf(c, repo, Canonical[c], home, RestorePlace(a, c))
  <1>1. /\ PlanRestore(a).adapter = a /\ PlanRestore(a).exclusions = Exclusions(a)
        /\ PlanRestore(a).mappings = {Made(c) : c \in moved}
    BY DEF PlanRestore
  <1>2. \A c \in moved : /\ Made(c).artifact = c /\ Made(c).source = Canonical[c]
                         /\ Made(c).before_sha256 = IF Exists(home, Made(c).destination)
                                                    THEN TreeDigest(home, Made(c).destination) ELSE NoDigest
                         /\ Made(c).action \in {"add", "replace", "identical"}
                         /\ Made(c).action = "add" <=> Made(c).before_sha256 = NoDigest
    BY MappingFacts
  <1>3. moved \subseteq Classes
    OBVIOUS
  <1>4. \A c \in Classes : /\ Canonical[c] # None /\ RestorePlace(a, c) # None
                           /\ Worth(a, repo, Canonical[c])
                           => c \in moved
    OBVIOUS
  <1> HIDE DEF moved, Made
  <1>5. \A c \in moved : c \in Artifacts(PlanRestore(a))
    BY <1>1, <1>2 DEF Artifacts
  <1>6. \A m \in PlanRestore(a).mappings : Mapping(m, home)
    BY <1>1, <1>2, <1>3 DEF Mapping
  <1>7. PlanTyped(PlanRestore(a))
    BY <1>1, <1>2, <1>3 DEF PlanTyped
  <1> QED
    BY <1>1, <1>4, <1>5, <1>6, <1>7

LEMMA PlanImportFacts ==
    ASSUME NEW a \in Adapters
    PROVE  PlanTyped(PlanImport(a))
  <1> DEFINE moved == {c \in Classes : /\ Canonical[c] # None
                                       /\ ImportPlace(a, c) # None
                                       /\ Worth(a, home, ImportPlace(a, c))}
             Made(c) == MappingOf(c, home, ImportPlace(a, c), repo, Canonical[c])
  <1>1. PlanImport(a).adapter = a /\ PlanImport(a).mappings = {Made(c) : c \in moved}
    BY DEF PlanImport
  <1>2. \A c \in moved : /\ Made(c).artifact = c
                         /\ Made(c).action \in {"add", "replace", "identical"}
                         /\ Made(c).action = "add" <=> Made(c).before_sha256 = NoDigest
    BY MappingFacts
  <1>3. moved \subseteq Classes
    OBVIOUS
  <1> HIDE DEF moved, Made
  <1> QED
    BY <1>1, <1>2, <1>3 DEF PlanTyped

-----------------------------------------------------------------------------
(* No silent omission *)

\* Whatever the repository, the runtime and the manifest are like, a restore plan
\* maps or lists every class that has content: in every state, so of every
\* behaviour.
LEMMA OmitsNothing == RestoreOmitsNothing
  <1> SUFFICES ASSUME NEW a \in Adapters,
                      NEW c \in Classes \ (Artifacts(PlanRestore(a)) \cup PlanRestore(a).exclusions),
                      Canonical[c] # None, HasPortableContent(repo, Canonical[c])
               PROVE  FALSE
    BY DEF RestoreOmitsNothing
  <1>1. RestorePlace(a, c) # None
    BY Covered, PlanRestoreFacts
  <1>2. Worth(a, repo, Canonical[c])
    BY ContentIsWorth
  <1> QED
    BY <1>1, <1>2, PlanRestoreFacts

-----------------------------------------------------------------------------
(* What plans move *)

\* A file lies at the place, not below it.
Whole(files, places) == \A f \in files, p \in places : IsPrefix(p, f) => f = p

\* The manifest's place of the instructions, if it has one.
InstructionPlaces == {Canonical["instructions"]} \ {None}

\* No place of the manifest lies in another. Its schema does not say so.
Apart ==
    \A c, d \in Classes :
        c # d /\ Canonical[c] # None /\ Canonical[d] # None => ~IsPrefix(Canonical[c], Canonical[d])

\* The manifest keeps the classes apart, and nobody makes a directory where the
\* instructions are a file: AGENTS.md, CLAUDE.md, Copilot's, the repository's own.
PlainLayout ==
    /\ Apart
    /\ \A tree \in FirstHomes : Whole(DOMAIN tree, Single)
    /\ \A tree \in FirstRepos : Whole(DOMAIN tree, InstructionPlaces)
    /\ Whole({e.file : e \in Edits.home}, Single)
    /\ Whole({e.file : e \in Edits.repo}, InstructionPlaces)

\* A mapping of a restore plan, and one of an import plan.
Restores(a, m) ==
    /\ m.artifact \in Classes
    /\ m.source = Canonical[m.artifact] /\ m.source # None
    /\ m.destination = RestorePlace(a, m.artifact) /\ m.destination # None

Imports(m) ==
    /\ m.artifact \in Classes
    /\ m.source \in Path
    /\ m.artifact = "instructions" => m.source \in Single
    /\ m.destination = Canonical[m.artifact] /\ m.destination # None

\* A mapping is "identical" when it is, and something is there.
LEMMA MappingIs ==
    ASSUME NEW c, NEW from, NEW source, NEW to, NEW destination
    PROVE  LET m == MappingOf(c, from, source, to, destination)
           IN  /\ m.artifact = c /\ m.source = source /\ m.destination = destination
               /\ Exists(to, destination) /\ TreeDigest(to, destination) # NoDigest =>
                    (m.action = "identical" <=> TreeDigest(from, source) = TreeDigest(to, destination))
               /\ m.action = "identical" => TreeDigest(from, source) = TreeDigest(to, destination)
  <1> DEFINE before == IF Exists(to, destination) THEN TreeDigest(to, destination) ELSE NoDigest
             action == IF before = NoDigest THEN "add"
                       ELSE IF TreeDigest(from, source) = before THEN "identical" ELSE "replace"
  <1>1. MappingOf(c, from, source, to, destination) =
            [artifact |-> c, source |-> source, destination |-> destination, before_sha256 |-> before,
             action |-> action]
    BY DEF MappingOf
  <1>2. /\ Exists(to, destination) /\ TreeDigest(to, destination) # NoDigest =>
              (action = "identical" <=> TreeDigest(from, source) = TreeDigest(to, destination))
        /\ action = "identical" => TreeDigest(from, source) = TreeDigest(to, destination)
    OBVIOUS
  <1> HIDE DEF before, action
  <1>3. LET m == MappingOf(c, from, source, to, destination)
        IN  /\ m.artifact = c /\ m.source = source /\ m.destination = destination
            /\ m.action = action
    BY <1>1
  <1> QED
    BY <1>2, <1>3

LEMMA PlanRestoreMoves ==
    ASSUME NEW a \in Adapters
    PROVE  \A m \in PlanRestore(a).mappings : Restores(a, m)
  <1> DEFINE moved == {c \in Classes : /\ Canonical[c] # None
                                       /\ RestorePlace(a, c) # None
                                       /\ Worth(a, repo, Canonical[c])}
             Made(c) == MappingOf(c, repo, Canonical[c], home, RestorePlace(a, c))
  <1>1. PlanRestore(a).mappings = {Made(c) : c \in moved}
    BY DEF PlanRestore
  <1>2. \A c \in moved : /\ Made(c).artifact = c /\ Made(c).source = Canonical[c]
                         /\ Made(c).destination = RestorePlace(a, c)
    BY MappingIs
  <1>3. \A c \in moved : c \in Classes /\ Canonical[c] # None /\ RestorePlace(a, c) # None
    OBVIOUS
  <1> HIDE DEF moved, Made
  <1> QED
    BY <1>1, <1>2, <1>3 DEF Restores

\* An import plan has one mapping of each class it moves.
LEMMA PlanImportMoves ==
    ASSUME NEW a \in Adapters
    PROVE  /\ \A m \in PlanImport(a).mappings :
                /\ Imports(m) /\ m.source = ImportPlace(a, m.artifact)
                /\ m = MappingOf(m.artifact, home, ImportPlace(a, m.artifact), repo, Canonical[m.artifact])
           /\ \A c \in Classes : /\ Canonical[c] # None /\ ImportPlace(a, c) # None
                                 /\ Worth(a, home, ImportPlace(a, c))
                 => MappingOf(c, home, ImportPlace(a, c), repo, Canonical[c]) \in PlanImport(a).mappings
  <1> DEFINE moved == {c \in Classes : /\ Canonical[c] # None
                                       /\ ImportPlace(a, c) # None
                                       /\ Worth(a, home, ImportPlace(a, c))}
             Made(c) == MappingOf(c, home, ImportPlace(a, c), repo, Canonical[c])
  <1>1. PlanImport(a).mappings = {Made(c) : c \in moved}
    BY DEF PlanImport
  <1>2. \A c \in moved : /\ Made(c).artifact = c /\ Made(c).source = ImportPlace(a, c)
                         /\ Made(c).destination = Canonical[c]
    BY MappingIs
  <1>3. \A c \in moved : c \in Classes /\ Canonical[c] # None /\ ImportPlace(a, c) # None
    OBVIOUS
  <1>4. \A c \in Classes : /\ Canonical[c] # None /\ ImportPlace(a, c) # None
                           /\ Worth(a, home, ImportPlace(a, c))
                           => c \in moved
    OBVIOUS
  <1>5. \A c : Made(c) = MappingOf(c, home, ImportPlace(a, c), repo, Canonical[c])
    OBVIOUS
  <1> HIDE DEF moved, Made
  <1>6. \A c \in moved : Imports(Made(c))
    BY <1>2, <1>3, ImportsFrom DEF Imports
  <1>7. \A m \in PlanImport(a).mappings : \E c \in moved : m = Made(c)
    BY <1>1
  <1>8. \A m \in PlanImport(a).mappings :
                /\ Imports(m) /\ m.source = ImportPlace(a, m.artifact)
                /\ m = Made(m.artifact)
    BY <1>7, <1>6, <1>2
  <1>9. \A c \in moved : Made(c) \in PlanImport(a).mappings
    BY <1>1
  <1> QED
    BY <1>4, <1>5, <1>8, <1>9

\* Places are paths.
LEMMA PlacedFacts ==
    /\ \A a \in Adapters : \A m : Restores(a, m) => /\ m.source \in Path /\ m.destination \in Path
                                                /\ PlaceFor(m.destination, m.artifact)
    /\ \A m : Imports(m) => m.source \in Path /\ m.destination \in Path
  <1>1. \A c \in Classes : Canonical[c] # None => Canonical[c] \in Path
    BY CanonicalAssumption
  <1> QED
    BY <1>1, RestoresTo DEF Restores, Imports, PlaceFor

-----------------------------------------------------------------------------
(* The inductive invariant *)

\* A restore plan is kept as it was made: it is of the places of the manifest,
\* and of what was in the runtime directory when it was shown.
PlanIsAsShown == restores # None => \A m \in restores.mappings : Mapping(m, seen)

PlansTyped ==
    /\ imports # None => PlanTyped(imports)
    /\ restores # None => PlanTyped(restores)

\* A proposal has been counted before it lands.
Counted ==
    /\ version \in Nat
    /\ edits \in 0..MaxEdits
    /\ previews \in 0..MaxPreviews
    /\ proposed \in 0..MaxProposals
    /\ IsFiniteSet(proposals)
    /\ version + Cardinality(proposals) <= edits + proposed
    /\ \A p \in proposals : p.base \in 0..version

\* Every tree, and what every proposal brings, is of paths.
TreesTyped ==
    /\ Tree(home)
    /\ Tree(repo)
    /\ \A p \in proposals : DOMAIN p.files \subseteq Names

\* The kept plans are between places of the manifest and of their adapter.
PlansMove ==
    /\ imports # None => \A m \in imports.mappings : Imports(m)
    /\ restores # None => \A m \in restores.mappings : Restores(restores.adapter, m)

\* No step makes a directory of a file of instructions.
StayPlain ==
    PlainLayout =>
        /\ Whole(DOMAIN home, Single)
        /\ Whole(DOMAIN repo, InstructionPlaces)
        /\ \A p \in proposals : Whole(DOMAIN p.files, InstructionPlaces)

IInv == PlanIsAsShown /\ PlansTyped /\ Counted /\ TreesTyped /\ PlansMove /\ StayPlain

LEMMA EditedFacts ==
    ASSUME NEW tree, NEW file, NEW value
    PROVE  DOMAIN Edited(tree, file, value) \subseteq DOMAIN tree \cup {file}
  <1>1. DOMAIN Restrict(tree, DOMAIN tree \ {file}) \subseteq DOMAIN tree
    BY DEF Restrict
  <1> DEFINE files == [f \in {file} |-> value]
  <1>2. DOMAIN files = {file}
    OBVIOUS
  <1>3. Edited(tree, file, value) =
            IF value = None THEN Restrict(tree, DOMAIN tree \ {file}) ELSE Written(files, tree)
    BY DEF Edited
  <1> HIDE DEF files
  <1>4. DOMAIN Written(files, tree) = {file} \cup DOMAIN tree
    BY <1>2, WrittenFacts
  <1> QED
    BY <1>1, <1>3, <1>4

LEMMA EditsFacts ==
    /\ \A e \in Edits.home \cup Edits.repo : e.file \in Names
    /\ PlainLayout => /\ \A e \in Edits.home : Whole({e.file}, Single)
                      /\ \A e \in Edits.repo : Whole({e.file}, InstructionPlaces)
  BY TreesAssumption DEF PlainLayout, Whole, Path, Names

\* Whole is of each file.
LEMMA WholeFacts ==
    ASSUME NEW places, NEW fs, NEW gs, NEW hs, Whole(fs, places), Whole(gs, places), hs \subseteq fs \cup gs
    PROVE  Whole(hs, places)
  BY DEF Whole

\* A restore brings a file of instructions for a file of instructions.
LEMMA RestoreKeeps ==
    ASSUME TreesTyped, PlansMove, restores # None, restores.adapter \in Adapters
    PROVE  /\ Tree(Staged(restores))
           /\ PlainLayout /\ StayPlain => Whole(DOMAIN Staged(restores), Single)
  <1>1. /\ Placed(restores)
        /\ \A m \in Applicable(restores) : m \in restores.mappings
    BY PlacedFacts DEF PlansMove, Placed, Applicable
  <1>2. \A f \in DOMAIN Staged(restores) :
              \/ f \in DOMAIN home
              \/ \E m \in Applicable(restores), r \in Names :
                    f = m.destination \o r /\ m.source \o r \in DOMAIN repo /\ f \in Names
    BY <1>1, StagedFacts DEF TreesTyped
  <1>3. Tree(Staged(restores))
    BY <1>2 DEF TreesTyped, Tree
  <1>4. ASSUME PlainLayout, StayPlain, NEW f \in DOMAIN Staged(restores), NEW p \in Single, IsPrefix(p, f)
        PROVE  f = p
    <2>1. CASE f \in DOMAIN home
      BY <1>4, <2>1 DEF StayPlain, Whole
    <2>2. ASSUME NEW m \in Applicable(restores), NEW r \in Names, f = m.destination \o r,
                 m.source \o r \in DOMAIN repo, f \in Names
          PROVE  f = p
      <3> DEFINE d == m.destination
                 c == m.artifact
      <3>1. Restores(restores.adapter, m) /\ c \in Classes
        BY <1>1 DEF PlansMove, Restores
      <3>2. d \in Path /\ d \in Names /\ PlaceFor(d, c) /\ m.source = Canonical[c] /\ m.source \in Path
        BY <3>1, PlacedFacts DEF Restores, Path, Names
      <3>3. f[1] = d[1]
        <4>1. Len(d) \in Nat /\ Len(d) > 0
          BY <3>2, EmptySeq, LenProperties DEF Path, Names
        <4> QED
          BY <4>1, <3>2, <2>2, ConcatProperties DEF Names
      <3>4. f[1] = p[1] /\ p \in {<<"AGENTS.md">>, <<"CLAUDE.md">>, CopilotFile}
        <4>1. p \in Path /\ p \in Names
          BY PlacesAssumption DEF Places, Single, Path, Names
        <4>2. f = p \o Rest(f, p) /\ Rest(f, p) \in Names
          BY <4>1, <1>4, <2>2, RestFacts
        <4>3. Len(p) \in Nat /\ Len(p) > 0
          BY <4>1, EmptySeq, LenProperties DEF Path, Names
        <4> DEFINE q == Rest(f, p)
        <4> HIDE DEF q
        <4>4. f = p \o q /\ q \in Names
          BY <4>2 DEF q
        <4>5. (p \o q)[1] = p[1]
          BY <4>1, <4>3, <4>4, ConcatProperties DEF Names
        <4> QED
          BY <4>4, <4>5 DEF Single
      <3> HIDE DEF d, c
      <3>5. CASE p = CopilotFile
        BY <3>2, <3>3, <3>4, <3>5 DEF PlaceFor, CopilotFile
      <3>6. CASE p \in {<<"AGENTS.md">>, <<"CLAUDE.md">>}
        <4>1. p = <<p[1]>> /\ p[1] \in {"AGENTS.md", "CLAUDE.md"}
          BY <3>6
        <4>2. c = "instructions" /\ d = p
          BY <4>1, <3>2, <3>3, <3>4 DEF PlaceFor
        <4>3. m.source \in InstructionPlaces /\ m.source \in Names
          BY <3>1, <3>2, <4>2 DEF Restores, InstructionPlaces, c, Path, Names
        <4>4. m.source \o r = m.source
          BY <4>3, <2>2, <1>4, BelowFacts DEF StayPlain, Whole
        <4>5. r = <<>>
          BY <4>3, <4>4, BelowFacts, EmptyRest
        <4>6. d \o <<>> = d
          BY <3>2, EmptyRest
        <4> QED
          BY <2>2, <4>2, <4>5, <4>6 DEF d
      <3> QED
        BY <3>4, <3>5, <3>6
    <2> QED
      BY <1>2, <2>1, <2>2
  <1>5. PlainLayout /\ StayPlain => Whole(DOMAIN Staged(restores), Single)
    BY <1>4 DEF Whole
  <1> QED
    BY <1>3, <1>5

\* A file lies in the place of one class.
LEMMA OneClass ==
    ASSUME Apart, NEW c \in Classes, NEW d \in Classes, Canonical[c] # None, Canonical[d] # None,
           NEW f \in Names, IsPrefix(Canonical[c], f), IsPrefix(Canonical[d], f)
    PROVE  c = d
  <1>1. Canonical[c] \in Names /\ Canonical[d] \in Names
    BY CanonicalAssumption DEF Path, Names
  <1>2. IsPrefix(Canonical[c], Canonical[d]) \/ IsPrefix(Canonical[d], Canonical[c])
    BY <1>1, OnOneWay
  <1> QED
    BY <1>2 DEF Apart

\* An import brings a file of instructions for a file of instructions.
LEMMA ImportKeeps ==
    ASSUME TreesTyped, PlansMove, imports # None
    PROVE  /\ DOMAIN Materialized(imports, home) \subseteq Names
           /\ PlainLayout /\ StayPlain => Whole(DOMAIN Materialized(imports, home), InstructionPlaces)
  <1>1. /\ Placed(imports)
        /\ \A m \in Applicable(imports) : m \in imports.mappings
    BY PlacedFacts DEF PlansMove, Placed, Applicable
  <1>2. /\ DOMAIN Materialized(imports, home) \subseteq Names
        /\ \A f \in DOMAIN Materialized(imports, home) :
             \E m \in Applicable(imports), r \in Names :
                f = m.destination \o r /\ m.source \o r \in DOMAIN home
    BY <1>1, BroughtFacts DEF TreesTyped
  <1>3. ASSUME PlainLayout, StayPlain, NEW f \in DOMAIN Materialized(imports, home),
               NEW p \in InstructionPlaces, IsPrefix(p, f)
        PROVE  f = p
    <2>1. PICK m \in Applicable(imports) : \E r \in Names : f = m.destination \o r /\ m.source \o r \in DOMAIN home
      BY <1>2
    <2>2. PICK r \in Names : f = m.destination \o r /\ m.source \o r \in DOMAIN home
      BY <2>1
    <2>3. Imports(m)
      BY <1>1 DEF PlansMove
    <2>4. m.destination \in Names /\ m.source \in Names
      BY <2>3, PlacedFacts DEF Path, Names
    <2>5. "instructions" \in Classes /\ p = Canonical["instructions"] /\ p # None
      BY DEF InstructionPlaces, Classes
    <2>6. f \in Names /\ IsPrefix(m.destination, f)
      BY <1>2, <2>2, <2>4, BelowFacts
    <2>7. m.artifact = "instructions"
      BY <1>3, <2>3, <2>5, <2>6, OneClass DEF PlainLayout, Imports
    <2>8. m.source \in Single /\ m.destination = p
      BY <2>3, <2>5, <2>7 DEF Imports
    <2>9. m.source \o r = m.source
      BY <2>2, <2>4, <2>8, <1>3, BelowFacts DEF StayPlain, Whole
    <2>10. r = <<>>
      BY <2>9, <2>4, BelowFacts, EmptyRest
    <2> QED
      BY <2>2, <2>4, <2>8, <2>10, EmptyRest
  <1>4. PlainLayout /\ StayPlain => Whole(DOMAIN Materialized(imports, home), InstructionPlaces)
    BY <1>3 DEF Whole
  <1> QED
    BY <1>2, <1>4

-----------------------------------------------------------------------------
(* The invariant is inductive *)

LEMMA InitInvariant == Init => IInv
  <1> SUFFICES ASSUME Init
               PROVE  IInv
    OBVIOUS
  <1>1. Counted
    <2>1. IsFiniteSet({}) /\ Cardinality({}) = 0
      BY FS_EmptySet
    <2> QED
      BY <2>1, BoundsAssumption DEF Init, Counted
  <1>2. home \in FirstHomes /\ repo \in FirstRepos /\ imports = None /\ restores = None /\ proposals = {}
    BY DEF Init
  <1>3. TreesTyped
    BY <1>2, TreesAssumption DEF TreesTyped, Tree, Path, Names
  <1>4. StayPlain
    BY <1>2 DEF StayPlain, PlainLayout
  <1> QED
    BY <1>1, <1>2, <1>3, <1>4 DEF IInv, PlanIsAsShown, PlansTyped, PlansMove

LEMMA CardinalityFacts ==
    ASSUME Counted
    PROVE  Cardinality(proposals) \in Nat
  BY FS_CardinalityType DEF Counted

LEMMA NextPlans == IInv /\ [Next]_vars => (PlanIsAsShown /\ PlansTyped /\ Counted)'
  <1> SUFFICES ASSUME IInv, [Next]_vars
               PROVE  (PlanIsAsShown /\ PlansTyped /\ Counted)'
    OBVIOUS
  <1>1. /\ MaxEdits \in Nat /\ MaxPreviews \in Nat /\ MaxProposals \in Nat
        /\ Cardinality(proposals) \in Nat
    BY BoundsAssumption, CardinalityFacts DEF IInv
  <1>2. ASSUME NEW a \in Adapters, PreviewImport(a)
        PROVE  (PlanIsAsShown /\ PlansTyped /\ Counted)'
    <2>1. PlanIsAsShown'
      BY <1>2 DEF PreviewImport, IInv, PlanIsAsShown, Mapping
    <2>2. PlansTyped'
      <3>1. PlanTyped(imports')
        BY <1>2, PlanImportFacts DEF PreviewImport
      <3>2. restores' = restores
        BY <1>2 DEF PreviewImport
      <3> QED
        BY <3>1, <3>2 DEF IInv, PlansTyped, PlanTyped
    <2>3. Counted'
      BY <1>1, <1>2 DEF PreviewImport, IInv, Counted
    <2> QED
      BY <2>1, <2>2, <2>3 DEF IInv
  <1>3. ASSUME NEW a \in Adapters, PreviewRestore(a)
        PROVE  (PlanIsAsShown /\ PlansTyped /\ Counted)'
    <2>1. restores' = PlanRestore(a) /\ seen' = home /\ imports' = imports
      BY <1>3 DEF PreviewRestore
    <2>2. PlanIsAsShown'
      <3>1. \A m \in restores'.mappings : Mapping(m, home)
        BY <2>1, PlanRestoreFacts
      <3> QED
        BY <2>1, <3>1 DEF PlanIsAsShown, Mapping
    <2>3. PlansTyped'
      <3>1. PlanTyped(restores')
        BY <2>1, PlanRestoreFacts
      <3> QED
        BY <2>1, <3>1 DEF IInv, PlansTyped, PlanTyped
    <2>4. Counted'
      BY <1>1, <1>3 DEF PreviewRestore, IInv, Counted
    <2> QED
      BY <2>2, <2>3, <2>4 DEF IInv
  <1>4. ASSUME UNCHANGED <<imports, restores, seen>>
        PROVE  PlanIsAsShown' /\ PlansTyped'
    BY <1>4 DEF IInv, PlanIsAsShown, PlansTyped, Mapping, PlanTyped
  <1>5. CASE ConfirmImport
    <2> DEFINE p == [base |-> version, files |-> Materialized(imports, home)]
    <2>1. proposals' = proposals \cup {p} /\ p.base = version
      BY <1>5 DEF ConfirmImport
    <2> HIDE DEF p
    <2>2. /\ IsFiniteSet(proposals') /\ Cardinality(proposals') \in Nat
          /\ Cardinality(proposals') <= Cardinality(proposals) + 1
      <3>1. /\ IsFiniteSet(proposals \cup {p})
            /\ Cardinality(proposals \cup {p}) = Cardinality(proposals)
               \/ Cardinality(proposals \cup {p}) = Cardinality(proposals) + 1
        BY FS_AddElement DEF IInv, Counted
      <3> QED
        BY <1>1, <2>1, <3>1
    <2>3. Counted'
      BY <1>1, <1>5, <2>1, <2>2 DEF ConfirmImport, IInv, Counted
    <2> QED
      BY <1>4, <1>5, <2>3 DEF ConfirmImport, IInv
  <1>6. ASSUME NEW p \in proposals, Land(p)
        PROVE  (PlanIsAsShown /\ PlansTyped /\ Counted)'
    <2>1. IsFiniteSet(proposals \ {p}) /\ Cardinality(proposals \ {p}) = Cardinality(proposals) - 1
      BY FS_RemoveElement DEF IInv, Counted
    <2>2. Counted'
      BY <1>1, <1>6, <2>1 DEF Land, IInv, Counted
    <2> QED
      BY <1>4, <1>6, <2>2 DEF Land, IInv
  <1>7. CASE ApplyRestore
    <2>1. Counted'
      BY <1>7 DEF ApplyRestore, IInv, Counted
    <2> QED
      BY <1>4, <1>7, <2>1 DEF ApplyRestore, IInv
  <1>8. ASSUME NEW file, NEW value, RuntimeEdits(file, value)
        PROVE  (PlanIsAsShown /\ PlansTyped /\ Counted)'
    <2>1. Counted'
      BY <1>1, <1>8 DEF RuntimeEdits, IInv, Counted
    <2> QED
      BY <1>4, <1>8, <2>1 DEF RuntimeEdits, IInv
  <1>9. ASSUME NEW file, NEW value, OperatorEdits(file, value)
        PROVE  (PlanIsAsShown /\ PlansTyped /\ Counted)'
    <2>1. Counted'
      BY <1>1, <1>9 DEF OperatorEdits, IInv, Counted
    <2> QED
      BY <1>4, <1>9, <2>1 DEF OperatorEdits, IInv
  <1>10. CASE UNCHANGED vars
    <2>1. Counted'
      BY <1>10 DEF vars, IInv, Counted
    <2> QED
      BY <1>4, <1>10, <2>1 DEF vars, IInv
  <1> QED
    BY <1>2, <1>3, <1>5, <1>6, <1>7, <1>8, <1>9, <1>10 DEF Next

\* What a plan says of places does not change with the trees.
LEMMA PlacesStay ==
    /\ PlainLayout' <=> PlainLayout
    /\ \A a, m : Restores(a, m) => Restores(a, m)'
    /\ \A m : Imports(m) => Imports(m)'
  <1>1. PlainLayout' <=> PlainLayout
    BY DEF PlainLayout, Apart, Whole, Single, InstructionPlaces, CopilotFile
  <1>2. \A a, m : Restores(a, m) => Restores(a, m)'
    BY DEF Restores, RestorePlace, Row, Rows
  <1>3. \A m : Imports(m) => Imports(m)'
    BY DEF Imports, Single, CopilotFile
  <1> QED
    BY <1>1, <1>2, <1>3

LEMMA NextMoves == IInv /\ [Next]_vars => PlansMove'
  <1> SUFFICES ASSUME IInv, [Next]_vars
               PROVE  PlansMove'
    OBVIOUS
  <1>1. ASSUME NEW a \in Adapters, PreviewImport(a)
        PROVE  PlansMove'
    <2>1. imports' = PlanImport(a) /\ restores' = restores
      BY <1>1 DEF PreviewImport
    <2>2. \A m \in imports'.mappings : Imports(m)
      BY <2>1, PlanImportMoves
    <2> QED
      BY <2>1, <2>2, PlacesStay DEF IInv, PlansMove
  <1>2. ASSUME NEW a \in Adapters, PreviewRestore(a)
        PROVE  PlansMove'
    <2>1. restores' = PlanRestore(a) /\ imports' = imports
      BY <1>2 DEF PreviewRestore
    <2>2. restores'.adapter = a
      BY <2>1 DEF PlanRestore
    <2>3. \A m \in restores'.mappings : Restores(restores'.adapter, m)
      BY <2>1, <2>2, PlanRestoreMoves
    <2> QED
      BY <2>1, <2>3, PlacesStay DEF IInv, PlansMove
  <1>3. ASSUME UNCHANGED <<imports, restores>>
        PROVE  PlansMove'
    BY <1>3, PlacesStay DEF IInv, PlansMove
  <1> QED
    BY <1>1, <1>2, <1>3 DEF Next, vars, ConfirmImport, Land, ApplyRestore, RuntimeEdits, OperatorEdits

LEMMA NextTrees == IInv /\ [Next]_vars => TreesTyped' /\ StayPlain'
  <1> SUFFICES ASSUME IInv, [Next]_vars
               PROVE  TreesTyped' /\ StayPlain'
    OBVIOUS
  <1>1. TreesTyped /\ PlansMove /\ StayPlain
    BY DEF IInv
  \* It is enough to know, of every tree there is, where its files are from.
  <1>2. ASSUME DOMAIN home' \subseteq Names, DOMAIN repo' \subseteq Names,
               \A p \in proposals' : DOMAIN p.files \subseteq Names,
               PlainLayout => /\ Whole(DOMAIN home', Single)
                              /\ Whole(DOMAIN repo', InstructionPlaces)
                              /\ \A p \in proposals' : Whole(DOMAIN p.files, InstructionPlaces)
        PROVE  TreesTyped' /\ StayPlain'
    <2>1. TreesTyped'
      BY <1>2 DEF TreesTyped, Tree
    <2>2. StayPlain'
      BY <1>2, PlacesStay DEF StayPlain, Whole, Single, InstructionPlaces, CopilotFile
    <2> QED
      BY <2>1, <2>2
  <1>3. /\ DOMAIN home \subseteq Names /\ DOMAIN repo \subseteq Names
        /\ \A p \in proposals : DOMAIN p.files \subseteq Names
        /\ PlainLayout => /\ Whole(DOMAIN home, Single)
                          /\ Whole(DOMAIN repo, InstructionPlaces)
                          /\ \A p \in proposals : Whole(DOMAIN p.files, InstructionPlaces)
    BY <1>1 DEF TreesTyped, Tree, StayPlain
  <1>4. CASE UNCHANGED <<home, repo, proposals>>
    BY <1>2, <1>3, <1>4
  <1>5. CASE ConfirmImport
    <2> DEFINE files == Materialized(imports, home)
               p == [base |-> version, files |-> files]
    <2>1. proposals' = proposals \cup {p} /\ p.files = files /\ home' = home /\ repo' = repo /\ imports # None
      BY <1>5 DEF ConfirmImport
    <2>2. DOMAIN files \subseteq Names /\ (PlainLayout => Whole(DOMAIN files, InstructionPlaces))
      BY <1>1, <2>1, ImportKeeps
    <2> HIDE DEF files, p
    <2> QED
      BY <1>2, <1>3, <2>1, <2>2
  <1>6. ASSUME NEW p \in proposals, Land(p)
        PROVE  TreesTyped' /\ StayPlain'
    <2>1. repo' = Written(p.files, repo) /\ home' = home /\ proposals' \subseteq proposals
      BY <1>6 DEF Land
    <2>2. DOMAIN repo' = DOMAIN p.files \cup DOMAIN repo
      BY <2>1, WrittenFacts
    <2>3. PlainLayout => Whole(DOMAIN repo', InstructionPlaces)
      BY <1>3, <2>2, WholeFacts
    <2> QED
      BY <1>2, <1>3, <2>1, <2>2, <2>3
  <1>7. CASE ApplyRestore
    <2>1. home' = Staged(restores) /\ restores # None /\ repo' = repo /\ proposals' = proposals
      BY <1>7 DEF ApplyRestore
    <2>2. restores.adapter \in Adapters
      BY <2>1 DEF IInv, PlansTyped, PlanTyped
    <2>3. DOMAIN home' \subseteq Names /\ (PlainLayout => Whole(DOMAIN home', Single))
      BY <1>1, <2>1, <2>2, RestoreKeeps DEF Tree
    <2> QED
      BY <1>2, <1>3, <2>1, <2>3
  <1>8. ASSUME NEW e \in Edits.home, RuntimeEdits(e.file, e.value)
        PROVE  TreesTyped' /\ StayPlain'
    <2>1. home' = Edited(home, e.file, e.value) /\ repo' = repo /\ proposals' = proposals
      BY <1>8 DEF RuntimeEdits
    <2>2. DOMAIN home' \subseteq DOMAIN home \cup {e.file}
      BY <2>1, EditedFacts
    <2>3. PlainLayout => Whole(DOMAIN home', Single)
      BY <1>3, <2>2, EditsFacts, WholeFacts
    <2> QED
      BY <1>2, <1>3, <2>1, <2>2, <2>3, EditsFacts
  <1>9. ASSUME NEW e \in Edits.repo, OperatorEdits(e.file, e.value)
        PROVE  TreesTyped' /\ StayPlain'
    <2>1. repo' = Edited(repo, e.file, e.value) /\ home' = home /\ proposals' = proposals
      BY <1>9 DEF OperatorEdits
    <2>2. DOMAIN repo' \subseteq DOMAIN repo \cup {e.file}
      BY <2>1, EditedFacts
    <2>3. PlainLayout => Whole(DOMAIN repo', InstructionPlaces)
      BY <1>3, <2>2, EditsFacts, WholeFacts
    <2> QED
      BY <1>2, <1>3, <2>1, <2>2, <2>3, EditsFacts
  <1>10. CASE UNCHANGED vars
    BY <1>4, <1>10 DEF vars
  <1>11. ASSUME NEW a \in Adapters, PreviewImport(a) \/ PreviewRestore(a)
         PROVE  TreesTyped' /\ StayPlain'
    BY <1>4, <1>11 DEF PreviewImport, PreviewRestore
  <1> QED
    BY <1>5, <1>6, <1>7, <1>8, <1>9, <1>10, <1>11 DEF Next

LEMMA NextInvariant == IInv /\ [Next]_vars => IInv'
  BY NextPlans, NextMoves, NextTrees DEF IInv

\* What a kept restore plan says, types, and that no more proposals land than were
\* made.
THEOREM Invariance == Spec => []IInv
  BY InitInvariant, NextInvariant, PTL DEF Spec

\* Plans are of registered adapters and of the classes of the manifest, proposals
\* are based on a tip the branch has had, and every counter keeps its bound.
THEOREM TypeCorrect == Spec => []TypeOK
  <1>1. IInv => TypeOK
    <2> SUFFICES ASSUME IInv
                 PROVE  TypeOK
      OBVIOUS
    <2>1. version \in 0..(MaxEdits + MaxProposals)
      BY BoundsAssumption, CardinalityFacts DEF IInv, Counted
    <2>2. \A plan \in {imports, restores} \ {None} : PlanTyped(plan)
      BY DEF IInv, PlansTyped
    <2> QED
      BY <2>1, <2>2 DEF IInv, Counted, TypeOK, PlanTyped
  <1> QED
    BY <1>1, Invariance, PTL

-----------------------------------------------------------------------------
(* What the invariant is for *)

\* No class with content is left out of a restore plan without a word.
THEOREM NothingOmitted == Spec => []RestoreOmitsNothing
  BY OmitsNothing, PTL

\* Only a restore changes the runtime directory without an edit.
LEMMA RestoredFacts ==
    ASSUME IInv, Next, Restored
    PROVE  ApplyRestore
  <1>1. edits \in Nat
    BY DEF IInv, Counted
  <1> QED
    BY <1>1 DEF Next, Restored, PreviewImport, PreviewRestore, ConfirmImport, Land, RuntimeEdits, OperatorEdits

\* The digest of nothing.
LEMMA NothingThere ==
    ASSUME NEW tree, NEW place
    PROVE  /\ Exists(tree, place) => TreeDigest(tree, place) # NoDigest
           /\ ~Exists(tree, place) => TreeDigest(tree, place) = NoDigest
  <1> DEFINE rests == {SubSeq(f, Len(place) + 1, Len(f)) : f \in Under(tree, place)}
  <1>1. TreeDigest(tree, place) = [r \in rests |-> tree[place \o r]]
    BY DEF TreeDigest
  <1>2. DOMAIN NoDigest = {}
    BY DEF NoDigest
  <1>3. CASE Exists(tree, place)
    <2>1. rests # {}
      BY <1>3 DEF Exists
    <2> HIDE DEF rests
    <2>2. DOMAIN TreeDigest(tree, place) = rests
      BY <1>1
    <2> QED
      BY <1>2, <1>3, <2>1, <2>2
  <1>4. CASE ~Exists(tree, place)
    <2>1. rests = {}
      BY <1>4 DEF Exists
    <2> HIDE DEF rests
    <2>2. TreeDigest(tree, place) = [r \in {} |-> tree[place \o r]]
      BY <1>1, <2>1
    <2> QED
      BY <1>4, <2>2 DEF NoDigest
  <1> QED
    BY <1>3, <1>4

\* In every place that a restore writes or removes, the runtime directory is as
\* it was when the plan was shown.
THEOREM ShownIsOverwritten == Spec => RestoreOverwritesWhatWasShown
  <1>1. ASSUME IInv, Next, Restored, NEW m \in restores.mappings
        PROVE  TreeDigest(home, m.destination) = TreeDigest(seen, m.destination)
    <2>1. ApplyRestore
      BY <1>1, RestoredFacts
    <2>2. UnchangedSince(m) /\ Mapping(m, seen)
      BY <1>1, <2>1 DEF ApplyRestore, IInv, PlanIsAsShown
    <2>3. CASE m.before_sha256 = NoDigest
      BY <2>2, <2>3, NothingThere DEF UnchangedSince, Mapping
    <2>4. CASE m.before_sha256 # NoDigest
      BY <2>2, <2>4 DEF UnchangedSince, Mapping
    <2> QED
      BY <2>3, <2>4
  <1>2. IInv /\ [Next]_vars =>
            [Restored => \A m \in restores.mappings :
                TreeDigest(home, m.destination) = TreeDigest(seen, m.destination)]_vars
    BY <1>1
  <1> QED
    BY <1>2, Invariance, PTL DEF Spec, RestoreOverwritesWhatWasShown

\* A restore that succeeds leaves in every place it maps what the repository
\* holds at that moment, whatever the plan had found there.
THEOREM CanonicalIsRestored == Spec => RestoredIsCanonical
  <1>1. ASSUME IInv, Next, Restored, NEW m \in restores.mappings
        PROVE  TreeDigest(home', m.destination) = TreeDigest(repo, Canonical[m.artifact])
    <2>1. ApplyRestore
      BY <1>1, RestoredFacts
    <2>2. m.source = Canonical[m.artifact]
      BY <1>1, <2>1 DEF ApplyRestore, IInv, PlanIsAsShown, Mapping
    <2>3. home' = Staged(restores) /\ TreeDigest(Staged(restores), m.destination) = TreeDigest(repo, m.source)
      BY <1>1, <2>1 DEF ApplyRestore, Verified
    <2> QED
      BY <2>2, <2>3
  <1>2. IInv /\ [Next]_vars =>
            [Restored => \A m \in restores.mappings :
                TreeDigest(home', m.destination) = TreeDigest(repo, Canonical[m.artifact])]_vars
    BY <1>1
  <1> QED
    BY <1>2, Invariance, PTL DEF Spec, RestoredIsCanonical

-----------------------------------------------------------------------------
(* There and back *)

\* A file of instructions is where a file is looked for.
LEMMA FileThere ==
    ASSUME NEW tree, NEW place \in Names, NEW places, place \in places, Whole(DOMAIN tree, places),
           Exists(tree, place)
    PROVE  IsFile(tree, place)
  BY DEF Exists, Under, Whole, IsFile

\* What a runtime has in the place where a restore writes, an import reads there.
LEMMA SamePlace ==
    ASSUME NEW a \in Adapters, NEW c \in Classes, HasPortableContent(home, RestorePlace(a, c)),
           c = "instructions" => IsFile(home, RestorePlace(a, c))
    PROVE  ImportPlace(a, c) = RestorePlace(a, c)
  <1>1. CASE a \in Workspace /\ c = "daily_memory"
    <2>1. RestorePlace(a, c) = <<"memory", "daily">> /\ ImportPlace(a, c) = DailyPlace(home)
      BY <1>1 DEF RestorePlace, ImportPlace
    <2> QED
      BY <2>1 DEF DailyPlace
  <1>2. CASE ~(a \in Workspace /\ c = "daily_memory") /\ a = "claude-code" /\ c = "instructions"
    <2>1. RestorePlace(a, c) = <<"CLAUDE.md">> /\ ImportPlace(a, c) = InstructionFile(home)
      BY <1>2 DEF RestorePlace, ImportPlace
    <2> QED
      BY <1>2, <2>1 DEF InstructionFile
  <1>3. CASE ~(a \in Workspace /\ c = "daily_memory") /\ ~(a = "claude-code" /\ c = "instructions")
    <2>1. RestorePlace(a, c) = Row(a, c)
      BY <1>3 DEF RestorePlace
    <2>2. CASE a = "copilot" /\ c = "instructions"
      <3>1. Row(a, c) = <<"AGENTS.md">>
        BY <2>2 DEF Row, Rows, Workspace, WorkspaceRows
      <3>2. IsFile(home, <<"AGENTS.md">>)
        BY <2>1, <2>2, <3>1
      <3> QED
        BY <1>3, <2>1, <3>2 DEF ImportPlace
    <2>3. CASE ~(a = "copilot" /\ c = "instructions")
      BY <1>3, <2>1, <2>3 DEF ImportPlace
    <2> QED
      BY <2>2, <2>3
  <1> QED
    BY <1>1, <1>2, <1>3

\* So the class is in an import plan, as a mapping from that place.
FoundThere ==
    \A a \in Adapters, c \in Classes :
        /\ Canonical[c] # None
        /\ RestorePlace(a, c) # None
        /\ HasPortableContent(home, RestorePlace(a, c))
        /\ c = "instructions" => IsFile(home, RestorePlace(a, c))
        => MappingOf(c, home, RestorePlace(a, c), repo, Canonical[c]) \in PlanImport(a).mappings

LEMMA Found == FoundThere
  <1> SUFFICES ASSUME NEW a \in Adapters, NEW c \in Classes,
                      Canonical[c] # None, RestorePlace(a, c) # None,
                      HasPortableContent(home, RestorePlace(a, c)),
                      c = "instructions" => IsFile(home, RestorePlace(a, c))
               PROVE  MappingOf(c, home, RestorePlace(a, c), repo, Canonical[c]) \in PlanImport(a).mappings
    BY DEF FoundThere
  <1>1. ImportPlace(a, c) = RestorePlace(a, c)
    BY SamePlace
  <1>2. Worth(a, home, ImportPlace(a, c))
    BY <1>1, ContentIsWorth
  <1> QED
    BY <1>1, <1>2, PlanImportMoves

LEMMA FoundNext == FoundThere'
  BY Found, PTL

LEMMA FoundAfter ==
    ASSUME NEW a \in Adapters, NEW c \in Classes, NEW place, place = RestorePlace(a, c), place # None,
           Canonical[c] # None, HasPortableContent(home', place), c = "instructions" => IsFile(home', place)
    PROVE  MappingOf(c, home', place, repo', Canonical[c]) \in PlanImport(a)'.mappings
  <1>1. RestorePlace(a, c)' = place
    BY DEF RestorePlace, Row, Rows
  <1>2. /\ Canonical[c] # None
        /\ RestorePlace(a, c)' # None
        /\ HasPortableContent(home, RestorePlace(a, c))'
        /\ c = "instructions" => IsFile(home, RestorePlace(a, c))'
        => (MappingOf(c, home, RestorePlace(a, c), repo, Canonical[c]) \in PlanImport(a).mappings)'
    BY FoundNext DEF FoundThere
  <1> QED
    BY <1>1, <1>2

\* Trees with one digest have the same content.
LEMMA SameContent ==
    ASSUME NEW from, Tree(from), NEW to, Tree(to), NEW source \in Names, NEW destination \in Names,
           TreeDigest(to, destination) = TreeDigest(from, source)
    PROVE  /\ \A r \in Names : source \o r \in DOMAIN from <=> destination \o r \in DOMAIN to
           /\ \A r \in Names : source \o r \in DOMAIN from => to[destination \o r] = from[source \o r]
           /\ HasPortableContent(from, source) => HasPortableContent(to, destination)
           /\ IsFile(from, source) <=> IsFile(to, destination)
  <1>1. /\ \A r \in Names : source \o r \in DOMAIN from <=> destination \o r \in DOMAIN to
        /\ \A r \in Names : source \o r \in DOMAIN from => to[destination \o r] = from[source \o r]
    BY DigestFacts
  <1>2. IsFile(from, source) <=> IsFile(to, destination)
    BY <1>1, EmptyRest DEF IsFile
  <1>3. ASSUME NEW f \in Under(from, source), f = source \/ Last(f) # ".gitkeep"
        PROVE  HasPortableContent(to, destination)
    <2>1. f \in Names /\ f \in DOMAIN from /\ IsPrefix(source, f)
      BY <1>3 DEF Under, Tree
    <2> DEFINE r == Rest(f, source)
    <2>2. /\ r \in Names /\ f = source \o r
          /\ r = <<>> <=> f = source
          /\ f # source => Last(f) = Last(r)
      BY <2>1, RestFacts
    <2> HIDE DEF r
    <2> DEFINE g == destination \o r
    <2>3. g \in Names /\ IsPrefix(destination, g) /\ Rest(g, destination) = r /\ g \in DOMAIN to
      BY <2>1, <2>2, <1>1, BelowFacts
    <2>4. (r = <<>> <=> g = destination) /\ (g # destination => Last(g) = Last(r))
      BY <2>3, RestFacts
    <2> HIDE DEF g
    <2>5. g \in Under(to, destination)
      BY <2>3 DEF Under
    <2>6. g = destination \/ Last(g) # ".gitkeep"
      BY <1>3, <2>2, <2>4
    <2> QED
      BY <2>5, <2>6 DEF HasPortableContent
  <1> QED
    BY <1>1, <1>2, <1>3 DEF HasPortableContent

\* What a restore has just written is found by an import, and found identical:
\* where the layout is plain.
THEOREM ComesBack == PlainLayout /\ Spec => RestoreComesBack
  <1>1. ASSUME IInv, PlainLayout, Next, Restored, NEW m \in restores.mappings, HasPortableContent(repo, m.source)
        PROVE  \E n \in PlanImport(restores.adapter)'.mappings : n.artifact = m.artifact /\ n.action = "identical"
    <2> DEFINE a == restores.adapter
               c == m.artifact
               place == m.destination
    <2>1. ApplyRestore
      BY <1>1, RestoredFacts
    <2>2. restores # None /\ repo' = repo /\ home' = Staged(restores) /\ restores' = restores
      BY <2>1 DEF ApplyRestore
    <2>3. a \in Adapters /\ Restores(a, m)
      BY <1>1, <2>2 DEF IInv, PlansTyped, PlanTyped, PlansMove
    <2>4. Exists(home', place) /\ TreeDigest(home', place) = TreeDigest(repo, m.source)
      BY <1>1, <2>1 DEF ApplyRestore, Verified
    <2>5. /\ c \in Classes /\ m.source = Canonical[c] /\ Canonical[c] # None
          /\ place = RestorePlace(a, c) /\ place # None /\ place \in Names /\ m.source \in Names
      BY <2>3, PlacedFacts DEF Restores, Path, Names
    <2>6. IInv'
      BY <1>1, NextInvariant
    <2>7. Tree(home') /\ Tree(repo)
      BY <1>1, <2>6 DEF IInv, TreesTyped, Tree
    <2>8. HasPortableContent(home', place) /\ (IsFile(repo, m.source) <=> IsFile(home', place))
      BY <1>1, <2>4, <2>5, <2>7, SameContent
    <2>9. c = "instructions" => IsFile(home', place)
      <3>1. c = "instructions" => m.source \in InstructionPlaces
        BY <2>5 DEF InstructionPlaces
      <3>2. Exists(repo, m.source)
        BY <1>1 DEF HasPortableContent, Exists
      <3>3. Whole(DOMAIN repo, InstructionPlaces)
        BY <1>1 DEF IInv, StayPlain
      <3> QED
        BY <2>5, <2>8, <3>1, <3>2, <3>3, FileThere
    <2> DEFINE n == MappingOf(c, home', place, repo', Canonical[c])
    <2>10. PICK b \in Adapters : b = a /\ b = restores'.adapter
      BY <2>2, <2>3
    <2>11. n \in PlanImport(b)'.mappings
      BY <2>5, <2>8, <2>9, <2>10, FoundAfter
    <2>12. PlanImport(restores.adapter)' = PlanImport(b)'
      BY <2>10
    <2>13. n.artifact = c /\ n.action = "identical"
      <3>1. Exists(repo', Canonical[c]) /\ TreeDigest(repo', Canonical[c]) # NoDigest
        <4>1. Exists(repo, m.source)
          BY <1>1 DEF HasPortableContent, Exists
        <4> QED
          BY <4>1, <2>2, <2>5, NothingThere
      <3> QED
        BY <3>1, <2>2, <2>4, <2>5, MappingIs
    <2> QED
      BY <2>11, <2>12, <2>13
  <1>2. PlainLayout /\ IInv /\ [Next]_vars =>
            [Restored => \A m \in restores.mappings :
                HasPortableContent(repo, m.source) => \E n \in PlanImport(restores.adapter)'.mappings :
                    n.artifact = m.artifact /\ n.action = "identical"]_vars
    BY <1>1
  <1>3. PlainLayout /\ Init => PlainLayout /\ IInv
    BY InitInvariant
  <1>4. PlainLayout /\ IInv /\ [Next]_vars => (PlainLayout /\ IInv)'
    BY NextInvariant, PlacesStay
  <1> QED
    BY <1>2, <1>3, <1>4, PTL DEF Spec, RestoreComesBack

\* After an import of everything that has landed, a restore takes nothing that a
\* runtime had: where the layout is plain.
THEOREM NothingLost == PlainLayout /\ Spec => []ImportThenRestoreLosesNothing
  <1>1. ASSUME IInv, PlainLayout, NEW a \in Adapters, NEW m \in PlanRestore(a).mappings,
               NEW f \in Under(home, m.destination), f = m.destination \/ Last(f) # ".gitkeep"
        PROVE  LET landed == Written(Materialized(PlanImport(a), home), repo)
                   r == SubSeq(f, Len(m.destination) + 1, Len(f))
               IN  IsFile(landed, m.source \o r) /\ landed[m.source \o r] = home[f]
    <2> DEFINE c == m.artifact
               place == m.destination
               S == m.source
               r == Rest(f, place)
               plan == PlanImport(a)
               files == Materialized(plan, home)
               n == MappingOf(c, home, place, repo, S)
    <2>1. /\ c \in Classes /\ S = Canonical[c] /\ Canonical[c] # None
          /\ place = RestorePlace(a, c) /\ place # None /\ place \in Names /\ S \in Names
          /\ PlaceFor(place, c)
      BY PlanRestoreMoves, PlacedFacts DEF Restores, Path, Names
    <2>2. Tree(home) /\ Tree(repo) /\ Whole(DOMAIN home, Single)
      BY <1>1 DEF IInv, TreesTyped, StayPlain
    <2>3. f \in DOMAIN home /\ f \in Names /\ IsPrefix(place, f)
      BY <2>2 DEF Under, Tree
    <2>4. r \in Names /\ f = place \o r
      BY <2>1, <2>3, RestFacts
    <2>5. HasPortableContent(home, place)
      BY <1>1 DEF HasPortableContent
    <2>6. c = "instructions" => IsFile(home, place)
      <3>1. c = "instructions" => place \in Single
        BY <2>1, RowPlaceFacts DEF RestorePlace, Single
      <3>2. Exists(home, place)
        BY <2>5 DEF HasPortableContent, Exists
      <3> QED
        BY <2>1, <2>2, <3>1, <3>2, FileThere
    <2>7. n \in plan.mappings
      BY <2>1, <2>5, <2>6, Found DEF FoundThere
    <2>8. n.artifact = c /\ n.source = place /\ n.destination = S
          /\ (n.action = "identical" => TreeDigest(home, place) = TreeDigest(repo, S))
      BY MappingIs
    \* Only this mapping brings files to the place of the class.
    <2>9. ASSUME NEW o \in plan.mappings, NEW q \in Names, S \o r = o.destination \o q
          PROVE  o = n /\ q = r
      <3>1. Imports(o) /\ o = MappingOf(o.artifact, home, ImportPlace(a, o.artifact), repo, Canonical[o.artifact])
        BY PlanImportMoves
      <3>2. n = MappingOf(n.artifact, home, ImportPlace(a, n.artifact), repo, Canonical[n.artifact])
        BY <2>7, PlanImportMoves
      <3>3. o.artifact \in Classes /\ o.destination = Canonical[o.artifact] /\ o.destination # None
            /\ o.destination \in Names
        BY <3>1, PlacedFacts DEF Imports, Path, Names
      <3>4. S \o r \in Names /\ IsPrefix(S, S \o r) /\ IsPrefix(o.destination, S \o r)
            /\ Rest(S \o r, S) = r /\ Rest(o.destination \o q, o.destination) = q
        BY <2>1, <2>4, <2>9, <3>3, BelowFacts
      <3>5. o.artifact = c
        BY <1>1, <2>1, <3>3, <3>4, OneClass DEF PlainLayout
      <3> QED
        BY <2>1, <2>8, <2>9, <3>1, <3>2, <3>3, <3>4, <3>5
    <2>10. Placed(plan)
      BY PlanImportMoves, PlacedFacts DEF Placed
    <2> HIDE DEF n, plan
    <2>11. /\ \A g \in DOMAIN files : \E o \in Applicable(plan), q \in Names :
                 g = o.destination \o q /\ o.source \o q \in DOMAIN home /\ files[g] = home[o.source \o q]
           /\ \A o \in Applicable(plan), q \in Names :
                 o.source \o q \in DOMAIN home => o.destination \o q \in DOMAIN files
      <3> HIDE DEF files
      <3>1. files = Materialized(plan, home)
        BY DEF files
      <3> QED
        BY <2>2, <2>10, <3>1, MaterializedFacts
    <2>12. \A o \in Applicable(plan) : o \in plan.mappings /\ o.action # "identical"
      BY DEF Applicable
    <2> HIDE DEF files, c, place, S, r
    <2> DEFINE landed == Written(files, repo)
    <2>13. /\ DOMAIN landed = DOMAIN files \cup DOMAIN repo
           /\ \A g \in DOMAIN files : landed[g] = files[g]
           /\ \A g \in DOMAIN repo \ DOMAIN files : landed[g] = repo[g]
      BY WrittenFacts
    <2> HIDE DEF landed
    <2>14. CASE S \o r \in DOMAIN files
      <3>1. PICK o \in Applicable(plan) : \E q \in Names :
               S \o r = o.destination \o q /\ files[S \o r] = home[o.source \o q]
        BY <2>11, <2>14
      <3>2. PICK q \in Names : S \o r = o.destination \o q /\ files[S \o r] = home[o.source \o q]
        BY <3>1
      <3>3. o = n /\ q = r
        BY <2>9, <2>12, <3>2
      <3>4. files[S \o r] = home[f]
        BY <2>4, <2>8, <3>2, <3>3
      <3>5. S \o r \in DOMAIN landed /\ landed[S \o r] = files[S \o r]
        BY <2>14, <2>13
      <3> QED
        BY <3>4, <3>5 DEF IsFile, r, S, place, Rest, files, plan, landed
    <2>15. CASE S \o r \notin DOMAIN files
      <3>1. n.action = "identical"
        <4>1. SUFFICES ASSUME n.action # "identical"
                       PROVE  FALSE
          OBVIOUS
        <4>2. n \in Applicable(plan)
          BY <2>7, <4>1 DEF Applicable
        <4>3. n.source \o r \in DOMAIN home
          BY <2>3, <2>4, <2>8
        <4> QED
          BY <2>4, <2>8, <2>11, <2>15, <4>2, <4>3
      <3>2. TreeDigest(repo, S) = TreeDigest(home, place)
        BY <2>8, <3>1
      <3>3. S \o r \in DOMAIN repo /\ repo[S \o r] = home[f]
        BY <2>1, <2>2, <2>3, <2>4, <3>2, SameContent
      <3>4. S \o r \in DOMAIN landed /\ landed[S \o r] = repo[S \o r]
        BY <2>15, <2>13, <3>3
      <3> QED
        BY <3>3, <3>4 DEF IsFile, r, S, place, Rest, files, plan, landed
    <2> QED
      BY <2>14, <2>15
  <1>2. IInv /\ PlainLayout => ImportThenRestoreLosesNothing
    <2> SUFFICES ASSUME IInv, PlainLayout, NEW a \in Adapters,
                        NEW m \in PlanRestore(a).mappings, NEW f \in Under(home, m.destination)
                 PROVE  LET landed == Written(Materialized(PlanImport(a), home), repo)
                            r == SubSeq(f, Len(m.destination) + 1, Len(f))
                        IN  \/ f # m.destination /\ Last(f) = ".gitkeep"
                            \/ IsFile(landed, m.source \o r) /\ landed[m.source \o r] = home[f]
      BY DEF ImportThenRestoreLosesNothing
    <2> QED
      BY <1>1
  <1>3. PlainLayout /\ Init => PlainLayout /\ IInv
    BY InitInvariant
  <1>4. PlainLayout /\ IInv /\ [Next]_vars => (PlainLayout /\ IInv)'
    BY NextInvariant, PlacesStay
  <1> QED
    BY <1>2, <1>3, <1>4, PTL DEF Spec
===============================================================================
