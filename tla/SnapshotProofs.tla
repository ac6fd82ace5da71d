---------------------------- MODULE SnapshotProofs ----------------------------
EXTENDS Snapshot, TLAPS

-----------------------------------------------------------------------------
(* The inductive invariant *)

\* Between opening the temporary file and unlinking it.
Working == {"write", "replace", "unlink"}

PackerOK(i) ==
    /\ packer[i].pc # "idle" => packer[i].request \in Requests
    /\ packer[i].pc = "write" => packer[i].fd # None
    /\ packer[i].pc = "check" => drop # None
    /\ packer[i].pc = "unlink" /\ ~packer[i].failed => drop # None

\* As long as packers do not overlap, the one at work has the temporary file for
\* itself: what it has written is still there when it is moved, and the file at
\* the drop is another one, which nobody writes.
Alone ==
    /\ \A i, j \in Packers : packer[i].pc \in Working /\ packer[j].pc \in Working => i = j
    /\ tmp # None => tmp # drop
    /\ drop # None => AtDrop # Torn
    /\ \A i \in Packers :
          /\ packer[i].pc = "write" => packer[i].fd = tmp
          /\ packer[i].pc = "replace" => tmp # None /\ inodes[tmp].content # Torn
    /\ \A n \in DOMAIN inodes :
          /\ ~inodes[n].shared
          /\ \A i \in inodes[n].writers : packer[i].pc = "write" /\ packer[i].fd = n

\* What a puller relies on at each step. Only the manifest that it has copied
\* may be another one's by now.
PullerOK(u) ==
    /\ puller[u].pc # "idle" => drop # None
    /\ puller[u].pc \notin {"idle", "check"} /\ puller[u].command = "pull" =>
          puller[u].checked \in Archives /\ Checks(puller[u].checked, "specialist")
    /\ puller[u].pc \in {"rmdir", "mkdir", "copy"} =>
          puller[u].opened \in opened /\ Opens(puller[u].opened)
    /\ puller[u].pc # "copy" => puller[u].copied = {}
    /\ puller[u].pc = "copy" /\ ~puller[u].failed =>
          /\ puller[u].copied \subseteq DOMAIN Before
          /\ \A part \in puller[u].copied \ {"manifest"} :
                Before[part] \in {puller[u].opened.files[part], Late}

\* Nobody copies where somebody else has been before.
EarlyOK == (\E part \in DOMAIN Before : Before[part] = Early) => ~Copying

\* What lies at the destination is somebody else's or from an archive that has
\* been opened.
OriginOK ==
    \A part \in DOMAIN Before :
        \/ Before[part] \in {Early, Late}
        \/ \E a \in opened : part \in DOMAIN Copies(a) /\ Before[part] = Copies(a)[part]

IInv ==
    /\ TypeOK
    /\ \A i \in Packers : PackerOK(i)
    /\ ~overlapped => Alone
    /\ \A u \in Pullers : PullerOK(u)
    /\ EarlyOK
    /\ OriginOK

-----------------------------------------------------------------------------
(* Values *)

\* The fields of an archive and where its files are, in the repository.
LEMMA FieldFacts ==
    /\ Range(Fields) = {"persona", "long_term_memory", "daily_memory", "knowledge"}
    /\ "manifest" \notin Range(Fields)
  <1>1. DOMAIN Fields = {1, 2, 3, 4}
    BY DEF Fields
  <1>2. Fields[1] = "persona" /\ Fields[2] = "long_term_memory" /\ Fields[3] = "daily_memory"
        /\ Fields[4] = "knowledge"
    BY DEF Fields
  <1>3. Range(Fields) = {Fields[n] : n \in {1, 2, 3, 4}}
    BY <1>1 DEF Range
  <1> QED
    BY <1>2, <1>3

LEMMA ExportFacts ==
    ASSUME NEW r
    PROVE  /\ DOMAIN Export(r) \subseteq Range(Fields)
           /\ \A field \in DOMAIN Export(r) : Export(r)[field] \in Files
  <1>1. DOMAIN Export(r) \subseteq Range(Fields)
    BY DEF Export
  <1>2. ASSUME NEW field \in DOMAIN Export(r)
        PROVE  Export(r)[field] \in Files
    <2>1. Export(r)[field] = CASE field = "long_term_memory" -> IF r.profile = "specialist" THEN "PUBLISH" ELSE "MEMORY"
                               [] field = "daily_memory" -> "daily"
                               [] OTHER -> field
      BY <1>2 DEF Export
    <2>2. field \in {"persona", "long_term_memory", "daily_memory", "knowledge"}
      BY <1>1, <1>2, FieldFacts
    <2>3. CASE field = "long_term_memory"
      BY <2>1, <2>3 DEF Files
    <2>4. CASE field = "daily_memory"
      BY <2>1, <2>4 DEF Files
    <2>5. CASE field \in {"persona", "knowledge"}
      BY <2>1, <2>5 DEF Files
    <2> QED
      BY <2>2, <2>3, <2>4, <2>5
  <1> QED
    BY <1>1, <1>2

\* A function with one more value.
LEMMA PutFacts ==
    ASSUME NEW f, NEW x, NEW v
    PROVE  /\ DOMAIN Put(f, x, v) = DOMAIN f \cup {x}
           /\ Put(f, x, v)[x] = v
           /\ \A y \in DOMAIN f : y # x => Put(f, x, v)[y] = f[y]
  BY DEF Put

Staged == UNION {[fields -> (0..MaxEdits) \cup {Empty}] : fields \in SUBSET Range(Fields)}

LEMMA StagedFacts ==
    ASSUME NEW s \in Staged
    PROVE  /\ DOMAIN s \subseteq Range(Fields)
           /\ \A field \in DOMAIN s : s[field] \in (0..MaxEdits) \cup {Empty}
  BY DEF Staged

\* What is staged grows by one file.
LEMMA StagedMore ==
    ASSUME NEW s \in Staged, NEW field \in Range(Fields), NEW v \in (0..MaxEdits) \cup {Empty}
    PROVE  Put(s, field, v) \in Staged
  <1> DEFINE D == DOMAIN s \cup {field}
  <1>1. D \in SUBSET Range(Fields)
    BY StagedFacts
  <1>2. Put(s, field, v) \in [D -> (0..MaxEdits) \cup {Empty}]
    BY StagedFacts DEF Put
  <1> QED
    BY <1>1, <1>2 DEF Staged

LEMMA NothingStaged == <<>> \in Staged
  <1>1. <<>> \in [{} -> (0..MaxEdits) \cup {Empty}]
    OBVIOUS
  <1> QED
    BY <1>1 DEF Staged

\* What a packer writes is an archive.
LEMMA ArchiveFacts ==
    ASSUME NEW r \in Requests, NEW s \in Staged
    PROVE  Archive(r, s) \in Archives /\ Archive(r, s).profile = r.profile
  <1> DEFINE D == {field \in DOMAIN s : s[field] # Empty}
             files == Restrict(s, D)
  <1>1. r.profile \in {"specialist", "personal"}
    BY RequestsAssumption
  <1>2. DOMAIN s \in SUBSET Range(Fields) /\ D \in SUBSET Range(Fields)
    BY StagedFacts
  <1>3. files \in [D -> 0..MaxEdits]
    BY StagedFacts DEF Restrict
  <1> HIDE DEF D
  <1>4. files \in UNION {[fields -> 0..MaxEdits] : fields \in SUBSET Range(Fields)}
    BY <1>2, <1>3
  <1> HIDE DEF files
  <1>5. Archive(r, s) = [profile |-> r.profile, manifest |-> DOMAIN s, files |-> files]
    BY DEF Archive, files, D
  <1> QED
    BY <1>1, <1>2, <1>4, <1>5 DEF Archives

LEMMA ArchivesFacts ==
    ASSUME NEW a \in Archives
    PROVE  /\ a = [profile |-> a.profile, manifest |-> a.manifest, files |-> a.files]
           /\ a.manifest \subseteq Range(Fields)
           /\ DOMAIN a.files \subseteq Range(Fields)
           /\ \A field \in DOMAIN a.files : a.files[field] \in 0..MaxEdits
           /\ a # Torn /\ a # None
  <1>1. \E fields \in SUBSET Range(Fields) : a.files \in [fields -> 0..MaxEdits]
    BY DEF Archives
  <1>2. a = [profile |-> a.profile, manifest |-> a.manifest, files |-> a.files] /\ a.manifest \subseteq Range(Fields)
    BY DEF Archives
  <1> QED
    BY <1>1, <1>2, ValuesAssumption

\* The parts that an install copies.
LEMMA CopiesFacts ==
    ASSUME NEW a \in Archives
    PROVE  /\ DOMAIN Copies(a) = DOMAIN a.files \cup {"manifest"}
           /\ DOMAIN Copies(a) \subseteq Parts
           /\ Copies(a)["manifest"] = a.manifest
           /\ \A part \in DOMAIN a.files : part # "manifest" /\ Copies(a)[part] = a.files[part]
           /\ \A part \in DOMAIN Copies(a) : Copies(a)[part] \in Contents(part) \ {Early}
  <1>1. DOMAIN a.files \subseteq Range(Fields) /\ "manifest" \notin Range(Fields)
    BY ArchivesFacts, FieldFacts
  <1>2. /\ DOMAIN Copies(a) = DOMAIN a.files \cup {"manifest"}
        /\ Copies(a)["manifest"] = a.manifest
        /\ \A part \in DOMAIN a.files : part # "manifest" /\ Copies(a)[part] = a.files[part]
    <2>1. PICK files, manifest : files = a.files /\ manifest = a.manifest
      OBVIOUS
    <2>2. Copies(a) = Put(files, "manifest", manifest)
      BY <2>1 DEF Copies
    <2>3. DOMAIN Copies(a) = DOMAIN files \cup {"manifest"}
      BY <2>2 DEF Put
    <2>4. Copies(a)["manifest"] = manifest
      BY <2>2 DEF Put
    <2>5. \A part \in DOMAIN files : part # "manifest" => Copies(a)[part] = files[part]
      BY <2>2 DEF Put
    <2> QED
      BY <1>1, <2>1, <2>3, <2>4, <2>5
  <1>3. a.manifest \in Contents("manifest") \ {Early}
    BY ArchivesFacts, ValuesAssumption DEF Contents
  <1>4. \A part \in DOMAIN a.files : a.files[part] \in Contents(part) \ {Early}
    <2>1. 0..MaxEdits \subseteq Nat
      OBVIOUS
    <2> QED
      BY <1>1, <2>1, ArchivesFacts, ValuesAssumption DEF Contents
  <1> QED
    BY <1>1, <1>2, <1>3, <1>4 DEF Parts


-----------------------------------------------------------------------------
(* Packing *)

Inode == [content : Archives \cup {Torn}, writers : SUBSET Packers, shared : BOOLEAN]

\* What a packer is doing, in one place.
LEMMA PackingIs ==
    Packing = [pc : {"idle", "stage", "write", "replace", "unlink", "check"}, request : Requests \cup {None},
               staged : Staged, fd : Nat \cup {None}, failed : BOOLEAN]
  BY DEF Packing, Staged

\* A sequence with one element changed.
LEMMA SetFacts ==
    ASSUME NEW S, NEW s \in Seq(S), NEW n \in DOMAIN s, NEW v \in S
    PROVE  /\ [s EXCEPT ![n] = v] \in Seq(S)
           /\ DOMAIN [s EXCEPT ![n] = v] = DOMAIN s
           /\ [s EXCEPT ![n] = v][n] = v
           /\ \A m \in DOMAIN s \ {n} : [s EXCEPT ![n] = v][m] = s[m]
  OBVIOUS

LEMMA TypeFacts ==
    ASSUME TypeOK
    PROVE  /\ packer \in [Packers -> Packing]
           /\ inodes \in Seq(Inode)
           /\ DOMAIN inodes = 1..Len(inodes) /\ Len(inodes) \in Nat
           /\ drop \in DOMAIN inodes \cup {None} /\ tmp \in DOMAIN inodes \cup {None}
           /\ None \notin Nat
           /\ overlapped \in BOOLEAN /\ troubled \in BOOLEAN
           /\ \A n \in DOMAIN inodes : inodes[n] \in Inode
           /\ \A i \in Packers : packer[i].fd \in DOMAIN inodes \cup {None}
           /\ \A i \in Packers : packer[i].staged \in Staged
  <1>1. inodes \in Seq(Inode)
    BY DEF TypeOK, Inode
  <1>2. packer \in [Packers -> Packing]
    BY DEF TypeOK
  <1>3. \A i \in Packers : packer[i].staged \in Staged
    BY <1>2, PackingIs
  <1> HIDE DEF Inode
  <1>4. DOMAIN inodes = 1..Len(inodes) /\ Len(inodes) \in Nat /\ \A n \in DOMAIN inodes : inodes[n] \in Inode
    BY <1>1
  <1>5. None \notin Nat
    BY ValuesAssumption
  <1> QED
    BY <1>1, <1>2, <1>3, <1>4, <1>5 DEF TypeOK

Others(i) == \A j \in Packers \ {i} : packer'[j] = packer[j]

\* What a step of one packer does to that packer.
LEMMA PackerSet ==
    ASSUME TypeOK, NEW i \in Packers, NEW w \in Packing, packer' = [packer EXCEPT ![i] = w]
    PROVE  packer' \in [Packers -> Packing] /\ packer'[i] = w /\ Others(i)
  <1> packer \in [Packers -> Packing]
    BY TypeFacts
  <1> QED
    BY DEF Others

LEMMA IdleFacts ==
    /\ Idle \in Packing
    /\ Idle.pc = "idle" /\ Idle.fd = None /\ ~Idle.failed
  BY NothingStaged, PackingIs DEF Idle

LEMMA BeginPackFacts ==
    ASSUME TypeOK, NEW i \in Packers, NEW r \in Requests, BeginPack(i, r)
    PROVE  /\ packer' \in [Packers -> Packing] /\ Others(i)
           /\ packer'[i].pc = "stage" /\ packer'[i].fd = None
           /\ packer'[i].request = r
  <1> DEFINE w == [Idle EXCEPT !.pc = "stage", !.request = r]
  <1>1. w \in Packing /\ w.pc = "stage" /\ w.fd = None /\ w.request = r
    BY NothingStaged, PackingIs DEF Idle
  <1>2. packer' = [packer EXCEPT ![i] = w]
    BY DEF BeginPack
  <1> HIDE DEF w
  <1>3. packer' \in [Packers -> Packing] /\ packer'[i] = w /\ Others(i)
    BY <1>1, <1>2, PackerSet
  <1> QED
    BY <1>1, <1>3

LEMMA StagePartFacts ==
    ASSUME TypeOK, NEW i \in Packers, PackerOK(i), StagePart(i)
    PROVE  /\ packer' \in [Packers -> Packing] /\ Others(i)
           /\ packer'[i].pc \in {"idle", "stage"}
           /\ packer'[i].fd \in {packer[i].fd, None}
           /\ packer'[i].pc = "stage" => packer'[i].request = packer[i].request
  <1>1. packer[i] \in Packing /\ packer[i].pc = "stage"
    BY TypeFacts DEF StagePart
  <1>2. PICK field : field = NextPart(i)
    OBVIOUS
  <1>3. PICK value : value = repo[Export(packer[i].request)[field]]
    OBVIOUS
  <1>4. field \in Unstaged(i)
    <2>1. \E n \in DOMAIN Fields : /\ Fields[n] \in Unstaged(i)
                                   /\ \A o \in 1..(n - 1) : Fields[o] \notin Unstaged(i)
      <3>1. Unstaged(i) # {}
        BY DEF StagePart
      <3>2. Unstaged(i) \subseteq Range(Fields)
        BY ExportFacts DEF Unstaged
      <3>3. \E n \in {1, 2, 3, 4} : Fields[n] \in Unstaged(i)
        BY <3>1, <3>2, FieldFacts DEF Fields
      <3>4. DOMAIN Fields = {1, 2, 3, 4}
        BY DEF Fields
      <3>5. CASE Fields[1] \in Unstaged(i)
        <4>1. \A o \in 1..(1 - 1) : Fields[o] \notin Unstaged(i)
          OBVIOUS
        <4> QED
          BY <3>4, <3>5, <4>1
      <3>6. CASE Fields[1] \notin Unstaged(i) /\ Fields[2] \in Unstaged(i)
        <4>1. \A o \in 1..(2 - 1) : Fields[o] \notin Unstaged(i)
          <5>1. 1..(2 - 1) = {1}
            OBVIOUS
          <5> QED
            BY <5>1, <3>6
        <4> QED
          BY <3>4, <3>6, <4>1
      <3>7. CASE Fields[1] \notin Unstaged(i) /\ Fields[2] \notin Unstaged(i) /\ Fields[3] \in Unstaged(i)
        <4>1. \A o \in 1..(3 - 1) : Fields[o] \notin Unstaged(i)
          <5>1. 1..(3 - 1) = {1, 2}
            OBVIOUS
          <5> QED
            BY <5>1, <3>7
        <4> QED
          BY <3>4, <3>7, <4>1
      <3>8. CASE /\ Fields[1] \notin Unstaged(i) /\ Fields[2] \notin Unstaged(i)
                 /\ Fields[3] \notin Unstaged(i) /\ Fields[4] \in Unstaged(i)
        <4>1. \A o \in 1..(4 - 1) : Fields[o] \notin Unstaged(i)
          <5>1. 1..(4 - 1) = {1, 2, 3}
            OBVIOUS
          <5> QED
            BY <5>1, <3>8
        <4> QED
          BY <3>4, <3>8, <4>1
      <3> QED
        BY <3>3, <3>5, <3>6, <3>7, <3>8
    <2> QED
      BY <1>2, <2>1 DEF NextPart
  <1>5. field \in Range(Fields) /\ Export(packer[i].request)[field] \in Files
    BY <1>4, ExportFacts DEF Unstaged
  <1>6. value \in (0..MaxEdits) \cup {None, Empty}
    BY <1>3, <1>5 DEF TypeOK
  <1>7. packer' = [packer EXCEPT ![i] =
            IF repo[Export(packer[i].request)[NextPart(i)]] = None THEN Idle
            ELSE [packer[i] EXCEPT !.staged =
                     Put(packer[i].staged, NextPart(i), repo[Export(packer[i].request)[NextPart(i)]])]]
    BY Zenon DEF StagePart
  <1>8. PICK w : /\ w = IF value = None THEN Idle
                        ELSE [packer[i] EXCEPT !.staged = Put(packer[i].staged, field, value)]
                 /\ packer' = [packer EXCEPT ![i] = w]
    BY <1>2, <1>3, <1>7, Zenon
  <1>9. CASE value = None
    <2>1. w = Idle
      BY <1>8, <1>9
    <2> QED
      BY <1>8, <2>1, IdleFacts, PackerSet
  <1>10. CASE value # None
    <2>1. packer[i].staged \in Staged
      BY TypeFacts
    <2>2. PICK more \in Staged : more = Put(packer[i].staged, field, value)
      BY <1>5, <1>6, <1>10, <2>1, StagedMore
    <2>3. w = [packer[i] EXCEPT !.staged = more]
      BY <1>8, <1>10, <2>2
    <2>4. w \in Packing /\ w.pc = "stage" /\ w.fd = packer[i].fd /\ w.request = packer[i].request
      BY <1>1, <2>3, PackingIs
    <2> QED
      BY <1>8, <2>4, PackerSet
  <1> QED
    BY <1>9, <1>10

LEMMA FreshFile ==
    ASSUME NEW i \in Packers
    PROVE  /\ Truncated(NewFile, i) \in Inode
           /\ ~Truncated(NewFile, i).shared /\ Truncated(NewFile, i).writers = {i}
  <1>1. Truncated(NewFile, i).shared = FALSE
    BY DEF Truncated, NewFile
  <1>2. Truncated(NewFile, i).writers = {i}
    BY DEF Truncated, NewFile
  <1>3. Truncated(NewFile, i) = [content |-> Torn, writers |-> {i}, shared |-> FALSE]
    BY <1>1, <1>2 DEF Truncated
  <1> QED
    BY <1>1, <1>2, <1>3 DEF Inode

LEMMA OpenTemporaryFacts ==
    ASSUME TypeOK, NEW i \in Packers, OpenTemporary(i)
    PROVE  /\ packer' \in [Packers -> Packing] /\ Others(i)
           /\ packer'[i].pc = "write" /\ packer'[i].fd = tmp' /\ packer'[i].request = packer[i].request
           /\ inodes' \in Seq(Inode) /\ DOMAIN inodes \subseteq DOMAIN inodes'
           /\ tmp' \in DOMAIN inodes' /\ tmp' # None
           /\ tmp # None => tmp' = tmp
           /\ tmp = None => tmp' \notin DOMAIN inodes /\ inodes'[tmp'] = Truncated(NewFile, i)
           /\ tmp # None => inodes'[tmp'] = Truncated(inodes[tmp], i)
           /\ \A n \in DOMAIN inodes \ {tmp} : inodes'[n] = inodes[n]
           /\ DOMAIN inodes' = DOMAIN inodes \cup {tmp'}
  <1>1. packer[i] \in Packing /\ packer[i].pc = "stage"
    BY TypeFacts DEF OpenTemporary
  <1>2. /\ inodes' \in Seq(Inode) /\ DOMAIN inodes' = DOMAIN inodes \cup {tmp'}
        /\ tmp' \in Nat
        /\ tmp # None => tmp' = tmp
        /\ tmp = None => tmp' \notin DOMAIN inodes /\ inodes'[tmp'] = Truncated(NewFile, i)
        /\ tmp # None => inodes'[tmp'] = Truncated(inodes[tmp], i)
        /\ \A n \in DOMAIN inodes \ {tmp} : inodes'[n] = inodes[n]
    <2>1. CASE tmp = None
      <3>1. inodes' = Append(inodes, Truncated(NewFile, i)) /\ tmp' = Len(inodes')
        BY <2>1 DEF OpenTemporary
      <3>2. PICK n \in Inode : n = Truncated(NewFile, i)
        BY FreshFile
      <3>3. PICK files \in Seq(Inode) : files = inodes
        BY TypeFacts
      <3>4. inodes' = Append(files, n)
        BY <3>1, <3>2, <3>3
      <3>5. /\ inodes' \in Seq(Inode) /\ Len(inodes') = Len(files) + 1
            /\ inodes'[Len(files) + 1] = n
            /\ \A m \in 1..Len(files) : inodes'[m] = files[m]
            /\ DOMAIN inodes' = 1..(Len(files) + 1) /\ DOMAIN files = 1..Len(files) /\ Len(files) \in Nat
        BY <3>4
      <3>6. None \notin DOMAIN inodes
        BY TypeFacts
      <3> QED
        BY <2>1, <3>1, <3>2, <3>3, <3>5, <3>6
    <2>2. CASE tmp # None
      <3>1. inodes' = [inodes EXCEPT ![tmp] = Truncated(@, i)] /\ tmp' = tmp
        BY <2>2 DEF OpenTemporary
      <3>2. tmp \in DOMAIN inodes /\ inodes[tmp] \in Inode
        BY <2>2, TypeFacts
      <3>3. PICK n \in Inode : n = Truncated(inodes[tmp], i)
        BY <3>2 DEF Truncated, Inode
      <3>4. inodes' = [inodes EXCEPT ![tmp] = n]
        BY <3>1, <3>2, <3>3
      <3>5. inodes' \in Seq(Inode) /\ DOMAIN inodes' = DOMAIN inodes
        BY <3>2, <3>4, SetFacts, TypeFacts
      <3>6. inodes'[tmp] = n /\ \A m \in DOMAIN inodes \ {tmp} : inodes'[m] = inodes[m]
        BY <3>2, <3>4
      <3> QED
        BY <2>2, <3>1, <3>2, <3>3, <3>5, <3>6, TypeFacts
    <2> QED
      BY <2>1, <2>2
  <1>3. tmp' # None
    BY <1>2, ValuesAssumption
  <1> DEFINE w == [packer[i] EXCEPT !.pc = "write", !.fd = tmp']
  <1>4. w \in Packing /\ w.pc = "write" /\ w.fd = tmp' /\ w.request = packer[i].request
    BY <1>1, <1>2, PackingIs
  <1>5. packer' = [packer EXCEPT ![i] = w]
    BY TypeFacts DEF OpenTemporary
  <1> HIDE DEF w
  <1>6. packer' \in [Packers -> Packing] /\ packer'[i] = w /\ Others(i)
    BY <1>4, <1>5, PackerSet
  <1> QED
    BY <1>2, <1>3, <1>4, <1>6

\* Writing one content into an inode, or nothing whole, and closing it.
Closes(i, n, content) ==
    inodes' = [inodes EXCEPT ![n].content = content, ![n].writers = @ \ {i}]

LEMMA CloseFacts ==
    ASSUME TypeOK, NEW i \in Packers, NEW n \in DOMAIN inodes, NEW content \in Archives \cup {Torn},
           Closes(i, n, content)
    PROVE  /\ inodes' \in Seq(Inode) /\ DOMAIN inodes' = DOMAIN inodes
           /\ inodes'[n].content = content
           /\ \A m \in DOMAIN inodes : m # n => inodes'[m] = inodes[m]
           /\ \A m \in DOMAIN inodes : /\ inodes'[m].shared = inodes[m].shared
                                       /\ inodes'[m].writers \subseteq inodes[m].writers
           /\ i \notin inodes'[n].writers
  <1>1. PICK old \in Inode : old = inodes[n]
    BY TypeFacts
  <1> DEFINE v == [content |-> content, writers |-> old.writers \ {i}, shared |-> old.shared]
             w == [[old EXCEPT !.content = content] EXCEPT !.writers = @ \ {i}]
  <1>2. v \in Inode
    BY DEF Inode
  <1>3. v = w
    <2> DEFINE Same == [content : {content}, writers : {old.writers \ {i}}, shared : {old.shared}]
    <2>1. v \in Same
      OBVIOUS
    <2>2. w \in Same
      BY DEF Inode
    <2> HIDE DEF v, w
    <2> QED
      BY <2>1, <2>2
  <1>4. inodes' = [inodes EXCEPT ![n] = w]
    BY <1>1 DEF Closes
  <1>5. /\ v.content = content /\ i \notin v.writers /\ v.writers \subseteq old.writers
        /\ v.shared = old.shared
    OBVIOUS
  <1> HIDE DEF v, w
  <1>6. PICK files \in Seq(Inode) : files = inodes
    BY TypeFacts
  <1>7. inodes' = [files EXCEPT ![n] = v] /\ n \in DOMAIN files
    BY <1>3, <1>4, <1>6
  <1>8. /\ inodes' \in Seq(Inode) /\ DOMAIN inodes' = DOMAIN files
        /\ inodes'[n] = v /\ \A m \in DOMAIN files \ {n} : inodes'[m] = files[m]
    BY <1>2, <1>7
  <1> QED
    BY <1>1, <1>5, <1>6, <1>8

LEMMA WriteArchiveFacts ==
    ASSUME TypeOK, NEW i \in Packers, PackerOK(i), WriteArchive(i)
    PROVE  /\ packer' \in [Packers -> Packing] /\ Others(i)
           /\ packer'[i].pc = "replace" /\ packer'[i].fd = None /\ packer'[i].request = packer[i].request
           /\ packer[i].fd \in DOMAIN inodes
           /\ ~inodes[packer[i].fd].shared => inodes'[packer[i].fd].content # Torn
           /\ \E content \in Archives \cup {Torn} : Closes(i, packer[i].fd, content)
  <1>1. packer[i] \in Packing /\ packer[i].pc = "write"
    BY TypeFacts DEF WriteArchive
  <1>2. packer[i].fd \in DOMAIN inodes
    BY <1>1, TypeFacts DEF PackerOK
  <1>3. packer[i].request \in Requests /\ packer[i].staged \in Staged
    BY <1>1, TypeFacts DEF PackerOK
  <1>4. Mine(i) \in Archives
    BY <1>3, ArchiveFacts DEF Mine
  <1>5. PICK content \in {Mine(i)} \cup (IF inodes[packer[i].fd].shared THEN {Torn} ELSE {}) :
            Closes(i, packer[i].fd, content)
    BY DEF WriteArchive, Closes
  <1>6. content \in Archives \cup {Torn} /\ (~inodes[packer[i].fd].shared => content \in Archives)
    BY <1>4, <1>5
  <1>7. inodes'[packer[i].fd].content = content
    BY <1>2, <1>5, <1>6, CloseFacts
  <1> DEFINE w == [packer[i] EXCEPT !.pc = "replace", !.fd = None]
  <1>8. w \in Packing /\ w.pc = "replace" /\ w.fd = None /\ w.request = packer[i].request
    BY <1>1, PackingIs
  <1>9. packer' = [packer EXCEPT ![i] = w]
    BY TypeFacts DEF WriteArchive
  <1> HIDE DEF w
  <1>10. packer' \in [Packers -> Packing] /\ packer'[i] = w /\ Others(i)
    BY <1>8, <1>9, PackerSet
  <1>11. content # Torn \/ inodes[packer[i].fd].shared
    BY <1>6, ValuesAssumption
  <1> QED
    BY <1>2, <1>5, <1>6, <1>7, <1>8, <1>10, <1>11

LEMMA WriteFailsFacts ==
    ASSUME TypeOK, NEW i \in Packers, PackerOK(i), WriteFails(i)
    PROVE  /\ packer' \in [Packers -> Packing] /\ Others(i)
           /\ packer'[i].pc = "unlink" /\ packer'[i].fd = None /\ packer'[i].failed
           /\ packer'[i].request = packer[i].request
           /\ packer[i].fd \in DOMAIN inodes
           /\ Closes(i, packer[i].fd, Torn)
  <1>1. packer[i] \in Packing /\ packer[i].pc = "write"
    BY TypeFacts DEF WriteFails
  <1>2. packer[i].fd \in DOMAIN inodes
    BY <1>1, TypeFacts DEF PackerOK
  <1> DEFINE w == [packer[i] EXCEPT !.pc = "unlink", !.fd = None, !.failed = TRUE]
  <1>3. w \in Packing /\ w.pc = "unlink" /\ w.fd = None /\ w.failed /\ w.request = packer[i].request
    BY <1>1, PackingIs
  <1>4. packer' = [packer EXCEPT ![i] = w]
    BY TypeFacts DEF WriteFails
  <1> HIDE DEF w
  <1>5. packer' \in [Packers -> Packing] /\ packer'[i] = w /\ Others(i)
    BY <1>3, <1>4, PackerSet
  <1> QED
    BY <1>2, <1>3, <1>5 DEF WriteFails, Closes

LEMMA ReplaceDropFacts ==
    ASSUME TypeOK, NEW i \in Packers, ReplaceDrop(i)
    PROVE  /\ packer' \in [Packers -> Packing] /\ Others(i)
           /\ packer'[i].pc = "unlink" /\ packer'[i].fd = packer[i].fd
           /\ packer'[i].request = packer[i].request
           /\ packer'[i].failed = (tmp = None)
  <1>1. packer[i] \in Packing /\ packer[i].pc = "replace"
    BY TypeFacts DEF ReplaceDrop
  <1>2. PICK failed \in BOOLEAN : failed = (tmp = None)
    BY Zenon
  <1> DEFINE w == [packer[i] EXCEPT !.pc = "unlink", !.failed = failed]
  <1>3. /\ w \in Packing /\ w.pc = "unlink" /\ w.fd = packer[i].fd /\ w.request = packer[i].request
        /\ w.failed = failed
    BY <1>1, PackingIs
  <1>4. packer' = [packer EXCEPT ![i] = w]
    BY <1>2, TypeFacts DEF ReplaceDrop, Missing
  <1> HIDE DEF w
  <1>5. packer' \in [Packers -> Packing] /\ packer'[i] = w /\ Others(i)
    BY <1>3, <1>4, PackerSet
  <1> QED
    BY <1>2, <1>3, <1>5

LEMMA UnlinkFacts ==
    ASSUME TypeOK, NEW i \in Packers, Unlink(i)
    PROVE  /\ packer' \in [Packers -> Packing] /\ Others(i)
           /\ packer'[i].pc \in {"idle", "check"} /\ packer'[i].fd \in {packer[i].fd, None}
           /\ packer'[i].pc = "check" => packer'[i].request = packer[i].request /\ ~packer[i].failed
  <1>1. packer[i] \in Packing /\ packer[i].pc = "unlink"
    BY TypeFacts DEF Unlink
  <1>2. CASE packer[i].failed \/ packer[i].request.command = "pack"
    <2>1. packer' = [packer EXCEPT ![i] = Idle]
      BY <1>2 DEF Unlink
    <2> QED
      BY <2>1, IdleFacts, PackerSet
  <1>3. CASE ~(packer[i].failed \/ packer[i].request.command = "pack")
    <2> DEFINE w == [packer[i] EXCEPT !.pc = "check"]
    <2>1. w \in Packing /\ w.pc = "check" /\ w.fd = packer[i].fd /\ w.request = packer[i].request
      BY <1>1, PackingIs
    <2>2. packer' = [packer EXCEPT ![i] = w]
      BY <1>3 DEF Unlink
    <2> HIDE DEF w
    <2> QED
      BY <1>3, <2>1, <2>2, PackerSet
  <1> QED
    BY <1>2, <1>3

\* A packer that dies no longer writes anything.
LEMMA PackerDiesFacts ==
    ASSUME TypeOK, NEW i \in Packers, PackerDies(i)
    PROVE  /\ packer' \in [Packers -> Packing] /\ Others(i) /\ packer'[i] = Idle
           /\ inodes' \in Seq(Inode) /\ DOMAIN inodes' = DOMAIN inodes
           /\ \A m \in DOMAIN inodes : /\ inodes'[m].content = inodes[m].content
                                       /\ inodes'[m].shared = inodes[m].shared
                                       /\ inodes'[m].writers = inodes[m].writers \ {i}
  <1>1. packer' = [packer EXCEPT ![i] = Idle]
    BY DEF PackerDies
  <1>2. packer' \in [Packers -> Packing] /\ packer'[i] = Idle /\ Others(i)
    BY <1>1, IdleFacts, PackerSet
  <1>3. inodes' = [n \in DOMAIN inodes |-> [inodes[n] EXCEPT !.writers = @ \ {i}]]
    BY DEF PackerDies
  <1>4. ASSUME NEW m \in DOMAIN inodes
        PROVE  /\ [inodes[m] EXCEPT !.writers = @ \ {i}] \in Inode
               /\ [inodes[m] EXCEPT !.writers = @ \ {i}].content = inodes[m].content
               /\ [inodes[m] EXCEPT !.writers = @ \ {i}].shared = inodes[m].shared
               /\ [inodes[m] EXCEPT !.writers = @ \ {i}].writers = inodes[m].writers \ {i}
    <2>1. inodes[m] \in Inode
      BY TypeFacts
    <2> QED
      BY <2>1 DEF Inode
  <1>5. DOMAIN inodes = 1..Len(inodes) /\ Len(inodes) \in Nat
    BY TypeFacts
  <1>6. DOMAIN inodes' = DOMAIN inodes
    BY <1>3
  <1>7. inodes' \in [1..Len(inodes) -> Inode]
    BY <1>3, <1>4, <1>5
  <1>8. inodes' \in Seq(Inode)
    BY <1>5, <1>7
  <1> QED
    BY <1>2, <1>3, <1>4, <1>6, <1>8

-----------------------------------------------------------------------------
(* The steps of a packer *)

Counts == [calls : 0..MaxCalls, edits : 0..MaxEdits, foreign : 0..MaxForeign, crashes : 0..MaxCrashes]

LEMMA CountFacts ==
    ASSUME TypeOK
    PROVE  /\ count \in Counts
           /\ count.calls < MaxCalls => [count EXCEPT !.calls = @ + 1] \in Counts
           /\ count.edits < MaxEdits => [count EXCEPT !.edits = @ + 1] \in Counts
           /\ count.foreign < MaxForeign => [count EXCEPT !.foreign = @ + 1] \in Counts
           /\ count.crashes < MaxCrashes => [count EXCEPT !.crashes = @ + 1] \in Counts
  <1>1. count \in Counts
    BY DEF TypeOK, Counts
  <1>2. MaxCalls \in Nat /\ MaxEdits \in Nat /\ MaxForeign \in Nat /\ MaxCrashes \in Nat
    BY BoundsAssumption
  <1> QED
    BY <1>1, <1>2 DEF Counts

LEMMA PackTyped ==
    ASSUME TypeOK, NEW i \in Packers,
           packer' \in [Packers -> Packing], Others(i), packer'[i].fd \in DOMAIN inodes' \cup {None},
           inodes' \in Seq(Inode), DOMAIN inodes \subseteq DOMAIN inodes',
           drop' \in DOMAIN inodes' \cup {None}, tmp' \in DOMAIN inodes' \cup {None},
           UNCHANGED <<repo, puller, dest, opened>>, count' \in Counts, overlapped' \in BOOLEAN, troubled' \in BOOLEAN
    PROVE  TypeOK'
  <1>1. \A j \in Packers : packer'[j].fd \in DOMAIN inodes' \cup {None}
    BY TypeFacts DEF Others
  <1>2. inodes' \in Seq([content : Archives \cup {Torn}, writers : SUBSET Packers, shared : BOOLEAN])
    BY DEF Inode
  <1>3. {drop', tmp'} \subseteq DOMAIN inodes' \cup {None}
    OBVIOUS
  <1>4. /\ repo' \in [Files -> (0..MaxEdits) \cup {None, Empty}]
        /\ puller' \in [Pullers -> Pulling]
        /\ dest' # None => IsDirectory(dest')
        /\ opened' \subseteq Archives
    BY DEF TypeOK
  <1> QED
    BY <1>1, <1>2, <1>3, <1>4 DEF TypeOK, Counts

\* What a packer relies on is not taken from it by another one's step.
LEMMA PackerKept ==
    ASSUME NEW i \in Packers, \A j \in Packers : PackerOK(j), Others(i),
           drop # None => drop' # None, PackerOK(i)'
    PROVE  \A j \in Packers : PackerOK(j)'
  <1>1. ASSUME NEW j \in Packers, j # i
        PROVE  PackerOK(j)'
    BY <1>1 DEF PackerOK, Others
  <1> QED
    BY <1>1

\* A packer that neither has nor gets the temporary file.
LEMMA AloneQuiet ==
    ASSUME TypeOK, Alone, NEW i \in Packers, Others(i), UNCHANGED <<drop, tmp, inodes>>,
           packer[i].pc # "write", packer'[i].pc \notin Working
    PROVE  Alone'
  <1>1. \A j, k \in Packers : packer'[j].pc \in Working /\ packer'[k].pc \in Working => j = k
    BY DEF Alone, Others
  <1>2. (tmp' # None => tmp' # drop') /\ (drop' # None => inodes'[drop'].content # Torn)
    BY DEF Alone, AtDrop
  <1>3. \A j \in Packers : /\ packer'[j].pc = "write" => packer'[j].fd = tmp'
                           /\ packer'[j].pc = "replace" => tmp' # None /\ inodes'[tmp'].content # Torn
    BY DEF Alone, Others, Working
  <1>4. ASSUME NEW n \in DOMAIN inodes'
        PROVE  /\ ~inodes'[n].shared
               /\ \A j \in inodes'[n].writers : packer'[j].pc = "write" /\ packer'[j].fd = n
    <2>1. inodes[n].writers \subseteq Packers
      BY TypeFacts DEF Inode
    <2> QED
      BY <2>1 DEF Alone, Others
  <1> QED
    BY <1>1, <1>2, <1>3, <1>4 DEF Alone, AtDrop

\* What a step of a packer keeps and what pullers see of it.
PackKeeps ==
    /\ TypeOK'
    /\ \A i \in Packers : PackerOK(i)'
    /\ ~overlapped' => Alone'
    /\ drop # None => drop' # None
    /\ UNCHANGED <<puller, dest, opened>>

PackerSide ==
    /\ TypeOK
    /\ \A i \in Packers : PackerOK(i)
    /\ ~overlapped => Alone

\* The steps that touch no file.
LEMMA QuietStep ==
    ASSUME PackerSide, NEW i \in Packers,
           packer' \in [Packers -> Packing], Others(i), packer'[i].fd \in {packer[i].fd, None},
           packer[i].pc # "write", packer'[i].pc \in {"idle", "stage"} \/ (packer'[i].pc = "check" /\ drop # None),
           packer'[i].pc # "idle" => packer'[i].request \in Requests,
           UNCHANGED <<repo, drop, tmp, inodes, puller, dest, overlapped, troubled, opened>>, count' \in Counts
    PROVE  PackKeeps
  <1>1. TypeOK'
    <2>1. packer'[i].fd \in DOMAIN inodes' \cup {None}
      BY TypeFacts DEF PackerSide
    <2> QED
      BY <2>1, PackTyped, TypeFacts DEF PackerSide
  <1>2. PackerOK(i)'
    BY DEF PackerOK
  <1>3. \A j \in Packers : PackerOK(j)'
    BY <1>2, PackerKept DEF PackerSide
  <1>4. ~overlapped' => Alone'
    BY AloneQuiet DEF PackerSide, Working
  <1> QED
    BY <1>1, <1>3, <1>4 DEF PackKeeps

LEMMA BeginPackStep ==
    ASSUME PackerSide, NEW i \in Packers, NEW r \in Requests, BeginPack(i, r)
    PROVE  PackKeeps
  <1>1. TypeOK /\ packer[i].pc # "write"
    BY DEF PackerSide, BeginPack
  <1>2. count' \in Counts
    BY <1>1, CountFacts DEF BeginPack
  <1>3. /\ packer' \in [Packers -> Packing] /\ Others(i)
        /\ packer'[i].pc = "stage" /\ packer'[i].fd = None /\ packer'[i].request = r
    BY <1>1, BeginPackFacts
  <1> QED
    BY <1>1, <1>2, <1>3, QuietStep DEF BeginPack

LEMMA StagePartStep ==
    ASSUME PackerSide, NEW i \in Packers, StagePart(i)
    PROVE  PackKeeps
  <1>1. TypeOK /\ PackerOK(i) /\ packer[i].pc = "stage"
    BY DEF PackerSide, StagePart
  <1>2. count' \in Counts
    BY <1>1, CountFacts DEF StagePart
  <1>3. /\ packer' \in [Packers -> Packing] /\ Others(i)
        /\ packer'[i].pc \in {"idle", "stage"} /\ packer'[i].fd \in {packer[i].fd, None}
        /\ packer'[i].pc = "stage" => packer'[i].request = packer[i].request
    BY <1>1, StagePartFacts
  <1>4. packer'[i].pc # "idle" => packer'[i].request \in Requests
    BY <1>1, <1>3 DEF PackerOK
  <1> QED
    BY <1>1, <1>2, <1>3, <1>4, QuietStep DEF StagePart

LEMMA PublishStep ==
    ASSUME PackerSide, NEW i \in Packers, Publish(i) \/ PublishFails(i)
    PROVE  PackKeeps
  <1>1. TypeOK /\ packer[i].pc = "check" /\ packer' = [packer EXCEPT ![i] = Idle]
    BY DEF PackerSide, Publish, PublishFails
  <1>2. count' \in Counts
    BY <1>1, CountFacts DEF Publish, PublishFails
  <1>3. packer' \in [Packers -> Packing] /\ Others(i) /\ packer'[i] = Idle
    BY <1>1, IdleFacts, PackerSet
  <1> QED
    BY <1>1, <1>2, <1>3, IdleFacts, QuietStep DEF Publish, PublishFails

LEMMA OpenTemporaryStep ==
    ASSUME PackerSide, NEW i \in Packers, OpenTemporary(i)
    PROVE  PackKeeps
  <1>1. TypeOK /\ PackerOK(i) /\ packer[i].pc = "stage"
    BY DEF PackerSide, OpenTemporary
  <1>2. count' \in Counts
    BY <1>1, CountFacts DEF OpenTemporary
  <1>3. /\ packer' \in [Packers -> Packing] /\ Others(i)
        /\ packer'[i].pc = "write" /\ packer'[i].fd = tmp' /\ packer'[i].request = packer[i].request
    BY <1>1, OpenTemporaryFacts
  <1>4. /\ inodes' \in Seq(Inode) /\ DOMAIN inodes \subseteq DOMAIN inodes'
        /\ tmp' \in DOMAIN inodes' /\ tmp' # None
        /\ tmp # None => tmp' = tmp
        /\ tmp = None => tmp' \notin DOMAIN inodes /\ inodes'[tmp'] = Truncated(NewFile, i)
        /\ tmp # None => inodes'[tmp'] = Truncated(inodes[tmp], i)
        /\ \A n \in DOMAIN inodes \ {tmp} : inodes'[n] = inodes[n]
        /\ DOMAIN inodes' = DOMAIN inodes \cup {tmp'}
    BY <1>1, OpenTemporaryFacts
  <1>5. UNCHANGED <<repo, drop, puller, dest, troubled, opened>> /\ overlapped' = (overlapped \/ Busy(i))
    BY DEF OpenTemporary
  <1>6. overlapped' \in BOOLEAN /\ troubled' \in BOOLEAN
    BY <1>1, <1>5, TypeFacts, Zenon
  <1>7. drop \in DOMAIN inodes \cup {None}
    BY <1>1, TypeFacts
  <1>8. TypeOK'
    BY <1>1, <1>2, <1>3, <1>4, <1>5, <1>6, <1>7, PackTyped
  <1>9. PackerOK(i)'
    BY <1>1, <1>3, <1>4 DEF PackerOK
  <1>10. \A j \in Packers : PackerOK(j)'
    BY <1>3, <1>5, <1>9, PackerKept DEF PackerSide
  <1>11. ASSUME ~overlapped'
         PROVE  Alone'
    <2>1. Alone /\ \A j \in Packers \ {i} : packer[j].pc \notin Working
      BY <1>5, <1>11 DEF PackerSide, Busy, Working
    <2>2. \A j \in Packers : packer'[j].pc \in Working => j = i
      BY <2>1 , <1>3 DEF Others
    <2>3. \A n \in DOMAIN inodes : inodes[n].writers = {} /\ ~inodes[n].shared
      <3>1. ASSUME NEW n \in DOMAIN inodes, NEW j \in inodes[n].writers
            PROVE  FALSE
        <4>1. j \in Packers /\ packer[j].pc = "write"
          BY <1>1, <2>1, TypeFacts DEF Alone, Inode
        <4> QED
          BY <1>1, <2>1, <4>1 DEF Working
      <3> QED
        BY <2>1, <3>1 DEF Alone
    <2>4. drop # None => drop # tmp' /\ inodes'[drop] = inodes[drop]
      BY <1>4, <1>7, <2>1 DEF Alone
    <2>5. ~inodes'[tmp'].shared /\ inodes'[tmp'].writers = {i}
      <3>1. CASE tmp = None
        BY <1>4, <3>1, FreshFile
      <3>2. CASE tmp # None
        <4>1. tmp \in DOMAIN inodes
          BY <1>1, <3>2, TypeFacts
        <4>2. ~inodes[tmp].shared /\ inodes[tmp].writers = {}
          BY <2>3, <4>1
        <4>3. Truncated(inodes[tmp], i).writers = {i}
          BY <4>2 DEF Truncated
        <4>4. ~Truncated(inodes[tmp], i).shared
          BY <4>2 DEF Truncated
        <4> QED
          BY <1>4, <3>2, <4>3, <4>4
      <3> QED
        BY <3>1, <3>2
    <2>6. \A n \in DOMAIN inodes' : /\ ~inodes'[n].shared
                                    /\ \A j \in inodes'[n].writers : packer'[j].pc = "write" /\ packer'[j].fd = n
      <3>1. ASSUME NEW n \in DOMAIN inodes', n # tmp'
            PROVE  n \in DOMAIN inodes /\ inodes'[n] = inodes[n]
        <4>1. n \in DOMAIN inodes
          BY <1>4, <3>1
        <4>2. n # None
          BY <1>1, <4>1, TypeFacts
        <4> QED
          BY <1>4, <3>1, <4>1, <4>2
      <3> QED
        BY <1>3, <2>3, <2>5, <3>1
    <2>7. \A j \in Packers : /\ packer'[j].pc = "write" => packer'[j].fd = tmp'
                             /\ packer'[j].pc # "replace"
      BY <1>3, <2>2 DEF Working
    <2>8. (tmp' # None => tmp' # drop') /\ (drop' # None => inodes'[drop'].content # Torn)
      BY <1>5, <2>1, <2>4, <1>4 DEF Alone, AtDrop
    <2> QED
      BY <2>2, <2>6, <2>7, <2>8 DEF Alone, AtDrop
  <1> QED
    BY <1>5, <1>8, <1>10, <1>11 DEF PackKeeps

LEMMA WriteArchiveStep ==
    ASSUME PackerSide, NEW i \in Packers, WriteArchive(i)
    PROVE  PackKeeps
  <1>1. TypeOK /\ PackerOK(i) /\ packer[i].pc = "write"
    BY DEF PackerSide, WriteArchive
  <1>2. count' \in Counts
    BY <1>1, CountFacts DEF WriteArchive
  <1>3. /\ packer' \in [Packers -> Packing] /\ Others(i)
        /\ packer'[i].pc = "replace" /\ packer'[i].fd = None /\ packer'[i].request = packer[i].request
        /\ packer[i].fd \in DOMAIN inodes
        /\ ~inodes[packer[i].fd].shared => inodes'[packer[i].fd].content # Torn
    BY <1>1, WriteArchiveFacts
  <1>4. PICK content \in Archives \cup {Torn} : Closes(i, packer[i].fd, content)
    BY <1>1, WriteArchiveFacts
  <1>5. /\ inodes' \in Seq(Inode) /\ DOMAIN inodes' = DOMAIN inodes
        /\ \A m \in DOMAIN inodes : m # packer[i].fd => inodes'[m] = inodes[m]
        /\ \A m \in DOMAIN inodes : /\ inodes'[m].shared = inodes[m].shared
                                    /\ inodes'[m].writers \subseteq inodes[m].writers
        /\ i \notin inodes'[packer[i].fd].writers
    BY <1>1, <1>3, <1>4, CloseFacts
  <1>6. UNCHANGED <<repo, drop, tmp, puller, dest, overlapped, troubled, opened>>
    BY DEF WriteArchive
  <1>7. TypeOK'
    <2>1. drop \in DOMAIN inodes \cup {None} /\ tmp \in DOMAIN inodes \cup {None} /\ overlapped \in BOOLEAN /\ troubled \in BOOLEAN
      BY <1>1, TypeFacts
    <2> QED
      BY <1>1, <1>2, <1>3, <1>5, <1>6, <2>1, PackTyped
  <1>8. PackerOK(i)'
    BY <1>1, <1>3, <1>5, <1>6 DEF PackerOK
  <1>9. \A j \in Packers : PackerOK(j)'
    BY <1>3, <1>6, <1>8, PackerKept DEF PackerSide
  <1>10. ASSUME ~overlapped'
         PROVE  Alone'
    <2>1. Alone /\ \A j \in Packers \ {i} : packer[j].pc \notin Working
      BY <1>1, <1>6, <1>10 DEF PackerSide, Alone, Working
    <2>2. packer[i].fd = tmp /\ tmp # None /\ tmp # drop
      BY <1>1, <2>1 DEF Alone, PackerOK
    <2>3. \A j \in Packers : packer'[j].pc \in Working => j = i
      BY <1>3, <2>1 DEF Others
    <2>4. ASSUME NEW n \in DOMAIN inodes'
          PROVE  ~inodes'[n].shared /\ inodes'[n].writers = {}
      <3>1. n \in DOMAIN inodes /\ inodes'[n].writers \subseteq inodes[n].writers
        BY <1>5
      <3>2. ASSUME NEW j \in inodes'[n].writers
            PROVE  FALSE
        <4>1. j \in Packers /\ packer[j].pc = "write" /\ packer[j].fd = n
          BY <1>1, <2>1, <3>1, <3>2, TypeFacts DEF Alone, Inode
        <4>2. j = i
          BY <2>1, <4>1 DEF Working
        <4> QED
          BY <1>5, <3>2, <4>1, <4>2
      <3> QED
        BY <1>5, <2>1, <3>1, <3>2 DEF Alone
    <2>5. drop' # None => inodes'[drop'].content # Torn
      <3>1. drop \in DOMAIN inodes \cup {None}
        BY <1>1, TypeFacts
      <3> QED
        BY <1>5, <1>6, <2>1, <2>2, <3>1 DEF Alone, AtDrop
    <2>6. inodes'[tmp].content # Torn
      BY <1>3, <2>1, <2>2 DEF Alone
    <2>7. \A j \in Packers : /\ packer'[j].pc # "write"
                             /\ packer'[j].pc = "replace" => tmp' # None /\ inodes'[tmp'].content # Torn
      BY <1>3, <1>6, <2>2, <2>3, <2>6 DEF Working
    <2> QED
      BY <1>6, <2>2, <2>3, <2>4, <2>5, <2>7 DEF Alone, AtDrop
  <1> QED
    BY <1>6, <1>7, <1>9, <1>10 DEF PackKeeps

LEMMA WriteFailsStep ==
    ASSUME PackerSide, NEW i \in Packers, WriteFails(i)
    PROVE  PackKeeps
  <1>1. TypeOK /\ PackerOK(i) /\ packer[i].pc = "write"
    BY DEF PackerSide, WriteFails
  <1>2. count' \in Counts
    BY <1>1, CountFacts DEF WriteFails
  <1>3. /\ packer' \in [Packers -> Packing] /\ Others(i)
        /\ packer'[i].pc = "unlink" /\ packer'[i].fd = None /\ packer'[i].failed
        /\ packer'[i].request = packer[i].request
        /\ packer[i].fd \in DOMAIN inodes
        /\ Closes(i, packer[i].fd, Torn)
    BY <1>1, WriteFailsFacts
  <1>4. /\ inodes' \in Seq(Inode) /\ DOMAIN inodes' = DOMAIN inodes
        /\ \A m \in DOMAIN inodes : m # packer[i].fd => inodes'[m] = inodes[m]
        /\ \A m \in DOMAIN inodes : /\ inodes'[m].shared = inodes[m].shared
                                    /\ inodes'[m].writers \subseteq inodes[m].writers
        /\ i \notin inodes'[packer[i].fd].writers
    BY <1>1, <1>3, CloseFacts
  <1>5. UNCHANGED <<repo, drop, tmp, puller, dest, overlapped, opened>> /\ troubled' = TRUE
    BY DEF WriteFails
  <1>6. TypeOK'
    <2>1. drop \in DOMAIN inodes \cup {None} /\ tmp \in DOMAIN inodes \cup {None} /\ overlapped \in BOOLEAN /\ troubled \in BOOLEAN
      BY <1>1, TypeFacts
    <2> QED
      BY <1>1, <1>2, <1>3, <1>4, <1>5, <2>1, PackTyped
  <1>7. PackerOK(i)'
    BY <1>1, <1>3, <1>5 DEF PackerOK
  <1>8. \A j \in Packers : PackerOK(j)'
    BY <1>3, <1>5, <1>7, PackerKept DEF PackerSide
  <1>9. ASSUME ~overlapped'
        PROVE  Alone'
    <2>1. Alone /\ \A j \in Packers \ {i} : packer[j].pc \notin Working
      BY <1>1, <1>5, <1>9 DEF PackerSide, Alone, Working
    <2>2. packer[i].fd = tmp /\ tmp # None /\ tmp # drop
      BY <1>1, <2>1 DEF Alone, PackerOK
    <2>3. \A j \in Packers : packer'[j].pc \in Working => j = i
      BY <1>3, <2>1 DEF Others
    <2>4. ASSUME NEW n \in DOMAIN inodes'
          PROVE  ~inodes'[n].shared /\ inodes'[n].writers = {}
      <3>1. n \in DOMAIN inodes /\ inodes'[n].writers \subseteq inodes[n].writers
        BY <1>4
      <3>2. ASSUME NEW j \in inodes'[n].writers
            PROVE  FALSE
        <4>1. j \in Packers /\ packer[j].pc = "write" /\ packer[j].fd = n
          BY <1>1, <2>1, <3>1, <3>2, TypeFacts DEF Alone, Inode
        <4>2. j = i
          BY <2>1, <4>1 DEF Working
        <4> QED
          BY <1>4, <3>2, <4>1, <4>2
      <3> QED
        BY <1>4, <2>1, <3>1, <3>2 DEF Alone
    <2>5. drop' # None => inodes'[drop'].content # Torn
      <3>1. drop \in DOMAIN inodes \cup {None}
        BY <1>1, TypeFacts
      <3> QED
        BY <1>4, <1>5, <2>1, <2>2, <3>1 DEF Alone, AtDrop
    <2>6. \A j \in Packers : packer'[j].pc \notin {"write", "replace"}
      BY <1>3, <2>3 DEF Working
    <2> QED
      BY <1>5, <2>2, <2>3, <2>4, <2>5, <2>6 DEF Alone, AtDrop
  <1> QED
    BY <1>5, <1>6, <1>8, <1>9 DEF PackKeeps

LEMMA ReplaceDropStep ==
    ASSUME PackerSide, NEW i \in Packers, ReplaceDrop(i)
    PROVE  PackKeeps
  <1>1. TypeOK /\ PackerOK(i) /\ packer[i].pc = "replace"
    BY DEF PackerSide, ReplaceDrop
  <1>2. count' \in Counts
    BY <1>1, CountFacts DEF ReplaceDrop
  <1>3. /\ packer' \in [Packers -> Packing] /\ Others(i)
        /\ packer'[i].pc = "unlink" /\ packer'[i].fd = packer[i].fd
        /\ packer'[i].request = packer[i].request
        /\ packer'[i].failed = (tmp = None)
    BY <1>1, ReplaceDropFacts
  <1>4. /\ drop' = IF tmp = None THEN drop ELSE tmp
        /\ tmp' = None
        /\ UNCHANGED <<repo, inodes, puller, dest, overlapped, opened>>
        /\ troubled' \in BOOLEAN
    BY DEF ReplaceDrop
  <1>5. drop \in DOMAIN inodes \cup {None} /\ tmp \in DOMAIN inodes \cup {None}
    BY <1>1, TypeFacts
  <1>6. TypeOK'
    <2>1. inodes \in Seq(Inode) /\ packer[i].fd \in DOMAIN inodes \cup {None} /\ overlapped \in BOOLEAN /\ troubled \in BOOLEAN
      BY <1>1, TypeFacts
    <2>2. drop' \in DOMAIN inodes' \cup {None} /\ tmp' \in DOMAIN inodes' \cup {None}
      BY <1>4, <1>5
    <2> QED
      BY <1>1, <1>2, <1>3, <1>4, <2>1, <2>2, PackTyped
  <1>7. tmp # None => drop' # None
    BY <1>4
  <1>8. drop # None => drop' # None
    BY <1>4
  <1>9. PackerOK(i)'
    BY <1>1, <1>3, <1>7 DEF PackerOK
  <1>10. \A j \in Packers : PackerOK(j)'
    BY <1>3, <1>8, <1>9, PackerKept DEF PackerSide
  <1>11. ASSUME ~overlapped'
         PROVE  Alone'
    <2>1. Alone /\ \A j \in Packers \ {i} : packer[j].pc \notin Working
      BY <1>1, <1>4, <1>11 DEF PackerSide, Alone, Working
    <2>2. tmp # None /\ inodes[tmp].content # Torn /\ drop' = tmp
      BY <1>1, <1>4, <2>1 DEF Alone
    <2>3. \A j \in Packers : packer'[j].pc \in Working => j = i
      BY <1>3, <2>1 DEF Others
    <2>4. ASSUME NEW n \in DOMAIN inodes'
          PROVE  ~inodes'[n].shared /\ inodes'[n].writers = {}
      <3>1. n \in DOMAIN inodes /\ inodes'[n].writers = inodes[n].writers /\ inodes'[n].shared = inodes[n].shared
        BY <1>4
      <3>2. ASSUME NEW j \in inodes[n].writers
            PROVE  FALSE
        <4>1. j \in Packers /\ packer[j].pc = "write"
          BY <1>1, <2>1, <3>1, <3>2, TypeFacts DEF Alone, Inode
        <4> QED
          BY <1>1, <2>1, <4>1 DEF Working
      <3> QED
        BY <2>1, <3>1, <3>2 DEF Alone
    <2>5. \A j \in Packers : packer'[j].pc \notin {"write", "replace"}
      BY <1>3, <2>3 DEF Working
    <2> QED
      BY <1>4, <2>2, <2>3, <2>4, <2>5 DEF Alone, AtDrop
  <1> QED
    BY <1>4, <1>6, <1>8, <1>10, <1>11 DEF PackKeeps

LEMMA UnlinkStep ==
    ASSUME PackerSide, NEW i \in Packers, Unlink(i)
    PROVE  PackKeeps
  <1>1. TypeOK /\ PackerOK(i) /\ packer[i].pc = "unlink"
    BY DEF PackerSide, Unlink
  <1>2. count' \in Counts
    BY <1>1, CountFacts DEF Unlink
  <1>3. /\ packer' \in [Packers -> Packing] /\ Others(i)
        /\ packer'[i].pc \in {"idle", "check"} /\ packer'[i].fd \in {packer[i].fd, None}
        /\ packer'[i].pc = "check" => packer'[i].request = packer[i].request /\ ~packer[i].failed
    BY <1>1, UnlinkFacts
  <1>4. tmp' = None /\ UNCHANGED <<repo, drop, inodes, puller, dest, overlapped, troubled, opened>>
    BY DEF Unlink
  <1>5. TypeOK'
    <2>1. /\ inodes \in Seq(Inode) /\ packer[i].fd \in DOMAIN inodes \cup {None} /\ overlapped \in BOOLEAN
          /\ drop \in DOMAIN inodes \cup {None} /\ troubled \in BOOLEAN
      BY <1>1, TypeFacts
    <2>2. drop' \in DOMAIN inodes' \cup {None} /\ tmp' \in DOMAIN inodes' \cup {None}
      BY <1>4, <2>1
    <2> QED
      BY <1>1, <1>2, <1>3, <1>4, <2>1, <2>2, PackTyped
  <1>6. PackerOK(i)'
    BY <1>1, <1>3, <1>4 DEF PackerOK
  <1>7. \A j \in Packers : PackerOK(j)'
    BY <1>3, <1>4, <1>6, PackerKept DEF PackerSide
  <1>8. ASSUME ~overlapped'
        PROVE  Alone'
    <2>1. Alone /\ \A j \in Packers \ {i} : packer[j].pc \notin Working
      BY <1>1, <1>4, <1>8 DEF PackerSide, Alone, Working
    <2>2. \A j \in Packers : packer'[j].pc \notin Working
      BY <1>3, <2>1 DEF Others, Working
    <2>3. ASSUME NEW n \in DOMAIN inodes'
          PROVE  ~inodes'[n].shared /\ inodes'[n].writers = {}
      <3>1. n \in DOMAIN inodes /\ inodes'[n].writers = inodes[n].writers /\ inodes'[n].shared = inodes[n].shared
        BY <1>4
      <3>2. ASSUME NEW j \in inodes[n].writers
            PROVE  FALSE
        <4>1. j \in Packers /\ packer[j].pc = "write"
          BY <1>1, <2>1, <3>1, <3>2, TypeFacts DEF Alone, Inode
        <4> QED
          BY <1>1, <2>1, <4>1 DEF Working
      <3> QED
        BY <2>1, <3>1, <3>2 DEF Alone
    <2>4. drop' # None => inodes'[drop'].content # Torn
      BY <1>4, <2>1 DEF Alone, AtDrop
    <2> QED
      BY <1>4, <2>2, <2>3, <2>4 DEF Alone, AtDrop, Working
  <1> QED
    BY <1>4, <1>5, <1>7, <1>8 DEF PackKeeps

LEMMA PackerDiesStep ==
    ASSUME PackerSide, NEW i \in Packers, PackerDies(i)
    PROVE  PackKeeps
  <1>1. TypeOK
    BY DEF PackerSide
  <1>2. count' \in Counts
    BY <1>1, CountFacts DEF PackerDies
  <1>3. /\ packer' \in [Packers -> Packing] /\ Others(i) /\ packer'[i] = Idle
        /\ inodes' \in Seq(Inode) /\ DOMAIN inodes' = DOMAIN inodes
        /\ \A m \in DOMAIN inodes : /\ inodes'[m].content = inodes[m].content
                                    /\ inodes'[m].shared = inodes[m].shared
                                    /\ inodes'[m].writers = inodes[m].writers \ {i}
    BY <1>1, PackerDiesFacts
  <1>4. UNCHANGED <<repo, drop, tmp, puller, dest, overlapped, opened>> /\ troubled' \in BOOLEAN
    BY DEF PackerDies
  <1>5. drop \in DOMAIN inodes \cup {None} /\ tmp \in DOMAIN inodes \cup {None} /\ overlapped \in BOOLEAN /\ troubled \in BOOLEAN
    BY <1>1, TypeFacts
  <1>6. TypeOK'
    BY <1>1, <1>2, <1>3, <1>4, <1>5, IdleFacts, PackTyped
  <1>7. PackerOK(i)'
    BY <1>3, IdleFacts DEF PackerOK
  <1>8. \A j \in Packers : PackerOK(j)'
    BY <1>3, <1>4, <1>7, PackerKept DEF PackerSide
  <1>9. ASSUME ~overlapped'
        PROVE  Alone'
    <2>1. Alone
      BY <1>4, <1>9 DEF PackerSide
    <2>2. \A j, k \in Packers : packer'[j].pc \in Working /\ packer'[k].pc \in Working => j = k
      BY <1>3, <2>1, IdleFacts DEF Alone, Others, Working
    <2>3. (tmp' # None => tmp' # drop') /\ (drop' # None => inodes'[drop'].content # Torn)
      BY <1>3, <1>4, <1>5, <2>1 DEF Alone, AtDrop
    <2>4. ASSUME NEW j \in Packers
          PROVE  /\ packer'[j].pc = "write" => packer'[j].fd = tmp'
                 /\ packer'[j].pc = "replace" => tmp' # None /\ inodes'[tmp'].content # Torn
      <3>1. CASE j = i
        BY <1>3, <3>1, IdleFacts
      <3>2. CASE j # i
        BY <1>3, <1>4, <1>5, <2>1, <3>2 DEF Alone, Others
      <3> QED
        BY <3>1, <3>2
    <2>5. ASSUME NEW n \in DOMAIN inodes'
          PROVE  /\ ~inodes'[n].shared
                 /\ \A j \in inodes'[n].writers : packer'[j].pc = "write" /\ packer'[j].fd = n
      <3>1. n \in DOMAIN inodes /\ inodes[n].writers \subseteq Packers
        BY <1>1, <1>3, TypeFacts DEF Inode
      <3> QED
        BY <1>3, <2>1, <3>1 DEF Alone, Others
    <2> QED
      BY <2>2, <2>3, <2>4, <2>5 DEF Alone, AtDrop
  <1> QED
    BY <1>4, <1>6, <1>8, <1>9 DEF PackKeeps

LEMMA PackStep ==
    ASSUME PackerSide, NEW i \in Packers, Pack(i)
    PROVE  PackKeeps
  BY BeginPackStep, StagePartStep, OpenTemporaryStep, WriteArchiveStep, WriteFailsStep, ReplaceDropStep,
     UnlinkStep, PublishStep, PackerDiesStep DEF Pack

-----------------------------------------------------------------------------
(* Pulling and installing *)

PullerSide ==
    /\ TypeOK
    /\ \A u \in Pullers : PullerOK(u)
    /\ EarlyOK
    /\ OriginOK

\* What a step of a puller keeps, and that packers do not see it.
PullKeeps ==
    /\ TypeOK'
    /\ \A u \in Pullers : PullerOK(u)'
    /\ EarlyOK'
    /\ OriginOK'
    /\ UNCHANGED <<drop, tmp, inodes, packer, overlapped, troubled>>

Rest(u) == \A v \in Pullers \ {u} : puller'[v] = puller[v]

LEMMA PullerSet ==
    ASSUME TypeOK, NEW u \in Pullers, NEW w \in Pulling, puller' = [puller EXCEPT ![u] = w]
    PROVE  puller' \in [Pullers -> Pulling] /\ puller'[u] = w /\ Rest(u)
  <1> puller \in [Pullers -> Pulling]
    BY DEF TypeOK
  <1> QED
    BY DEF Rest

LEMMA PullerFacts ==
    ASSUME TypeOK, NEW u \in Pullers
    PROVE  puller \in [Pullers -> Pulling] /\ puller[u] \in Pulling
  BY DEF TypeOK

\* What lies at the drop, and what a puller's path leads to.
LEMMA LocatedFacts ==
    ASSUME TypeOK, NEW u \in Pullers, drop # None
    PROVE  AtDrop \in Archives \cup {Torn} /\ Located(u) \in Archives \cup {Torn}
  <1>1. inodes[drop] \in Inode
    BY TypeFacts
  <1>2. AtDrop \in Archives \cup {Torn}
    BY <1>1 DEF AtDrop, Inode
  <1>3. puller[u].download \in Archives \cup {Torn, None}
    BY PullerFacts DEF Pulling
  <1> QED
    BY <1>2, <1>3 DEF Located

LEMMA RestingFacts ==
    Resting \in Pulling /\ Resting.pc = "idle" /\ Resting.copied = {}
  BY DEF Resting, Pulling

\* A directory is not None; a part may be put in it.
LEMMA DirectoryFacts ==
    ASSUME NEW d, IsDirectory(d)
    PROVE  d # None
  <1>1. d \in [DOMAIN d -> UNION {Contents(part) : part \in DOMAIN d}]
    BY DEF IsDirectory
  <1>2. DOMAIN d \in SUBSET Parts
    BY DEF IsDirectory
  <1> QED
    BY <1>1, <1>2, ValuesAssumption

LEMMA EmptyDirectory == IsDirectory(<<>>) /\ DOMAIN <<>> = {}
  <1>1. DOMAIN <<>> = {}
    OBVIOUS
  <1>2. <<>> = [part \in DOMAIN <<>> |-> <<>>[part]]
    OBVIOUS
  <1> QED
    BY <1>1, <1>2 DEF IsDirectory

LEMMA PutDirectory ==
    ASSUME NEW d, IsDirectory(d), NEW part \in Parts, NEW v \in Contents(part)
    PROVE  IsDirectory(Put(d, part, v))
  <1> DEFINE e == Put(d, part, v)
  <1>1. DOMAIN e = DOMAIN d \cup {part}
    BY PutFacts
  <1>2. e = [p \in DOMAIN e |-> e[p]]
    BY DEF Put
  <1>3. \A p \in DOMAIN e : e[p] \in Contents(p)
    BY DEF Put, IsDirectory
  <1>4. DOMAIN d \subseteq Parts
    BY DEF IsDirectory
  <1> HIDE DEF e
  <1>5. IsDirectory(e)
    BY <1>1, <1>2, <1>3, <1>4 DEF IsDirectory
  <1> QED
    BY <1>5 DEF e

LEMMA BeforeFacts ==
    ASSUME TypeOK
    PROVE  /\ IsDirectory(Before)
           /\ dest # None => Before = dest
           /\ dest \in {None, <<>>} => Before = <<>>
  BY EmptyDirectory DEF TypeOK, Before

LEMMA PullTyped ==
    ASSUME TypeOK, puller' \in [Pullers -> Pulling], dest' # None => IsDirectory(dest'),
           count' \in Counts, opened' \subseteq Archives,
           UNCHANGED <<repo, drop, tmp, inodes, packer, overlapped, troubled>>
    PROVE  TypeOK'
  BY DEF TypeOK, Counts

\* A step of a puller that changes no part of the destination.
LEMMA PullQuiet ==
    ASSUME PullerSide, NEW u \in Pullers,
           puller' \in [Pullers -> Pulling], Rest(u), PullerOK(u)',
           puller'[u].pc = "copy" => puller[u].pc = "copy" \/ Before = <<>>,
           dest' = dest \/ (dest \in {None, <<>>} /\ dest' \in {None, <<>>}),
           opened \subseteq opened', opened' \subseteq Archives, count' \in Counts,
           UNCHANGED <<repo, drop, tmp, inodes, packer, overlapped, troubled>>
    PROVE  PullKeeps
  <1>1. (dest' # None => IsDirectory(dest')) /\ Before' = Before
    BY EmptyDirectory DEF PullerSide, TypeOK, Before
  <1>2. TypeOK'
    BY <1>1, PullTyped DEF PullerSide
  <1>3. ASSUME NEW v \in Pullers, v # u
        PROVE  PullerOK(v)'
    <2>1. PullerOK(v) /\ puller'[v] = puller[v]
      BY <1>3 DEF PullerSide, Rest
    <2> QED
      BY <1>1, <2>1 DEF PullerOK
  <1>4. EarlyOK'
    <2>1. Copying' => Copying \/ Before = <<>>
      BY DEF Copying, Rest
    <2>2. Before = <<>> => DOMAIN Before = {}
      BY EmptyDirectory
    <2> QED
      BY <1>1, <2>1, <2>2 DEF PullerSide, EarlyOK
  <1>5. OriginOK'
    BY <1>1 DEF PullerSide, OriginOK
  <1> QED
    BY <1>2, <1>3, <1>4, <1>5 DEF PullKeeps

\* Giving up, being done, dying.
LEMMA RestStep ==
    ASSUME PullerSide, NEW u \in Pullers, puller' = [puller EXCEPT ![u] = Resting],
           UNCHANGED <<repo, drop, tmp, inodes, packer, dest, overlapped, troubled, opened>>, count' \in Counts
    PROVE  PullKeeps
  <1>1. puller' \in [Pullers -> Pulling] /\ puller'[u] = Resting /\ Rest(u)
    BY RestingFacts, PullerSet DEF PullerSide
  <1>2. PullerOK(u)'
    BY <1>1, RestingFacts DEF PullerOK
  <1>3. opened \subseteq Archives
    BY DEF PullerSide, TypeOK
  <1> QED
    BY <1>1, <1>2, <1>3, RestingFacts, PullQuiet

LEMMA FailsStep ==
    ASSUME PullerSide, NEW u \in Pullers, Fails(u)
    PROVE  PullKeeps
  BY RestStep, CountFacts DEF Fails, PullerSide

LEMMA LocateStep ==
    ASSUME PullerSide, NEW u \in Pullers, NEW command \in {"pull", "install"}, NEW download \in BOOLEAN,
           Locate(u, command, download)
    PROVE  PullKeeps
  <1>1. TypeOK /\ drop # None
    BY DEF PullerSide, Locate
  <1>2. count' \in Counts
    BY <1>1, CountFacts DEF Locate
  <1> DEFINE pc == IF command = "pull" THEN "check" ELSE "test"
  <1>3. PICK there \in Archives \cup {Torn, None} : there = IF download THEN AtDrop ELSE None
    BY <1>1, LocatedFacts
  <1> DEFINE w == [Resting EXCEPT !.pc = pc, !.command = command, !.download = there]
  <1>4. w \in Pulling /\ w.pc = pc /\ w.command = command /\ w.copied = {}
    BY DEF Resting, Pulling
  <1>5. puller' = [puller EXCEPT ![u] = w]
    BY <1>3 DEF Locate
  <1> HIDE DEF w
  <1>6. puller' \in [Pullers -> Pulling] /\ puller'[u] = w /\ Rest(u)
    BY <1>1, <1>4, <1>5, PullerSet
  <1>7. UNCHANGED <<repo, drop, tmp, inodes, packer, dest, overlapped, troubled, opened>>
    BY DEF Locate
  <1>8. PullerOK(u)'
    BY <1>1, <1>4, <1>6, <1>7 DEF PullerOK
  <1>9. puller'[u].pc # "copy" /\ opened \subseteq Archives
    BY <1>1, <1>4, <1>6 DEF TypeOK
  <1> QED
    BY <1>2, <1>6, <1>7, <1>8, <1>9, PullQuiet

\* A puller's next step, with nothing else changed in what it has.
LEMMA StepFacts ==
    ASSUME TypeOK, NEW u \in Pullers, NEW from, NEW to \in {"test", "open", "mkdir", "copy"}, Step(u, from, to)
    PROVE  /\ puller' \in [Pullers -> Pulling] /\ Rest(u)
           /\ puller[u].pc = from /\ puller'[u].pc = to
           /\ puller'[u].command = puller[u].command /\ puller'[u].checked = puller[u].checked
           /\ puller'[u].opened = puller[u].opened /\ puller'[u].copied = puller[u].copied
           /\ puller'[u].failed = puller[u].failed
  <1> DEFINE w == [puller[u] EXCEPT !.pc = to]
  <1>1. /\ w \in Pulling /\ w.pc = to /\ w.command = puller[u].command /\ w.checked = puller[u].checked
        /\ w.opened = puller[u].opened /\ w.copied = puller[u].copied /\ w.failed = puller[u].failed
    BY PullerFacts DEF Pulling
  <1>2. puller' = [puller EXCEPT ![u] = w]
    BY DEF Step
  <1> HIDE DEF w
  <1>3. puller' \in [Pullers -> Pulling] /\ puller'[u] = w /\ Rest(u)
    BY <1>1, <1>2, PullerSet
  <1> QED
    BY <1>1, <1>3 DEF Step

LEMMA CheckArchiveStep ==
    ASSUME PullerSide, NEW u \in Pullers, CheckArchive(u)
    PROVE  PullKeeps
  <1>1. TypeOK /\ PullerOK(u) /\ puller[u].pc = "check"
    BY DEF PullerSide, CheckArchive
  <1>2. CASE Checks(Located(u), "specialist") /\ ~Fails(u)
    <2>1. /\ puller' = [puller EXCEPT ![u].pc = "test", ![u].checked = Located(u)]
          /\ UNCHANGED <<repo, drop, tmp, inodes, packer, dest, count, overlapped, troubled, opened>>
      BY <1>2 DEF CheckArchive
    <2>2. PICK a \in Archives : a = Located(u)
      BY <1>1, <1>2, LocatedFacts DEF PullerOK, Checks, Opens
    <2> DEFINE w == [puller[u] EXCEPT !.pc = "test", !.checked = a]
    <2>3. w \in Pulling /\ w.pc = "test" /\ w.checked = a /\ w.copied = puller[u].copied
      BY <1>1, PullerFacts DEF Pulling
    <2>4. puller' = [puller EXCEPT ![u] = w]
      BY <2>1, <2>2
    <2> HIDE DEF w
    <2>5. puller' \in [Pullers -> Pulling] /\ puller'[u] = w /\ Rest(u)
      BY <1>1, <2>3, <2>4, PullerSet
    <2>6. PullerOK(u)'
      BY <1>1, <1>2, <2>1, <2>2, <2>3, <2>5 DEF PullerOK
    <2>7. count' \in Counts /\ opened \subseteq Archives
      BY <1>1, <2>1, CountFacts DEF TypeOK
    <2> QED
      BY <2>1, <2>3, <2>5, <2>6, <2>7, PullQuiet
  <1> QED
    BY <1>2, FailsStep DEF CheckArchive

LEMMA TestEmptyStep ==
    ASSUME PullerSide, NEW u \in Pullers, TestEmpty(u)
    PROVE  PullKeeps
  <1>1. CASE Step(u, "test", "open") /\ UNCHANGED <<repo, drop, tmp, inodes, packer, dest, count, overlapped, troubled, opened>>
    <2>1. TypeOK /\ PullerOK(u) /\ opened \subseteq Archives
      BY DEF PullerSide, TypeOK
    <2>2. /\ puller' \in [Pullers -> Pulling] /\ Rest(u)
          /\ puller[u].pc = "test" /\ puller'[u].pc = "open"
          /\ puller'[u].command = puller[u].command /\ puller'[u].checked = puller[u].checked
          /\ puller'[u].copied = puller[u].copied
      BY <1>1, <2>1, StepFacts
    <2>3. PullerOK(u)'
      BY <1>1, <2>1, <2>2 DEF PullerOK
    <2>4. count' \in Counts
      BY <1>1, <2>1, CountFacts
    <2> QED
      BY <1>1, <2>1, <2>2, <2>3, <2>4, PullQuiet
  <1> QED
    BY <1>1, FailsStep DEF TestEmpty

LEMMA OpenArchiveStep ==
    ASSUME PullerSide, NEW u \in Pullers, OpenArchive(u)
    PROVE  PullKeeps
  <1>1. TypeOK /\ PullerOK(u) /\ puller[u].pc = "open" /\ opened \subseteq Archives
    BY DEF PullerSide, OpenArchive, TypeOK
  <1>2. CASE Opens(Located(u)) /\ ~Fails(u)
    <2>1. /\ puller' = [puller EXCEPT ![u].pc = "rmdir", ![u].opened = Located(u)]
          /\ opened' = opened \cup {Located(u)}
          /\ UNCHANGED <<repo, drop, tmp, inodes, packer, dest, count, overlapped, troubled>>
      BY <1>2 DEF OpenArchive
    <2>2. PICK a \in Archives : a = Located(u)
      BY <1>1, <1>2, LocatedFacts DEF PullerOK, Opens
    <2> DEFINE w == [puller[u] EXCEPT !.pc = "rmdir", !.opened = a]
    <2>3. /\ w \in Pulling /\ w.pc = "rmdir" /\ w.opened = a /\ w.command = puller[u].command
          /\ w.checked = puller[u].checked /\ w.copied = puller[u].copied
      BY <1>1, PullerFacts DEF Pulling
    <2>4. puller' = [puller EXCEPT ![u] = w]
      BY <2>1, <2>2
    <2> HIDE DEF w
    <2>5. puller' \in [Pullers -> Pulling] /\ puller'[u] = w /\ Rest(u)
      BY <1>1, <2>3, <2>4, PullerSet
    <2>6. a \in opened' /\ opened \subseteq opened' /\ opened' \subseteq Archives
      BY <1>1, <2>1, <2>2
    <2>7. PullerOK(u)'
      BY <1>1, <1>2, <2>1, <2>2, <2>3, <2>5, <2>6 DEF PullerOK
    <2>8. count' \in Counts
      BY <1>1, <2>1, CountFacts
    <2> QED
      BY <2>1, <2>3, <2>5, <2>6, <2>7, <2>8, PullQuiet
  <1> QED
    BY <1>2, FailsStep DEF OpenArchive

LEMMA RemoveEmptyStep ==
    ASSUME PullerSide, NEW u \in Pullers, RemoveEmpty(u)
    PROVE  PullKeeps
  <1>1. CASE /\ dest \in {None, <<>>} /\ Step(u, "rmdir", "mkdir") /\ dest' = None
             /\ UNCHANGED <<repo, drop, tmp, inodes, packer, count, overlapped, troubled, opened>>
    <2>1. TypeOK /\ PullerOK(u) /\ opened \subseteq Archives
      BY DEF PullerSide, TypeOK
    <2>2. /\ puller' \in [Pullers -> Pulling] /\ Rest(u)
          /\ puller[u].pc = "rmdir" /\ puller'[u].pc = "mkdir"
          /\ puller'[u].command = puller[u].command /\ puller'[u].checked = puller[u].checked
          /\ puller'[u].opened = puller[u].opened /\ puller'[u].copied = puller[u].copied
      BY <1>1, <2>1, StepFacts
    <2>3. PullerOK(u)'
      BY <1>1, <2>1, <2>2 DEF PullerOK
    <2>4. count' \in Counts
      BY <1>1, <2>1, CountFacts
    <2> QED
      BY <1>1, <2>1, <2>2, <2>3, <2>4, PullQuiet
  <1> QED
    BY <1>1, FailsStep DEF RemoveEmpty

LEMMA MakeDirectoryStep ==
    ASSUME PullerSide, NEW u \in Pullers, MakeDirectory(u)
    PROVE  PullKeeps
  <1>1. CASE /\ dest = None /\ Step(u, "mkdir", "copy") /\ dest' = <<>>
             /\ UNCHANGED <<repo, drop, tmp, inodes, packer, count, overlapped, troubled, opened>>
    <2>1. TypeOK /\ PullerOK(u) /\ opened \subseteq Archives
      BY DEF PullerSide, TypeOK
    <2>2. /\ puller' \in [Pullers -> Pulling] /\ Rest(u)
          /\ puller[u].pc = "mkdir" /\ puller'[u].pc = "copy"
          /\ puller'[u].command = puller[u].command /\ puller'[u].checked = puller[u].checked
          /\ puller'[u].opened = puller[u].opened /\ puller'[u].copied = puller[u].copied
      BY <1>1, <2>1, StepFacts
    <2>3. puller[u].copied = {}
      BY <2>1, <2>2 DEF PullerOK
    <2>4. PullerOK(u)'
      BY <1>1, <2>1, <2>2, <2>3 DEF PullerOK
    <2>5. Before = <<>>
      BY <1>1 DEF Before
    <2>6. count' \in Counts
      BY <1>1, <2>1, CountFacts
    <2> QED
      BY <1>1, <2>1, <2>2, <2>4, <2>5, <2>6, PullQuiet
  <1> QED
    BY <1>1, FailsStep DEF MakeDirectory

\* One part is copied, or found impossible.
LEMMA CopyPartFacts ==
    ASSUME PullerSide, NEW u \in Pullers, CopyPart(u)
    PROVE  \E a \in opened : \E part \in DOMAIN Copies(a) :
              /\ puller[u].opened = a /\ a \in Archives /\ part \notin puller[u].copied
              /\ dest' = IF Possible(part) THEN Put(Before, part, Copies(a)[part]) ELSE dest
              /\ puller' \in [Pullers -> Pulling] /\ Rest(u)
              /\ puller[u].pc = "copy" /\ puller'[u].pc = "copy"
              /\ puller'[u].command = puller[u].command /\ puller'[u].checked = puller[u].checked
              /\ puller'[u].opened = a /\ puller'[u].copied = puller[u].copied \cup {part}
              /\ ~puller'[u].failed => ~puller[u].failed /\ Possible(part)
  <1>1. TypeOK /\ PullerOK(u) /\ puller[u].pc = "copy" /\ opened \subseteq Archives
    BY DEF PullerSide, CopyPart, TypeOK
  <1>2. PICK a \in opened : a = puller[u].opened
    BY <1>1 DEF PullerOK
  <1>3. PICK part \in DOMAIN Copies(a) \ puller[u].copied :
            /\ dest' = IF Possible(part) THEN Put(Before, part, Copies(a)[part]) ELSE dest
            /\ puller' = [puller EXCEPT ![u].copied = @ \cup {part}, ![u].failed = @ \/ ~Possible(part)]
    BY <1>2 DEF CopyPart
  <1>4. part \in Parts
    BY <1>1, CopiesFacts
  <1>5. PICK failed \in BOOLEAN : failed = (puller[u].failed \/ ~Possible(part))
    BY Zenon
  <1> DEFINE w == [puller[u] EXCEPT !.copied = @ \cup {part}, !.failed = failed]
  <1>6. /\ w \in Pulling /\ w.pc = "copy" /\ w.command = puller[u].command /\ w.checked = puller[u].checked
        /\ w.opened = puller[u].opened /\ w.copied = puller[u].copied \cup {part} /\ w.failed = failed
    BY <1>1, <1>4, PullerFacts DEF Pulling
  <1>7. puller' = [puller EXCEPT ![u] = w]
    BY <1>3, <1>5
  <1> HIDE DEF w
  <1>8. puller' \in [Pullers -> Pulling] /\ puller'[u] = w /\ Rest(u)
    BY <1>1, <1>6, <1>7, PullerSet
  <1> QED
    BY <1>1, <1>2, <1>3, <1>5, <1>6, <1>8

LEMMA CopyPartStep ==
    ASSUME PullerSide, NEW u \in Pullers, CopyPart(u)
    PROVE  PullKeeps
  <1>1. TypeOK /\ PullerOK(u) /\ opened \subseteq Archives
    BY DEF PullerSide, TypeOK
  <1>2. UNCHANGED <<repo, drop, tmp, inodes, packer, count, overlapped, troubled, opened>>
    BY DEF CopyPart
  <1>3. PICK a \in opened : \E part \in DOMAIN Copies(a) :
            /\ puller[u].opened = a /\ a \in Archives /\ part \notin puller[u].copied
            /\ dest' = IF Possible(part) THEN Put(Before, part, Copies(a)[part]) ELSE dest
            /\ puller' \in [Pullers -> Pulling] /\ Rest(u)
            /\ puller[u].pc = "copy" /\ puller'[u].pc = "copy"
            /\ puller'[u].command = puller[u].command /\ puller'[u].checked = puller[u].checked
            /\ puller'[u].opened = a /\ puller'[u].copied = puller[u].copied \cup {part}
            /\ ~puller'[u].failed => ~puller[u].failed /\ Possible(part)
    BY CopyPartFacts
  <1>4. PICK part \in DOMAIN Copies(a) :
            /\ puller[u].opened = a /\ a \in Archives /\ part \notin puller[u].copied
            /\ dest' = IF Possible(part) THEN Put(Before, part, Copies(a)[part]) ELSE dest
            /\ puller' \in [Pullers -> Pulling] /\ Rest(u)
            /\ puller[u].pc = "copy" /\ puller'[u].pc = "copy"
            /\ puller'[u].command = puller[u].command /\ puller'[u].checked = puller[u].checked
            /\ puller'[u].opened = a /\ puller'[u].copied = puller[u].copied \cup {part}
            /\ ~puller'[u].failed => ~puller[u].failed /\ Possible(part)
    BY <1>3
  <1>5. part \in Parts /\ Copies(a)[part] \in Contents(part) \ {Early}
    BY <1>4, CopiesFacts
  <1>6. Copying
    BY <1>4 DEF Copying
  <1>7. count' \in Counts
    BY <1>1, <1>2, CountFacts
  <1>8. IsDirectory(Before)
    BY <1>1, BeforeFacts
  <1>9. CASE ~Possible(part)
    <2>1. dest' = dest /\ puller'[u].failed
      BY <1>4, <1>9
    <2>2. PullerOK(u)'
      BY <1>1, <1>2, <1>4, <2>1 DEF PullerOK
    <2> QED
      BY <1>1, <1>2, <1>4, <1>7, <2>1, <2>2, PullQuiet
  <1>10. CASE Possible(part)
    <2>1. dest' = Put(Before, part, Copies(a)[part])
      BY <1>4, <1>10
    <2>2. IsDirectory(dest') /\ dest' # None
      BY <1>5, <1>8, <2>1, PutDirectory, DirectoryFacts
    <2>3. Before' = dest'
      BY <2>2 DEF Before
    <2>4. /\ DOMAIN Before' = DOMAIN Before \cup {part}
          /\ Before'[part] = Copies(a)[part]
          /\ \A p \in DOMAIN Before : p # part => Before'[p] = Before[p]
      BY <2>1, <2>3 DEF Put
    <2>5. TypeOK'
      BY <1>1, <1>2, <1>4, <1>7, <2>2, PullTyped
    <2>6. part # "manifest" => part \in DOMAIN a.files /\ Copies(a)[part] = a.files[part] /\ part \notin DOMAIN Before
      <3>1. part # "manifest" => part \notin DOMAIN Before
        BY <1>10 DEF Possible
      <3>2. /\ DOMAIN Copies(a) = DOMAIN a.files \cup {"manifest"}
            /\ \A p \in DOMAIN a.files : Copies(a)[p] = a.files[p]
        BY <1>4, CopiesFacts
      <3> QED
        BY <1>4, <3>1, <3>2
    <2>7. PullerOK(u)'
      <3>1. ~puller'[u].failed =>
                /\ puller'[u].copied \subseteq DOMAIN Before'
                /\ \A p \in puller'[u].copied \ {"manifest"} : Before'[p] \in {a.files[p], Late}
        BY <1>1, <1>4, <2>4, <2>6 DEF PullerOK
      <3> QED
        BY <1>1, <1>2, <1>4, <3>1 DEF PullerOK
    <2>8. ASSUME NEW v \in Pullers, v # u
          PROVE  PullerOK(v)'
      <3>1. PullerOK(v) /\ puller'[v] = puller[v]
        BY <1>4, <2>8 DEF PullerSide, Rest
      <3>2. puller[v].pc = "copy" /\ ~puller[v].failed =>
                /\ puller[v].copied \subseteq DOMAIN Before'
                /\ \A p \in puller[v].copied \ {"manifest"} : Before'[p] \in {puller[v].opened.files[p], Late}
        BY <2>4, <2>6, <3>1 DEF PullerOK
      <3> QED
        BY <1>2, <3>1, <3>2 DEF PullerOK
    <2>9. EarlyOK'
      <3>1. \A p \in DOMAIN Before : Before[p] # Early
        BY <1>6 DEF PullerSide, EarlyOK
      <3>2. \A p \in DOMAIN Before' : Before'[p] # Early
        BY <1>5, <2>4, <3>1
      <3> QED
        BY <3>2 DEF EarlyOK
    <2>10. OriginOK'
      <3>1. ASSUME NEW p \in DOMAIN Before'
            PROVE  \/ Before'[p] \in {Early, Late}
                   \/ \E b \in opened' : p \in DOMAIN Copies(b) /\ Before'[p] = Copies(b)[p]
        <4>1. CASE p = part
          BY <1>2, <2>4, <4>1
        <4>2. CASE p # part
          BY <1>2, <2>4, <3>1, <4>2 DEF PullerSide, OriginOK
        <4> QED
          BY <4>1, <4>2
      <3> QED
        BY <3>1 DEF OriginOK
    <2> QED
      BY <1>2, <2>5, <2>7, <2>8, <2>9, <2>10 DEF PullKeeps
  <1> QED
    BY <1>9, <1>10

LEMMA InstalledStep ==
    ASSUME PullerSide, NEW u \in Pullers, Installed(u) \/ InstallFails(u)
    PROVE  PullKeeps
  BY RestStep, FailsStep, CountFacts DEF Installed, InstallFails, PullerSide

LEMMA PullerDiesStep ==
    ASSUME PullerSide, NEW u \in Pullers, PullerDies(u)
    PROVE  PullKeeps
  BY RestStep, CountFacts DEF PullerDies, PullerSide

LEMMA PullStep ==
    ASSUME PullerSide, NEW u \in Pullers, Pull(u)
    PROVE  PullKeeps
  BY LocateStep, CheckArchiveStep, TestEmptyStep, OpenArchiveStep, RemoveEmptyStep, MakeDirectoryStep,
     CopyPartStep, InstalledStep, PullerDiesStep DEF Pull

-----------------------------------------------------------------------------
(* The environment *)

LEMMA EditStep ==
    ASSUME TypeOK, NEW f \in Edited, Edit(f)
    PROVE  TypeOK' /\ UNCHANGED <<drop, tmp, inodes, packer, puller, dest, overlapped, troubled, opened>>
  <1>1. f \in Files
    BY EditedAssumption
  <1>2. PICK value \in {None, count.edits + 1} \cup {Empty} : repo' = [repo EXCEPT ![f] = value]
    BY DEF Edit
  <1>3. count.edits \in 0..MaxEdits /\ MaxEdits \in Nat /\ count.edits < MaxEdits
    BY CountFacts, BoundsAssumption DEF Counts, Edit
  <1>4. value \in (0..MaxEdits) \cup {None, Empty}
    BY <1>2, <1>3
  <1>5. repo' \in [Files -> (0..MaxEdits) \cup {None, Empty}]
    BY <1>1, <1>2, <1>4 DEF TypeOK
  <1>6. count' \in Counts /\ UNCHANGED <<drop, tmp, inodes, packer, puller, dest, overlapped, troubled, opened>>
    BY CountFacts DEF Edit
  <1> QED
    BY <1>5, <1>6 DEF TypeOK, Counts

LEMMA WriteForeignStep ==
    ASSUME PullerSide, NEW part \in {"manifest", "persona"}, WriteForeign(part)
    PROVE  PullKeeps
  <1>1. TypeOK /\ opened \subseteq Archives
    BY DEF PullerSide, TypeOK
  <1>2. count' \in Counts /\ UNCHANGED <<repo, drop, tmp, inodes, packer, puller, overlapped, troubled, opened>>
    BY <1>1, CountFacts DEF WriteForeign
  <1>3. PICK v \in {Early, Late} : v = IF Copying THEN Late ELSE Early
    OBVIOUS
  <1>4. dest' = Put(Before, part, v)
    BY <1>3 DEF WriteForeign
  <1>5. part \in Parts /\ v \in Contents(part)
    BY <1>3, FieldFacts DEF Parts, Contents
  <1>6. IsDirectory(Before)
    BY <1>1, BeforeFacts
  <1>7. IsDirectory(dest') /\ dest' # None
    BY <1>4, <1>5, <1>6, PutDirectory, DirectoryFacts
  <1>8. Before' = dest'
    BY <1>7 DEF Before
  <1>9. /\ DOMAIN Before' = DOMAIN Before \cup {part}
        /\ Before'[part] = v
        /\ \A p \in DOMAIN Before : p # part => Before'[p] = Before[p]
    BY <1>4, <1>8 DEF Put
  <1>10. TypeOK'
    <2>1. puller' \in [Pullers -> Pulling]
      BY <1>1, <1>2 DEF TypeOK
    <2> QED
      BY <1>1, <1>2, <1>7, <2>1, PullTyped
  <1>11. Copying' = Copying
    BY <1>2 DEF Copying
  <1>12. ASSUME NEW u \in Pullers
         PROVE  PullerOK(u)'
    <2>1. PullerOK(u) /\ puller'[u] = puller[u]
      BY <1>2 DEF PullerSide
    <2>2. puller[u].pc = "copy" => v = Late
      BY <1>3 DEF Copying
    <2>3. puller[u].pc = "copy" /\ ~puller[u].failed =>
              /\ puller[u].copied \subseteq DOMAIN Before'
              /\ \A p \in puller[u].copied \ {"manifest"} : Before'[p] \in {puller[u].opened.files[p], Late}
      BY <1>9, <2>1, <2>2 DEF PullerOK
    <2> QED
      BY <1>2, <2>1, <2>3 DEF PullerOK
  <1>13. EarlyOK'
    <2>1. CASE Copying
      <3>1. \A p \in DOMAIN Before' : Before'[p] # Early
        BY <1>3, <1>9, <2>1, ValuesAssumption DEF PullerSide, EarlyOK
      <3> QED
        BY <3>1 DEF EarlyOK
    <2>2. CASE ~Copying
      BY <1>11, <2>2 DEF EarlyOK
    <2> QED
      BY <2>1, <2>2
  <1>14. OriginOK'
    <2>1. ASSUME NEW p \in DOMAIN Before'
          PROVE  \/ Before'[p] \in {Early, Late}
                 \/ \E b \in opened' : p \in DOMAIN Copies(b) /\ Before'[p] = Copies(b)[p]
      <3>1. CASE p = part
        BY <1>9, <3>1
      <3>2. CASE p # part
        BY <1>2, <1>9, <2>1, <3>2 DEF PullerSide, OriginOK
      <3> QED
        BY <3>1, <3>2
    <2> QED
      BY <2>1 DEF OriginOK
  <1> QED
    BY <1>2, <1>10, <1>12, <1>13, <1>14 DEF PullKeeps

-----------------------------------------------------------------------------
(* The invariant *)

LEMMA InitInvariant == Init => IInv
  <1> SUFFICES ASSUME Init
               PROVE  IInv
    OBVIOUS
  <1>1. MaxCalls \in Nat /\ MaxEdits \in Nat /\ MaxForeign \in Nat /\ MaxCrashes \in Nat
    BY BoundsAssumption
  <1>2. dest # None => IsDirectory(dest)
    BY EmptyDirectory DEF Init
  <1>3. inodes \in Seq(Inode) /\ DOMAIN inodes = {}
    BY DEF Init
  <1>4. TypeOK
    <2>1. \A i \in Packers : packer[i] = Idle
      BY DEF Init
    <2>2. packer \in [Packers -> Packing] /\ puller \in [Pullers -> Pulling]
      BY IdleFacts, RestingFacts DEF Init
    <2>3. repo \in [Files -> (0..MaxEdits) \cup {None, Empty}]
      BY <1>1 DEF Init
    <2>4. count \in Counts
      BY <1>1 DEF Init, Counts
    <2>5. inodes \in Seq([content : Archives \cup {Torn}, writers : SUBSET Packers, shared : BOOLEAN])
      BY <1>3 DEF Inode
    <2>6. \A i \in Packers : packer[i].fd \in DOMAIN inodes \cup {None}
      BY <2>1, IdleFacts
    <2>7. {drop, tmp} \subseteq DOMAIN inodes \cup {None}
      BY DEF Init
    <2>8. overlapped \in BOOLEAN /\ troubled \in BOOLEAN /\ opened \subseteq Archives
      BY DEF Init
    <2> QED
      BY <1>2, <2>2, <2>3, <2>4, <2>5, <2>6, <2>7, <2>8 DEF TypeOK, Counts
  <1>5. \A i \in Packers : packer[i].pc = "idle"
    BY IdleFacts DEF Init
  <1>6. \A u \in Pullers : puller[u].pc = "idle" /\ puller[u].copied = {}
    BY RestingFacts DEF Init
  <1>7. drop = None /\ tmp = None
    BY DEF Init
  <1>8. \A i \in Packers : PackerOK(i)
    BY <1>5 DEF PackerOK
  <1>9. Alone
    BY <1>3, <1>5, <1>7 DEF Alone, Working
  <1>10. \A u \in Pullers : PullerOK(u)
    BY <1>6 DEF PullerOK
  <1>11. DOMAIN Before = {}
    BY <1>4, BeforeFacts, EmptyDirectory DEF Init
  <1>12. EarlyOK /\ OriginOK
    BY <1>11 DEF EarlyOK, OriginOK
  <1> QED
    BY <1>4, <1>8, <1>9, <1>10, <1>12 DEF IInv

LEMMA NextInvariant == IInv /\ [Next]_vars => IInv'
  <1> SUFFICES ASSUME IInv, [Next]_vars
               PROVE  IInv'
    OBVIOUS
  <1>1. PackerSide /\ PullerSide
    BY DEF IInv, PackerSide, PullerSide
  <1>2. ASSUME NEW i \in Packers, Pack(i)
        PROVE  IInv'
    <2>1. PackKeeps
      BY <1>1, <1>2, PackStep
    <2>2. Before' = Before /\ Copying' = Copying
      BY <2>1 DEF PackKeeps, Before, Copying
    <2>3. ASSUME NEW u \in Pullers
          PROVE  PullerOK(u)'
      <3>1. PullerOK(u)
        BY DEF IInv
      <3> QED
        BY <2>1, <2>2, <3>1 DEF PackKeeps, PullerOK
    <2>4. EarlyOK' /\ OriginOK'
      BY <2>1, <2>2 DEF IInv, PackKeeps, EarlyOK, OriginOK
    <2> QED
      BY <2>1, <2>3, <2>4 DEF IInv, PackKeeps
  <1>3. ASSUME PullKeeps
        PROVE  IInv'
    <2>1. \A i \in Packers : PackerOK(i)'
      BY <1>3 DEF IInv, PullKeeps, PackerOK
    <2>2. ~overlapped' => Alone'
      BY <1>3 DEF IInv, PullKeeps, Alone, AtDrop
    <2> QED
      BY <1>3, <2>1, <2>2 DEF IInv, PullKeeps
  <1>4. ASSUME TypeOK', UNCHANGED <<drop, tmp, inodes, packer, puller, dest, overlapped, troubled, opened>>
        PROVE  IInv'
    <2>1. Before' = Before /\ Copying' = Copying
      BY <1>4 DEF Before, Copying
    <2>2. ASSUME NEW u \in Pullers
          PROVE  PullerOK(u)'
      <3>1. PullerOK(u)
        BY DEF IInv
      <3> QED
        BY <1>4, <2>1, <3>1 DEF PullerOK
    <2>3. EarlyOK' /\ OriginOK'
      BY <1>4, <2>1 DEF IInv, EarlyOK, OriginOK
    <2>4. \A i \in Packers : PackerOK(i)'
      BY <1>4 DEF IInv, PackerOK
    <2>5. ~overlapped' => Alone'
      BY <1>4 DEF IInv, Alone, AtDrop
    <2> QED
      BY <1>4, <2>2, <2>3, <2>4, <2>5 DEF IInv
  <1>5. ASSUME NEW u \in Pullers, Pull(u)
        PROVE  IInv'
    BY <1>1, <1>3, <1>5, PullStep
  <1>6. ASSUME NEW f \in Edited, Edit(f)
        PROVE  IInv'
    BY <1>4, <1>6, EditStep DEF IInv
  <1>7. ASSUME NEW part \in {"manifest", "persona"}, WriteForeign(part)
        PROVE  IInv'
    BY <1>1, <1>3, <1>7, WriteForeignStep
  <1>8. CASE UNCHANGED vars
    <2>1. TypeOK'
      BY <1>8 DEF IInv, TypeOK, vars
    <2> QED
      BY <1>4, <1>8, <2>1 DEF vars
  <1> QED
    BY <1>2, <1>5, <1>6, <1>7, <1>8 DEF Next

\* Types, what packers rely on, that an undisturbed packer has its files for
\* itself, what pullers rely on, and where what lies at a destination is from.
THEOREM Invariance == Spec => []IInv
  BY InitInvariant, NextInvariant, PTL DEF Spec

\* Every variable keeps its type: above all, the drop and the temporary path
\* lead to files that have been made, and whatever stands in them is an archive
\* or torn.
THEOREM TypeCorrect == Spec => []TypeOK
  <1>1. IInv => TypeOK
    BY DEF IInv
  <1> QED
    BY <1>1, Invariance, PTL

-----------------------------------------------------------------------------
(* Packs that overlap *)

\* Between opening the temporary file and moving it.
Writing(i) == packer[i].pc \in {"write", "replace"}

SomeWriting == \E i \in Packers : Writing(i)

TwoWriting == \E i, j \in Packers : i # j /\ Writing(i) /\ Writing(j)

\* There are never more files to be moved than packers that will move one.  So a
\* file that two have opened, and that may stay torn when its last writer is done,
\* is at the temporary path only while there are two; when one has moved it, the
\* other one is left, to find no file of its own.
Sharing ==
    /\ drop # None /\ AtDrop = Torn => SomeWriting
    /\ tmp # None => tmp # drop
    /\ tmp # None /\ inodes[tmp].content = Torn =>
          TwoWriting \/ \E i \in Packers : packer[i].pc = "write" /\ packer[i].fd = tmp
    /\ tmp # None /\ inodes[tmp].shared => TwoWriting
    /\ \A n \in DOMAIN inodes : \A i \in inodes[n].writers : packer[i].pc = "write" /\ packer[i].fd = n

SharedSide == IInv /\ (~troubled => Sharing)

\* The steps that touch no file.
LEMMA SharingQuiet ==
    ASSUME TypeOK, Sharing, NEW i \in Packers, Others(i), UNCHANGED <<drop, tmp, inodes>>,
           ~Writing(i), ~Writing(i)'
    PROVE  Sharing'
  <1>1. \A j \in Packers : Writing(j)' = Writing(j)
    BY DEF Others, Writing
  <1>2. SomeWriting' = SomeWriting /\ TwoWriting' = TwoWriting
    BY <1>1 DEF SomeWriting, TwoWriting
  <1>3. \A j \in Packers : packer[j].pc = "write" => packer'[j] = packer[j]
    BY DEF Others, Writing
  <1>4. \A n \in DOMAIN inodes : inodes[n].writers \subseteq Packers
    BY TypeFacts DEF Inode
  <1> QED
    BY <1>2, <1>3, <1>4 DEF Sharing, AtDrop

LEMMA OpenTemporarySharing ==
    ASSUME TypeOK, Sharing, NEW i \in Packers, OpenTemporary(i)
    PROVE  Sharing'
  <1>1. /\ Others(i) /\ packer[i].pc = "stage"
        /\ packer'[i].pc = "write" /\ packer'[i].fd = tmp'
        /\ tmp' \in DOMAIN inodes' /\ tmp' # None
        /\ tmp # None => tmp' = tmp /\ inodes'[tmp'] = Truncated(inodes[tmp], i)
        /\ tmp = None => tmp' \notin DOMAIN inodes /\ inodes'[tmp'] = Truncated(NewFile, i)
        /\ \A n \in DOMAIN inodes \ {tmp} : inodes'[n] = inodes[n]
        /\ DOMAIN inodes' = DOMAIN inodes \cup {tmp'}
        /\ drop' = drop
    BY OpenTemporaryFacts DEF OpenTemporary
  <1>2. drop # None => drop # tmp' /\ inodes'[drop] = inodes[drop]
    BY <1>1, TypeFacts DEF Sharing
  <1>3. Writing(i)' /\ ~Writing(i) /\ \A j \in Packers \ {i} : Writing(j)' = Writing(j) /\ packer'[j] = packer[j]
    BY <1>1 DEF Others, Writing
  <1>4. SomeWriting' /\ (SomeWriting => TwoWriting')
    BY <1>3 DEF SomeWriting, TwoWriting
  <1>5. inodes'[tmp'].shared => TwoWriting'
    <2>1. CASE tmp = None
      BY <1>1, <2>1, FreshFile
    <2>2. CASE tmp # None /\ inodes[tmp].writers # {}
      <3>1. PICK j \in inodes[tmp].writers : TRUE
        BY <2>2
      <3>2. tmp \in DOMAIN inodes /\ j \in Packers
        BY <2>2, <3>1, TypeFacts DEF Inode
      <3>3. Writing(j)
        BY <3>1, <3>2 DEF Sharing, Writing
      <3> QED
        BY <1>4, <3>2, <3>3 DEF SomeWriting
    <2>3. CASE tmp # None /\ inodes[tmp].writers = {}
      <3>1. ~Truncated(inodes[tmp], i).shared
        BY <2>3 DEF Truncated
      <3> QED
        BY <1>1, <2>3, <3>1
    <2> QED
      BY <2>1, <2>2, <2>3
  <1>6. ASSUME NEW n \in DOMAIN inodes', NEW j \in inodes'[n].writers
        PROVE  packer'[j].pc = "write" /\ packer'[j].fd = n
    <2>1. CASE n = tmp'
      <3>1. j = i \/ (tmp # None /\ j \in inodes[tmp].writers)
        BY <1>1, <1>6, <2>1, FreshFile DEF Truncated
      <3>2. CASE tmp # None /\ j \in inodes[tmp].writers
        <4>1. tmp \in DOMAIN inodes /\ j \in Packers
          BY <3>2, TypeFacts DEF Inode
        <4>2. packer[j].pc = "write" /\ packer[j].fd = tmp
          BY <3>2, <4>1 DEF Sharing
        <4> QED
          BY <1>1, <1>3, <2>1, <3>2, <4>1, <4>2
      <3> QED
        BY <1>1, <2>1, <3>1, <3>2
    <2>2. CASE n # tmp'
      <3>1. n \in DOMAIN inodes /\ inodes'[n] = inodes[n]
        BY <1>1, <2>2, TypeFacts
      <3>2. j \in Packers
        BY <1>6, <3>1, TypeFacts DEF Inode
      <3>3. packer[j].pc = "write" /\ packer[j].fd = n
        BY <1>6, <3>1 DEF Sharing
      <3> QED
        BY <1>1, <1>3, <3>2, <3>3
    <2> QED
      BY <2>1, <2>2
  <1> QED
    BY <1>1, <1>2, <1>4, <1>5, <1>6 DEF Sharing, AtDrop

LEMMA WriteArchiveSharing ==
    ASSUME TypeOK, Sharing, NEW i \in Packers, PackerOK(i), WriteArchive(i)
    PROVE  Sharing'
  <1>1. /\ Others(i) /\ packer[i].pc = "write" /\ packer'[i].pc = "replace"
        /\ packer[i].fd \in DOMAIN inodes
        /\ ~inodes[packer[i].fd].shared => inodes'[packer[i].fd].content # Torn
        /\ UNCHANGED <<drop, tmp>>
    BY WriteArchiveFacts DEF WriteArchive
  <1>2. PICK content \in Archives \cup {Torn} : Closes(i, packer[i].fd, content)
    BY WriteArchiveFacts
  <1>3. /\ DOMAIN inodes' = DOMAIN inodes
        /\ \A m \in DOMAIN inodes : m # packer[i].fd => inodes'[m] = inodes[m]
        /\ \A m \in DOMAIN inodes : /\ inodes'[m].shared = inodes[m].shared
                                    /\ inodes'[m].writers \subseteq inodes[m].writers
        /\ i \notin inodes'[packer[i].fd].writers
    BY <1>1, <1>2, CloseFacts
  <1>4. \A j \in Packers : Writing(j)' = Writing(j)
    BY <1>1 DEF Others, Writing
  <1>5. SomeWriting' /\ TwoWriting' = TwoWriting
    BY <1>1, <1>4 DEF SomeWriting, TwoWriting, Writing
  <1>6. tmp # None /\ inodes'[tmp].content = Torn =>
            TwoWriting \/ \E j \in Packers : packer'[j].pc = "write" /\ packer'[j].fd = tmp
    <2>1. CASE tmp = packer[i].fd
      BY <1>1, <2>1 DEF Sharing
    <2>2. CASE tmp # None /\ tmp # packer[i].fd
      <3>1. inodes'[tmp] = inodes[tmp]
        BY <1>3, <2>2, TypeFacts
      <3>2. ASSUME NEW j \in Packers, packer[j].pc = "write", packer[j].fd = tmp
            PROVE  packer'[j].pc = "write" /\ packer'[j].fd = tmp
        BY <1>1, <2>2, <3>2 DEF Others
      <3> QED
        BY <2>2, <3>1, <3>2 DEF Sharing
    <2> QED
      BY <2>1, <2>2
  <1>7. tmp # None => inodes'[tmp].shared = inodes[tmp].shared
    BY <1>3, TypeFacts
  <1>8. ASSUME NEW n \in DOMAIN inodes', NEW j \in inodes'[n].writers
        PROVE  packer'[j].pc = "write" /\ packer'[j].fd = n
    <2>1. n \in DOMAIN inodes /\ j \in inodes[n].writers
      BY <1>3, <1>8
    <2>2. j \in Packers /\ packer[j].pc = "write" /\ packer[j].fd = n
      BY <2>1, TypeFacts DEF Sharing, Inode
    <2>3. j # i
      BY <1>3, <1>8, <2>2
    <2> QED
      BY <1>1, <2>2, <2>3 DEF Others
  <1> QED
    BY <1>1, <1>5, <1>6, <1>7, <1>8 DEF Sharing, AtDrop

LEMMA ReplaceDropSharing ==
    ASSUME TypeOK, Sharing, NEW i \in Packers, ReplaceDrop(i), ~troubled'
    PROVE  Sharing'
  <1>1. /\ Others(i) /\ packer[i].pc = "replace" /\ packer'[i].pc = "unlink"
        /\ tmp # None /\ drop' = tmp /\ tmp' = None /\ inodes' = inodes
    BY ReplaceDropFacts DEF ReplaceDrop, Missing
  <1>2. Writing(i) /\ \A j \in Packers \ {i} : Writing(j)' = Writing(j)
    BY <1>1 DEF Others, Writing
  <1>3. TwoWriting => SomeWriting'
    BY <1>2 DEF TwoWriting, SomeWriting
  <1>4. ASSUME NEW j \in Packers, packer[j].pc = "write"
        PROVE  Writing(j)' /\ packer'[j] = packer[j]
    BY <1>1, <1>4 DEF Others, Writing
  <1>5. inodes[tmp].content = Torn => SomeWriting'
    BY <1>1, <1>3, <1>4 DEF Sharing, SomeWriting
  <1>6. \A n \in DOMAIN inodes : inodes[n].writers \subseteq Packers
    BY TypeFacts DEF Inode
  <1> QED
    BY <1>1, <1>4, <1>5, <1>6 DEF Sharing, AtDrop

LEMMA UnlinkSharing ==
    ASSUME TypeOK, Sharing, NEW i \in Packers, Unlink(i)
    PROVE  Sharing'
  <1>1. Others(i) /\ packer[i].pc = "unlink" /\ packer'[i].pc \in {"idle", "check"}
    BY UnlinkFacts DEF Unlink
  <1>2. tmp' = None /\ UNCHANGED <<drop, inodes>>
    BY DEF Unlink
  <1>3. \A j \in Packers : /\ Writing(j)' = Writing(j)
                           /\ packer[j].pc = "write" => packer'[j] = packer[j]
    BY <1>1 DEF Others, Writing
  <1>4. SomeWriting' = SomeWriting
    BY <1>3 DEF SomeWriting
  <1>5. \A n \in DOMAIN inodes : inodes[n].writers \subseteq Packers
    BY TypeFacts DEF Inode
  <1> QED
    BY <1>2, <1>3, <1>4, <1>5 DEF Sharing, AtDrop

\* A packer that dies before or after that.
LEMMA PackerDiesSharing ==
    ASSUME TypeOK, Sharing, NEW i \in Packers, PackerDies(i), ~troubled'
    PROVE  Sharing'
  <1>1. /\ Others(i) /\ packer'[i] = Idle /\ DOMAIN inodes' = DOMAIN inodes
        /\ \A m \in DOMAIN inodes : /\ inodes'[m].content = inodes[m].content
                                    /\ inodes'[m].shared = inodes[m].shared
                                    /\ inodes'[m].writers \subseteq inodes[m].writers
        /\ UNCHANGED <<drop, tmp>> /\ ~Writing(i)
    BY PackerDiesFacts DEF PackerDies, Writing
  <1>2. \A j \in Packers : /\ Writing(j)' = Writing(j)
                           /\ packer[j].pc = "write" => packer'[j] = packer[j]
    BY <1>1, IdleFacts DEF Others, Writing
  <1>3. SomeWriting' = SomeWriting /\ TwoWriting' = TwoWriting
    BY <1>2 DEF SomeWriting, TwoWriting
  <1>4. \A n \in DOMAIN inodes : inodes[n].writers \subseteq Packers
    BY TypeFacts DEF Inode
  <1>5. /\ drop # None => inodes'[drop].content = inodes[drop].content
        /\ tmp # None => /\ inodes'[tmp].content = inodes[tmp].content
                         /\ inodes'[tmp].shared = inodes[tmp].shared
    BY <1>1, TypeFacts
  <1> QED
    BY <1>1, <1>2, <1>3, <1>4, <1>5 DEF Sharing, AtDrop

LEMMA PackSharing ==
    ASSUME IInv, ~troubled => Sharing, NEW i \in Packers, Pack(i), ~troubled'
    PROVE  Sharing'
  <1>1. TypeOK /\ PackerOK(i) /\ troubled \in BOOLEAN
    BY TypeFacts DEF IInv
  <1>2. ~WriteFails(i)
    BY DEF WriteFails
  <1>3. ~troubled
    BY DEF Pack, BeginPack, StagePart, OpenTemporary, WriteArchive, WriteFails, ReplaceDrop, Unlink, Publish,
           PublishFails, PackerDies
  <1>4. Sharing
    BY <1>3
  <1>5. CASE \E r \in Requests : BeginPack(i, r)
    <2>1. PICK r \in Requests : BeginPack(i, r)
      BY <1>5
    <2>2. Others(i) /\ packer'[i].pc = "stage"
      BY <1>1, <2>1, BeginPackFacts
    <2> QED
      BY <1>1, <1>4, <2>1, <2>2, SharingQuiet DEF BeginPack, Writing
  <1>6. CASE StagePart(i)
    <2>1. Others(i) /\ packer'[i].pc \in {"idle", "stage"}
      BY <1>1, <1>6, StagePartFacts
    <2> QED
      BY <1>1, <1>4, <1>6, <2>1, SharingQuiet DEF StagePart, Writing
  <1>7. CASE Publish(i) \/ PublishFails(i)
    <2>1. packer' = [packer EXCEPT ![i] = Idle]
      BY <1>7 DEF Publish, PublishFails
    <2>2. Others(i) /\ packer'[i] = Idle
      BY <1>1, <2>1, IdleFacts, PackerSet
    <2> QED
      BY <1>1, <1>4, <1>7, <2>2, IdleFacts, SharingQuiet DEF Publish, PublishFails, Writing
  <1> QED
    BY <1>1, <1>2, <1>4, <1>5, <1>6, <1>7, OpenTemporarySharing, WriteArchiveSharing, ReplaceDropSharing,
       UnlinkSharing, PackerDiesSharing DEF Pack

\* The steps of others.
LEMMA SharingKept ==
    ASSUME IInv, ~troubled => Sharing, UNCHANGED <<drop, tmp, inodes, packer, troubled>>
    PROVE  ~troubled' => Sharing'
  BY DEF Sharing, AtDrop, SomeWriting, TwoWriting, Writing

LEMMA SharingInit == Init => (~troubled => Sharing)
  <1> SUFFICES ASSUME Init
               PROVE  Sharing
    OBVIOUS
  <1>1. drop = None /\ tmp = None /\ DOMAIN inodes = {}
    BY DEF Init
  <1> QED
    BY <1>1 DEF Sharing

LEMMA SharingNext == SharedSide /\ [Next]_vars => SharedSide'
  <1> SUFFICES ASSUME SharedSide, [Next]_vars
               PROVE  SharedSide'
    OBVIOUS
  <1>1. IInv /\ (~troubled => Sharing) /\ IInv'
    BY NextInvariant DEF SharedSide
  <1>2. CASE \E i \in Packers : Pack(i)
    BY <1>1, <1>2, PackSharing DEF SharedSide
  <1>3. CASE UNCHANGED <<drop, tmp, inodes, packer, troubled>>
    BY <1>1, <1>3, SharingKept DEF SharedSide
  <1>4. ASSUME NEW u \in Pullers, Pull(u)
        PROVE  UNCHANGED <<drop, tmp, inodes, packer, troubled>>
    <2>1. PullerSide
      BY <1>1 DEF IInv, PullerSide
    <2> QED
      BY <1>4, <2>1, PullStep DEF PullKeeps
  <1>5. ASSUME NEW f \in Edited, Edit(f)
        PROVE  UNCHANGED <<drop, tmp, inodes, packer, troubled>>
    BY <1>5 DEF Edit
  <1>6. ASSUME NEW part \in {"manifest", "persona"}, WriteForeign(part)
        PROVE  UNCHANGED <<drop, tmp, inodes, packer, troubled>>
    BY <1>6 DEF WriteForeign
  <1> QED
    BY <1>2, <1>3, <1>4, <1>5, <1>6 DEF Next, vars

-----------------------------------------------------------------------------
(* What the invariant is for *)

\* The drop is whole as long as packs do not overlap: for any number of packers
\* and pullers, deaths and failures.
THEOREM DropWhole == Spec => []DropIsWhole
  <1>1. IInv => DropIsWhole
    BY DEF IInv, Alone, DropIsWhole
  <1> QED
    BY <1>1, Invariance, PTL

\* Overlapping packs that succeed leave a whole drop, for any number of packers.
THEOREM QuietDropWhole == Spec => []QuietDropIsWhole
  <1>1. SharedSide => QuietDropIsWhole
    BY DEF SharedSide, Sharing, SomeWriting, Writing, QuietDropIsWhole
  <1>2. Init => SharedSide
    BY InitInvariant, SharingInit DEF SharedSide
  <1> QED
    BY <1>1, <1>2, SharingNext, PTL DEF Spec

\* Two archives with one digest and one profile are the same.
LEMMA DigestFacts ==
    ASSUME NEW a \in Archives, NEW b \in Archives, Digest(a) = Digest(b), a.profile = b.profile
    PROVE  a = b
  <1>1. a.manifest = b.manifest /\ a.files = b.files
    BY DEF Digest
  <1> QED
    BY <1>1, ArchivesFacts

\* A pull that succeeds has installed what it checked.
THEOREM PulledChecked == Spec => PulledIsChecked
  <1>1. ASSUME IInv, NEW u \in Pullers, Installed(u), puller[u].command = "pull"
        PROVE  /\ Checks(puller[u].checked, "specialist")
               /\ \A part \in puller[u].checked.manifest : dest[part] \in {puller[u].checked.files[part], Late}
    <2>1. /\ TypeOK /\ PullerOK(u) /\ puller[u].pc = "copy" /\ opened \subseteq Archives
          /\ puller[u].copied = DOMAIN Copies(puller[u].opened)
          /\ ~puller[u].failed /\ Digest(puller[u].opened) = Digest(puller[u].checked)
      BY <1>1 DEF IInv, TypeOK, Installed, Matches
    <2>2. /\ puller[u].checked \in Archives /\ Checks(puller[u].checked, "specialist")
          /\ puller[u].opened \in Archives
      BY <1>1, <2>1 DEF PullerOK
    <2>3. puller[u].opened.manifest = puller[u].checked.manifest /\ puller[u].opened.files = puller[u].checked.files
      BY <2>1 DEF Digest
    <2>4. puller[u].checked.manifest = DOMAIN puller[u].checked.files
      BY <2>2 DEF Checks, Opens
    <2>5. ASSUME NEW part \in puller[u].checked.manifest
          PROVE  dest[part] \in {puller[u].checked.files[part], Late}
      <3>1. part \in puller[u].copied /\ part # "manifest"
        BY <2>1, <2>2, <2>3, <2>4, <2>5, CopiesFacts
      <3>2. part \in DOMAIN Before /\ Before[part] \in {puller[u].opened.files[part], Late}
        BY <2>1, <3>1 DEF PullerOK
      <3>3. dest # None
        BY <2>1, <3>2, BeforeFacts, EmptyDirectory
      <3> QED
        BY <2>1, <2>3, <3>2, <3>3, BeforeFacts
    <2> QED
      BY <2>2, <2>5
  <1>2. IInv /\ [Next]_vars =>
            [\A u \in Pullers : Installed(u) /\ puller[u].command = "pull" =>
                /\ Checks(puller[u].checked, "specialist")
                /\ \A part \in puller[u].checked.manifest :
                      dest[part] \in {puller[u].checked.files[part], Late}]_vars
    BY <1>1
  <1> QED
    BY <1>2, Invariance, PTL DEF Spec, PulledIsChecked

\* Nothing that was at the destination before an install is lost.
THEOREM ForeignKept == Spec => ForeignFilesSurvive
  <1> DEFINE Kept == dest # None => \A part \in DOMAIN dest :
                        dest[part] = Early => dest' # None /\ part \in DOMAIN dest' /\ dest'[part] = Early
  <1>1. ASSUME IInv, Next, dest # None, NEW part \in DOMAIN dest, dest[part] = Early
        PROVE  dest' # None /\ part \in DOMAIN dest' /\ dest'[part] = Early
    <2>1. PackerSide /\ PullerSide /\ TypeOK
      BY <1>1 DEF IInv, PackerSide, PullerSide
    <2>2. Before = dest
      BY <1>1, <2>1, BeforeFacts
    <2>3. ~Copying
      BY <1>1, <2>2 DEF IInv, EarlyOK
    <2>4. dest \notin {None, <<>>}
      BY <1>1, EmptyDirectory
    <2>5. CASE dest' = dest
      BY <1>1, <2>5
    <2>6. ASSUME NEW i \in Packers, Pack(i)
          PROVE  dest' = dest
      BY <2>1, <2>6, PackStep DEF PackKeeps
    <2>7. ASSUME NEW u \in Pullers, Pull(u)
          PROVE  dest' = dest
      <3>1. ~CopyPart(u)
        BY <2>3 DEF CopyPart, Copying
      <3> QED
        BY <2>4, <2>7, <3>1 DEF Pull, Locate, CheckArchive, TestEmpty, OpenArchive, RemoveEmpty, MakeDirectory,
            Installed, InstallFails, PullerDies, Fails
    <2>8. ASSUME NEW f \in Edited, Edit(f)
          PROVE  dest' = dest
      BY <2>8 DEF Edit
    <2>9. ASSUME NEW written \in {"manifest", "persona"}, WriteForeign(written)
          PROVE  dest' # None /\ part \in DOMAIN dest' /\ dest'[part] = Early
      <3>1. dest' = Put(dest, written, Early)
        BY <2>2, <2>3, <2>9 DEF WriteForeign
      <3>2. written \in Parts /\ Early \in Contents(written)
        BY FieldFacts DEF Parts, Contents
      <3>3. IsDirectory(dest)
        BY <2>1, <2>2, BeforeFacts
      <3>4. IsDirectory(dest') /\ dest' # None
        BY <3>1, <3>2, <3>3, PutDirectory, DirectoryFacts
      <3>5. part \in DOMAIN dest' /\ dest'[part] = Early
        BY <1>1, <3>1 DEF Put
      <3> QED
        BY <3>4, <3>5
    <2> QED
      BY <1>1, <2>5, <2>6, <2>7, <2>8, <2>9 DEF Next
  <1>2. IInv /\ [Next]_vars => [Kept]_vars
    BY <1>1
  <1> QED
    BY <1>2, Invariance, PTL DEF Spec, ForeignFilesSurvive

\* An install that succeeds leaves its archive at the destination, and nothing
\* of another one when only one has been opened.
THEOREM InstalledExactly == Spec => InstalledIsExact
  <1> DEFINE Exact(u) == LET own == Copies(puller[u].opened)
                         IN  /\ DOMAIN own \subseteq DOMAIN Before
                             /\ \A part \in DOMAIN Before :
                                   Before[part] \in {Early, Late} \cup {own[p] : p \in DOMAIN own \cap {part}}
  <1>1. ASSUME IInv, NEW u \in Pullers, Installed(u), opened = {puller[u].opened}
        PROVE  Exact(u)
    <2>1. /\ PullerOK(u) /\ puller[u].pc = "copy" /\ ~puller[u].failed
          /\ puller[u].copied = DOMAIN Copies(puller[u].opened)
      BY <1>1 DEF IInv, Installed, Matches
    <2>2. DOMAIN Copies(puller[u].opened) \subseteq DOMAIN Before
      BY <2>1 DEF PullerOK
    <2>3. ASSUME NEW part \in DOMAIN Before
          PROVE  \/ Before[part] \in {Early, Late}
                 \/ /\ part \in DOMAIN Copies(puller[u].opened)
                    /\ Before[part] = Copies(puller[u].opened)[part]
      BY <1>1, <2>3 DEF IInv, OriginOK
    <2> QED
      BY <2>2, <2>3
  <1> HIDE DEF Exact
  <1>2. IInv /\ [Next]_vars => [\A u \in Pullers : Installed(u) /\ opened = {puller[u].opened} => Exact(u)]_vars
    BY <1>1
  <1>3. [][\A u \in Pullers : Installed(u) /\ opened = {puller[u].opened} => Exact(u)]_vars => InstalledIsExact
    BY DEF InstalledIsExact, Exact
  <1> QED
    BY <1>2, <1>3, Invariance, PTL DEF Spec
===============================================================================
