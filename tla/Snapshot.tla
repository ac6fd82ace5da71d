------------------------------- MODULE Snapshot -------------------------------
(****************************************************************************)
(* Packs: src/self_nomad/snapshot/service.py and src/self_nomad/hub/client.py. *)
(*                                                                          *)
(* Packers write an archive of a repository, that its operator may edit     *)
(* meanwhile, to one path, the drop; "publish" packs and then checks what   *)
(* lies there. Pullers install the archive that lies at the drop into one   *)
(* destination; "pull" checks it first, "install" does not. Nobody holds a  *)
(* lock: packers share a temporary file of a fixed name, and pullers read   *)
(* the drop more than once.                                                 *)
(*                                                                          *)
(* An open file is an inode, so that a file can be written under a name     *)
(* that has been moved or removed since it was opened. A file is read in    *)
(* one step.                                                                *)
(****************************************************************************)
EXTENDS Naturals, Sequences, FiniteSets, Functions

CONSTANTS
    None,       \* no file, no archive
    Torn,       \* a file that is not a readable archive
    Empty,      \* a directory without files in it
    Early,      \* what somebody else wrote at the destination before an install made it
    Late,       \* and while one was filling it
    Packers,    \* processes that pack or publish
    Pullers,    \* processes that pull or install
    Requests,   \* what packers are asked to do
    Edited,     \* the parts of the repository that are edited
    MaxCalls,   \* how often any of them is asked
    MaxEdits,   \* how often the repository is edited
    MaxForeign, \* how often somebody else writes at the destination
    MaxCrashes  \* how many processes die

\* The parts of a repository, and the fields of its manifest that name them:
\* daily_memory stands for user_profile, which goes where it goes, knowledge
\* for the other directories.
Files == {"persona", "MEMORY", "PUBLISH", "daily", "knowledge"}

Fields == <<"persona", "long_term_memory", "daily_memory", "knowledge">>

ASSUME RequestsAssumption ==
    Requests \subseteq [command : {"pack", "publish"}, profile : {"specialist", "personal"},
                        include_long_term_memory : BOOLEAN]
ASSUME EditedAssumption == Edited \subseteq Files
ASSUME BoundsAssumption == {MaxCalls, MaxEdits, MaxForeign, MaxCrashes} \subseteq Nat
ASSUME ProcessesAssumption == Packers \cap Pullers = {}

VARIABLES
    repo,      \* the files of the repository that is packed
    drop,      \* the inode at the path of the archive
    tmp,       \* the inode at the temporary path beside it
    inodes,    \* the sequence of the inodes made so far
    packer,    \* what each packer is doing
    puller,    \* what each puller is doing
    dest,      \* the destination directory, or None
    count,     \* how much of each bound is used up
    overlapped,\* history: two packers have been using the temporary path at a time
    troubled,  \* history: one has failed or died before it had moved what it wrote
    opened     \* history: the archives that have been opened to be installed

vars == <<repo, drop, tmp, inodes, packer, puller, dest, count, overlapped, troubled, opened>>

-----------------------------------------------------------------------------
(* Values *)

\* What a field of an archive is: a version of its file.
Archives ==
    [profile : {"specialist", "personal"}, manifest : SUBSET Range(Fields),
     files : UNION {[fields -> 0..MaxEdits] : fields \in SUBSET Range(Fields)}]

\* What a destination may hold: the manifest, which is the set of what it names,
\* the other parts, and what somebody else wrote in place of them.
Parts == Range(Fields) \cup {"manifest"}

Contents(part) == {Early, Late} \cup IF part = "manifest" THEN SUBSET Range(Fields) ELSE 0..MaxEdits

IsDirectory(d) ==
    /\ DOMAIN d \subseteq Parts
    /\ d = [part \in DOMAIN d |-> d[part]]
    /\ \A part \in DOMAIN d : d[part] \in Contents(part)

Packing ==
    [pc : {"idle", "stage", "write", "replace", "unlink", "check"}, request : Requests \cup {None},
     staged : UNION {[fields -> (0..MaxEdits) \cup {Empty}] : fields \in SUBSET Range(Fields)},
     fd : Nat \cup {None}, failed : BOOLEAN]

Pulling ==
    [pc : {"idle", "check", "test", "open", "rmdir", "mkdir", "copy"},
     command : {"pull", "install", None}, download : Archives \cup {Torn, None},
     checked : Archives \cup {None}, opened : Archives \cup {None},
     copied : SUBSET Parts, failed : BOOLEAN]

ASSUME ValuesAssumption ==
    /\ None \notin Nat \cup Archives \cup Packers
    /\ \A parts \in SUBSET Parts : None \notin [parts -> UNION {Contents(part) : part \in parts}]
    /\ Torn \notin Archives
    /\ Early \notin Nat \cup {Late}
    /\ \A fields \in SUBSET Range(Fields) : Early # fields

-----------------------------------------------------------------------------
(* Archives *)

\* f, with v at x.
Put(f, x, v) == [y \in DOMAIN f \cup {x} |-> IF y = x THEN v ELSE f[y]]

\* _omitted_fields
Omitted(r) ==
    IF r.profile = "personal" THEN {}
    ELSE {"daily_memory"} \cup (IF r.include_long_term_memory THEN {} ELSE {"long_term_memory"})

\* _export_manifest: the files that the exported manifest names.
Export(r) ==
    [field \in Range(Fields) \ Omitted(r) |->
        CASE field = "long_term_memory" -> IF r.profile = "specialist" THEN "PUBLISH" ELSE "MEMORY"
          [] field = "daily_memory" -> "daily"
          [] OTHER -> field]

\* _build_summary, and what _write_archive puts in an archive: files only, so
\* that an empty directory is in the manifest and not in the archive.
Archive(r, staged) ==
    [profile |-> r.profile, manifest |-> DOMAIN staged,
     files |-> Restrict(staged, {field \in DOMAIN staged : staged[field] # Empty})]

\* content_digest covers the manifest and the files, not the sidecar.
Digest(a) == <<a.manifest, a.files>>

\* _opened_pack: strict validation misses what the manifest names and the
\* archive does not have, and a specialist pack must have nothing personal.
Opens(a) ==
    /\ a # Torn
    /\ a.manifest = DOMAIN a.files
    /\ a.profile = "specialist" => "daily_memory" \notin a.manifest

\* check_pack
Checks(a, profile) == Opens(a) /\ a.profile = profile

AtDrop == inodes[drop].content

-----------------------------------------------------------------------------
(* Packing *)

Idle == [pc |-> "idle", request |-> None, staged |-> <<>>, fd |-> None, failed |-> FALSE]

Mine(i) == Archive(packer[i].request, packer[i].staged)

\* The fields left to stage.
Unstaged(i) == DOMAIN Export(packer[i].request) \ DOMAIN packer[i].staged

\* SelfRepository.validate(strict=True), and PUBLISH.md if it is asked for.
BeginPack(i, r) ==
    /\ packer[i].pc = "idle"
    /\ count.calls < MaxCalls
    /\ \A f \in Files \ {"PUBLISH"} : repo[f] # None
    /\ \A f \in Range(Export(r)) : repo[f] # None
    /\ packer' = [packer EXCEPT ![i] = [Idle EXCEPT !.pc = "stage", !.request = r]]
    /\ count' = [count EXCEPT !.calls = @ + 1]
    /\ UNCHANGED <<repo, drop, tmp, inodes, puller, dest, overlapped, troubled, opened>>

\* The next of them, in the order of the manifest.
NextPart(i) ==
    Fields[CHOOSE n \in DOMAIN Fields :
               Fields[n] \in Unstaged(i) /\ \A o \in 1..(n - 1) : Fields[o] \notin Unstaged(i)]

\* _stage_export: the next artifact is copied as it is now.
StagePart(i) ==
    /\ packer[i].pc = "stage"
    /\ Unstaged(i) # {}
    /\ LET value == repo[Export(packer[i].request)[NextPart(i)]]
       IN  packer' = [packer EXCEPT ![i] =
               IF value = None THEN Idle
               ELSE [packer[i] EXCEPT !.staged = Put(packer[i].staged, NextPart(i), value)]]
    /\ UNCHANGED <<repo, drop, tmp, inodes, puller, dest, count, overlapped, troubled, opened>>

NewFile == [content |-> Torn, writers |-> {}, shared |-> FALSE]

\* Opened for writing: an inode that is there is emptied, whoever writes it.
Truncated(n, i) ==
    [content |-> Torn, writers |-> n.writers \cup {i}, shared |-> n.writers # {}]

\* Somebody else is between opening the temporary file and unlinking it.
Busy(i) == \E j \in Packers \ {i} : packer[j].pc \in {"write", "replace", "unlink"}

\* Mutant: the archive is written in place.
OpenInPlace(i) ==
    /\ packer[i].pc = "stage"
    /\ Unstaged(i) = {}
    /\ inodes' = Append(inodes, Truncated(NewFile, i))
    /\ tmp' = Len(inodes')
    /\ drop' = tmp'
    /\ packer' = [packer EXCEPT ![i].pc = "write", ![i].fd = tmp']
    /\ overlapped' = (overlapped \/ Busy(i))
    /\ UNCHANGED <<repo, puller, dest, count, troubled, opened>>

\* _write_archive: tarfile.open(temporary, "w:gz")
OpenTemporary(i) ==
    /\ packer[i].pc = "stage"
    /\ Unstaged(i) = {}
    /\ IF tmp = None
       THEN /\ inodes' = Append(inodes, Truncated(NewFile, i))
            /\ tmp' = Len(inodes')
       ELSE /\ inodes' = [inodes EXCEPT ![tmp] = Truncated(@, i)]
            /\ tmp' = tmp
    /\ packer' = [packer EXCEPT ![i].pc = "write", ![i].fd = tmp']
    /\ overlapped' = (overlapped \/ Busy(i))
    /\ UNCHANGED <<repo, drop, puller, dest, count, troubled, opened>>

\* The archive is written and closed. Two that write one inode write over each
\* other, and what comes out depends on their lengths.
WriteArchive(i) ==
    /\ packer[i].pc = "write"
    /\ \E content \in {Mine(i)} \cup (IF inodes[packer[i].fd].shared THEN {Torn} ELSE {}) :
          inodes' = [inodes EXCEPT ![packer[i].fd].content = content,
                                   ![packer[i].fd].writers = @ \ {i}]
    /\ packer' = [packer EXCEPT ![i].pc = "replace", ![i].fd = None]
    /\ UNCHANGED <<repo, drop, tmp, puller, dest, count, overlapped, troubled, opened>>

\* The disk is full: the exception passes through finally.
WriteFails(i) ==
    /\ packer[i].pc = "write"
    /\ count.crashes < MaxCrashes
    /\ inodes' = [inodes EXCEPT ![packer[i].fd].content = Torn,
                                ![packer[i].fd].writers = @ \ {i}]
    /\ packer' = [packer EXCEPT ![i].pc = "unlink", ![i].fd = None, ![i].failed = TRUE]
    /\ count' = [count EXCEPT !.crashes = @ + 1]
    /\ troubled' = TRUE
    /\ UNCHANGED <<repo, drop, tmp, puller, dest, overlapped, opened>>

\* Mutant: a temporary file that is missing by now is no error.
Overlooked == FALSE

Missing == tmp = None

\* temporary.replace(destination): whatever lies at the temporary path by now.
ReplaceDrop(i) ==
    /\ packer[i].pc = "replace"
    /\ drop' = IF tmp = None THEN drop ELSE tmp
    /\ tmp' = None
    /\ packer' = [packer EXCEPT ![i].pc = "unlink", ![i].failed = Missing]
    /\ troubled' = (troubled \/ Missing)
    /\ UNCHANGED <<repo, inodes, puller, dest, count, overlapped, opened>>

\* finally: temporary.unlink(missing_ok=True), the file of another packer, too.
Unlink(i) ==
    /\ packer[i].pc = "unlink"
    /\ tmp' = None
    /\ packer' = [packer EXCEPT ![i] =
           IF packer[i].failed \/ packer[i].request.command = "pack"
           THEN Idle ELSE [@ EXCEPT !.pc = "check"]]
    /\ UNCHANGED <<repo, drop, inodes, puller, dest, count, overlapped, troubled, opened>>

\* publish_pack: check_pack(drop), and its digest is that of what was packed.
DropIsMine(i) ==
    /\ Checks(AtDrop, packer[i].request.profile)
    /\ Digest(AtDrop) = Digest(Mine(i))

Publish(i) ==
    /\ packer[i].pc = "check"
    /\ DropIsMine(i)
    /\ packer' = [packer EXCEPT ![i] = Idle]
    /\ UNCHANGED <<repo, drop, tmp, inodes, puller, dest, count, overlapped, troubled, opened>>

\* "file-drop failed pack --check": the drop stays as it is.
PublishFails(i) ==
    /\ packer[i].pc = "check"
    /\ ~DropIsMine(i)
    /\ packer' = [packer EXCEPT ![i] = Idle]
    /\ UNCHANGED <<repo, drop, tmp, inodes, puller, dest, count, overlapped, troubled, opened>>

-----------------------------------------------------------------------------
(* Pulling and installing *)

Resting == [pc |-> "idle", command |-> None, download |-> None, checked |-> None,
            opened |-> None, copied |-> {}, failed |-> FALSE]

\* What the puller's path leads to: its own download, or the drop as it is now.
Located(u) == IF puller[u].download = None THEN AtDrop ELSE puller[u].download

Step(u, from, to) ==
    /\ puller[u].pc = from
    /\ puller' = [puller EXCEPT ![u].pc = to]

Fails(u) ==
    /\ puller' = [puller EXCEPT ![u] = Resting]
    /\ UNCHANGED <<repo, drop, tmp, inodes, packer, dest, count, overlapped, troubled, opened>>

\* _resolve_archive: a path is used as it is, a URL is downloaded at once.
Locate(u, command, download) ==
    /\ puller[u].pc = "idle"
    /\ drop # None
    /\ count.calls < MaxCalls
    /\ command = "install" => ~download
    /\ puller' = [puller EXCEPT ![u] = [Resting EXCEPT
           !.pc = IF command = "pull" THEN "check" ELSE "test",
           !.command = command, !.download = IF download THEN AtDrop ELSE None]]
    /\ count' = [count EXCEPT !.calls = @ + 1]
    /\ UNCHANGED <<repo, drop, tmp, inodes, packer, dest, overlapped, troubled, opened>>

\* pull_pack: check_pack(archive), for the specialist profile.
CheckArchive(u) ==
    /\ puller[u].pc = "check"
    /\ \/ /\ Checks(Located(u), "specialist")
          /\ puller' = [puller EXCEPT ![u].pc = "test", ![u].checked = Located(u)]
          /\ UNCHANGED <<repo, drop, tmp, inodes, packer, dest, count, overlapped, troubled, opened>>
       \/ ~Checks(Located(u), "specialist") /\ Fails(u)

\* install_pack: "destination is not empty"
TestEmpty(u) ==
    /\ puller[u].pc = "test"
    /\ \/ /\ dest \in {None, <<>>}
          /\ Step(u, "test", "open")
          /\ UNCHANGED <<repo, drop, tmp, inodes, packer, dest, count, overlapped, troubled, opened>>
       \/ dest \notin {None, <<>>} /\ Fails(u)

\* _opened_pack once more, of whatever the path leads to by now.
OpenArchive(u) ==
    /\ puller[u].pc = "open"
    /\ \/ /\ Opens(Located(u))
          /\ puller' = [puller EXCEPT ![u].pc = "rmdir", ![u].opened = Located(u)]
          /\ opened' = opened \cup {Located(u)}
          /\ UNCHANGED <<repo, drop, tmp, inodes, packer, dest, count, overlapped, troubled>>
       \/ ~Opens(Located(u)) /\ Fails(u)

\* Mutant: shutil.rmtree(destination).
RemoveTree(u) ==
    /\ Step(u, "rmdir", "mkdir")
    /\ dest' = None
    /\ UNCHANGED <<repo, drop, tmp, inodes, packer, count, overlapped, troubled, opened>>

\* destination.rmdir(), which does not remove a directory with files in it.
RemoveEmpty(u) ==
    /\ puller[u].pc = "rmdir"
    /\ \/ /\ dest \in {None, <<>>}
          /\ Step(u, "rmdir", "mkdir")
          /\ dest' = None
          /\ UNCHANGED <<repo, drop, tmp, inodes, packer, count, overlapped, troubled, opened>>
       \/ dest \notin {None, <<>>} /\ Fails(u)

\* shutil.copytree makes the directory and does not take one that is there.
MakeDirectory(u) ==
    /\ puller[u].pc = "mkdir"
    /\ \/ /\ dest = None
          /\ Step(u, "mkdir", "copy")
          /\ dest' = <<>>
          /\ UNCHANGED <<repo, drop, tmp, inodes, packer, count, overlapped, troubled, opened>>
       \/ dest # None /\ Fails(u)

\* What copytree copies: the manifest, and the directory of each artifact.
Copies(a) == Put(a.files, "manifest", a.manifest)

Before == IF dest = None THEN <<>> ELSE dest

\* A directory that is there is an error, one whose parent has been removed is
\* made with its parent; a file is overwritten, in a directory that is there.
Possible(part) == IF part = "manifest" THEN dest # None ELSE part \notin DOMAIN Before

\* One of them. Errors are collected, and raised at the end.
CopyPart(u) ==
    /\ puller[u].pc = "copy"
    /\ \E part \in DOMAIN Copies(puller[u].opened) \ puller[u].copied :
          /\ dest' = IF Possible(part) THEN Put(Before, part, Copies(puller[u].opened)[part]) ELSE dest
          /\ puller' = [puller EXCEPT ![u].copied = @ \cup {part},
                                      ![u].failed = @ \/ ~Possible(part)]
    /\ UNCHANGED <<repo, drop, tmp, inodes, packer, count, overlapped, troubled, opened>>

\* Mutant: the archive is not compared again.
NoErrors(u) == ~puller[u].failed

\* "installed tree does not match the checked pack"
Matches(u) ==
    /\ ~puller[u].failed
    /\ puller[u].command = "pull" => Digest(puller[u].opened) = Digest(puller[u].checked)

\* The .gitignore and the first commit that install adds are left out.
Installed(u) ==
    /\ puller[u].pc = "copy"
    /\ puller[u].copied = DOMAIN Copies(puller[u].opened)
    /\ Matches(u)
    /\ puller' = [puller EXCEPT ![u] = Resting]
    /\ UNCHANGED <<repo, drop, tmp, inodes, packer, dest, count, overlapped, troubled, opened>>

\* Errors, another archive than was checked, or a git init that fails after an
\* install: what was written stays.
InstallFails(u) ==
    /\ puller[u].pc = "copy"
    /\ puller[u].copied = DOMAIN Copies(puller[u].opened)
    /\ ~Matches(u) \/ puller[u].command = "install"
    /\ Fails(u)

-----------------------------------------------------------------------------
(* The environment *)

\* Versions of a file are numbered. A directory may come to be empty.
Edit(f) ==
    /\ count.edits < MaxEdits
    /\ \E value \in {None, count.edits + 1} \cup (IF f \in {"daily", "knowledge"} THEN {Empty} ELSE {}) :
          repo' = [repo EXCEPT ![f] = value]
    /\ count' = [count EXCEPT !.edits = @ + 1]
    /\ UNCHANGED <<drop, tmp, inodes, packer, puller, dest, overlapped, troubled, opened>>

Copying == \E u \in Pullers : puller[u].pc = "copy"

\* Somebody makes the destination, or writes in it: before an install has made
\* it, or while one is filling it.
WriteForeign(part) ==
    /\ count.foreign < MaxForeign
    /\ dest' = Put(Before, part, IF Copying THEN Late ELSE Early)
    /\ count' = [count EXCEPT !.foreign = @ + 1]
    /\ UNCHANGED <<repo, drop, tmp, inodes, packer, puller, overlapped, troubled, opened>>

\* A process dies; a file it was writing stays as far as it had come.
PackerDies(i) ==
    /\ packer[i].pc # "idle"
    /\ count.crashes < MaxCrashes
    /\ inodes' = [n \in DOMAIN inodes |-> [inodes[n] EXCEPT !.writers = @ \ {i}]]
    /\ packer' = [packer EXCEPT ![i] = Idle]
    /\ count' = [count EXCEPT !.crashes = @ + 1]
    /\ troubled' = (troubled \/ packer[i].pc \in {"write", "replace"})
    /\ UNCHANGED <<repo, drop, tmp, puller, dest, overlapped, opened>>

PullerDies(u) ==
    /\ puller[u].pc # "idle"
    /\ count.crashes < MaxCrashes
    /\ puller' = [puller EXCEPT ![u] = Resting]
    /\ count' = [count EXCEPT !.crashes = @ + 1]
    /\ UNCHANGED <<repo, drop, tmp, inodes, packer, dest, overlapped, troubled, opened>>

-----------------------------------------------------------------------------
(* The specification *)

Init ==
    /\ repo = [f \in Files |-> 0]
    /\ drop = None
    /\ tmp = None
    /\ inodes = <<>>
    /\ packer = [i \in Packers |-> Idle]
    /\ puller = [u \in Pullers |-> Resting]
    /\ dest \in {None, <<>>}
    /\ count = [calls |-> 0, edits |-> 0, foreign |-> 0, crashes |-> 0]
    /\ overlapped = FALSE
    /\ troubled = FALSE
    /\ opened = {}

Pack(i) ==
    \/ \E r \in Requests : BeginPack(i, r)
    \/ StagePart(i)
    \/ OpenTemporary(i)
    \/ WriteArchive(i)
    \/ WriteFails(i)
    \/ ReplaceDrop(i)
    \/ Unlink(i)
    \/ Publish(i)
    \/ PublishFails(i)
    \/ PackerDies(i)

Pull(u) ==
    \/ \E command \in {"pull", "install"}, download \in BOOLEAN : Locate(u, command, download)
    \/ CheckArchive(u)
    \/ TestEmpty(u)
    \/ OpenArchive(u)
    \/ RemoveEmpty(u)
    \/ MakeDirectory(u)
    \/ CopyPart(u)
    \/ Installed(u)
    \/ InstallFails(u)
    \/ PullerDies(u)

Next ==
    \/ \E i \in Packers : Pack(i)
    \/ \E u \in Pullers : Pull(u)
    \/ \E f \in Edited : Edit(f)
    \/ \E part \in {"manifest", "persona"} : WriteForeign(part)

Spec == Init /\ [][Next]_vars

-----------------------------------------------------------------------------
(* Types *)

TypeOK ==
    /\ repo \in [Files -> (0..MaxEdits) \cup {None, Empty}]
    /\ inodes \in Seq([content : Archives \cup {Torn}, writers : SUBSET Packers, shared : BOOLEAN])
    /\ {drop, tmp} \subseteq DOMAIN inodes \cup {None}
    /\ packer \in [Packers -> Packing]
    /\ puller \in [Pullers -> Pulling]
    /\ \A i \in Packers : packer[i].fd \in DOMAIN inodes \cup {None}
    /\ dest # None => IsDirectory(dest)
    /\ count \in [calls : 0..MaxCalls, edits : 0..MaxEdits, foreign : 0..MaxForeign, crashes : 0..MaxCrashes]
    /\ overlapped \in BOOLEAN
    /\ troubled \in BOOLEAN
    /\ opened \subseteq Archives

-----------------------------------------------------------------------------
(* Properties *)

\* As long as packs to one drop do not overlap, the drop is missing or a whole
\* archive at every moment, although packers die or fail anywhere and leave a
\* temporary file behind that the next one writes in.
DropIsWhole == drop # None /\ ~overlapped => AtDrop # Torn

\* Packs may overlap, write over each other, move and remove each other's file: as
\* long as none of them has failed, or died half-way, the drop is a whole archive
\* whenever no one is between opening the temporary file and moving it.  The last
\* ones of those that shared a file find none to move; so a pack never spoils the
\* drop for good without an error that somebody sees.
QuietDropIsWhole ==
    /\ drop # None
    /\ ~troubled
    /\ \A i \in Packers : packer[i].pc \notin {"write", "replace"}
    => AtDrop # Torn

\* A pull that succeeds has installed what it checked, all of it and for the
\* specialist profile, although the archive is opened again for the install
\* and may have been replaced, and although another archive may be installed
\* at the same destination meanwhile.  The manifest is excepted then: see
\* InstalledValidates.
PulledIsChecked ==
    [][\A u \in Pullers : Installed(u) /\ puller[u].command = "pull" =>
          /\ Checks(puller[u].checked, "specialist")
          /\ \A part \in puller[u].checked.manifest :
                dest[part] \in {puller[u].checked.files[part], Late}]_vars

\* What somebody else had written at the destination before an install made it
\* is neither overwritten nor removed, although the destination is found empty
\* long before it is written.
ForeignFilesSurvive ==
    [][dest # None => \A part \in DOMAIN dest :
          dest[part] = Early =>
              dest' # None /\ part \in DOMAIN dest' /\ dest'[part] = Early]_vars

\* As long as only one archive is installed, an install that succeeds leaves
\* exactly it at the destination, although others install there at the same
\* time, fail half-way, die and are tried again: nothing of theirs is left over,
\* nothing is taken away.
InstalledIsExact ==
    [][\A u \in Pullers : Installed(u) /\ opened = {puller[u].opened} =>
          LET own == Copies(puller[u].opened)
          IN  /\ DOMAIN own \subseteq DOMAIN Before
              /\ \A part \in DOMAIN Before :
                    Before[part] \in {Early, Late} \cup {own[p] : p \in DOMAIN own \cap {part}}]_vars

\* docs/python-api.md:83: "assert installed.repository.validate(strict=True).valid"
\* after an install: what its manifest names is there.
InstalledValidates ==
    [][\A u \in Pullers : Installed(u) =>
          dest.manifest \subseteq DOMAIN dest]_vars

\* src/self_nomad/hub/client.py:40: "Pack, check, and copy the archive to a
\* file-drop path"; so that an archive that passes the check is not replaced
\* by one that does not.
GoodDropStays == [][drop # None /\ Opens(AtDrop) => Opens(AtDrop')]_vars

===============================================================================
