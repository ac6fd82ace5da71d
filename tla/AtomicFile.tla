------------------------------- MODULE AtomicFile -------------------------------
(****************************************************************************)
(* atomic_write_bytes of src/self_nomad/filesystem/atomic.py, by which the  *)
(* proposal and intake stores save records, receipts and staged content:    *)
(*                                                                          *)
(*   mkstemp -> write, flush -> fsync -> chmod, replace -> unlink           *)
(*                                                                          *)
(* on one path, by several processes at the same time, that fail or die     *)
(* anywhere, with readers in between and with losses of power. A file is    *)
(* moved and never shared between two names: so it is a record that is      *)
(* handed from a writer to the path and from there to readers.              *)
(****************************************************************************)
CONSTANTS
    Writers,    \* processes that save a record
    Readers,    \* processes that load it
    Values,     \* what may be saved
    Torn,       \* content that is not what anybody wanted to save
    None        \* no file

ASSUME ValuesAssumption == Torn \notin Values /\ None \notin Values \cup {Torn}

VARIABLES
    file,       \* the file at the path
    settled,    \* the file at the path as the directory on the disk has it
    temp,       \* the temporary file of every writer
    pc,         \* the next step of every writer
    content,    \* what every writer saves
    opened,     \* the file every reader has open
    past        \* history: what has been at the path before

vars == <<file, settled, temp, pc, content, opened, past>>

\* synced: the content is on the disk, and not in memory only.
File == [data : Values \cup {Torn}, synced : BOOLEAN]

Steps == {"idle", "write", "sync", "replace", "unlink"}

ASSUME NoneAssumption == None \notin File

TypeOK ==
    /\ file \in File \cup {None}
    /\ settled \in File \cup {None}
    /\ temp \in [Writers -> File \cup {None}]
    /\ pc \in [Writers -> Steps]
    /\ content \in [Writers -> Values \cup {None}]
    /\ opened \in [Readers -> File \cup {None}]
    /\ past \subseteq Values \cup {Torn, None}

Data(f) == IF f = None THEN None ELSE f.data

Init ==
    /\ file \in [data : Values, synced : {TRUE}] \cup {None}
    /\ settled = file
    /\ temp = [w \in Writers |-> None]
    /\ pc = [w \in Writers |-> "idle"]
    /\ content = [w \in Writers |-> None]
    /\ opened = [r \in Readers |-> None]
    /\ past = {}

-----------------------------------------------------------------------------
(* atomic_write_bytes *)

Goto(w, step) == pc' = [pc EXCEPT ![w] = step]

New == [data |-> Torn, synced |-> FALSE]

\* Mutant: the record is written where it is.
OpenInPlace(w, v) ==
    /\ pc[w] = "idle"
    /\ file' = New
    /\ temp' = [temp EXCEPT ![w] = New]
    /\ content' = [content EXCEPT ![w] = v]
    /\ Goto(w, "write")
    /\ UNCHANGED <<settled, opened, past>>

\* tempfile.mkstemp: an empty file with a name nobody else has.
MakeTemporary(w, v) ==
    /\ pc[w] = "idle"
    /\ temp' = [temp EXCEPT ![w] = New]
    /\ content' = [content EXCEPT ![w] = v]
    /\ Goto(w, "write")
    /\ UNCHANGED <<file, settled, opened, past>>

\* Mutant: the content of another call.
NoContent(w) == None

\* content.encode("utf-8")
Content(w) == content[w]

Write(w) ==
    /\ pc[w] = "write"
    /\ temp' = [temp EXCEPT ![w].data = Content(w)]
    /\ Goto(w, "sync")
    /\ UNCHANGED <<file, settled, content, opened, past>>

\* Mutant: flush is taken for fsync.
FlushOnly(w) ==
    /\ pc[w] = "sync"
    /\ Goto(w, "replace")
    /\ UNCHANGED <<file, settled, temp, content, opened, past>>

Sync(w) ==
    /\ pc[w] = "sync"
    /\ temp' = [temp EXCEPT ![w].synced = TRUE]
    /\ Goto(w, "replace")
    /\ UNCHANGED <<file, settled, content, opened, past>>

\* The disk is full, or chmod or replace is refused.
Fails(w) ==
    /\ pc[w] \in {"write", "sync", "replace"}
    /\ Goto(w, "unlink")
    /\ UNCHANGED <<file, settled, temp, content, opened, past>>

Replace(w) ==
    /\ pc[w] = "replace"
    /\ file' = temp[w]
    /\ past' = past \cup {Data(file)}
    /\ temp' = [temp EXCEPT ![w] = None]
    /\ Goto(w, "unlink")
    /\ UNCHANGED <<settled, content, opened>>

Ends(w) ==
    /\ temp' = [temp EXCEPT ![w] = None]
    /\ content' = [content EXCEPT ![w] = None]
    /\ Goto(w, "idle")
    /\ UNCHANGED <<file, settled, opened, past>>

\* finally: temporary.unlink(missing_ok=True)
Unlink(w) == pc[w] = "unlink" /\ Ends(w)

\* The temporary file stays, under a name that no listing of records matches.
Dies(w) == pc[w] # "idle" /\ Ends(w)

-----------------------------------------------------------------------------
(* ProposalStore.load, IntakeStore.load_receipt: path.read_text *)

Open(r) ==
    /\ opened' = [opened EXCEPT ![r] = file]
    /\ UNCHANGED <<file, settled, temp, pc, content, past>>

-----------------------------------------------------------------------------
(* The file system *)

\* The directory is written to the disk, sooner or later.
Settle ==
    /\ settled' = file
    /\ UNCHANGED <<file, temp, pc, content, opened, past>>

\* What is not on the disk is lost.
AfterLoss(f) == IF f = None \/ f.synced THEN f ELSE [f EXCEPT !.data = Torn]

\* Every process is gone, and the directory is as old as it is on the disk.
PowerLoss ==
    /\ file' = AfterLoss(settled)
    /\ settled' = file'
    /\ temp' = [w \in Writers |-> None]
    /\ pc' = [w \in Writers |-> "idle"]
    /\ content' = [w \in Writers |-> None]
    /\ opened' = [r \in Readers |-> None]
    /\ UNCHANGED past

-----------------------------------------------------------------------------

Next ==
    \/ \E w \in Writers :
          \/ \E v \in Values : MakeTemporary(w, v)
          \/ Write(w)
          \/ Sync(w)
          \/ Fails(w)
          \/ Replace(w)
          \/ Unlink(w)
          \/ Dies(w)
    \/ \E r \in Readers : Open(r)
    \/ Settle
    \/ PowerLoss

Spec == Init /\ [][Next]_vars

-----------------------------------------------------------------------------
(* Safety *)

\* A reader gets a record that somebody has saved, whole: none that is being
\* written, none that a writer left when it failed or died, and none that a
\* loss of power has cut off.
ReadsAreWhole == \A r \in Readers : Data(opened[r]) # Torn

Register == INSTANCE RecordRegister WITH value <- Data(file)

\* A save takes effect in one step or not at all, so that ProposalService and
\* IntakeService may take it for one; a loss of power may undo it as a whole,
\* since nobody writes the directory to the disk.
ImplementsRecordRegister == Register!Spec

-----------------------------------------------------------------------------
(* The inductive invariant *)

\* What is at the path, or has been there when the directory was written, is
\* whole and on the disk.
Safe(f) == f # None => f.data # Torn /\ f.synced

WritersOK ==
    \A w \in Writers :
        /\ pc[w] \in {"write", "sync", "replace"} => temp[w] # None /\ content[w] # None
        /\ pc[w] \in {"sync", "replace"} => temp[w].data # Torn
        /\ pc[w] = "replace" => temp[w].synced

IInv ==
    /\ TypeOK
    /\ WritersOK
    /\ Safe(file) /\ Safe(settled)
    /\ \A r \in Readers : Safe(opened[r])
    /\ Data(settled) \in past \cup {Data(file)}
=================================================================================
