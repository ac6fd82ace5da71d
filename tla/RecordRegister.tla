----------------------------- MODULE RecordRegister -----------------------------
(****************************************************************************)
(* What the stores rely on: a record file has a whole value or none, a save *)
(* changes it in one step, and a loss of power can take it back to what it  *)
(* was before, never to anything else. AtomicFile implements this.          *)
(****************************************************************************)
CONSTANTS Values, None

VARIABLES
    value,  \* what is in the file, or None
    past    \* what has been in it before

vars == <<value, past>>

Init ==
    /\ value \in Values \cup {None}
    /\ past = {}

Save(v) ==
    /\ value' = v
    /\ past' = past \cup {value}

\* The file system has not written the directory since.
Restart ==
    /\ value' \in past
    /\ UNCHANGED past

Next == Restart \/ \E v \in Values : Save(v)

Spec == Init /\ [][Next]_vars
=================================================================================
