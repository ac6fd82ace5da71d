---------------------------- MODULE AtomicFileProofs ----------------------------
(****************************************************************************)
(* What holds of AtomicFile for every set of writers, readers and values:   *)
(* IInv is inductive, because only what is written and synced gets to the   *)
(* path, and every step is a save, a restart or nothing for the register.   *)
(****************************************************************************)
EXTENDS AtomicFile, TLAPS

\* Init has whole and synced files only.
LEMMA InitInv == Init => IInv
  BY ValuesAssumption, NoneAssumption
  DEF Init, IInv, TypeOK, WritersOK, Safe, Data, File, Steps

\* A step of a writer on its own temporary file, that leaves the path alone.
LEMMA TemporaryKeeps ==
    ASSUME IInv, NEW w \in Writers,
           NEW t \in File \cup {None}, NEW c \in Values \cup {None}, NEW step \in Steps,
           temp' = [temp EXCEPT ![w] = t], content' = [content EXCEPT ![w] = c], Goto(w, step),
           UNCHANGED <<file, settled, opened, past>>,
           step \in {"write", "sync", "replace"} => t # None /\ c # None,
           step \in {"sync", "replace"} => t.data # Torn,
           step = "replace" => t.synced
    PROVE  IInv'
  <1>1. TypeOK'
    BY DEF IInv, TypeOK, Goto
  <1>2. WritersOK'
    <2> SUFFICES ASSUME NEW x \in Writers
                 PROVE  /\ pc'[x] \in {"write", "sync", "replace"} => temp'[x] # None /\ content'[x] # None
                        /\ pc'[x] \in {"sync", "replace"} => temp'[x].data # Torn
                        /\ pc'[x] = "replace" => temp'[x].synced
      BY DEF WritersOK
    <2>1. CASE x = w
      BY <2>1 DEF IInv, TypeOK, Goto
    <2>2. CASE x # w
      BY <2>2 DEF IInv, TypeOK, Goto, WritersOK
    <2> QED
      BY <2>1, <2>2
  <1> QED
    BY <1>1, <1>2 DEF IInv, Safe, Data

\* Before the replace, and when a writer ends.
LEMMA WriterKeeps ==
    ASSUME IInv, NEW w \in Writers,
           \/ \E v \in Values : MakeTemporary(w, v)
           \/ Write(w) \/ Sync(w) \/ Fails(w) \/ Unlink(w) \/ Dies(w)
    PROVE  IInv'
  <1>1. /\ temp[w] \in File \cup {None} /\ content[w] \in Values \cup {None} /\ pc[w] \in Steps
        /\ temp = [temp EXCEPT ![w] = temp[w]] /\ content = [content EXCEPT ![w] = content[w]]
    BY DEF IInv, TypeOK
  <1>2. /\ pc[w] \in {"write", "sync", "replace"} => temp[w] # None /\ content[w] # None
        /\ pc[w] \in {"sync", "replace"} => temp[w].data # Torn
    BY DEF IInv, WritersOK
  <1>3. CASE \E v \in Values : MakeTemporary(w, v)
    <2>1. New \in File
      BY DEF New, File
    <2>2. New # None
      BY <2>1, NoneAssumption
    <2>3. PICK v \in Values : MakeTemporary(w, v)
      BY <1>3
    <2> QED
      BY <2>1, <2>2, <2>3, TemporaryKeeps, ValuesAssumption DEF MakeTemporary, Steps
  <1>4. CASE Write(w)
    <2> DEFINE t == [temp[w] EXCEPT !.data = content[w]]
    <2>1. content[w] \in Values /\ temp[w] \in File
      BY <1>1, <1>2, <1>4 DEF Write
    <2>2. t \in File /\ t # None /\ t.data # Torn
      BY <2>1, ValuesAssumption, NoneAssumption DEF File
    <2>3. temp' = [temp EXCEPT ![w] = t]
      BY <1>4 DEF Write, Content, IInv, TypeOK
    <2> HIDE DEF t
    <2> QED
      BY <1>1, <1>2, <1>4, <2>2, <2>3, TemporaryKeeps DEF Write, Steps
  <1>5. CASE Sync(w)
    <2> DEFINE t == [temp[w] EXCEPT !.synced = TRUE]
    <2>1. temp[w] \in File /\ temp[w].data # Torn
      BY <1>1, <1>2, <1>5 DEF Sync
    <2>2. t \in File /\ t # None /\ t.data # Torn /\ t.synced
      BY <2>1, NoneAssumption DEF File
    <2>3. temp' = [temp EXCEPT ![w] = t]
      BY <1>5 DEF Sync, IInv, TypeOK
    <2> HIDE DEF t
    <2> QED
      BY <1>1, <1>2, <1>5, <2>2, <2>3, TemporaryKeeps DEF Sync, Steps
  <1>6. CASE Fails(w)
    BY <1>1, <1>6, TemporaryKeeps DEF Fails, Steps
  <1>7. CASE Unlink(w) \/ Dies(w)
    BY <1>7, TemporaryKeeps DEF Unlink, Dies, Ends, Steps
  <1> QED
    BY <1>3, <1>4, <1>5, <1>6, <1>7

\* A whole and synced file gets to the path.
LEMMA ReplaceKeeps ==
    ASSUME IInv, NEW w \in Writers, Replace(w)
    PROVE  IInv' /\ Register!Save(Data(file)') /\ Data(file)' \in Values
  <1>1. /\ temp[w] \in File /\ temp[w].data # Torn /\ temp[w].synced
        /\ temp[w].data \in Values
    BY DEF Replace, IInv, TypeOK, WritersOK, File
  <1>2. file' = temp[w] /\ file' # None /\ Data(file)' = temp[w].data
    BY <1>1, NoneAssumption DEF Replace, Data
  <1>3. Data(file) \in Values \cup {Torn, None}
    BY DEF IInv, TypeOK, Data, File
  <1>4. TypeOK'
    BY <1>1, <1>3 DEF IInv, TypeOK, Replace, Goto, Steps
  <1>5. WritersOK'
    BY DEF IInv, TypeOK, WritersOK, Replace, Goto
  <1>6. Data(settled)' \in past' \cup {Data(file)'}
    BY DEF IInv, Replace, Data
  <1>7. Safe(file)' /\ Safe(settled)' /\ \A r \in Readers : Safe(opened[r])'
    BY <1>1, <1>2 DEF IInv, Replace, Safe
  <1> QED
    BY <1>1, <1>2, <1>4, <1>5, <1>6, <1>7 DEF IInv, Register!Save, Replace

\* What was settled comes back unchanged, since it is on the disk.
LEMMA PowerLossKeeps ==
    ASSUME IInv, PowerLoss
    PROVE  IInv' /\ (Register!Restart \/ UNCHANGED Register!vars)
  <1>1. file' = settled /\ settled' = settled
    BY DEF PowerLoss, AfterLoss, IInv, Safe
  <1>2. past' = past /\ Data(file)' = Data(settled) /\ Data(settled)' = Data(settled)
    BY <1>1 DEF PowerLoss, Data
  <1>3. TypeOK'
    BY <1>1, <1>2 DEF IInv, TypeOK, PowerLoss, Steps
  <1>4. WritersOK' /\ \A r \in Readers : Safe(opened[r])'
    BY DEF PowerLoss, WritersOK, Safe
  <1>5. Safe(file)' /\ Safe(settled)'
    BY <1>1 DEF IInv, Safe
  <1> QED
    BY <1>2, <1>3, <1>4, <1>5 DEF IInv, Register!Restart, Register!vars

\* Every step keeps the invariant and is a step of the register or none.
LEMMA Step == IInv /\ [Next]_vars => IInv' /\ [Register!Next]_(Register!vars)
  <1> SUFFICES ASSUME IInv, [Next]_vars
               PROVE  IInv' /\ (Register!Next \/ UNCHANGED Register!vars)
    OBVIOUS
  <1>1. CASE UNCHANGED vars
    BY <1>1 DEF vars, IInv, TypeOK, WritersOK, Safe, Data, Register!vars
  <1>2. ASSUME NEW w \in Writers,
               \/ \E v \in Values : MakeTemporary(w, v)
               \/ Write(w) \/ Sync(w) \/ Fails(w) \/ Unlink(w) \/ Dies(w)
        PROVE  IInv' /\ UNCHANGED Register!vars
    <2>1. file' = file /\ past' = past
      BY <1>2 DEF MakeTemporary, Write, Sync, Fails, Unlink, Dies, Ends
    <2> QED
      BY <1>2, <2>1, WriterKeeps DEF Register!vars, Data
  <1>3. ASSUME NEW w \in Writers, Replace(w)
        PROVE  IInv' /\ Register!Next
    BY <1>3, ReplaceKeeps DEF Register!Next
  <1>4. ASSUME NEW r \in Readers, Open(r)
        PROVE  IInv' /\ UNCHANGED Register!vars
    BY <1>4 DEF Open, IInv, TypeOK, WritersOK, Safe, Data, Register!vars
  <1>5. CASE Settle
    BY <1>5 DEF Settle, IInv, TypeOK, WritersOK, Safe, Data, Register!vars
  <1>6. CASE PowerLoss
    BY <1>6, PowerLossKeeps DEF Register!Next
  <1> QED
    BY <1>1, <1>2, <1>3, <1>4, <1>5, <1>6 DEF Next

\* The inductive invariant, for any number of writers and readers.
THEOREM Invariance == Spec => []IInv
  BY InitInv, Step, PTL DEF Spec

\* Every variable has its type in every reachable state.
THEOREM TypeCorrect == Spec => []TypeOK
  <1>1. IInv => TypeOK
    BY DEF IInv
  <1> QED
    BY <1>1, Invariance, PTL

\* No interleaving, failure, death or loss of power shows a torn record to a
\* reader.
THEOREM WholeReads == Spec => []ReadsAreWhole
  <1>1. IInv => ReadsAreWhole
    BY ValuesAssumption DEF IInv, ReadsAreWhole, Safe, Data
  <1> QED
    BY <1>1, Invariance, PTL

\* A save is one step of a register, which is what the stores take it for.
THEOREM RegisterRefinement == Spec => ImplementsRecordRegister
  <1>1. Init => Register!Init
    BY DEF Init, Register!Init, Data
  <1> QED
    BY <1>1, Step, Invariance, PTL DEF Spec, Register!Spec, ImplementsRecordRegister

=================================================================================
