---------------------------- MODULE McpServerProofs ----------------------------
(****************************************************************************)
(* What holds of the MCP server: of the calls of several clients over one   *)
(* store (ToolServer), and of one call on its way through it (ToolBoundary). *)
(****************************************************************************)
EXTENDS ToolServer, ToolBoundary, SequenceTheorems, WellFoundedInduction, TLAPS

-----------------------------------------------------------------------------
(* Ascending sequences of ids *)

Ascends(s) == \A i, j \in DOMAIN s : i < j => s[i] < s[j]
Shows(s, p) == \E i \in DOMAIN s : s[i] = p

LEMMA LowestFacts ==
    ASSUME NEW S \in SUBSET Nat, S # {}
    PROVE  /\ Lowest(S) \in S
           /\ \A q \in S : Lowest(S) <= q
  <1>1. PICK x \in S : \A y \in S : <<y, x>> \notin OpToRel(<, Nat)
    BY NatLessThanWellFounded, WFMin
  <1>2. \A y \in S : x <= y
    <2> SUFFICES ASSUME NEW y \in S
                 PROVE  x <= y
      OBVIOUS
    <2>1. ~(y < x)
      BY <1>1 DEF OpToRel
    <2> QED
      BY <2>1
  <1> QED
    BY <1>2 DEF Lowest

LEMMA MinOfTwo ==
    ASSUME NEW a \in Int, NEW b \in Int
    PROVE  Min({a, b}) = IF a <= b THEN a ELSE b
  BY DEF Min

LEMMA IdFacts ==
    /\ Ids \subseteq Nat
    /\ 0 \notin Ids
  BY IdsAssumption

LEMMA SequenceFacts ==
    ASSUME NEW s \in Seq(Ids)
    PROVE  /\ Len(s) \in Nat
           /\ DOMAIN s = 1..Len(s)
           /\ \A i \in 1..Len(s) : s[i] \in Ids /\ s[i] \in Nat
  BY LenProperties, ElementOfSeq, IdFacts

\* The search for the first id after the cursor, in an ascending listing.
LEMMA StartFacts ==
    ASSUME NEW s \in Seq(Ids), NEW a \in Nat, Ascends(s)
    PROVE  /\ Start(s, a) \in 1..Len(s) + 1
           /\ \A i \in 1..Len(s) : i < Start(s, a) <=> s[i] <= a
  <1> DEFINE later == {i \in DOMAIN s : s[i] > a}
  <1>1. /\ Len(s) \in Nat
        /\ DOMAIN s = 1..Len(s)
        /\ \A i \in 1..Len(s) : s[i] \in Nat
    BY SequenceFacts
  <1>2. later \in SUBSET Nat /\ \A i \in 1..Len(s) : i \in later <=> s[i] > a
    BY <1>1
  <1>3. CASE later = {}
    <2>1. Start(s, a) = Len(s) + 1
      BY <1>3 DEF Start
    <2> QED
      BY <2>1, <1>1, <1>2, <1>3
  <1>4. CASE later # {}
    <2>1. Start(s, a) = Lowest(later)
      BY <1>4 DEF Start
    <2>2. Lowest(later) \in later /\ \A i \in later : Lowest(later) <= i
      BY <1>2, <1>4, LowestFacts
    <2> QED
      <3> HIDE DEF later
      <3> DEFINE x == Lowest(later)
      <3>1. x \in 1..Len(s) /\ s[x] > a
        BY <2>2, <1>1 DEF later
      <3> HIDE DEF x
      <3>2. \A i \in 1..Len(s) : i < x => s[i] <= a
        BY <2>2, <1>1, <1>2, <3>1 DEF x
      <3>3. \A i \in 1..Len(s) : ~(i < x) => s[i] > a
        <4> SUFFICES ASSUME NEW i \in 1..Len(s), ~(i < x)
                     PROVE  s[i] > a
          OBVIOUS
        <4>1. x <= i
          BY <1>1, <3>1
        <4>2. CASE x = i
          BY <4>2, <3>1
        <4>3. CASE x < i
          BY <4>3, <3>1, <1>1 DEF Ascends
        <4> QED
          BY <4>1, <4>2, <4>3, <1>1, <3>1
      <3> QED
        BY <2>1, <3>1, <3>2, <3>3, <1>1 DEF x
  <1> QED
    BY <1>3, <1>4

LEMMA AppendFacts ==
    ASSUME NEW s \in Seq(Ids), NEW p \in Ids, Ascends(s), \A i \in DOMAIN s : s[i] < p
    PROVE  /\ Append(s, p) \in Seq(Ids)
           /\ Ascends(Append(s, p))
           /\ Shows(Append(s, p), p)
           /\ \A q : Shows(s, q) => Shows(Append(s, p), q)
           /\ \A i \in DOMAIN Append(s, p) : Append(s, p)[i] <= p
  <1> DEFINE t == Append(s, p)
  <1>1. Len(s) \in Nat /\ DOMAIN s = 1..Len(s) /\ p \in Nat /\ \A i \in 1..Len(s) : s[i] \in Nat
    BY SequenceFacts, IdFacts
  <1>2. /\ t \in Seq(Ids)
        /\ DOMAIN t = 1..Len(s) + 1
        /\ \A i \in 1..Len(s) : t[i] = s[i]
        /\ t[Len(s) + 1] = p
    BY AppendProperties, SequenceFacts
  <1> HIDE DEF t
  <1>3. Ascends(t)
    BY <1>1, <1>2 DEF Ascends
  <1>4. Shows(t, p) /\ \A q : Shows(s, q) => Shows(t, q)
    BY <1>1, <1>2 DEF Shows
  <1>5. \A i \in DOMAIN t : t[i] <= p
    BY <1>1, <1>2
  <1> QED
    BY <1>2, <1>3, <1>4, <1>5 DEF t

\* A page from first to last of what was found, after the items of a walk: all
\* of it comes after them, and all of them are the items from then on.
Follows(items, found, first, last, page, all) ==
    /\ items \in Seq(Ids) /\ found \in Seq(Ids) /\ Ascends(items) /\ Ascends(found)
    /\ first \in 1..Len(found) + 1 /\ last \in (first - 1)..Len(found)
    /\ \A i \in DOMAIN items : \A j \in first..Len(found) : items[i] < found[j]
    /\ page = SubSeq(found, first, last) /\ all = items \o page

LEMMA PageFacts ==
    ASSUME NEW items, NEW found, NEW first, NEW last, NEW page, NEW all,
           Follows(items, found, first, last, page, all)
    PROVE  /\ page \in Seq(Ids)
           /\ Len(page) = last - first + 1
           /\ \A j \in 1..Len(page) : page[j] = found[first + j - 1]
           /\ all \in Seq(Ids)
           /\ Ascends(all)
           /\ \A q : Shows(items, q) => Shows(all, q)
           /\ \A j \in first..last : Shows(all, found[j])
           /\ \A i \in DOMAIN all : \/ i \in DOMAIN items /\ all[i] = items[i]
                                    \/ \E j \in first..last : all[i] = found[j]
  <1>0. /\ items \in Seq(Ids) /\ found \in Seq(Ids) /\ Ascends(items) /\ Ascends(found)
        /\ first \in 1..Len(found) + 1 /\ last \in (first - 1)..Len(found)
        /\ \A i \in DOMAIN items : \A j \in first..Len(found) : items[i] < found[j]
        /\ page = SubSeq(found, first, last) /\ all = items \o page
    BY DEF Follows
  <1>1. /\ Len(items) \in Nat /\ DOMAIN items = 1..Len(items)
        /\ \A i \in 1..Len(items) : items[i] \in Nat
        /\ Len(found) \in Nat /\ DOMAIN found = 1..Len(found)
        /\ \A i \in 1..Len(found) : found[i] \in Ids /\ found[i] \in Nat
    BY <1>0, SequenceFacts
  <1>2. /\ page \in Seq(Ids)
        /\ Len(page) = last - first + 1
        /\ \A j \in 1..Len(page) : page[j] = found[first + j - 1]
    <2>1. \A i \in first..last : found[i] \in Ids
      BY <1>0, <1>1
    <2>2. first \in Int /\ last \in Int /\ first <= last + 1
      BY <1>0, <1>1
    <2>3. /\ page \in Seq(Ids)
          /\ Len(page) = IF first <= last THEN last - first + 1 ELSE 0
          /\ \A i \in 1..last - first + 1 : page[i] = found[first + i - 1]
      BY <1>0, <2>1, <2>2, SubSeqProperties
    <2> QED
      BY <2>2, <2>3
  <1>3. /\ all \in Seq(Ids)
        /\ Len(all) = Len(items) + Len(page)
        /\ \A i \in 1..Len(items) + Len(page) :
              all[i] = IF i <= Len(items) THEN items[i] ELSE page[i - Len(items)]
    BY <1>0, <1>2, ConcatProperties
  <1>4. DOMAIN all = 1..Len(items) + (last - first + 1)
    BY <1>0, <1>1, <1>2, <1>3, SequenceFacts
  <1>5. \A i \in DOMAIN all : /\ i <= Len(items) => i \in DOMAIN items /\ all[i] = items[i]
                              /\ i > Len(items) => /\ i - Len(items) + first - 1 \in first..last
                                                   /\ all[i] = found[i - Len(items) + first - 1]
    <2> SUFFICES ASSUME NEW i \in DOMAIN all
                 PROVE  /\ i <= Len(items) => i \in DOMAIN items /\ all[i] = items[i]
                        /\ i > Len(items) => /\ i - Len(items) + first - 1 \in first..last
                                             /\ all[i] = found[i - Len(items) + first - 1]
      OBVIOUS
    <2>1. i \in Nat /\ i \in 1..Len(items) + Len(page)
      BY <1>0, <1>1, <1>2, <1>4
    <2>2. CASE i <= Len(items)
      BY <2>1, <2>2, <1>1, <1>3
    <2>3. CASE i > Len(items)
      <3>1. i - Len(items) \in 1..Len(page)
        BY <2>1, <2>3, <1>0, <1>1
      <3>2. all[i] = page[i - Len(items)]
        BY <2>1, <2>3, <1>1, <1>3
      <3>3. page[i - Len(items)] = found[first + (i - Len(items)) - 1]
        BY <3>1, <1>2
      <3>4. first + (i - Len(items)) - 1 = i - Len(items) + first - 1
        BY <2>1, <1>0, <1>1
      <3>5. i - Len(items) + first - 1 \in first..last
        BY <3>1, <1>0, <1>1, <1>2, <2>1
      <3> QED
        BY <3>2, <3>3, <3>4, <3>5, <2>3, <2>1, <1>1
    <2> QED
      BY <2>1, <2>2, <2>3, <1>1
  <1>6. Ascends(all)
    <2> SUFFICES ASSUME NEW i \in DOMAIN all, NEW j \in DOMAIN all, i < j
                 PROVE  all[i] < all[j]
      BY DEF Ascends
    <2>1. i \in Nat /\ j \in Nat
      BY <1>4, <1>1
    <2>2. CASE j <= Len(items)
      <3>1. all[i] = items[i] /\ all[j] = items[j] /\ i \in DOMAIN items /\ j \in DOMAIN items
        BY <2>1, <2>2, <1>1, <1>5
      <3> QED
        BY <3>1, <1>0 DEF Ascends
    <2>3. CASE i <= Len(items) /\ j > Len(items)
      <3>1. i \in DOMAIN items /\ all[i] = items[i]
        BY <2>3, <1>5
      <3>2. PICK b \in first..last : all[j] = found[b]
        BY <2>3, <1>5
      <3> QED
        BY <3>1, <3>2, <1>0
    <2>4. CASE i > Len(items)
      <3> DEFINE a == i - Len(items) + first - 1
                 b == j - Len(items) + first - 1
      <3>1. a \in first..last /\ all[i] = found[a]
        BY <2>4, <1>5
      <3>2. b \in first..last /\ all[j] = found[b]
        <4>1. j > Len(items)
          BY <2>1, <2>4, <1>0, <1>1
        <4> QED
          BY <4>1, <1>5
      <3>3. a < b
        BY <2>1, <1>0, <1>1
      <3> HIDE DEF a, b
      <3>4. a \in DOMAIN found /\ b \in DOMAIN found
        BY <3>1, <3>2, <1>0, <1>1
      <3> QED
        BY <3>1, <3>2, <3>3, <3>4, <1>0 DEF Ascends
    <2>5. j <= Len(items) \/ (i <= Len(items) /\ j > Len(items)) \/ i > Len(items)
      BY <2>1, <1>0, <1>1
    <2> QED
      BY <2>2, <2>3, <2>4, <2>5
  <1>7. \A q : Shows(items, q) => Shows(all, q)
    BY <1>0, <1>1, <1>3, <1>4 DEF Shows
  <1>8. \A j \in first..last : Shows(all, found[j])
    <2> SUFFICES ASSUME NEW j \in first..last
                 PROVE  Shows(all, found[j])
      OBVIOUS
    <2> DEFINE i == Len(items) + (j - first + 1)
    <2>1. i \in DOMAIN all /\ i > Len(items) /\ i - Len(items) + first - 1 = j
      BY <1>0, <1>1, <1>4
    <2>2. all[i] = found[j]
      BY <2>1, <1>5
    <2> QED
      BY <2>1, <2>2 DEF Shows
  <1>9. \A i \in DOMAIN all : \/ i \in DOMAIN items /\ all[i] = items[i]
                              \/ \E j \in first..last : all[i] = found[j]
    <2> SUFFICES ASSUME NEW i \in DOMAIN all
                 PROVE  \/ i \in DOMAIN items /\ all[i] = items[i]
                        \/ \E j \in first..last : all[i] = found[j]
      OBVIOUS
    <2>1. i \in Nat
      BY <1>0, <1>1, <1>4
    <2>2. i <= Len(items) \/ i > Len(items)
      BY <2>1, <1>0, <1>1
    <2> QED
      BY <2>2, <1>5
  <1> QED
    BY <1>2, <1>3, <1>6, <1>7, <1>8, <1>9

-----------------------------------------------------------------------------
(* The inductive invariant *)

\* What a walk has shown, up to its cursor; and what is steady is there by now.
WalkOK(w, rec) ==
    /\ Ascends(w.items)
    /\ \A p \in w.steady : Matches(rec[p], w.status)
    /\ w.state = "open" =>
          /\ w.limit \in Limits
          /\ \A i \in DOMAIN w.items : w.items[i] <= w.cursor
          /\ \A p \in w.steady : p <= w.cursor => Shows(w.items, p)
    /\ w.state = "done" => \A p \in w.steady : Shows(w.items, p)

\* A listing in progress has found, or will come to, whatever is steady.
ReadOK(k, w) ==
    k.pc = "read" =>
        /\ w.state = "open"
        /\ Ascends(k.found)
        /\ \A i \in DOMAIN k.found : \A n \in k.names : k.found[i] < n
        /\ \A p \in w.steady : p \in k.names \/ Shows(k.found, p)

\* A validation under way remembers that the worktree is, or was, intact.
SoundOK(k, good) ==
    /\ k.pc \in {"first_load", "load", "verify", "save", "reload"} =>
          /\ k.id \in Ids
          /\ good[k.id] => k.sound
    /\ k.pc \in {"save", "reload"} => k.sound

ClientOK(c) ==
    /\ WalkOK(walk[c], record)
    /\ ReadOK(call[c], walk[c])
    /\ SoundOK(call[c], intact)

IInv == TypeOK /\ \A c \in Clients : ClientOK(c)

-----------------------------------------------------------------------------
(* Typing *)

LEMMA IdleFacts ==
    /\ Idle \in Call
    /\ Idle.pc = "idle"
  <1>1. <<>> \in Seq(Ids)
    BY EmptySeq
  <1> QED
    BY <1>1 DEF Idle, Call

LEMMA CallFacts ==
    ASSUME NEW k \in Call
    PROVE  /\ k.pc \in {"idle", "read", "first_load", "load", "verify", "save", "reload"}
           /\ k.names \in SUBSET Ids
           /\ k.found \in Seq(Ids)
           /\ k.id \in Ids \cup {0}
           /\ k.mine \in Status \cup {None}
           /\ k.again \in BOOLEAN
           /\ k.sound \in BOOLEAN
  BY DEF Call

LEMMA WalkFacts ==
    ASSUME NEW w \in Walk
    PROVE  /\ w.state \in {"none", "open", "done"}
           /\ w.status \in Filters \cup {None}
           /\ w.limit \in Limits \cup {0}
           /\ w.cursor \in Ids \cup {0}
           /\ w.items \in Seq(Ids)
           /\ w.steady \in SUBSET Ids
  BY DEF Walk

LEMMA StateFacts ==
    ASSUME TypeOK, NEW c \in Clients
    PROVE  /\ call[c] \in Call
           /\ walk[c] \in Walk
           /\ asked[c] \in 0..MaxWalks
           /\ \A p \in Ids : record[p] \in Status \cup {None} /\ intact[p] \in BOOLEAN
  BY DEF TypeOK

\* A step that only moves one client's call on.
LEMMA CallSet ==
    ASSUME IInv, NEW c \in Clients, NEW k \in Call, call' = [call EXCEPT ![c] = k],
           ReadOK(k, walk[c]), SoundOK(k, intact),
           UNCHANGED <<record, intact, walk, changes, asked>>
    PROVE  IInv'
  <1>1. call' \in [Clients -> Call] /\ call'[c] = k /\ \A d \in Clients : d # c => call'[d] = call[d]
    BY DEF IInv, TypeOK
  <1>2. TypeOK'
    BY <1>1 DEF IInv, TypeOK
  <1>3. ASSUME NEW d \in Clients
        PROVE  ClientOK(d)'
    <2>1. CASE d = c
      BY <2>1, <1>1 DEF IInv, ClientOK, WalkOK, ReadOK, SoundOK
    <2>2. CASE d # c
      BY <2>2, <1>1 DEF IInv, ClientOK, WalkOK, ReadOK, SoundOK
    <2> QED
      BY <2>1, <2>2
  <1> QED
    BY <1>2, <1>3 DEF IInv

LEMMA IdleOK ==
    /\ \A w : ReadOK(Idle, w)
    /\ \A good : SoundOK(Idle, good)
  BY IdleFacts DEF ReadOK, SoundOK

LEMMA AnswersStep ==
    ASSUME IInv, NEW c \in Clients, Answers(c), UNCHANGED <<record, intact, walk, changes, asked>>
    PROVE  IInv'
  BY CallSet, IdleOK, IdleFacts DEF Answers

-----------------------------------------------------------------------------
(* Steps of proposal_list *)

LEMMA StartWalkStep ==
    ASSUME IInv, NEW c \in Clients, NEW status \in Filters, NEW limit \in Limits, StartWalk(c, status, limit)
    PROVE  IInv'
  <1> DEFINE w == [state |-> "open", status |-> status, limit |-> limit, cursor |-> 0,
                   items |-> <<>>, steady |-> {p \in Ids : Matches(record[p], status)}]
  <1>1. /\ walk' = [walk EXCEPT ![c] = w]
        /\ asked' = [asked EXCEPT ![c] = @ + 1]
        /\ asked[c] < MaxWalks
        /\ call[c].pc = "idle"
        /\ UNCHANGED <<record, intact, call, changes>>
    BY DEF StartWalk, At
  <1>2. w \in Walk
    <2>1. <<>> \in Seq(Ids)
      BY EmptySeq
    <2> QED
      BY <2>1 DEF Walk
  <1>3. WalkOK(w, record)
    <2>1. Ascends(<<>>) /\ \A i \in DOMAIN <<>> : <<>>[i] <= 0
      BY DEF Ascends
    <2>2. \A p \in Ids : ~(p <= 0)
      BY IdFacts
    <2> QED
      BY <2>1, <2>2 DEF WalkOK
  <1> HIDE DEF w
  <1>4. asked' \in [Clients -> 0..MaxWalks]
    <2>1. asked[c] \in 0..MaxWalks
      BY StateFacts DEF IInv
    <2>2. asked[c] + 1 \in 0..MaxWalks
      BY <2>1, <1>1, BoundsAssumption
    <2> QED
      BY <2>2, <1>1 DEF IInv, TypeOK
  <1>5. walk' \in [Clients -> Walk] /\ walk'[c] = w /\ \A d \in Clients : d # c => walk'[d] = walk[d]
    BY <1>1, <1>2 DEF IInv, TypeOK
  <1>6. TypeOK'
    BY <1>1, <1>4, <1>5 DEF IInv, TypeOK
  <1>7. ASSUME NEW d \in Clients
        PROVE  ClientOK(d)'
    <2>1. CASE d = c
      BY <2>1, <1>1, <1>3, <1>5 DEF IInv, ClientOK, WalkOK, ReadOK, SoundOK
    <2>2. CASE d # c
      BY <2>2, <1>1, <1>5 DEF IInv, ClientOK, WalkOK, ReadOK, SoundOK
    <2> QED
      BY <2>1, <2>2
  <1> QED
    BY <1>6, <1>7 DEF IInv

LEMMA CallListStep ==
    ASSUME IInv, NEW c \in Clients, CallList(c)
    PROVE  IInv'
  <1> DEFINE k == [Idle EXCEPT !.pc = "read", !.names = Names]
  <1>1. /\ call' = [call EXCEPT ![c] = k]
        /\ walk[c].state = "open"
        /\ UNCHANGED <<record, intact, walk, changes, asked>>
    BY DEF CallList
  <1>2. k.pc = "read" /\ k.names = Names /\ k.found = <<>> /\ k \in Call
    BY IdleFacts, EmptySeq DEF Idle, Call, Names
  <1> HIDE DEF k
  <1>3. \A p \in walk[c].steady : p \in Names
    BY StateFacts, WalkFacts DEF IInv, ClientOK, WalkOK, Matches, Names
  <1>4. ReadOK(k, walk[c])
    BY <1>1, <1>2, <1>3 DEF ReadOK, Ascends
  <1>5. SoundOK(k, intact)
    BY <1>2 DEF SoundOK
  <1> QED
    BY <1>1, <1>2, <1>4, <1>5, CallSet

LEMMA ReadRecordStep ==
    ASSUME IInv, NEW c \in Clients, ReadRecord(c)
    PROVE  IInv'
  <1> DEFINE k == call[c]
             w == walk[c]
             p == Lowest(call[c].names)
             found == IF Matches(record[p], walk[c].status) THEN Append(call[c].found, p) ELSE call[c].found
             n == [call[c] EXCEPT !.names = @ \ {p}, !.found = found]
  <1>1. /\ call[c].pc = "read"
        /\ call[c].names # {}
        /\ call' = [call EXCEPT ![c] = n]
        /\ UNCHANGED <<record, intact, walk, changes, asked>>
    <2>1. call \in [Clients -> Call]
      BY DEF IInv, TypeOK
    <2> QED
      BY <2>1 DEF ReadRecord, At
  <1>2. k \in Call /\ w \in Walk
    BY StateFacts DEF IInv
  <1>3. k.names \in SUBSET Ids /\ k.found \in Seq(Ids) /\ k.names \in SUBSET Nat
    BY <1>2, CallFacts, IdFacts
  <1>4. p \in k.names /\ \A q \in k.names : p <= q
    BY <1>1, <1>3, LowestFacts
  <1>5. /\ w.state = "open"
        /\ Ascends(k.found)
        /\ \A i \in DOMAIN k.found : \A m \in k.names : k.found[i] < m
        /\ \A q \in w.steady : q \in k.names \/ Shows(k.found, q)
        /\ \A q \in w.steady : Matches(record[q], w.status)
    BY <1>1 DEF IInv, ClientOK, ReadOK, WalkOK
  <1>6. /\ n.names = k.names \ {p}
        /\ n.found = found
        /\ n.pc = "read"
    BY <1>1, <1>2 DEF Call
  <1>7. found \in Seq(Ids)
    BY <1>3, <1>4, <1>5, AppendFacts
  <1>8. n \in Call
    BY <1>2, <1>3, <1>7 DEF Call
  <1>9. Ascends(found) /\ \A i \in DOMAIN found : \A m \in k.names \ {p} : found[i] < m
    <2>1. CASE Matches(record[p], walk[c].status)
      <3>1. found = Append(k.found, p)
        BY <2>1
      <3>2. Ascends(found) /\ \A i \in DOMAIN found : found[i] <= p
        BY <3>1, <1>3, <1>4, <1>5, AppendFacts
      <3>3. \A i \in DOMAIN found : found[i] \in Nat
        BY <1>7, SequenceFacts
      <3>4. \A m \in k.names \ {p} : m \in Nat /\ p < m
        BY <1>3, <1>4
      <3> HIDE DEF p, found
      <3> QED
        BY <3>2, <3>3, <3>4, <1>3, <1>4
    <2>2. CASE ~Matches(record[p], walk[c].status)
      BY <2>2, <1>5
    <2> QED
      BY <2>1, <2>2
  <1>10. \A q \in w.steady : q \in k.names \ {p} \/ Shows(found, q)
    <2>1. CASE Matches(record[p], walk[c].status)
      <3>1. found = Append(k.found, p)
        BY <2>1
      <3>2. Shows(found, p) /\ \A q : Shows(k.found, q) => Shows(found, q)
        BY <3>1, <1>3, <1>4, <1>5, AppendFacts
      <3> QED
        BY <3>2, <1>5
    <2>2. CASE ~Matches(record[p], walk[c].status)
      BY <2>2, <1>5
    <2> QED
      BY <2>1, <2>2
  <1> HIDE DEF n, p, found
  <1>11. ReadOK(n, walk[c])
    BY <1>5, <1>6, <1>9, <1>10 DEF ReadOK
  <1>12. SoundOK(n, intact)
    BY <1>6 DEF SoundOK
  <1> QED
    BY <1>1, <1>8, <1>11, <1>12, CallSet

\* A page: the walk goes on after its last proposal, or is over.
LEMMA ProposalListStep ==
    ASSUME IInv, NEW c \in Clients, ProposalList(c)
    PROVE  IInv'
  <1> DEFINE w == walk[c]
             records == call[c].found
             start == Start(records, w.cursor)
             last == Min({start + w.limit - 1, Len(records)})
             page == SubSeq(records, start, last)
             more == More(records, start, w.limit)
             n == [w EXCEPT !.items = w.items \o page,
                            !.cursor = IF more /\ page # <<>> THEN Last(page) ELSE w.cursor,
                            !.state = IF more THEN "open" ELSE "done"]
  <1>1. /\ call[c].pc = "read"
        /\ call[c].names = {}
        /\ walk' = [walk EXCEPT ![c] = n]
        /\ call' = [call EXCEPT ![c] = Idle]
        /\ UNCHANGED <<record, intact, changes, asked>>
    <2>1. walk \in [Clients -> Walk]
      BY DEF IInv, TypeOK
    <2> QED
      BY <2>1 DEF ProposalList, Answers, At
  <1>2. call[c] \in Call /\ w \in Walk
    BY StateFacts DEF IInv
  <1>3. /\ w.limit \in Limits \cup {0} /\ w.cursor \in Ids \cup {0} /\ w.cursor \in Nat
        /\ w.items \in Seq(Ids) /\ w.steady \in SUBSET Ids /\ w.status \in Filters \cup {None}
        /\ records \in Seq(Ids)
    <2>1. call[c].found \in Seq(Ids)
      BY <1>2, CallFacts
    <2>2. /\ w.limit \in Limits \cup {0} /\ w.cursor \in Ids \cup {0}
          /\ w.items \in Seq(Ids) /\ w.steady \in SUBSET Ids /\ w.status \in Filters \cup {None}
      BY <1>2, WalkFacts
    <2>3. w.cursor \in Nat
      <3> DEFINE x == w.cursor
      <3>1. x \in Ids \cup {0}
        BY <2>2
      <3> HIDE DEF x
      <3>2. x \in Nat
        BY <3>1, IdFacts
      <3> QED
        BY <3>2 DEF x
    <2> QED
      BY <2>1, <2>2, <2>3
  <1>4. /\ w.state = "open"
        /\ Ascends(records)
        /\ \A p \in w.steady : Shows(records, p)
        /\ \A p \in w.steady : Matches(record[p], w.status)
        /\ Ascends(w.items)
        /\ w.limit \in Limits
        /\ \A i \in DOMAIN w.items : w.items[i] <= w.cursor
        /\ \A p \in w.steady : p <= w.cursor => Shows(w.items, p)
    BY <1>1 DEF IInv, ClientOK, ReadOK, WalkOK
  <1>5. w.limit \in Nat /\ w.limit > 0
    <2> DEFINE limit == w.limit
    <2>1. limit \in Nat \ {0}
      BY <1>4, LimitsAssumption
    <2> HIDE DEF limit
    <2>2. limit \in Nat /\ limit > 0
      BY <2>1
    <2> QED
      BY <2>2 DEF limit
  <1>6. /\ Len(records) \in Nat /\ DOMAIN records = 1..Len(records)
        /\ \A i \in 1..Len(records) : records[i] \in Ids /\ records[i] \in Nat
        /\ Len(w.items) \in Nat /\ DOMAIN w.items = 1..Len(w.items)
        /\ \A i \in 1..Len(w.items) : w.items[i] \in Ids /\ w.items[i] \in Nat
    BY <1>3, SequenceFacts
  <1>7. /\ start \in 1..Len(records) + 1
        /\ \A i \in 1..Len(records) : i < start <=> records[i] <= w.cursor
    BY <1>3, <1>4, StartFacts
  <1>8. /\ last = IF start + w.limit - 1 <= Len(records) THEN start + w.limit - 1 ELSE Len(records)
        /\ more <=> start + w.limit - 1 < Len(records)
    <2>1. start + w.limit - 1 \in Int /\ Len(records) \in Int
      <3> HIDE DEF start
      <3> QED
        BY <1>5, <1>6, <1>7
    <2>2. last = IF start + w.limit - 1 <= Len(records) THEN start + w.limit - 1 ELSE Len(records)
      <3> HIDE DEF start
      <3> QED
        BY <2>1, MinOfTwo
    <2>3. more <=> start + w.limit - 1 < Len(records)
      BY DEF More
    <2> QED
      BY <2>2, <2>3
  <1>9. more \in BOOLEAN
    BY DEF More
  <1> HIDE DEF start, last, more
  <1>10. last \in (start - 1)..Len(records)
    BY <1>5, <1>6, <1>7, <1>8
  <1>11. more => last < Len(records) /\ last >= start
    BY <1>5, <1>6, <1>7, <1>8
  <1>12. ~more => last = Len(records)
    BY <1>5, <1>6, <1>7, <1>8
  <1>13. \A i \in DOMAIN w.items : \A j \in start..Len(records) : w.items[i] < records[j]
    <2> SUFFICES ASSUME NEW i \in DOMAIN w.items, NEW j \in start..Len(records)
                 PROVE  w.items[i] < records[j]
      OBVIOUS
    <2>1. j \in 1..Len(records) /\ ~(j < start)
      BY <1>6, <1>7
    <2>2. records[j] > w.cursor
      BY <2>1, <1>3, <1>6, <1>7
    <2>3. w.items[i] <= w.cursor /\ w.items[i] \in Nat
      BY <1>4, <1>6
    <2> QED
      BY <2>1, <2>2, <2>3, <1>3, <1>6
  <1> DEFINE all == w.items \o page
  <1>14. /\ page \in Seq(Ids)
         /\ Len(page) = last - start + 1
         /\ \A j \in 1..Len(page) : page[j] = records[start + j - 1]
         /\ all \in Seq(Ids)
         /\ Ascends(all)
         /\ \A q : Shows(w.items, q) => Shows(all, q)
         /\ \A j \in start..last : Shows(all, records[j])
         /\ \A i \in DOMAIN all : \/ i \in DOMAIN w.items /\ all[i] = w.items[i]
                                  \/ \E j \in start..last : all[i] = records[j]
    <2>1. page = SubSeq(records, start, last) /\ all = w.items \o page
      OBVIOUS
    <2> HIDE DEF page, all
    <2> DEFINE items == w.items
               found == records
    <2>2. Follows(items, found, start, last, page, all)
      BY <2>1, <1>3, <1>4, <1>7, <1>10, <1>13 DEF Follows
    <2>3. /\ page \in Seq(Ids)
          /\ Len(page) = last - start + 1
          /\ \A j \in 1..Len(page) : page[j] = found[start + j - 1]
          /\ all \in Seq(Ids)
          /\ Ascends(all)
          /\ \A q : Shows(items, q) => Shows(all, q)
          /\ \A j \in start..last : Shows(all, found[j])
          /\ \A i \in DOMAIN all : \/ i \in DOMAIN items /\ all[i] = items[i]
                                   \/ \E j \in start..last : all[i] = found[j]
      <3> HIDE DEF items, found
      <3> QED
        BY <2>2, PageFacts
    <2> QED
      BY <2>3
  <1>15. \A p \in w.steady : Shows(w.items, p) \/ \E j \in start..Len(records) : records[j] = p
    <2> SUFFICES ASSUME NEW p \in w.steady, ~Shows(w.items, p)
                 PROVE  \E j \in start..Len(records) : records[j] = p
      OBVIOUS
    <2>1. PICK j \in 1..Len(records) : records[j] = p
      BY <1>4, <1>6 DEF Shows
    <2>2. ~(records[j] <= w.cursor)
      BY <2>1, <1>4
    <2>3. ~(j < start)
      BY <2>2, <1>7
    <2> QED
      BY <2>1, <2>3, <1>6, <1>7
  <1>16. n \in Walk /\ WalkOK(n, record)
    <2>1. CASE more
      <3>1. page # <<>> /\ Last(page) = records[last]
        <4>1. Len(page) \in 1..Len(page) /\ start + Len(page) - 1 = last
          BY <2>1, <1>6, <1>7, <1>10, <1>11, <1>14
        <4>2. page[Len(page)] = records[last]
          BY <4>1, <1>14
        <4>3. page # <<>>
          <5>1. Len(<<>>) = 0
            OBVIOUS
          <5> HIDE DEF page
          <5>2. Len(page) # 0
            BY <4>1
          <5> QED
            BY <5>1, <5>2
        <4> QED
          BY <4>2, <4>3 DEF Last
      <3> HIDE DEF page, all
      <3>2. /\ n.items = all /\ n.cursor = records[last] /\ n.state = "open"
            /\ n.limit = w.limit /\ n.status = w.status /\ n.steady = w.steady
        BY <2>1, <3>1, <1>2 DEF Walk, all
      <3>3. last \in 1..Len(records) /\ records[last] \in Ids
        BY <2>1, <1>6, <1>7, <1>10, <1>11
      <3>4. n \in Walk
        <4>1. n = [w EXCEPT !.items = all, !.cursor = records[last], !.state = "open"]
          BY <2>1, <3>1 DEF all
        <4> HIDE DEF n
        <4> QED
          BY <4>1, <3>3, <1>2, <1>14 DEF Walk
      <3> HIDE DEF n
      <3>5. \A i \in DOMAIN all : all[i] <= records[last]
        <4> SUFFICES ASSUME NEW i \in DOMAIN all
                     PROVE  all[i] <= records[last]
          OBVIOUS
        <4>1. CASE i \in DOMAIN w.items /\ all[i] = w.items[i]
          <5>1. last \in start..Len(records)
            BY <2>1, <1>6, <1>7, <1>10, <1>11
          <5>2. w.items[i] < records[last]
            BY <4>1, <5>1, <1>13
          <5> QED
            BY <4>1, <5>2, <3>3, <1>6
        <4>2. CASE \E j \in start..last : all[i] = records[j]
          <5>1. PICK j \in start..last : all[i] = records[j]
            BY <4>2
          <5>2. j \in 1..Len(records) /\ j <= last
            BY <5>1, <1>6, <1>7, <1>10
          <5>3. CASE j = last
            BY <5>1, <5>3, <3>3, <1>6
          <5>4. CASE j < last
            <6>1. records[j] < records[last]
              BY <5>2, <5>4, <3>3, <1>4, <1>6 DEF Ascends
            <6> QED
              BY <6>1, <5>1, <5>2, <3>3, <1>6
          <5> QED
            BY <5>2, <5>3, <5>4, <3>3
        <4> QED
          BY <4>1, <4>2, <1>14
      <3>6. \A p \in w.steady : p <= records[last] => Shows(all, p)
        <4> SUFFICES ASSUME NEW p \in w.steady, p <= records[last]
                     PROVE  Shows(all, p)
          OBVIOUS
        <4>1. CASE Shows(w.items, p)
          BY <4>1, <1>14
        <4>2. CASE \E j \in start..Len(records) : records[j] = p
          <5>1. PICK j \in start..Len(records) : records[j] = p
            BY <4>2
          <5>2. j \in 1..Len(records)
            BY <5>1, <1>6, <1>7
          <5>3. ~(last < j)
            <6> SUFFICES ASSUME last < j
                         PROVE  FALSE
              OBVIOUS
            <6>1. records[last] < records[j]
              BY <5>2, <3>3, <1>4, <1>6 DEF Ascends
            <6> QED
              BY <6>1, <5>1, <5>2, <3>3, <1>6
          <5>4. j \in start..last
            BY <5>1, <5>2, <5>3, <3>3, <1>7
          <5> QED
            BY <5>1, <5>4, <1>14
        <4> QED
          BY <4>1, <4>2, <1>15
      <3> QED
        BY <3>2, <3>4, <3>5, <3>6, <1>4, <1>14 DEF WalkOK
    <2>2. CASE ~more
      <3> HIDE DEF page, all
      <3>1. /\ n.items = all /\ n.cursor = w.cursor /\ n.state = "done"
            /\ n.limit = w.limit /\ n.status = w.status /\ n.steady = w.steady
        BY <2>2, <1>2 DEF Walk, all
      <3>2. n \in Walk
        <4>1. n = [w EXCEPT !.items = all, !.cursor = w.cursor, !.state = "done"]
          BY <2>2 DEF all
        <4> HIDE DEF n
        <4> QED
          BY <4>1, <1>2, <1>3, <1>14 DEF Walk
      <3> HIDE DEF n
      <3>3. \A p \in w.steady : Shows(all, p)
        BY <2>2, <1>12, <1>14, <1>15
      <3> QED
        BY <3>1, <3>2, <3>3, <1>4, <1>14 DEF WalkOK
    <2> QED
      BY <2>1, <2>2
  <1> HIDE DEF n
  <1>17. walk' \in [Clients -> Walk] /\ walk'[c] = n /\ \A d \in Clients : d # c => walk'[d] = walk[d]
    BY <1>1, <1>16 DEF IInv, TypeOK
  <1>18. call' \in [Clients -> Call] /\ call'[c] = Idle /\ \A d \in Clients : d # c => call'[d] = call[d]
    BY <1>1, IdleFacts DEF IInv, TypeOK
  <1>19. TypeOK'
    BY <1>1, <1>17, <1>18 DEF IInv, TypeOK
  <1>20. ASSUME NEW d \in Clients
         PROVE  ClientOK(d)'
    <2>1. CASE d = c
      BY <2>1, <1>1, <1>16, <1>17, <1>18, IdleOK DEF ClientOK
    <2>2. CASE d # c
      BY <2>2, <1>1, <1>17, <1>18 DEF IInv, ClientOK
    <2> QED
      BY <2>1, <2>2
  <1> QED
    BY <1>19, <1>20 DEF IInv

-----------------------------------------------------------------------------
(* Steps that save a record *)

\* A save takes the proposal out of the walks it no longer matches, and leaves
\* everything else the walks know.
LEMMA SavesFacts ==
    ASSUME IInv, NEW p \in Ids, NEW status \in Status, Saves(p, status)
    PROVE  /\ record' \in [Ids -> Status \cup {None}]
           /\ walk' \in [Clients -> Walk]
           /\ \A d \in Clients : /\ WalkOK(walk'[d], record')
                                 /\ \A k : ReadOK(k, walk[d]) => ReadOK(k, walk'[d])
  <1>1. /\ record' \in [Ids -> Status \cup {None}]
        /\ record'[p] = status
        /\ \A q \in Ids : q # p => record'[q] = record[q]
    BY DEF Saves, IInv, TypeOK
  <1>2. ASSUME NEW d \in Clients
        PROVE  /\ walk'[d] \in Walk
               /\ walk'[d].state = walk[d].state /\ walk'[d].status = walk[d].status
               /\ walk'[d].limit = walk[d].limit /\ walk'[d].cursor = walk[d].cursor
               /\ walk'[d].items = walk[d].items /\ walk'[d].steady \subseteq walk[d].steady
               /\ ~Matches(status, walk[d].status) => p \notin walk'[d].steady
    <2>1. walk[d] \in Walk
      BY StateFacts DEF IInv
    <2>2. walk'[d] = IF Matches(status, walk[d].status) THEN walk[d]
                     ELSE [walk[d] EXCEPT !.steady = @ \ {p}]
      BY DEF Saves
    <2>3. CASE Matches(status, walk[d].status)
      BY <2>1, <2>2, <2>3
    <2>4. CASE ~Matches(status, walk[d].status)
      BY <2>1, <2>2, <2>4 DEF Walk
    <2> QED
      BY <2>3, <2>4
  <1>3. walk' \in [Clients -> Walk]
    <2>1. walk' = [d \in Clients |-> IF Matches(status, walk[d].status) THEN walk[d]
                                     ELSE [walk[d] EXCEPT !.steady = @ \ {p}]]
      BY DEF Saves
    <2>2. \A d \in Clients : (IF Matches(status, walk[d].status) THEN walk[d]
                              ELSE [walk[d] EXCEPT !.steady = @ \ {p}]) \in Walk
      BY <1>2, <2>1
    <2> QED
      BY <2>1, <2>2
  <1>4. ASSUME NEW d \in Clients
        PROVE  WalkOK(walk'[d], record')
    <2>1. WalkOK(walk[d], record)
      BY DEF IInv, ClientOK
    <2>2. \A q \in walk'[d].steady : Matches(record'[q], walk'[d].status)
      <3> SUFFICES ASSUME NEW q \in walk'[d].steady
                   PROVE  Matches(record'[q], walk[d].status)
        BY <1>2
      <3>1. q \in Ids /\ q \in walk[d].steady
        BY <1>2, WalkFacts
      <3>2. CASE q = p
        BY <3>2, <1>1, <1>2
      <3>3. CASE q # p
        BY <3>1, <3>3, <1>1, <2>1 DEF WalkOK
      <3> QED
        BY <3>2, <3>3
    <2> QED
      BY <2>1, <2>2, <1>2 DEF WalkOK
  <1>5. ASSUME NEW d \in Clients, NEW k, ReadOK(k, walk[d])
        PROVE  ReadOK(k, walk'[d])
    BY <1>5, <1>2 DEF ReadOK
  <1> QED
    BY <1>1, <1>3, <1>4, <1>5

\* One client saves a record and goes on with its call.
LEMMA SaveSet ==
    ASSUME IInv, NEW c \in Clients, NEW p \in Ids, NEW status \in Status, NEW k \in Call,
           Saves(p, status), call' = [call EXCEPT ![c] = k],
           k.pc # "read", SoundOK(k, intact), UNCHANGED <<intact, changes, asked>>
    PROVE  IInv'
  <1>1. call' \in [Clients -> Call] /\ call'[c] = k /\ \A d \in Clients : d # c => call'[d] = call[d]
    BY DEF IInv, TypeOK
  <1>2. /\ record' \in [Ids -> Status \cup {None}]
        /\ walk' \in [Clients -> Walk]
        /\ \A d \in Clients : /\ WalkOK(walk'[d], record')
                              /\ \A h : ReadOK(h, walk[d]) => ReadOK(h, walk'[d])
    BY SavesFacts
  <1>3. TypeOK'
    BY <1>1, <1>2 DEF IInv, TypeOK
  <1>4. ASSUME NEW d \in Clients
        PROVE  ClientOK(d)'
    <2>1. CASE d = c
      BY <2>1, <1>1, <1>2 DEF ClientOK, ReadOK
    <2>2. CASE d # c
      BY <2>2, <1>1, <1>2 DEF IInv, ClientOK
    <2> QED
      BY <2>1, <2>2
  <1> QED
    BY <1>3, <1>4 DEF IInv

-----------------------------------------------------------------------------
(* Steps of proposal_validate *)

LEMMA CallValidateStep ==
    ASSUME IInv, NEW c \in Clients, NEW p \in Ids, CallValidate(c, p)
    PROVE  IInv'
  <1> DEFINE k == [Idle EXCEPT !.pc = "first_load", !.id = p, !.sound = intact[p]]
  <1>1. /\ call' = [call EXCEPT ![c] = k]
        /\ asked' = [asked EXCEPT ![c] = @ + 1]
        /\ asked[c] < MaxWalks
        /\ UNCHANGED <<record, intact, walk, changes>>
    BY DEF CallValidate
  <1>2. k \in Call /\ k.pc = "first_load" /\ k.id = p /\ k.sound = intact[p]
    <2>1. intact[p] \in BOOLEAN
      BY DEF IInv, TypeOK
    <2> QED
      BY <2>1, IdleFacts DEF Call, Idle
  <1> HIDE DEF k
  <1>3. SoundOK(k, intact) /\ \A w : ReadOK(k, w)
    BY <1>2 DEF SoundOK, ReadOK
  <1>4. asked' \in [Clients -> 0..MaxWalks]
    <2>1. asked[c] \in 0..MaxWalks
      BY StateFacts DEF IInv
    <2>2. asked[c] + 1 \in 0..MaxWalks
      BY <2>1, <1>1, BoundsAssumption
    <2> QED
      BY <2>2, <1>1 DEF IInv, TypeOK
  <1>5. call' \in [Clients -> Call] /\ call'[c] = k /\ \A d \in Clients : d # c => call'[d] = call[d]
    BY <1>1, <1>2 DEF IInv, TypeOK
  <1>6. TypeOK'
    BY <1>1, <1>4, <1>5 DEF IInv, TypeOK
  <1>7. ASSUME NEW d \in Clients
        PROVE  ClientOK(d)'
    <2>1. CASE d = c
      BY <2>1, <1>1, <1>3, <1>5 DEF IInv, ClientOK
    <2>2. CASE d # c
      BY <2>2, <1>1, <1>5 DEF IInv, ClientOK
    <2> QED
      BY <2>1, <2>2
  <1> QED
    BY <1>6, <1>7 DEF IInv

LEMMA FirstLoadStep ==
    ASSUME IInv, NEW c \in Clients, FirstLoad(c)
    PROVE  IInv'
  <1>1. call[c].pc = "first_load" /\ UNCHANGED <<record, intact, walk, changes, asked>>
    BY DEF FirstLoad, At
  <1>2. CASE record[call[c].id] = None
    <2>1. Answers(c)
      BY <1>2 DEF FirstLoad
    <2> QED
      BY <2>1, <1>1, AnswersStep
  <1>3. CASE record[call[c].id] # None
    <2> DEFINE k == [call[c] EXCEPT !.again = record[call[c].id] = "validated", !.pc = "load"]
    <2>1. call' = [call EXCEPT ![c] = k]
      <3>1. call \in [Clients -> Call]
        BY DEF IInv, TypeOK
      <3> QED
        BY <1>3, <3>1 DEF FirstLoad
    <2>2. call[c] \in Call
      BY StateFacts DEF IInv
    <2>3. k \in Call /\ k.pc = "load" /\ k.id = call[c].id /\ k.sound = call[c].sound
      <3>1. PICK b \in BOOLEAN : b = (record[call[c].id] = "validated")
        BY Zenon
      <3>2. k = [call[c] EXCEPT !.again = b, !.pc = "load"]
        BY <3>1
      <3> HIDE DEF k
      <3> QED
        BY <3>2, <2>2 DEF Call
    <2> HIDE DEF k
    <2>4. SoundOK(k, intact) /\ ReadOK(k, walk[c])
      BY <1>1, <2>3 DEF IInv, ClientOK, SoundOK, ReadOK
    <2> QED
      BY <1>1, <2>1, <2>3, <2>4, CallSet
  <1> QED
    BY <1>2, <1>3

LEMMA LoadStep ==
    ASSUME IInv, NEW c \in Clients, Load(c)
    PROVE  IInv'
  <1>1. call[c].pc = "load" /\ UNCHANGED <<record, intact, walk, changes, asked>>
    BY DEF Load, At
  <1>2. CASE record[call[c].id] \notin {"materialized", "validated"}
    <2>1. Answers(c)
      BY <1>2 DEF Load
    <2> QED
      BY <2>1, <1>1, AnswersStep
  <1>3. CASE record[call[c].id] \in {"materialized", "validated"}
    <2> DEFINE k == [call[c] EXCEPT !.mine = record[call[c].id], !.pc = "verify"]
    <2>1. call' = [call EXCEPT ![c] = k]
      <3>1. call \in [Clients -> Call]
        BY DEF IInv, TypeOK
      <3> QED
        BY <1>3, <3>1 DEF Load
    <2>2. call[c] \in Call
      BY StateFacts DEF IInv
    <2>3. k \in Call /\ k.pc = "verify" /\ k.id = call[c].id /\ k.sound = call[c].sound
      BY <1>3, <2>2 DEF Call, Status
    <2> HIDE DEF k
    <2>4. SoundOK(k, intact) /\ ReadOK(k, walk[c])
      BY <1>1, <2>3 DEF IInv, ClientOK, SoundOK, ReadOK
    <2> QED
      BY <1>1, <2>1, <2>3, <2>4, CallSet
  <1> QED
    BY <1>2, <1>3

\* What _verify_or_invalidate finds drifted is saved, and the call is over.
LEMMA VerifyStep ==
    ASSUME IInv, NEW c \in Clients, Verify(c)
    PROVE  IInv'
  <1>1. call[c].pc = "verify" /\ UNCHANGED <<intact, changes, asked>>
    BY DEF Verify, At
  <1>2. call[c].id \in Ids /\ (intact[call[c].id] => call[c].sound)
    BY <1>1 DEF IInv, ClientOK, SoundOK
  <1>3. CASE intact[call[c].id]
    <2> DEFINE k == [call[c] EXCEPT !.pc = "save"]
    <2>1. call' = [call EXCEPT ![c] = k] /\ UNCHANGED <<record, walk>>
      <3>1. call \in [Clients -> Call]
        BY DEF IInv, TypeOK
      <3> QED
        BY <1>3, <3>1 DEF Verify
    <2>2. call[c] \in Call
      BY StateFacts DEF IInv
    <2>3. k \in Call /\ k.pc = "save" /\ k.id = call[c].id /\ k.sound = call[c].sound
      BY <2>2 DEF Call
    <2> HIDE DEF k
    <2>4. SoundOK(k, intact) /\ ReadOK(k, walk[c])
      BY <1>2, <1>3, <2>3 DEF SoundOK, ReadOK
    <2> QED
      BY <1>1, <2>1, <2>3, <2>4, CallSet
  <1>4. CASE ~intact[call[c].id]
    <2>1. Answers(c) /\ Saves(call[c].id, "materialized")
      BY <1>4 DEF Verify
    <2>2. "materialized" \in Status
      BY DEF Status
    <2> QED
      BY <2>1, <2>2, <1>1, <1>2, IdleFacts, IdleOK, SaveSet DEF Answers
  <1> QED
    BY <1>3, <1>4

LEMMA SaveStep ==
    ASSUME IInv, NEW c \in Clients, Save(c)
    PROVE  IInv'
  <1>1. call[c].pc = "save" /\ Saves(call[c].id, "validated") /\ UNCHANGED <<intact, changes, asked>>
    BY DEF Save, At
  <1>2. call[c].id \in Ids /\ call[c].sound
    BY <1>1 DEF IInv, ClientOK, SoundOK
  <1>3. "validated" \in Status
    BY DEF Status
  <1>4. CASE ~call[c].again
    <2>1. Answers(c)
      BY <1>4 DEF Save
    <2> QED
      BY <2>1, <1>1, <1>2, <1>3, IdleFacts, IdleOK, SaveSet DEF Answers
  <1>5. CASE call[c].again
    <2> DEFINE k == [call[c] EXCEPT !.pc = "reload"]
    <2>1. call' = [call EXCEPT ![c] = k]
      <3>1. call \in [Clients -> Call]
        BY DEF IInv, TypeOK
      <3> QED
        BY <1>5, <3>1 DEF Save
    <2>2. call[c] \in Call
      BY StateFacts DEF IInv
    <2>3. k \in Call /\ k.pc = "reload" /\ k.id = call[c].id /\ k.sound = call[c].sound
      BY <2>2 DEF Call
    <2> HIDE DEF k
    <2>4. SoundOK(k, intact)
      BY <1>2, <2>3 DEF SoundOK
    <2> QED
      BY <1>1, <1>2, <1>3, <2>1, <2>3, <2>4, SaveSet
  <1> QED
    BY <1>4, <1>5

LEMMA ValidateSteps ==
    ASSUME IInv, NEW c \in Clients, ValidateStep(c)
    PROVE  IInv'
  <1>1. ASSUME ValidationFailed(c) \/ Reload(c)
        PROVE  IInv'
    <2>1. Answers(c) /\ UNCHANGED <<record, intact, walk, changes, asked>>
      BY <1>1 DEF ValidationFailed, Reload
    <2> QED
      BY <2>1, AnswersStep
  <1> QED
    BY <1>1, FirstLoadStep, LoadStep, VerifyStep, SaveStep DEF ValidateStep

-----------------------------------------------------------------------------
(* Other processes *)

LEMMA OtherProcessStep ==
    ASSUME IInv, NEW p \in Ids, OtherProcess(p)
    PROVE  IInv'
  <1>1. PICK m \in Moves : record[p] = m[1] /\ Saves(p, m[2])
    BY DEF OtherProcess
  <1>2. m[2] \in Status
    BY DEF Moves, Status
  <1>3. changes < MaxChanges /\ changes' = changes + 1 /\ UNCHANGED <<intact, call, asked>>
    BY DEF OtherProcess
  <1>4. changes' \in 0..MaxChanges
    BY <1>3, BoundsAssumption DEF IInv, TypeOK
  <1>5. /\ record' \in [Ids -> Status \cup {None}]
        /\ walk' \in [Clients -> Walk]
        /\ \A d \in Clients : /\ WalkOK(walk'[d], record')
                              /\ \A h : ReadOK(h, walk[d]) => ReadOK(h, walk'[d])
    BY <1>1, <1>2, SavesFacts
  <1>6. TypeOK'
    BY <1>3, <1>4, <1>5 DEF IInv, TypeOK
  <1>7. ASSUME NEW d \in Clients
        PROVE  ClientOK(d)'
    BY <1>3, <1>5 DEF IInv, ClientOK
  <1> QED
    BY <1>6, <1>7 DEF IInv

LEMMA WorktreeChangesStep ==
    ASSUME IInv, NEW p \in Ids, WorktreeChanges(p)
    PROVE  IInv'
  <1>1. /\ changes < MaxChanges
        /\ intact' = [intact EXCEPT ![p] = ~@]
        /\ call' = [c \in Clients |-> IF call[c].id = p /\ intact'[p] THEN [call[c] EXCEPT !.sound = TRUE]
                                      ELSE call[c]]
        /\ changes' = changes + 1
        /\ UNCHANGED <<record, walk, asked>>
    BY DEF WorktreeChanges
  <1>2. changes' \in 0..MaxChanges
    BY <1>1, BoundsAssumption DEF IInv, TypeOK
  <1>3. intact' \in [Ids -> BOOLEAN] /\ \A q \in Ids : q # p => intact'[q] = intact[q]
    BY <1>1 DEF IInv, TypeOK
  <1>4. ASSUME NEW d \in Clients
        PROVE  /\ call'[d] \in Call
               /\ call'[d].pc = call[d].pc /\ call'[d].names = call[d].names
               /\ call'[d].found = call[d].found /\ call'[d].id = call[d].id
               /\ call[d].sound => call'[d].sound
               /\ call[d].id = p /\ intact'[p] => call'[d].sound
    <2>1. call[d] \in Call
      BY StateFacts DEF IInv
    <2>2. call'[d] = IF call[d].id = p /\ intact'[p] THEN [call[d] EXCEPT !.sound = TRUE] ELSE call[d]
      BY <1>1
    <2>3. CASE call[d].id = p /\ intact'[p]
      <3>1. call'[d] = [call[d] EXCEPT !.sound = TRUE]
        BY <2>2, <2>3
      <3> QED
        BY <2>1, <3>1 DEF Call
    <2>4. CASE ~(call[d].id = p /\ intact'[p])
      <3>1. call'[d] = call[d]
        BY <2>2, <2>4
      <3> QED
        BY <2>1, <2>4, <3>1
    <2> QED
      BY <2>3, <2>4
  <1>5. call' \in [Clients -> Call]
    <2>1. \A c \in Clients : (IF call[c].id = p /\ intact'[p] THEN [call[c] EXCEPT !.sound = TRUE]
                              ELSE call[c]) \in Call
      BY <1>1, <1>4
    <2> QED
      BY <2>1, <1>1
  <1>6. TypeOK'
    BY <1>1, <1>2, <1>3, <1>5 DEF IInv, TypeOK
  <1>7. ASSUME NEW d \in Clients
        PROVE  ClientOK(d)'
    <2>1. ClientOK(d)
      BY DEF IInv
    <2>2. SoundOK(call'[d], intact')
      <3>1. SoundOK(call[d], intact)
        BY <2>1 DEF ClientOK
      <3> QED
        BY <3>1, <1>3, <1>4 DEF SoundOK
    <2>3. ReadOK(call'[d], walk[d])
      BY <2>1, <1>4 DEF ClientOK, ReadOK
    <2> QED
      BY <2>1, <2>2, <2>3, <1>1 DEF ClientOK
  <1> QED
    BY <1>6, <1>7 DEF IInv

-----------------------------------------------------------------------------
(* The theorems *)

LEMMA InitInvariant == Init => IInv
  <1> SUFFICES ASSUME Init
               PROVE  IInv
    OBVIOUS
  <1> DEFINE w == [state |-> "none", status |-> None, limit |-> 0, cursor |-> 0,
                   items |-> <<>>, steady |-> {}]
  <1>1. /\ record \in [Ids -> {"materialized", "validated", None}]
        /\ intact = [p \in Ids |-> TRUE]
        /\ call = [c \in Clients |-> Idle]
        /\ walk = [c \in Clients |-> w]
        /\ changes = 0
        /\ asked = [c \in Clients |-> 0]
    BY DEF Init
  <1>2. w \in Walk
    <2>1. <<>> \in Seq(Ids)
      BY EmptySeq
    <2> QED
      BY <2>1 DEF Walk
  <1>3. WalkOK(w, record)
    BY DEF WalkOK, Ascends
  <1> HIDE DEF w
  <1>4. TypeOK
    <2>1. record \in [Ids -> Status \cup {None}]
      BY <1>1 DEF Status
    <2>2. changes \in 0..MaxChanges /\ asked \in [Clients -> 0..MaxWalks]
      BY <1>1, BoundsAssumption
    <2> QED
      BY <2>1, <2>2, <1>1, <1>2, IdleFacts DEF TypeOK
  <1>5. \A c \in Clients : ClientOK(c)
    BY <1>1, <1>3, IdleOK DEF ClientOK
  <1> QED
    BY <1>4, <1>5 DEF IInv

LEMMA NextInvariant == IInv /\ [Next]_vars => IInv'
  <1> SUFFICES ASSUME IInv, [Next]_vars
               PROVE  IInv'
    OBVIOUS
  <1>1. ASSUME NEW c \in Clients, NEW status \in Filters, NEW limit \in Limits, StartWalk(c, status, limit)
        PROVE  IInv'
    BY <1>1, StartWalkStep
  <1>2. ASSUME NEW c \in Clients, ListStep(c)
        PROVE  IInv'
    BY <1>2, CallListStep, ReadRecordStep, ProposalListStep DEF ListStep
  <1>3. ASSUME NEW c \in Clients, NEW p \in Ids, CallValidate(c, p)
        PROVE  IInv'
    BY <1>3, CallValidateStep
  <1>4. ASSUME NEW c \in Clients, ValidateStep(c)
        PROVE  IInv'
    BY <1>4, ValidateSteps
  <1>5. ASSUME NEW p \in Ids, OtherProcess(p) \/ WorktreeChanges(p)
        PROVE  IInv'
    BY <1>5, OtherProcessStep, WorktreeChangesStep
  <1>6. CASE UNCHANGED vars
    BY <1>6 DEF vars, IInv, TypeOK, ClientOK
  <1> QED
    BY <1>1, <1>2, <1>3, <1>4, <1>5, <1>6 DEF Next

\* The inductive invariant: what clients have been shown, what a listing under
\* way has found, and what a validation under way knows of the worktree.
THEOREM Invariance == Spec => []IInv
  BY InitInvariant, NextInvariant, PTL DEF Spec

\* The state of the server and its clients is always of its type, with any ids,
\* clients, page sizes and filters.
THEOREM TypeCorrect == Spec => []TypeOK
  <1>1. IInv => TypeOK
    BY DEF IInv
  <1> QED
    BY <1>1, Invariance, PTL

\* A walk through the pages of proposal_list shows no proposal twice and, once
\* it is over, every one that was there and matched all along, with any number
\* of clients and of changes to the store around it.
THEOREM PagesShowEachOnce == Spec => []WalksShowEachOnce
  <1>1. IInv => WalksShowEachOnce
    <2> SUFFICES ASSUME IInv, NEW c \in Clients
                 PROVE  /\ IsInjective(walk[c].items)
                        /\ walk[c].state = "done" => walk[c].steady \subseteq ToSet(walk[c].items)
      BY DEF WalksShowEachOnce
    <2>1. WalkOK(walk[c], record) /\ walk[c].items \in Seq(Ids)
      BY StateFacts, WalkFacts DEF IInv, ClientOK
    <2>2. /\ Len(walk[c].items) \in Nat /\ DOMAIN walk[c].items = 1..Len(walk[c].items)
          /\ \A i \in 1..Len(walk[c].items) : walk[c].items[i] \in Nat
      BY <2>1, SequenceFacts
    <2>3. IsInjective(walk[c].items)
      <3> SUFFICES ASSUME NEW i \in DOMAIN walk[c].items, NEW j \in DOMAIN walk[c].items,
                          walk[c].items[i] = walk[c].items[j], i # j
                   PROVE  FALSE
        BY DEF IsInjective
      <3>1. i < j \/ j < i
        BY <2>2
      <3>2. walk[c].items[i] < walk[c].items[j] \/ walk[c].items[j] < walk[c].items[i]
        BY <3>1, <2>1 DEF WalkOK, Ascends
      <3> QED
        BY <3>2, <2>2
    <2>4. ASSUME walk[c].state = "done", NEW p \in walk[c].steady
          PROVE  p \in ToSet(walk[c].items)
      BY <2>1, <2>4 DEF WalkOK, Shows, ToSet
    <2> QED
      BY <2>3, <2>4
  <1> QED
    BY <1>1, Invariance, PTL

\* A validation answers ok only when the worktree held what the proposal
\* declares at some moment of the call, whoever changed it before and after.
THEOREM OkIsVerified == Spec => OkMeansVerified
  <1>1. IInv /\ [Next]_vars => [\A c \in Clients : AnswersOk(c) => call[c].sound]_vars
    <2> SUFFICES ASSUME IInv, NEW c \in Clients, AnswersOk(c)
                 PROVE  call[c].sound
      OBVIOUS
    <2>1. call[c].pc \in {"save", "reload"}
      BY DEF AnswersOk, Save, Reload, At
    <2> QED
      BY <2>1 DEF IInv, ClientOK, SoundOK
  <1> QED
    BY <1>1, Invariance, PTL DEF Spec, OkMeansVerified

-----------------------------------------------------------------------------
(* One call: the loop of safe_path_from_loc *)

\* f is where the loop is after 0, 1, ... n names.
Loop(loc, n, f) == f = [i \in 0..n |-> IF i = 0 THEN AtRequest ELSE WalkOn(f[i - 1], loc[i])]

LEMMA LoopFacts ==
    ASSUME NEW loc, NEW n \in Nat, NEW f
    PROVE  Loop(loc, n, f) => /\ DOMAIN f = 0..n
                              /\ f[0] = AtRequest
                              /\ \A i \in 1..n : f[i] = WalkOn(f[i - 1], loc[i])
  BY DEF Loop

LEMMA LoopGrows ==
    ASSUME NEW loc, NEW k \in Nat, NEW f, Loop(loc, k, f)
    PROVE  \E g : Loop(loc, k + 1, g)
  <1> DEFINE g == [i \in 0..k + 1 |-> IF i = k + 1 THEN WalkOn(f[k], loc[k + 1]) ELSE f[i]]
  <1>1. \A i \in 0..k : g[i] = f[i]
    OBVIOUS
  <1>2. g[k + 1] = WalkOn(f[k], loc[k + 1])
    OBVIOUS
  <1>3. \A i \in 0..k + 1 : g[i] = IF i = 0 THEN AtRequest ELSE WalkOn(g[i - 1], loc[i])
    <2>1. g = [i \in 0..k + 1 |-> g[i]]
      OBVIOUS
    <2> HIDE DEF g
    <2> SUFFICES ASSUME NEW i \in 0..k + 1
                 PROVE  g[i] = IF i = 0 THEN AtRequest ELSE WalkOn(g[i - 1], loc[i])
      OBVIOUS
    <2>2. CASE i = 0
      BY <1>1, <2>2, LoopFacts
    <2>3. CASE i \in 1..k
      <3>1. f[i] = WalkOn(f[i - 1], loc[i])
        BY <2>3, LoopFacts
      <3>2. g[i] = f[i] /\ g[i - 1] = f[i - 1]
        BY <1>1, <2>3
      <3> QED
        BY <2>3, <3>1, <3>2
    <2>4. CASE i = k + 1
      <3>1. g[i - 1] = f[k]
        BY <1>1, <2>4
      <3> QED
        BY <1>2, <2>4, <3>1
    <2> QED
      BY <2>2, <2>3, <2>4
  <1>4. g = [i \in 0..k + 1 |-> g[i]]
    OBVIOUS
  <1> HIDE DEF g
  <1>5. Loop(loc, k + 1, g)
    BY <1>3, <1>4 DEF Loop
  <1> QED
    BY <1>5

\* The loop ends: there is a function that is what it computes.
LEMMA LoopEnds ==
    ASSUME NEW loc, NEW n \in Nat
    PROVE  \E f : Loop(loc, n, f)
  <1> DEFINE without == {k \in Nat : ~\E f : Loop(loc, k, f)}
  <1>1. SUFFICES ASSUME without # {}
        PROVE  FALSE
    OBVIOUS
  <1>2. without \subseteq Nat /\ \A k \in Nat : k \in without <=> ~\E f : Loop(loc, k, f)
    OBVIOUS
  <1> HIDE DEF without
  <1>3. PICK k \in without : \A j \in without : <<j, k>> \notin OpToRel(<, Nat)
    BY <1>1, <1>2, NatLessThanWellFounded, WFMin
  <1>4. k \in Nat /\ ~\E f : Loop(loc, k, f)
    BY <1>2
  <1>5. k # 0
    <2>1. Loop(loc, 0, [i \in 0..0 |-> AtRequest])
      BY DEF Loop
    <2> QED
      BY <1>4, <2>1
  <1> DEFINE j == k - 1
  <1>6. j \in Nat /\ j < k /\ j + 1 = k
    BY <1>4, <1>5
  <1> HIDE DEF j
  <1>7. j \notin without
    BY <1>3, <1>4, <1>6 DEF OpToRel
  <1>8. PICK f : Loop(loc, j, f)
    BY <1>2, <1>6, <1>7
  <1> QED
    BY <1>4, <1>6, <1>8, LoopGrows

\* So that SafePathLoop, which is recursive, is one.
LEMMA SafePathLoops ==
    ASSUME NEW loc, Len(loc) \in Nat
    PROVE  Loop(loc, Len(loc), SafePathLoop(loc))
  <1> DEFINE after[i \in 0..Len(loc)] == IF i = 0 THEN AtRequest ELSE WalkOn(after[i - 1], loc[i])
  <1>1. SafePathLoop(loc) = after
    BY DEF SafePathLoop
  <1>2. \E f : f = [i \in 0..Len(loc) |-> IF i = 0 THEN AtRequest ELSE WalkOn(f[i - 1], loc[i])]
    BY LoopEnds DEF Loop
  <1>3. after = [i \in 0..Len(loc) |-> IF i = 0 THEN AtRequest ELSE WalkOn(after[i - 1], loc[i])]
    BY <1>2
  <1> HIDE DEF after
  <1> QED
    BY <1>1, <1>3 DEF Loop

-----------------------------------------------------------------------------
(* One call: what the loop of safe_path_from_loc keeps *)

Fields == RequestFields \cup SourceFields \cup OperationFields

Known == {"request"} \cup Fields \cup Indexes

Contexts == {"request", "source", "operation"}

Place == [parts : Seq(Known), context : Contexts, stopped : BOOLEAN]

\* After i names: the path is "request" and a beginning of the location, all of
\* it while the loop goes on, and below "source" it is in the context of one.
PlaceOK(at, loc, i) ==
    /\ at \in Place
    /\ 1 <= Len(at.parts) /\ Len(at.parts) <= i + 1
    /\ at.parts[1] = "request"
    /\ \A j \in 2..Len(at.parts) : at.parts[j] = loc[j - 1]
    /\ \A j \in 3..Len(at.parts) : at.parts[j - 1] = "source" => at.parts[j] \in SourceFields \cup Indexes
    /\ ~at.stopped => /\ Len(at.parts) = i + 1
                      /\ i > 0 /\ at.parts[i + 1] = "source" => at.context = "source"

LEMMA FieldsFacts ==
    /\ \A c \in Contexts : FieldsOf(c) \subseteq Fields
    /\ \A c \in Contexts : "source" \in FieldsOf(c) => ContextAfter("source", c) = "source"
    /\ \A c \in Contexts, n \in Fields : ContextAfter(n, c) \in Contexts
    /\ FieldsOf("source") = SourceFields
    /\ "source" \notin Indexes
  BY DEF FieldsOf, Contexts, Fields, ContextAfter, RequestFields, SourceFields, OperationFields, Indexes

\* A name that is put on the path.
LEMMA Appended ==
    ASSUME NEW loc, NEW i \in Nat \ {0}, NEW at, PlaceOK(at, loc, i - 1), ~at.stopped,
           NEW name \in Fields \cup Indexes, name = loc[i],
           at.context = "source" => name \in SourceFields \cup Indexes,
           NEW context \in Contexts, name = "source" => context = "source"
    PROVE  PlaceOK([parts |-> Append(at.parts, name), context |-> context, stopped |-> FALSE], loc, i)
  <1> DEFINE p == at.parts
             q == Append(p, name)
             new == [parts |-> q, context |-> context, stopped |-> FALSE]
  <1>1. p \in Seq(Known) /\ name \in Known /\ Len(p) = i /\ i \in Nat /\ i > 0
    BY DEF PlaceOK, Place, Known
  <1>2. /\ q \in Seq(Known)
        /\ Len(q) = i + 1
        /\ \A j \in 1..i : q[j] = p[j]
        /\ q[i + 1] = name
    BY <1>1, AppendProperties
  <1>3. /\ p[1] = "request"
        /\ \A j \in 2..i : p[j] = loc[j - 1]
        /\ \A j \in 3..i : p[j - 1] = "source" => p[j] \in SourceFields \cup Indexes
        /\ i > 1 /\ p[i] = "source" => at.context = "source"
    BY <1>1 DEF PlaceOK
  <1>4. new \in Place /\ new.parts = q /\ new.context = context /\ new.stopped = FALSE
    BY <1>2 DEF Place
  <1> HIDE DEF p, q, new
  <1>5. \A j \in 2..i + 1 : q[j] = loc[j - 1]
    BY <1>1, <1>2, <1>3
  <1>6. \A j \in 3..i + 1 : q[j - 1] = "source" => q[j] \in SourceFields \cup Indexes
    <2> SUFFICES ASSUME NEW j \in 3..i + 1, q[j - 1] = "source"
                 PROVE  q[j] \in SourceFields \cup Indexes
      OBVIOUS
    <2>1. CASE j \in 3..i
      BY <1>1, <1>2, <1>3, <2>1
    <2>2. CASE j = i + 1
      <3>1. p[i] = "source" /\ i > 1
        BY <1>1, <1>2, <2>2
      <3> QED
        BY <1>2, <1>3, <2>2, <3>1
    <2> QED
      BY <1>1, <2>1, <2>2
  <1>7. PlaceOK(new, loc, i)
    BY <1>1, <1>2, <1>3, <1>4, <1>5, <1>6 DEF PlaceOK
  <1> QED
    BY <1>7 DEF new, q, p

LEMMA WalkOnFacts ==
    ASSUME NEW loc, NEW i \in Nat \ {0}, NEW at, PlaceOK(at, loc, i - 1)
    PROVE  PlaceOK(WalkOn(at, loc[i]), loc, i)
  <1> DEFINE name == loc[i]
  <1>1. /\ at.parts \in Seq(Known) /\ at.context \in Contexts /\ at.stopped \in BOOLEAN
        /\ at = [parts |-> at.parts, context |-> at.context, stopped |-> at.stopped]
        /\ i \in Nat /\ i > 0
    BY DEF PlaceOK, Place
  <1> HIDE DEF name
  <1>2. CASE at.stopped
    <2>1. WalkOn(at, name) = at
      BY <1>2 DEF WalkOn
    <2> QED
      BY <1>1, <1>2, <2>1 DEF PlaceOK, name
  <1>3. CASE ~at.stopped /\ name \in Indexes
    <2>1. WalkOn(at, name) = [parts |-> Append(at.parts, name), context |-> at.context, stopped |-> FALSE]
      BY <1>1, <1>3 DEF WalkOn
    <2>2. name # "source"
      BY <1>3, FieldsFacts
    <2> QED
      BY <1>1, <1>3, <2>1, <2>2, Appended DEF name
  <1>4. CASE ~at.stopped /\ name \notin Indexes /\ name \notin FieldsOf(at.context)
    <2>1. WalkOn(at, name) = [parts |-> at.parts, context |-> at.context, stopped |-> TRUE]
      BY <1>1, <1>4 DEF WalkOn
    <2> QED
      BY <1>1, <2>1 DEF PlaceOK, Place, name
  <1>5. CASE ~at.stopped /\ name \notin Indexes /\ name \in FieldsOf(at.context)
    <2>1. WalkOn(at, name) = [parts |-> Append(at.parts, name), context |-> ContextAfter(name, at.context),
                              stopped |-> FALSE]
      BY <1>5 DEF WalkOn
    <2>2. /\ name \in Fields
          /\ ContextAfter(name, at.context) \in Contexts
          /\ name = "source" => ContextAfter(name, at.context) = "source"
          /\ at.context = "source" => name \in SourceFields
      BY <1>1, <1>5, FieldsFacts
    <2> QED
      BY <1>1, <1>5, <2>1, <2>2, Appended DEF name
  <1> QED
    BY <1>1, <1>2, <1>3, <1>4, <1>5 DEF name

LEMMA SafePathLoopFacts ==
    ASSUME NEW loc, Len(loc) \in Nat
    PROVE  \A i \in 0..Len(loc) : PlaceOK(SafePathLoop(loc)[i], loc, i)
  <1> DEFINE bad == {k \in 0..Len(loc) : ~PlaceOK(SafePathLoop(loc)[k], loc, k)}
  <1>1. SUFFICES ASSUME bad # {}
        PROVE  FALSE
    OBVIOUS
  <1>2. bad \subseteq Nat /\ \A k \in 0..Len(loc) : k \in bad <=> ~PlaceOK(SafePathLoop(loc)[k], loc, k)
    OBVIOUS
  <1>3. bad \subseteq 0..Len(loc)
    OBVIOUS
  <1> HIDE DEF bad
  <1>4. PICK k \in bad : \A j \in bad : <<j, k>> \notin OpToRel(<, Nat)
    BY <1>1, <1>2, NatLessThanWellFounded, WFMin
  <1>5. /\ SafePathLoop(loc)[0] = AtRequest
        /\ \A i \in 1..Len(loc) : SafePathLoop(loc)[i] = WalkOn(SafePathLoop(loc)[i - 1], loc[i])
    BY SafePathLoops, LoopFacts
  <1>6. k \in 0..Len(loc) /\ ~PlaceOK(SafePathLoop(loc)[k], loc, k)
    BY <1>2, <1>3, <1>4
  <1>7. PlaceOK(AtRequest, loc, 0)
    <2>1. AtRequest.parts = <<"request">> /\ AtRequest.stopped = FALSE /\ AtRequest \in Place
      BY DEF AtRequest, Place, Known, Contexts
    <2> QED
      BY <2>1 DEF PlaceOK
  <1>8. k \in 1..Len(loc)
    BY <1>5, <1>6, <1>7
  <1> DEFINE j == k - 1
  <1>9. j \in 0..Len(loc) /\ j \in Nat /\ k \in Nat /\ j < k /\ j = k - 1
    BY <1>8
  <1> HIDE DEF j
  <1>10. PlaceOK(SafePathLoop(loc)[k - 1], loc, k - 1)
    <2>1. j \notin bad
      BY <1>4, <1>9 DEF OpToRel
    <2> QED
      BY <1>2, <1>9, <2>1
  <1> QED
    BY <1>5, <1>6, <1>8, <1>10, WalkOnFacts

\* The path that is made of a location of any length.
LEMMA SafePathFacts ==
    ASSUME NEW loc, Len(loc) \in Nat
    PROVE  LET p == SafePath(loc)
           IN  /\ p \in Seq(Known)
               /\ 1 <= Len(p) /\ Len(p) <= Len(loc) + 1
               /\ \A j \in 2..Len(p) : p[j] = loc[j - 1]
               /\ \A j \in 3..Len(p) : p[j - 1] = "source" => p[j] \in SourceFields \cup Indexes
  <1>1. PlaceOK(SafePathLoop(loc)[Len(loc)], loc, Len(loc))
    BY SafePathLoopFacts
  <1> QED
    BY <1>1 DEF SafePath, PlaceOK, Place

-----------------------------------------------------------------------------
(* The answer *)

LEMMA LocationFacts ==
    ASSUME NEW loc \in Locations
    PROVE  /\ Len(loc) \in Nat
           /\ \A j \in 2..Len(loc) : loc[j - 1] = "source" => loc[j] \notin Indexes
  <1>1. \A n \in PropertyNames : n \notin Indexes
    BY CallerNamesAssumption DEF PropertyNames, Indexes, RequestFields, SourceFields, OperationFields
  <1>2. CASE \E n \in PropertyNames : loc = <<n>>
    BY <1>2
  <1>3. CASE \E n \in PropertyNames : loc = <<"source", n>>
    BY <1>1, <1>3
  <1>4. CASE \E i \in Indexes : loc = <<"operations", i>>
    BY <1>4
  <1>5. CASE \E i \in Indexes, k \in Kinds, n \in PropertyNames : loc = <<"operations", i, k, n>>
    <2>1. PICK i \in Indexes, k \in Kinds, n \in PropertyNames : loc = <<"operations", i, k, n>>
      BY <1>5
    <2>2. i # "source" /\ k # "source"
      BY DEF Indexes, Kinds
    <2>3. Len(loc) = 4 /\ loc[1] = "operations" /\ loc[2] = i /\ loc[3] = k
      BY <2>1
    <2> QED
      BY <2>2, <2>3
  <1> QED
    BY <1>2, <1>3, <1>4, <1>5 DEF Locations

LEMMA PublicFacts ==
    /\ Known \cap CallerNames = {}
    /\ \A n \in {"$", "request", "strict", "status", "limit", "cursor", "proposal_id"} : n \notin CallerNames
  BY CallerNamesAssumption DEF Known, Fields, Values

Public(path, loc) ==
    /\ ToSet(path) \cap CallerNames = {}
    /\ path[1] = "request" => IsPrefix(Tail(path), loc)
    /\ \A i \in DOMAIN path : i > 2 /\ path[i - 1] = "source" => path[i] \in SourceFields

LEMMA NameIsPublic ==
    ASSUME NEW n, n \notin CallerNames, NEW loc, Len(loc) \in Nat
    PROVE  Public(<<n>>, loc)
  <1>1. Tail(<<n>>) = <<>>
    OBVIOUS
  <1>2. IsPrefix(<<>>, loc)
    BY DEF IsPrefix
  <1> QED
    BY <1>1, <1>2 DEF Public, ToSet

LEMMA SafePathIsPublic ==
    ASSUME NEW loc \in Locations
    PROVE  Public(SafePath(loc), loc)
  <1> DEFINE p == SafePath(loc)
  <1>1. /\ p \in Seq(Known) /\ Len(p) \in Nat /\ 1 <= Len(p)
        /\ Len(loc) \in Nat /\ Len(p) <= Len(loc) + 1
        /\ \A j \in 2..Len(p) : p[j] = loc[j - 1]
        /\ \A j \in 3..Len(p) : p[j - 1] = "source" => p[j] \in SourceFields \cup Indexes
    BY LocationFacts, SafePathFacts, LenProperties
  <1> HIDE DEF p
  <1>2. DOMAIN p = 1..Len(p) /\ \A j \in 1..Len(p) : p[j] \in Known
    BY <1>1, LenProperties, ElementOfSeq
  <1>3. ToSet(p) \cap CallerNames = {}
    BY <1>2, PublicFacts DEF ToSet
  <1>4. IsPrefix(Tail(p), loc)
    <2> DEFINE t == Tail(p)
    <2>1. Len(t) = Len(p) - 1 /\ \A j \in 1..Len(p) - 1 : t[j] = loc[j]
      BY <1>1
    <2> HIDE DEF t
    <2>2. Len(t) \in Nat /\ Len(t) <= Len(loc) /\ \A j \in 1..Len(t) : t[j] = loc[j]
      BY <1>1, <2>1
    <2>3. SubSeq(t, 1, Len(t)) = SubSeq(loc, 1, Len(t))
      BY <2>2
    <2> QED
      BY <2>2, <2>3 DEF IsPrefix, t
  <1>5. \A i \in DOMAIN p : i > 2 /\ p[i - 1] = "source" => p[i] \in SourceFields
    <2> SUFFICES ASSUME NEW i \in 3..Len(p), p[i - 1] = "source"
                 PROVE  p[i] \notin Indexes
      BY <1>1, <1>2
    <2>1. p[i] = loc[i - 1] /\ p[i - 1] = loc[i - 2] /\ i - 1 \in 2..Len(loc) /\ (i - 1) - 1 = i - 2
      BY <1>1
    <2> QED
      BY <2>1, LocationFacts
  <1> QED
    BY <1>3, <1>4, <1>5 DEF Public, p

\* A request that Pydantic refuses has an error somewhere, and an answer that names
\* an argument is the one that was made of the arguments.
BoundaryOK ==
    /\ location \in Locations \cup {Nothing}
    /\ "request" \in DOMAIN args /\ args["request"] = "refused" => location \in Locations
    /\ answer.path # Nothing => answer.path = ArgumentError(tool, args)

LEMMA ArgumentErrorFacts ==
    ASSUME BoundaryOK
    PROVE  ArgumentError(tool, args) # Nothing => Public(ArgumentError(tool, args), location)
  <1> DEFINE names == {"$", "request", "strict", "status", "limit", "cursor", "proposal_id"}
             missing == (Keys[tool] \cap {"proposal_id", "request"}) \ DOMAIN args
  <1>1. \/ \E n \in names : ArgumentError(tool, args) = <<n>>
        \/ ArgumentError(tool, args) = Nothing
        \/ /\ "request" \in DOMAIN args /\ args["request"] = "refused"
           /\ ArgumentError(tool, args) = SafePath(location)
    <2> DEFINE rest == \/ \E n \in names : ArgumentError(tool, args) = <<n>>
                       \/ ArgumentError(tool, args) = Nothing
                       \/ /\ "request" \in DOMAIN args /\ args["request"] = "refused"
                          /\ ArgumentError(tool, args) = SafePath(location)
    <2>1. CASE ~(DOMAIN args \subseteq Keys[tool])
      BY <2>1 DEF ArgumentError, Root
    <2>2. CASE DOMAIN args \subseteq Keys[tool] /\ missing # {}
      <3>1. ArgumentError(tool, args) = <<CHOOSE k \in missing : TRUE>>
        BY <2>2 DEF ArgumentError
      <3>2. (CHOOSE k \in missing : TRUE) \in {"proposal_id", "request"}
        BY <2>2
      <3> QED
        BY <3>1, <3>2
    <2>3. CASE DOMAIN args \subseteq Keys[tool] /\ missing = {}
      BY <2>3 DEF ArgumentError
    <2> QED
      BY <2>1, <2>2, <2>3
  <1>2. \A n \in names : n \notin CallerNames
    BY PublicFacts
  <1>3. Len(location) \in Nat
    BY LocationFacts DEF BoundaryOK, Nothing
  <1> QED
    BY <1>1, <1>2, <1>3, NameIsPublic, SafePathIsPublic DEF BoundaryOK

LEMMA BoundaryStarts == BoundaryInit => BoundaryOK
  BY DEF BoundaryInit, BoundaryOK, NoAnswer

LEMMA BoundaryStays == BoundaryOK /\ [BoundaryNext]_boundaryVars => BoundaryOK'
  <1> SUFFICES ASSUME BoundaryOK, [BoundaryNext]_boundaryVars
               PROVE  BoundaryOK'
    OBVIOUS
  <1>1. UNCHANGED <<tool, args, location>>
    BY DEF BoundaryNext, boundaryVars, Receive, Convert, RewriteResidual, HandlerFails, HandlerReturns, Reads,
           ProposalGet, ProposalValidate, IntakePreview, IntakeSubmit, Follow
  <1>2. ArgumentError(tool, args)' = ArgumentError(tool, args)
    BY <1>1 DEF ArgumentError
  <1>3. answer'.path = answer.path \/ answer'.path = Nothing \/ answer'.path = ArgumentError(tool, args)
    BY DEF BoundaryNext, boundaryVars, Receive, Convert, RewriteResidual, HandlerFails, HandlerReturns, Reads,
           ProposalGet, ProposalValidate, IntakePreview, IntakeSubmit, Follow, Answer
  <1> QED
    BY <1>1, <1>2, <1>3 DEF BoundaryOK

\* No path of an answer names what the caller made up, and a path into the request
\* is a beginning of the location of the error.
THEOREM PublicPaths == BoundarySpec => []PathsArePublic
  <1>1. BoundaryOK => PathsArePublic
    BY ArgumentErrorFacts DEF PathsArePublic, BoundaryOK, Public
  <1> QED
    BY <1>1, BoundaryStarts, BoundaryStays, PTL DEF BoundarySpec
===============================================================================
