--------------------------- MODULE PipeEditorProofs ---------------------------
(***************************************************************************)
(* Proofs about PipeEditor, for any documents, any texts and any number of *)
(* messages under way.                                                     *)
(*                                                                         *)
(* First the protocol: what the server holds follows what the editor       *)
(* holds.  Between a text and the server's copy of it are the messages     *)
(* under way.  The invariant says what the last of them that tells of a    *)
(* document brings: the text the editor holds now.  Only if none tells of  *)
(* it is that text the server's already.  What the gutter shows follows    *)
(* from what the server holds, at any time.                                *)
(*                                                                         *)
(* Then what is said without a host against what a host would do.  A       *)
(* factory is a sequence of checks, and what decides is which fails first. *)
(* Two facts about every operator carry the rest: the services its checks  *)
(* ask for are among those the catalog lists, and behind a service there   *)
(* is no check of the configuration, but where Hides says so.              *)
(*                                                                         *)
(* Last the two parsers, side by side: what the lenient one has found      *)
(* behind some segments, and where the segments begin.                     *)
(***************************************************************************)
EXTENDS PipeEditor, TLAPS, FiniteSetTheorems, WellFoundedInduction

Text == Seq(STRING)
Held == UNION {[D -> Text] : D \in SUBSET Uris}
Message ==
    [method : {"didOpen"}, uri : Uris, text : Text]
    \cup [method : {"didChange"}, uri : Uris, changes : Seq(Text)]
    \cup [method : {"didClose", "completion"}, uri : Uris]

TypeOK ==
    /\ text \in Held /\ docs \in Held
    /\ unsent \in Seq(Message)
    /\ DOMAIN gutter = Uris /\ gutter = [u \in Uris |-> gutter[u]]

(* A message tells of a document if the server's copy changes with it.     *)
Tells(m, u) == /\ m.uri = u
               /\ \/ m.method \in {"didOpen", "didClose"}
                  \/ m.method = "didChange" /\ m.changes # <<>>

(* The one text a message brings, or none. *)
Brings(m) == CASE m.method = "didOpen"   -> <<m.text>>
               [] m.method = "didChange" -> <<Current(m.changes)>>
               [] OTHER                  -> <<>>
Copy(held, u) == IF u \in DOMAIN held THEN <<held[u]>> ELSE <<>>

Settled(u) == \A i \in DOMAIN unsent : ~Tells(unsent[i], u)
LastTells(u, i) == Tells(unsent[i], u) /\ \A j \in DOMAIN unsent : j > i => ~Tells(unsent[j], u)

InStep(u) ==
    /\ Settled(u) => Copy(docs, u) = Copy(text, u)
    /\ \A i \in DOMAIN unsent : LastTells(u, i) => Brings(unsent[i]) = Copy(text, u)

Shown(u) == gutter[u] = IF u \in DOMAIN docs THEN Published(docs[u]) ELSE {}

IInv == TypeOK /\ \A u \in Uris : InStep(u) /\ Shown(u)

-------------------------------------------------------------------------------
(***************************************************************************)
(* A message put at the end: it is the last for its document if it tells   *)
(* of it, and changes nothing for any other.                               *)
(***************************************************************************)
LEMMA SendKeepsStep ==
    ASSUME TypeOK, NEW m \in Message, unsent' = Append(unsent, m), docs' = docs,
           NEW u \in Uris, InStep(u),
           Tells(m, u) => Brings(m) = Copy(text', u),
           ~Tells(m, u) => Copy(text', u) = Copy(text, u)
    PROVE  InStep(u)'
<1> DEFINE n == Len(unsent)
<1>1. /\ n \in Nat /\ DOMAIN unsent = 1..n /\ DOMAIN unsent' = 1..(n + 1)
      /\ unsent'[n + 1] = m
      /\ \A i \in 1..n : unsent'[i] = unsent[i]
  BY DEF TypeOK
<1> HIDE DEF n
<1>2. ASSUME Settled(u)' PROVE Copy(docs', u) = Copy(text', u)
  <2>1. ~Tells(m, u)
    BY <1>1, <1>2 DEF Settled
  <2>2. Settled(u)
    BY <1>1, <1>2 DEF Settled
  <2> QED
    BY <2>1, <2>2 DEF InStep
<1>3. ASSUME NEW i \in DOMAIN unsent', LastTells(u, i)' PROVE Brings(unsent'[i]) = Copy(text', u)
  <2>1. CASE i = n + 1
    BY <1>1, <1>3, <2>1 DEF LastTells
  <2>2. CASE i \in 1..n
    <3>1. ~Tells(m, u)
      BY <1>1, <1>3, <2>2 DEF LastTells
    <3>2. LastTells(u, i)
      BY <1>1, <1>3, <2>2 DEF LastTells
    <3> QED
      BY <1>1, <2>2, <3>1, <3>2 DEF InStep
  <2> QED
    BY <1>1, <2>1, <2>2
<1> QED
  BY <1>2, <1>3 DEF InStep

(***************************************************************************)
(* The first message taken: the server's copy of a document is what that   *)
(* message brings if it tells of it, and what it was if not.               *)
(***************************************************************************)
LEMMA HandleKeepsStep ==
    ASSUME TypeOK, unsent # <<>>, unsent' = Tail(unsent), text' = text,
           NEW u \in Uris, InStep(u),
           Tells(Head(unsent), u) => Copy(docs', u) = Brings(Head(unsent)),
           ~Tells(Head(unsent), u) => Copy(docs', u) = Copy(docs, u)
    PROVE  InStep(u)'
<1> DEFINE n == Len(unsent)
<1>1. /\ n \in Nat \ {0} /\ DOMAIN unsent = 1..n /\ DOMAIN unsent' = 1..(n - 1)
      /\ Head(unsent) = unsent[1]
      /\ \A i \in 1..(n - 1) : unsent'[i] = unsent[i + 1]
  BY DEF TypeOK
<1> HIDE DEF n
<1>2. \A j \in 2..n : j - 1 \in DOMAIN unsent' /\ unsent'[j - 1] = unsent[j]
  BY <1>1
<1>3. ASSUME Settled(u)' PROVE Copy(docs', u) = Copy(text', u)
  <2>1. \A j \in 2..n : ~Tells(unsent[j], u)
    BY <1>2, <1>3 DEF Settled
  <2>2. CASE Tells(unsent[1], u)
    <3>1. LastTells(u, 1)
      BY <1>1, <2>1, <2>2 DEF LastTells
    <3> QED
      BY <1>1, <2>2, <3>1 DEF InStep
  <2>3. CASE ~Tells(unsent[1], u)
    <3>1. Settled(u)
      BY <1>1, <2>1, <2>3 DEF Settled
    <3> QED
      BY <1>1, <2>3, <3>1 DEF InStep
  <2> QED
    BY <2>2, <2>3
<1>4. ASSUME NEW i \in DOMAIN unsent', LastTells(u, i)' PROVE Brings(unsent'[i]) = Copy(text', u)
  <2>1. i + 1 \in DOMAIN unsent /\ unsent'[i] = unsent[i + 1]
    BY <1>1
  <2>2. ASSUME NEW j \in DOMAIN unsent, j > i + 1 PROVE ~Tells(unsent[j], u)
    <3>1. j - 1 \in DOMAIN unsent' /\ j - 1 > i /\ unsent'[j - 1] = unsent[j]
      BY <1>1, <2>2
    <3> QED
      BY <1>4, <3>1 DEF LastTells
  <2>3. LastTells(u, i + 1)
    BY <1>4, <2>1, <2>2 DEF LastTells
  <2> QED
    BY <2>1, <2>3 DEF InStep
<1> QED
  BY <1>3, <1>4 DEF InStep

(***************************************************************************)
(* A copy set or dropped: the others stay, and what the gutter shows is    *)
(* what is published of the new one.                                       *)
(***************************************************************************)
LEMMA SetSets ==
    ASSUME TypeOK, NEW u \in Uris, NEW t \in Text, Set(u, t)
    PROVE  /\ docs' \in Held
           /\ DOMAIN gutter' = Uris /\ gutter' = [v \in Uris |-> gutter'[v]]
           /\ Copy(docs', u) = <<t>>
           /\ \A v \in Uris \ {u} : Copy(docs', v) = Copy(docs, v)
           /\ (\A v \in Uris : Shown(v)) => \A v \in Uris : Shown(v)'
<1>1. docs' \in Held
  <2>1. PICK D \in SUBSET Uris : docs \in [D -> Text]
    BY DEF TypeOK, Held
  <2>2. D \cup {u} \in SUBSET Uris /\ docs' \in [D \cup {u} -> Text]
    BY <2>1 DEF Set
  <2> QED
    BY <2>2 DEF Held
<1>2. DOMAIN gutter' = Uris /\ gutter' = [v \in Uris |-> gutter'[v]]
  BY DEF TypeOK, Set
<1>3. Copy(docs', u) = <<t>> /\ \A v \in Uris \ {u} : Copy(docs', v) = Copy(docs, v)
  BY DEF Set, Copy
<1>4. ASSUME NEW v \in Uris, Shown(v) PROVE Shown(v)'
  BY <1>4 DEF Set, Shown, TypeOK
<1> QED
  BY <1>1, <1>2, <1>3, <1>4

LEMMA DropDrops ==
    ASSUME TypeOK, NEW u \in Uris, docs' = [v \in DOMAIN docs \ {u} |-> docs[v]],
           gutter' = [gutter EXCEPT ![u] = {}]
    PROVE  /\ docs' \in Held
           /\ DOMAIN gutter' = Uris /\ gutter' = [v \in Uris |-> gutter'[v]]
           /\ Copy(docs', u) = <<>>
           /\ \A v \in Uris \ {u} : Copy(docs', v) = Copy(docs, v)
           /\ (\A v \in Uris : Shown(v)) => \A v \in Uris : Shown(v)'
<1>1. docs' \in Held
  <2>1. PICK D \in SUBSET Uris : docs \in [D -> Text]
    BY DEF TypeOK, Held
  <2>2. D \ {u} \in SUBSET Uris /\ docs' \in [D \ {u} -> Text]
    BY <2>1
  <2> QED
    BY <2>2 DEF Held
<1>2. DOMAIN gutter' = Uris /\ gutter' = [v \in Uris |-> gutter'[v]]
  BY DEF TypeOK
<1>3. Copy(docs', u) = <<>> /\ \A v \in Uris \ {u} : Copy(docs', v) = Copy(docs, v)
  BY DEF Copy
<1>4. ASSUME NEW v \in Uris, Shown(v) PROVE Shown(v)'
  BY <1>4 DEF Shown, TypeOK
<1> QED
  BY <1>1, <1>2, <1>3, <1>4

-------------------------------------------------------------------------------
LEMMA InitStep == Init => IInv
<1> SUFFICES ASSUME Init PROVE IInv
  OBVIOUS
<1>1. <<>> \in Held
  <2>1. <<>> \in [{} -> Text] /\ {} \in SUBSET Uris
    OBVIOUS
  <2> QED
    BY <2>1 DEF Held
<1>2. TypeOK
  BY <1>1 DEF Init, TypeOK
<1>3. ASSUME NEW u \in Uris PROVE InStep(u) /\ Shown(u)
  BY DEF Init, InStep, Shown, Settled, LastTells, Copy
<1> QED
  BY <1>2, <1>3 DEF IInv

(***************************************************************************)
(* What the user does: the text of one document changes, and the message   *)
(* that tells of it brings the new one.                                    *)
(***************************************************************************)
LEMMA SentStep ==
    ASSUME IInv, text' \in Held, NEW m \in Message, Send(m),
           \A u \in Uris : /\ Tells(m, u) => Brings(m) = Copy(text', u)
                           /\ ~Tells(m, u) => Copy(text', u) = Copy(text, u)
    PROVE  IInv'
<1>1. unsent' = Append(unsent, m) /\ docs' = docs /\ gutter' = gutter
  BY DEF Send
<1>2. TypeOK'
  BY <1>1 DEF IInv, TypeOK
<1>3. ASSUME NEW u \in Uris PROVE InStep(u)' /\ Shown(u)'
  <2>1. InStep(u)'
    BY <1>1, SendKeepsStep DEF IInv
  <2>2. Shown(u)'
    BY <1>1 DEF IInv, Shown
  <2> QED
    BY <2>1, <2>2
<1> QED
  BY <1>2, <1>3 DEF IInv

LEMMA OpenStep ==
    ASSUME IInv, NEW u \in Uris, NEW t \in Openings[u], Open(u, t)
    PROVE  IInv'
<1> DEFINE m == [method |-> "didOpen", uri |-> u, text |-> t.says]
<1>1. t.says \in Text
  BY EditorAssumption DEF Text
<1>2. m \in Message /\ Send(m)
  BY <1>1 DEF Message, Open
<1>3. text' \in Held
  <2>1. PICK D \in SUBSET Uris : text \in [D -> Text]
    BY DEF IInv, TypeOK, Held
  <2>2. D \cup {u} \in SUBSET Uris /\ text' \in [D \cup {u} -> Text]
    BY <1>1, <2>1 DEF Open
  <2> QED
    BY <2>2 DEF Held
<1>4. ASSUME NEW v \in Uris
      PROVE  /\ Tells(m, v) => Brings(m) = Copy(text', v)
             /\ ~Tells(m, v) => Copy(text', v) = Copy(text, v)
  BY DEF Open, Tells, Brings, Copy
<1> QED
  BY <1>2, <1>3, <1>4, SentStep

LEMMA TypeStep ==
    ASSUME IInv, NEW u \in Uris, NEW added \in Additions[u], Type(u, added)
    PROVE  IInv'
<1>1. PICK D \in SUBSET Uris : text \in [D -> Text]
  BY DEF IInv, TypeOK, Held
<1>2. u \in D /\ D = DOMAIN text
  BY <1>1 DEF Type
<1>3. text[u] \in Text /\ text[u] \o added.says \in Text
  BY <1>1, <1>2, EditorAssumption DEF Text
<1>4. text' \in [D -> Text] /\ text'[u] \in Text /\ \A v \in D \ {u} : text'[v] = text[v]
  BY <1>1, <1>2, <1>3 DEF Type
<1>5. text' \in Held
  BY <1>4 DEF Held
<1>6. PICK changes \in {<<text'[u]>>, <<text[u], text'[u]>>} :
        Send([method |-> "didChange", uri |-> u, changes |-> changes])
  BY DEF Type
<1>7. changes \in Seq(Text) /\ changes # <<>> /\ Last(changes) = text'[u]
  <2>1. \A a, c \in Text : /\ <<a>> \in Seq(Text) /\ <<a>> # <<>> /\ <<a>>[Len(<<a>>)] = a
                          /\ <<a, c>> \in Seq(Text) /\ <<a, c>> # <<>> /\ <<a, c>>[Len(<<a, c>>)] = c
    OBVIOUS
  <2>2. CASE changes = <<text'[u]>>
    BY <1>4, <2>1, <2>2 DEF Last
  <2>3. CASE changes = <<text[u], text'[u]>>
    BY <1>3, <1>4, <2>1, <2>3 DEF Last
  <2> QED
    BY <1>6, <2>2, <2>3
<1> DEFINE m == [method |-> "didChange", uri |-> u, changes |-> changes]
<1>8. m \in Message
  BY <1>7 DEF Message
<1>9. ASSUME NEW v \in Uris
      PROVE  /\ Tells(m, v) => Brings(m) = Copy(text', v)
             /\ ~Tells(m, v) => Copy(text', v) = Copy(text, v)
  <2>1. CASE v = u
    <3>1. m.uri = u /\ m.method = "didChange" /\ m.changes = changes
      OBVIOUS
    <3>2. Brings(m) = <<text'[u]>>
      BY <1>7, <3>1 DEF Brings, Current
    <3>3. Copy(text', v) = <<text'[u]>>
      BY <1>2, <1>4, <2>1 DEF Copy
    <3> QED
      BY <1>7, <2>1, <3>1, <3>2, <3>3 DEF Tells
  <2>2. CASE v # u
    BY <1>1, <1>4, <2>2 DEF Tells, Copy
  <2> QED
    BY <2>1, <2>2
<1> QED
  BY <1>5, <1>6, <1>8, <1>9, SentStep

LEMMA CloseStep ==
    ASSUME IInv, NEW u \in Uris, Close(u)
    PROVE  IInv'
<1> DEFINE m == [method |-> "didClose", uri |-> u]
<1>1. m \in Message /\ Send(m)
  BY DEF Message, Close
<1>2. text' \in Held
  <2>1. PICK D \in SUBSET Uris : text \in [D -> Text]
    BY DEF IInv, TypeOK, Held
  <2>2. D \ {u} \in SUBSET Uris /\ text' \in [D \ {u} -> Text]
    BY <2>1 DEF Close
  <2> QED
    BY <2>2 DEF Held
<1>3. ASSUME NEW v \in Uris
      PROVE  /\ Tells(m, v) => Brings(m) = Copy(text', v)
             /\ ~Tells(m, v) => Copy(text', v) = Copy(text, v)
  BY DEF Close, Tells, Brings, Copy
<1> QED
  BY <1>1, <1>2, <1>3, SentStep

LEMMA QuietStep ==
    ASSUME IInv, NEW u \in Uris, Touch(u) \/ Ask(u)
    PROVE  IInv'
<1>1. text' = text
  BY DEF Touch, Ask
<1>2. PICK m \in {[method |-> "didChange", uri |-> u, changes |-> <<>>],
                  [method |-> "completion", uri |-> u]} : Send(m)
  BY DEF Touch, Ask
<1>3. m \in Message
  <2>1. <<>> \in Seq(Text)
    OBVIOUS
  <2>2. [method |-> "didChange", uri |-> u, changes |-> <<>>] \in Message
    BY <2>1 DEF Message
  <2>3. [method |-> "completion", uri |-> u] \in Message
    BY DEF Message
  <2> QED
    BY <1>2, <2>2, <2>3
<1>4. \A v \in Uris : ~Tells(m, v)
  BY <1>2 DEF Tells
<1>5. text' \in Held
  BY <1>1 DEF IInv, TypeOK
<1> QED
  BY <1>1, <1>2, <1>3, <1>4, <1>5, SentStep

-------------------------------------------------------------------------------
(***************************************************************************)
(* What the server does with the first message.                            *)
(***************************************************************************)
LEMMA ServeStep ==
    ASSUME IInv, Serve
    PROVE  IInv'
<1>0. Head(unsent) \in Message /\ unsent' = Tail(unsent) /\ unsent # <<>> /\ text' = text
  BY DEF IInv, TypeOK, Serve, DidOpen, DidChange, DidClose, Completion, Handle
<1>1. PICK m \in Message : m = Head(unsent)
  BY <1>0
<1>2. m.uri \in Uris /\ unsent' \in Seq(Message)
  BY <1>0, <1>1 DEF Message, IInv, TypeOK
<1>3. /\ docs' \in Held
      /\ DOMAIN gutter' = Uris /\ gutter' = [v \in Uris |-> gutter'[v]]
      /\ \A v \in Uris : /\ Tells(m, v) => Copy(docs', v) = Brings(m)
                         /\ ~Tells(m, v) => Copy(docs', v) = Copy(docs, v)
                         /\ Shown(v)'
  <2>1. CASE DidOpen(m)
    <3>1. m.method = "didOpen" /\ m.text \in Text /\ Set(m.uri, m.text)
      BY <1>1, <2>1 DEF DidOpen, Message
    <3>2. Brings(m) = <<m.text>> /\ \A v \in Uris : Tells(m, v) <=> v = m.uri
      BY <3>1 DEF Brings, Tells
    <3> QED
      BY <1>2, <3>1, <3>2, SetSets DEF IInv
  <2>2. CASE DidChange(m) /\ m.changes # <<>>
    <3>1. m.method = "didChange" /\ m.changes \in Seq(Text) /\ Set(m.uri, Current(m.changes))
      BY <1>1, <2>2 DEF DidChange, Message
    <3>2. Current(m.changes) \in Text
      BY <2>2, <3>1 DEF Current, Last
    <3>3. Brings(m) = <<Current(m.changes)>> /\ \A v \in Uris : Tells(m, v) <=> v = m.uri
      BY <2>2, <3>1 DEF Brings, Tells
    <3> QED
      BY <1>2, <3>1, <3>2, <3>3, SetSets DEF IInv
  <2>3. CASE DidClose(m)
    <3>1. /\ m.method = "didClose" /\ docs' = [v \in DOMAIN docs \ {m.uri} |-> docs[v]]
          /\ gutter' = [gutter EXCEPT ![m.uri] = {}]
      BY <2>3 DEF DidClose
    <3>2. Brings(m) = <<>> /\ \A v \in Uris : Tells(m, v) <=> v = m.uri
      BY <3>1 DEF Brings, Tells
    <3> QED
      BY <1>2, <3>1, <3>2, DropDrops DEF IInv
  <2>4. CASE (DidChange(m) /\ m.changes = <<>>) \/ Completion(m)
    <3>1. docs' = docs /\ gutter' = gutter
      BY <2>4 DEF DidChange, Completion
    <3>2. \A v \in Uris : ~Tells(m, v)
      BY <2>4 DEF DidChange, Completion, Tells
    <3> QED
      BY <3>1, <3>2 DEF IInv, TypeOK, Shown
  <2> QED
    BY <1>1, <2>1, <2>2, <2>3, <2>4 DEF Serve
<1>4. TypeOK'
  BY <1>0, <1>2, <1>3 DEF IInv, TypeOK
<1>5. ASSUME NEW v \in Uris PROVE InStep(v)' /\ Shown(v)'
  <2>1. Tells(m, v) => Copy(docs', v) = Brings(m)
    BY <1>3
  <2>3. ~Tells(m, v) => Copy(docs', v) = Copy(docs, v)
    BY <1>3
  <2>4. Shown(v)'
    BY <1>3
  <2>2. TypeOK /\ InStep(v)
    BY DEF IInv
  <2> QED
    BY <1>0, <1>1, <2>1, <2>2, <2>3, <2>4, HandleKeepsStep
<1> QED
  BY <1>4, <1>5 DEF IInv

LEMMA StutterStep ==
    ASSUME IInv, UNCHANGED <<text, unsent, docs, gutter>>
    PROVE  IInv'
BY DEF IInv, TypeOK, InStep, Shown, Settled, LastTells

LEMMA NextStep == IInv /\ [Next]_vars => IInv'
<1> SUFFICES ASSUME IInv, [Next]_vars PROVE IInv'
  OBVIOUS
<1>1. CASE UNCHANGED vars
  BY <1>1, StutterStep DEF vars
<1>2. ASSUME NEW u \in Uris, NEW t \in Openings[u], Open(u, t) PROVE IInv'
  BY <1>2, OpenStep
<1>3. ASSUME NEW u \in Uris, NEW added \in Additions[u], Type(u, added) PROVE IInv'
  BY <1>3, TypeStep
<1>4. ASSUME NEW u \in Uris, Touch(u) \/ Ask(u) PROVE IInv'
  BY <1>4, QuietStep
<1>5. ASSUME NEW u \in Uris, Close(u) PROVE IInv'
  BY <1>5, CloseStep
<1>6. ASSUME NEW u \in Uris, NEW services \in Hosts, HostCompletes(u, services) PROVE IInv'
  BY <1>6, StutterStep DEF HostCompletes
<1>7. CASE Serve
  BY <1>7, ServeStep
<1>8. ASSUME NEW stages \in Submissions, Submit(stages) PROVE IInv'
  BY <1>8, StutterStep DEF Submit
<1> QED
  BY <1>1, <1>2, <1>3, <1>4, <1>5, <1>6, <1>7, <1>8 DEF Next

(***************************************************************************)
(* For any documents and texts and any order of opening, typing, closing   *)
(* and asking: once every message is handled the server holds the texts    *)
(* the editor holds, and the gutter shows what is published of them.       *)
(***************************************************************************)
THEOREM GutterFollows == Spec => []GutterTruthful
<1>1. IInv => GutterTruthful
  <2> SUFFICES ASSUME IInv, unsent = <<>>
               PROVE  docs = text /\ \A u \in Uris : gutter[u] = IF u \in DOMAIN text THEN Published(text[u]) ELSE {}
    BY DEF GutterTruthful
  <2>1. \A u \in Uris : Copy(docs, u) = Copy(text, u)
    BY DEF IInv, InStep, Settled
  <2>2. PICK C \in SUBSET Uris, D \in SUBSET Uris : docs \in [C -> Text] /\ text \in [D -> Text]
    BY DEF IInv, TypeOK, Held
  <2>3. \A u \in Uris : (u \in C <=> u \in D) /\ (u \in C => docs[u] = text[u])
    BY <2>1, <2>2 DEF Copy
  <2>4. docs = text
    BY <2>2, <2>3
  <2> QED
    BY <2>4 DEF IInv, Shown
<1> QED
  BY <1>1, InitStep, NextStep, PTL DEF Spec
LEMMA LeastPlace ==
    ASSUME NEW S \in SUBSET Nat, S # {}
    PROVE  Min(S) \in S /\ \A k \in S : Min(S) <= k
<1>1. \E x \in S : \A y \in S : ~ (<<y, x>> \in OpToRel(<, Nat))
  BY NatLessThanWellFounded, WFMin
<1>2. OpToRel(<, Nat) = {p \in Nat \X Nat : p[1] < p[2]}
  BY DEF OpToRel
<1>3. PICK x \in S : \A y \in S : ~ (<<y, x>> \in {p \in Nat \X Nat : p[1] < p[2]})
  BY <1>1, <1>2
<1>4. \A y \in S : ~(y < x)
  <2> SUFFICES ASSUME NEW y \in S, y < x PROVE FALSE
    OBVIOUS
  <2>1. <<y, x>> \in {p \in Nat \X Nat : p[1] < p[2]}
    OBVIOUS
  <2> QED
    BY <1>3, <2>1
<1>5. \A y \in S : x <= y
  BY <1>4
<1> QED
  BY <1>5 DEF Min

LEMMA AllPlaces ==
    ASSUME NEW S \in SUBSET Nat, 0 \in S, \A k \in S : k + 1 \in S
    PROVE  S = Nat
<1> SUFFICES ASSUME Nat \ S # {} PROVE FALSE
  OBVIOUS
<1> DEFINE T == Nat \ S
<1>1. PICK m \in T : \A k \in T : m <= k
  BY LeastPlace
<1>2. m - 1 \in Nat /\ m - 1 \in S
  BY <1>1
<1>3. (m - 1) + 1 \in S
  BY <1>2
<1> QED
  BY <1>1, <1>3

Enumerates(s, S) ==
    /\ s \in [1..Cardinality(S) -> S]
    /\ \A m, n \in DOMAIN s : m < n => s[m] < s[n]

LEMMA OrderedExists ==
    ASSUME NEW n \in Nat, NEW S \in SUBSET (1..n)
    PROVE  Cardinality(S) \in Nat /\ Enumerates(Ordered(S), S)
<1> DEFINE P(k) == \A T \in SUBSET (1..k) : \E s : Enumerates(s, T)
           B == {k \in Nat : ~P(k)}
<1>1. \A k \in Nat : \A T \in SUBSET (1..k) : IsFiniteSet(T) /\ Cardinality(T) \in Nat
  <2> SUFFICES ASSUME NEW k \in Nat, NEW T \in SUBSET (1..k)
               PROVE  IsFiniteSet(T) /\ Cardinality(T) \in Nat
    OBVIOUS
  <2>1. IsFiniteSet(1..k)
    BY FS_Interval
  <2> QED
    BY <2>1, FS_Subset, FS_CardinalityType
<1>2. B = {}
  <2> SUFFICES ASSUME B # {} PROVE FALSE
    OBVIOUS
  <2>1. PICK m \in B : \A k \in B : m <= k
    BY LeastPlace
  <2>2. m # 0
    <3> SUFFICES ASSUME m = 0 PROVE FALSE
      OBVIOUS
    <3>1. ASSUME NEW T \in SUBSET (1..0) PROVE Enumerates(<<>>, T)
      <4>1. 1..0 = {}
        OBVIOUS
      <4>2. T = {}
        BY <4>1
      <4>3. Cardinality(T) = 0
        BY <4>2, FS_EmptySet
      <4> QED
        BY <4>2, <4>3 DEF Enumerates
    <3> QED
      BY <3>1
  <2>3. m - 1 \in Nat /\ P(m - 1)
    <3>1. m - 1 \in Nat /\ m - 1 \notin B
      BY <2>1, <2>2
    <3> QED
      BY <3>1
  <2>4. ASSUME NEW T \in SUBSET (1..m) PROVE \E s : Enumerates(s, T)
    <3>1. CASE m \notin T
      <4>1. T \in SUBSET (1..(m - 1))
        BY <3>1
      <4> QED
        BY <2>3, <4>1
    <3>2. CASE m \in T
      <4> DEFINE U == T \ {m}
                 k == Cardinality(U)
      <4>1. U \in SUBSET (1..(m - 1))
        OBVIOUS
      <4>2. PICK s : Enumerates(s, U)
        BY <2>3, <4>1
      <4>3. IsFiniteSet(T) /\ k \in Nat /\ Cardinality(T) = k + 1
        <5>1. IsFiniteSet(T) /\ Cardinality(T) \in Nat
          BY <1>1
        <5>2. k \in Nat
          BY <1>1, <2>3, <4>1
        <5>3. Cardinality(T \ {m}) = Cardinality(T) - 1
          BY <3>2, <5>1, FS_RemoveElement
        <5> QED
          BY <5>1, <5>2, <5>3
      <4> DEFINE s2 == [i \in 1..(k + 1) |-> IF i = k + 1 THEN m ELSE s[i]]
      <4>4. s \in [1..k -> U] /\ \A i, j \in 1..k : i < j => s[i] < s[j]
        BY <4>2 DEF Enumerates
      <4> HIDE DEF k
      <4>5. s2 \in [1..(k + 1) -> T]
        BY <3>2, <4>3, <4>4
      <4>6. ASSUME NEW i \in 1..(k + 1), NEW j \in 1..(k + 1), i < j PROVE s2[i] < s2[j]
        <5>0. i \in 1..k
          BY <4>3, <4>6
        <5> HIDE DEF U
        <5>4. s2[i] = s[i]
          BY <4>3, <5>0
        <5>5. s[i] \in U
          BY <4>4, <5>0
        <5>1. i \in 1..k /\ s2[i] = s[i] /\ s[i] \in 1..(m - 1)
          BY <4>1, <5>0, <5>4, <5>5
        <5>2. CASE j = k + 1
          BY <5>1, <5>2
        <5>3. CASE j \in 1..k
          BY <4>3, <4>4, <4>6, <5>1, <5>3
        <5> QED
          BY <4>3, <5>2, <5>3
      <4>7. Enumerates(s2, T)
        BY <4>3, <4>5, <4>6 DEF Enumerates
      <4> QED
        BY <4>7
    <3> QED
      BY <3>1, <3>2
  <2> QED
    BY <2>1, <2>4
<1>3. \E s : Enumerates(s, S)
  BY <1>2
<1>4. Cardinality(S) \in Nat
  BY <1>1
<1> QED
  BY <1>3, <1>4 DEF Ordered, Enumerates

-------------------------------------------------------------------------------
(***************************************************************************)
(* What the checks of a stage are: the only services among them are those  *)
(* the catalog says the operator requires, and behind a service there is   *)
(* no check of the configuration, but in the operators that Hides names    *)
(* and the sheet.                                                          *)
(***************************************************************************)
Uses(checks, services) ==
    /\ DOMAIN checks \in SUBSET Nat
    /\ \A i \in DOMAIN checks : /\ checks[i].service \in services \cup {"none"}
                                /\ checks[i].service # "none" => checks[i].ok
ServicesLast(checks) ==
    \A i, j \in DOMAIN checks : i < j /\ checks[i].service # "none" => checks[j].ok
Plain(checks) == DOMAIN checks \in SUBSET Nat /\ \A i \in DOMAIN checks : checks[i].service = "none"

ServiceOps ==
    {"filter", "compute", "callFunction", "callApp", "lookup", "asofJoin", "transform", "algo",
     "sheet", "assert", "crossJoin"}

LEMMA ShapeIs == \A ok : Shape(ok).service = "none" /\ Shape(ok).ok = ok
  BY DEF Shape

LEMMA ServiceIs == \A name : Service(name).service = name /\ Service(name).ok = TRUE
  BY DEF Service

LEMMA PlainFew ==
    ASSUME NEW a, NEW b
    PROVE  Plain(<<>>) /\ Plain(<<Shape(a)>>) /\ Plain(<<Shape(a), Shape(b)>>)
<1>1. Shape(a).service = "none" /\ Shape(b).service = "none"
  BY ShapeIs
<1> QED
  BY <1>1 DEF Plain

LEMMA PlainChecks ==
    ASSUME NEW stage, stage.op \notin ServiceOps
    PROVE  Plain(Checks(stage))
<1> DEFINE c == stage.config
<1>1. Plain(SortChecks(c)) /\ Plain(AggregateChecks(c)) /\ Plain(PivotChecks(c))
  BY PlainFew DEF SortChecks, AggregateChecks, PivotChecks
<1>2. Plain(CastChecks(c)) /\ Plain(TimeBucketChecks(c)) /\ Plain(GapfillChecks(c))
  BY PlainFew DEF CastChecks, TimeBucketChecks, GapfillChecks
<1>3. Plain(SampleChecks(c)) /\ Plain(WindowChecks(c)) /\ Plain(FillNullsChecks(c))
  BY ShapeIs DEF Plain, SampleChecks, WindowChecks, FillNullsChecks
<1> HIDE DEF c
<1>4. CASE stage.op \in {"sort", "aggregate", "pivot", "cast", "timeBucket", "gapfill", "sample", "window", "fillNulls"}
  BY <1>1, <1>2, <1>3, <1>4 DEF Checks, c
<1>5. CASE stage.op \in {"histogram", "topPerGroup", "dedupe", "rename", "drop", "groupBy", "flatten", "unnestObject"}
  BY <1>5, PlainFew DEF Checks
<1>6. CASE stage.op \in {"project", "limit", "skip", "unpivot", "nest", "distinct", "tap", "dropNulls"}
  BY <1>6, PlainFew DEF Checks
<1>7. CASE stage.op \notin {"sort", "aggregate", "pivot", "cast", "timeBucket", "gapfill", "sample", "window",
                             "fillNulls"}
              \cup {"histogram", "topPerGroup", "dedupe", "rename", "drop", "groupBy", "flatten", "unnestObject"}
              \cup {"project", "limit", "skip", "unpivot", "nest", "distinct", "tap", "dropNulls"}
  <2>1. Checks(stage) = <<Shape(FALSE)>>
    BY <1>7 DEF Checks, ServiceOps
  <2> QED
    BY <2>1, PlainFew
<1> QED
  BY <1>4, <1>5, <1>6, <1>7

LEMMA ServiceChecks ==
    ASSUME NEW stage, stage.op \in ServiceOps
    PROVE  /\ Uses(Checks(stage), CatalogIndex[stage.op].requires)
           /\ stage.op # "sheet" /\ ~Hides(stage) => ServicesLast(Checks(stage))
<1> DEFINE c == stage.config
<1>1. CASE stage.op = "filter"
  <2>1. \E a : \/ Checks(stage) = <<Shape(a)>>
               \/ Checks(stage) = <<Service("eval")>>
               \/ Checks(stage) = <<>>
    BY <1>1 DEF Checks, FilterChecks
  <2>2. PICK a : \/ Checks(stage) = <<Shape(a)>>
                 \/ Checks(stage) = <<Service("eval")>>
                 \/ Checks(stage) = <<>>
    BY <2>1
  <2> QED
    BY <1>1, <2>2, ShapeIs, ServiceIs DEF Uses, ServicesLast, CatalogIndex, filterMeta, Meta
<1>2. CASE stage.op = "compute"
  <2>1. Checks(stage) = ComputeChecks(c)
    BY <1>2 DEF Checks
  <2>2. CatalogIndex[stage.op].requires = {"eval", "formula"}
    BY <1>2 DEF CatalogIndex, computeMeta, Meta
  <2>3. Uses(ComputeChecks(c), {"eval", "formula"})
    BY ShapeIs, ServiceIs DEF Uses, ComputeChecks
  <2>4. ServicesLast(ComputeChecks(c))
    BY ShapeIs, ServiceIs DEF ServicesLast, ComputeChecks
  <2> QED
    BY <2>1, <2>2, <2>3, <2>4
<1>3. CASE stage.op = "callFunction"
  BY <1>3, ShapeIs, ServiceIs
  DEF Checks, CallFunctionChecks, Uses, ServicesLast, CatalogIndex, callFunctionMeta, Meta
<1>4. CASE stage.op = "callApp"
  BY <1>4, ShapeIs, ServiceIs DEF Checks, CallAppChecks, Uses, ServicesLast, CatalogIndex, callAppMeta, Meta
<1>5. CASE stage.op = "lookup"
  BY <1>5, ShapeIs, ServiceIs DEF Checks, LookupChecks, Uses, ServicesLast, CatalogIndex, lookupMeta, Meta
<1>6. CASE stage.op = "asofJoin"
  BY <1>6, ShapeIs, ServiceIs
  DEF Checks, AsofJoinChecks, Uses, ServicesLast, CatalogIndex, asofJoinMeta, Meta, Hides
<1>7. CASE stage.op = "transform"
  BY <1>7, ShapeIs, ServiceIs DEF Checks, TransformChecks, Uses, ServicesLast, CatalogIndex, transformMeta, Meta
<1>8. CASE stage.op = "algo"
  BY <1>8, ShapeIs, ServiceIs
  DEF Checks, AlgoChecks, Uses, ServicesLast, CatalogIndex, algoMeta, Meta, Hides
<1>9. CASE stage.op = "sheet"
  BY <1>9, ShapeIs, ServiceIs DEF Checks, SheetChecks, Uses, CatalogIndex, sheetMeta, Meta
<1>10. CASE stage.op = "assert"
  BY <1>10, ShapeIs, ServiceIs DEF Checks, Uses, ServicesLast, CatalogIndex, assertMeta, Meta
<1>11. CASE stage.op = "crossJoin"
  BY <1>11, ShapeIs, ServiceIs DEF Checks, Uses, ServicesLast, CatalogIndex, crossJoinMeta, Meta
<1> QED
  BY <1>1, <1>2, <1>3, <1>4, <1>5, <1>6, <1>7, <1>8, <1>9, <1>10, <1>11 DEF ServiceOps

LEMMA ChecksOf ==
    ASSUME NEW stage
    PROVE  \E services \in SUBSET Services :
              /\ Uses(Checks(stage), services)
              /\ Known(stage.op) => services \subseteq CatalogIndex[stage.op].requires
              /\ stage.op # "sheet" => "exprCompiler" \notin services
              /\ stage.op # "sheet" /\ ~Hides(stage) => ServicesLast(Checks(stage))
<1>1. CASE stage.op \in ServiceOps
  <2>1. CASE stage.op \in {"filter", "transform", "assert"}
    <3>1. CatalogIndex[stage.op].requires = {"eval"}
      BY <2>1 DEF CatalogIndex, Meta, filterMeta, transformMeta, assertMeta
    <3> QED
      BY <1>1, <2>1, <3>1, ServiceChecks DEF Services
  <2>2. CASE stage.op \in {"lookup", "asofJoin", "crossJoin"}
    <3>1. CatalogIndex[stage.op].requires = {"classic"}
      BY <2>2 DEF CatalogIndex, Meta, lookupMeta, asofJoinMeta, crossJoinMeta
    <3> QED
      BY <1>1, <2>2, <3>1, ServiceChecks DEF Services
  <2>3. CASE stage.op \in {"callFunction", "callApp", "algo"}
    <3>1. CatalogIndex[stage.op].requires \in {{"functionRegistry"}, {"appCaller"}, {"algorithms"}}
      BY <2>3 DEF CatalogIndex, Meta, callFunctionMeta, callAppMeta, algoMeta
    <3> QED
      BY <1>1, <2>3, <3>1, ServiceChecks DEF Services
  <2>4. CASE stage.op = "compute"
    <3>1. CatalogIndex[stage.op].requires = {"eval", "formula"}
      BY <2>4 DEF CatalogIndex, Meta, computeMeta
    <3> QED
      BY <1>1, <2>4, <3>1, ServiceChecks DEF Services
  <2>5. CASE stage.op = "sheet"
    <3>1. CatalogIndex[stage.op].requires = {"exprCompiler"}
      BY <2>5 DEF CatalogIndex, Meta, sheetMeta
    <3> QED
      BY <1>1, <2>5, <3>1, ServiceChecks DEF Services
  <2> QED
    BY <1>1, <2>1, <2>2, <2>3, <2>4, <2>5 DEF ServiceOps
<1>2. CASE stage.op \notin ServiceOps
  <2>1. Plain(Checks(stage))
    BY <1>2, PlainChecks
  <2>2. Uses(Checks(stage), {}) /\ ServicesLast(Checks(stage))
    BY <2>1 DEF Plain, Uses, ServicesLast
  <2> QED
    BY <2>2
<1> QED
  BY <1>1, <1>2

-------------------------------------------------------------------------------
(***************************************************************************)
(* What is built: a factory's error is its first one.                      *)
(***************************************************************************)
LEMMA FirstOutcome ==
    ASSUME NEW outcomes, DOMAIN outcomes \in SUBSET Nat
    PROVE  /\ First(outcomes) = "built" <=> \A i \in DOMAIN outcomes : outcomes[i] = "built"
           /\ First(outcomes) # "built" =>
                 \E i \in DOMAIN outcomes : /\ First(outcomes) = outcomes[i]
                                            /\ \A j \in DOMAIN outcomes : j < i => outcomes[j] = "built"
<1> DEFINE failed == {i \in DOMAIN outcomes : outcomes[i] # "built"}
<1>1. CASE failed = {}
  BY <1>1 DEF First
<1>2. CASE failed # {}
  <2>1. Min(failed) \in failed /\ \A k \in failed : Min(failed) <= k
    BY <1>2, LeastPlace
  <2>2. First(outcomes) = outcomes[Min(failed)]
    BY <1>2 DEF First
  <2>3. ASSUME NEW j \in DOMAIN outcomes, j < Min(failed) PROVE outcomes[j] = "built"
    <3>1. j \in Nat /\ Min(failed) \in Nat
      BY <2>1
    <3> QED
      BY <2>1, <2>3, <3>1
  <2> QED
    BY <2>1, <2>2, <2>3
<1> QED
  BY <1>1, <1>2

LEMMA PassedOutcome ==
    ASSUME NEW checks, NEW services, DOMAIN checks \in SUBSET Nat
    PROVE  /\ Passed(checks, services) = "built" <=> \A i \in DOMAIN checks : Outcome(checks[i], services) = "built"
           /\ Passed(checks, services) # "built" =>
                 \E i \in DOMAIN checks :
                    /\ Passed(checks, services) = Outcome(checks[i], services)
                    /\ \A j \in DOMAIN checks : j < i => Outcome(checks[j], services) = "built"
<1> DEFINE outcomes == [i \in DOMAIN checks |-> Outcome(checks[i], services)]
<1>1. DOMAIN outcomes = DOMAIN checks /\ \A i \in DOMAIN checks : outcomes[i] = Outcome(checks[i], services)
  OBVIOUS
<1>2. Passed(checks, services) = First(outcomes)
  BY DEF Passed
<1> HIDE DEF outcomes
<1> QED
  BY <1>1, <1>2, FirstOutcome

(* Without services nothing is found but what is found with all of them,   *)
(* and that one is missing.                                                *)
Fine == {"built", "not available"}

LEMMA PassedWithout ==
    ASSUME NEW checks, NEW services \in SUBSET (Services \ {"exprCompiler"}), Uses(checks, services),
           Passed(checks, Services) = "built"
    PROVE  Passed(checks, {}) \in Fine
<1> SUFFICES ASSUME Passed(checks, {}) # "built" PROVE Passed(checks, {}) = "not available"
  BY DEF Fine
<1>1. PICK i \in DOMAIN checks : Passed(checks, {}) = Outcome(checks[i], {})
  BY PassedOutcome DEF Uses
<1>2. Outcome(checks[i], Services) = "built"
  BY PassedOutcome DEF Uses
<1> QED
  BY <1>1, <1>2 DEF Outcome, Uses

LEMMA PassedWith ==
    ASSUME NEW checks, NEW services \in SUBSET Services, Uses(checks, services), ServicesLast(checks),
           Passed(checks, {}) \in Fine
    PROVE  Passed(checks, Services) = "built"
<1> SUFFICES ASSUME NEW i \in DOMAIN checks, Outcome(checks[i], Services) # "built" PROVE FALSE
  BY PassedOutcome DEF Uses
<1>1. checks[i].service = "none" /\ ~checks[i].ok
  <2>1. checks[i].service \in Services \cup {"none"} /\ (checks[i].service # "none" => checks[i].ok)
    BY DEF Uses
  <2>2. ~checks[i].ok
    BY <2>1 DEF Outcome
  <2> QED
    BY <2>1, <2>2
<1>2. Outcome(checks[i], {}) = "shape"
  BY <1>1 DEF Outcome
<1>3. Passed(checks, {}) = "not available"
  BY <1>2, PassedOutcome DEF Uses, Fine
<1>4. PICK j \in DOMAIN checks : /\ Outcome(checks[j], {}) = "not available"
                                 /\ \A k \in DOMAIN checks : k < j => Outcome(checks[k], {}) = "built"
  BY <1>3, PassedOutcome DEF Uses
<1>5. checks[j].service # "none"
  BY <1>4 DEF Outcome
<1>6. i \in Nat /\ j \in Nat /\ i # j /\ ~(i < j)
  BY <1>1, <1>2, <1>4, <1>5 DEF Uses
<1> QED
  BY <1>1, <1>5, <1>6 DEF ServicesLast

LEMMA PassedOffered ==
    ASSUME NEW checks, NEW services, NEW wired, services \subseteq wired, Uses(checks, services)
    PROVE  Passed(checks, wired) # "not available"
<1> SUFFICES ASSUME Passed(checks, wired) = "not available" PROVE FALSE
  OBVIOUS
<1>1. PICK i \in DOMAIN checks : Outcome(checks[i], wired) = "not available"
  BY PassedOutcome DEF Uses
<1> QED
  BY <1>1 DEF Outcome, Uses

LEMMA BuildSimple ==
    ASSUME NEW stage, NEW services, stage.op \notin Nesting
    PROVE  Build(stage, services) = Passed(Checks(stage), services)
<1>1. PartsOf(stage) = <<Part(<<>>, <<stage>>)>>
  BY DEF PartsOf, Nesting
<1> DEFINE part == Part(<<>>, <<stage>>)
           passed == Passed(Checks(stage), services)
<1>2. part.own = <<>> /\ part.pipe = <<stage>>
  BY DEF Part
<1>3. Passed(<<>>, services) = "built"
  BY PassedOutcome
<1>4. \A x : First(<<x>>) = x
  <2> SUFFICES ASSUME NEW x PROVE First(<<x>>) = x
    OBVIOUS
  <2>1. DOMAIN <<x>> = {1} /\ <<x>>[1] = x
    OBVIOUS
  <2> QED
    BY <2>1, FirstOutcome
<1>5. \A x : First(<<"built", x>>) = x
  <2> SUFFICES ASSUME NEW x PROVE First(<<"built", x>>) = x
    OBVIOUS
  <2>1. DOMAIN <<"built", x>> = {1, 2} /\ <<"built", x>>[1] = "built" /\ <<"built", x>>[2] = x
    OBVIOUS
  <2> QED
    BY <2>1, FirstOutcome
<1>6. BuildOps(<<stage>>, services) = passed
  <2>1. [i \in DOMAIN <<stage>> |-> Passed(Checks(<<stage>>[i]), services)] = <<passed>>
    OBVIOUS
  <2> QED
    BY <1>4, <2>1 DEF BuildOps
<1>7. BuildPart(part, services) = passed
  BY <1>2, <1>3, <1>5, <1>6 DEF BuildPart
<1>8. [k \in DOMAIN <<part>> |-> BuildPart(<<part>>[k], services)] = <<BuildPart(part, services)>>
  OBVIOUS
<1> QED
  BY <1>1, <1>4, <1>7, <1>8 DEF Build

-------------------------------------------------------------------------------
(***************************************************************************)
(* A stage that holds pipes has parts, each with checks of its own that    *)
(* only ask for the expressions, and the stages of a list.                 *)
(***************************************************************************)
PartLike(part) ==
    /\ Uses(part.own, {"eval"})
    /\ DOMAIN part.pipe \in SUBSET Nat

LEMMA ListPlaces ==
    ASSUME NEW s, IsList(s)
    PROVE  /\ Len(s) \in Nat /\ DOMAIN s = 1..Len(s)
           /\ DOMAIN s \in SUBSET Nat
  BY DEF IsList

LEMMA FewUse ==
    ASSUME NEW a, NEW b
    PROVE  /\ Uses(<<>>, {"eval"}) /\ Uses(<<Shape(a)>>, {"eval"})
           /\ Uses(<<Shape(a), Service("eval"), Shape(b)>>, {"eval"})
<1>1. Shape(a).service = "none" /\ Shape(b).service = "none" /\ Service("eval").service = "eval" /\ Service("eval").ok
  BY ShapeIs, ServiceIs
<1> QED
  BY <1>1 DEF Uses

LEMMA PartIs ==
    ASSUME NEW own, NEW pipe, Uses(own, {"eval"}), DOMAIN pipe \in SUBSET Nat
    PROVE  PartLike(Part(own, pipe))
<1>1. Part(own, pipe).own = own /\ Part(own, pipe).pipe = pipe
  BY DEF Part
<1> QED
  BY <1>1 DEF PartLike

LEMMA JoinedParts ==
    ASSUME NEW head, PartLike(head), NEW n \in Nat, NEW rest, DOMAIN rest = 1..n, rest = [i \in 1..n |-> rest[i]],
           \A i \in 1..n : PartLike(rest[i])
    PROVE  /\ DOMAIN (<<head>> \o rest) \in SUBSET Nat
           /\ \A k \in DOMAIN (<<head>> \o rest) : PartLike((<<head>> \o rest)[k])
<1> DEFINE all == {head} \cup {rest[i] : i \in 1..n}
           joined == <<head>> \o rest
<1>1. <<head>> \in Seq(all) /\ rest \in Seq(all) /\ Len(<<head>>) = 1 /\ Len(rest) = n
  <2>1. rest \in [1..n -> all]
    OBVIOUS
  <2>2. rest \in Seq(all)
    BY <2>1
  <2> QED
    BY <2>2
<1>2. joined \in Seq(all)
  BY <1>1
<1>3. \A part \in all : PartLike(part)
  OBVIOUS
<1>4. DOMAIN joined = 1..Len(joined) /\ Len(joined) \in Nat /\ \A k \in DOMAIN joined : joined[k] \in all
  BY <1>2
<1> HIDE DEF joined, all
<1> QED
  BY <1>3, <1>4 DEF joined

LEMMA PartsAre ==
    ASSUME NEW stage, HoldsLists(stage)
    PROVE  /\ DOMAIN PartsOf(stage) \in SUBSET Nat
           /\ \A k \in DOMAIN PartsOf(stage) : PartLike(PartsOf(stage)[k])
<1> DEFINE c == stage.config
<1>1. \A a : PartLike(Part(<<Shape(a)>>, <<>>))
  <2> SUFFICES ASSUME NEW a PROVE PartLike(Part(<<Shape(a)>>, <<>>))
    OBVIOUS
  <2>1. Uses(<<Shape(a)>>, {"eval"})
    BY FewUse
  <2>2. DOMAIN <<>> \in SUBSET Nat
    OBVIOUS
  <2> QED
    BY <2>1, <2>2, PartIs
<1>2. CASE stage.op = "branch"
  <2>1. IsList(Inner(c, "then")) /\ IsList(Inner(c, "else"))
    BY <1>2 DEF HoldsLists
  <2> DEFINE P == Part(<<Shape(Given(c, "when")), Service("eval"), Shape(Given(c, "then"))>>, Inner(c, "then"))
             Q == Part(<<>>, Inner(c, "else"))
  <2>2. PartsOf(stage) = <<P, Q>>
    BY <1>2 DEF PartsOf
  <2>4. DOMAIN Inner(c, "then") \in SUBSET Nat /\ DOMAIN Inner(c, "else") \in SUBSET Nat
    BY <2>1, ListPlaces
  <2>5. Uses(<<Shape(Given(c, "when")), Service("eval"), Shape(Given(c, "then"))>>, {"eval"}) /\ Uses(<<>>, {"eval"})
    BY FewUse
  <2>3. PartLike(P) /\ PartLike(Q)
    BY <2>4, <2>5, PartIs
  <2> HIDE DEF P, Q
  <2> QED
    BY <2>2, <2>3
<1>3. CASE stage.op = "merge"
  <2>1. IsList(Inner(c, "sources")) /\ \A i \in DOMAIN Inner(c, "sources") : IsList(Inner(c, "sources")[i])
    BY <1>3 DEF HoldsLists
  <2> DEFINE head == Part(<<Shape(Inner(c, "sources") # <<>>)>>, <<>>)
             own == [i \in DOMAIN Inner(c, "sources") |-> <<Shape(Inner(c, "sources")[i] # <<>>)>>]
             rest == [i \in DOMAIN Inner(c, "sources") |-> Part(own[i], Inner(c, "sources")[i])]
  <2>2. PartsOf(stage) = <<head>> \o rest
    BY <1>3 DEF PartsOf
  <2>3. PartLike(head)
    BY <1>1
  <2>4. DOMAIN Inner(c, "sources") = 1..Len(Inner(c, "sources")) /\ Len(Inner(c, "sources")) \in Nat
    BY <2>1, ListPlaces
  <2>5. ASSUME NEW i \in DOMAIN Inner(c, "sources") PROVE PartLike(rest[i])
    <3>1. rest[i] = Part(<<Shape(Inner(c, "sources")[i] # <<>>)>>, Inner(c, "sources")[i])
      OBVIOUS
    <3>2. Uses(<<Shape(Inner(c, "sources")[i] # <<>>)>>, {"eval"})
      BY FewUse
    <3> QED
      BY <2>1, <3>1, <3>2, ListPlaces, PartIs
  <2>6. DOMAIN rest = 1..Len(Inner(c, "sources")) /\ rest = [i \in 1..Len(Inner(c, "sources")) |-> rest[i]]
    BY <2>4
  <2> HIDE DEF head, rest
  <2> QED
    BY <2>2, <2>3, <2>4, <2>5, <2>6, JoinedParts
<1>4. CASE stage.op = "intersect"
  <2>1. IsList(Inner(c, "sources")) /\ \A i \in DOMAIN Inner(c, "sources") : IsList(Inner(c, "sources")[i])
    BY <1>4 DEF HoldsLists
  <2> DEFINE head == Part(<<Shape(Len(Inner(c, "sources")) >= 2)>>, <<>>)
             own == [i \in DOMAIN Inner(c, "sources") |-> <<>>]
             rest == [i \in DOMAIN Inner(c, "sources") |-> Part(own[i], Inner(c, "sources")[i])]
  <2>2. PartsOf(stage) = <<head>> \o rest
    BY <1>4 DEF PartsOf
  <2>3. PartLike(head)
    BY <1>1
  <2>4. DOMAIN Inner(c, "sources") = 1..Len(Inner(c, "sources")) /\ Len(Inner(c, "sources")) \in Nat
    BY <2>1, ListPlaces
  <2>5. ASSUME NEW i \in DOMAIN Inner(c, "sources") PROVE PartLike(rest[i])
    <3>1. rest[i] = Part(<<>>, Inner(c, "sources")[i])
      OBVIOUS
    <3> QED
      BY <2>1, <3>1, FewUse, ListPlaces, PartIs
  <2>6. DOMAIN rest = 1..Len(Inner(c, "sources")) /\ rest = [i \in 1..Len(Inner(c, "sources")) |-> rest[i]]
    BY <2>4
  <2> HIDE DEF head, rest
  <2> QED
    BY <2>2, <2>3, <2>4, <2>5, <2>6, JoinedParts
<1>5. CASE stage.op = "except"
  <2>1. IsList(Inner(c, "left")) /\ IsList(Inner(c, "right"))
    BY <1>5 DEF HoldsLists
  <2> DEFINE P == Part(<<Shape(Given(c, "left") /\ Given(c, "right"))>>, Inner(c, "left"))
             Q == Part(<<>>, Inner(c, "right"))
  <2>2. PartsOf(stage) = <<P, Q>>
    BY <1>5 DEF PartsOf
  <2>4. DOMAIN Inner(c, "left") \in SUBSET Nat /\ DOMAIN Inner(c, "right") \in SUBSET Nat
    BY <2>1, ListPlaces
  <2>5. Uses(<<Shape(Given(c, "left") /\ Given(c, "right"))>>, {"eval"}) /\ Uses(<<>>, {"eval"})
    BY FewUse
  <2>3. PartLike(P) /\ PartLike(Q)
    BY <2>4, <2>5, PartIs
  <2> HIDE DEF P, Q
  <2> QED
    BY <2>2, <2>3
<1>6. CASE stage.op \notin Nesting
  <2> DEFINE P == Part(<<>>, <<stage>>)
  <2>1. PartsOf(stage) = <<P>>
    BY <1>6 DEF PartsOf, Nesting
  <2>2. Uses(<<>>, {"eval"})
    BY FewUse
  <2>4. DOMAIN <<stage>> \in SUBSET Nat
    OBVIOUS
  <2>3. PartLike(P)
    BY <2>2, <2>4, PartIs
  <2> HIDE DEF P
  <2> QED
    BY <2>1, <2>3
<1> QED
  BY <1>2, <1>3, <1>4, <1>5, <1>6 DEF Nesting

LEMMA FirstFine ==
    ASSUME NEW D \in SUBSET Nat, NEW with, NEW without, DOMAIN with = D, DOMAIN without = D,
           First(with) = "built", \A k \in D : with[k] = "built" => without[k] \in Fine
    PROVE  First(without) \in Fine
<1>1. \A k \in D : with[k] = "built"
  BY FirstOutcome
<1>2. \A k \in D : without[k] \in Fine
  BY <1>1
<1>3. CASE First(without) = "built"
  BY <1>3 DEF Fine
<1>4. CASE First(without) # "built"
  BY <1>2, <1>4, FirstOutcome
<1> QED
  BY <1>3, <1>4

LEMMA PartFine ==
    ASSUME NEW part, PartLike(part), \A i \in DOMAIN part.pipe : part.pipe[i].op # "sheet",
           BuildPart(part, Services) = "built"
    PROVE  BuildPart(part, {}) \in Fine
<1> DEFINE pipe == part.pipe
           own(services) == Passed(part.own, services)
           ops(services) == [i \in DOMAIN pipe |-> Passed(Checks(pipe[i]), services)]
<1>1. DOMAIN pipe \in SUBSET Nat /\ Uses(part.own, {"eval"})
  BY DEF PartLike
<1>2. ASSUME NEW services
      PROVE  /\ DOMAIN ops(services) = DOMAIN pipe
             /\ BuildOps(pipe, services) = First(ops(services))
             /\ BuildPart(part, services) = First(<<own(services), First(ops(services))>>)
  BY DEF BuildOps, BuildPart
<1>3. own(Services) = "built" => own({}) \in Fine
  <2>1. {"eval"} \in SUBSET (Services \ {"exprCompiler"})
    BY DEF Services
  <2> QED
    BY <1>1, <2>1, PassedWithout
<1>4. ASSUME NEW i \in DOMAIN pipe, ops(Services)[i] = "built" PROVE ops({})[i] \in Fine
  <2>1. PICK services \in SUBSET Services : /\ Uses(Checks(pipe[i]), services)
                                            /\ pipe[i].op # "sheet" => "exprCompiler" \notin services
    BY ChecksOf
  <2>2. services \in SUBSET (Services \ {"exprCompiler"})
    BY <2>1
  <2> QED
    BY <1>4, <2>1, <2>2, PassedWithout
<1> HIDE DEF own, ops
<1>5. First(ops(Services)) = "built" => First(ops({})) \in Fine
  BY <1>1, <1>2, <1>4, FirstFine
<1> DEFINE with == <<own(Services), First(ops(Services))>>
           without == <<own({}), First(ops({}))>>
<1>6. /\ DOMAIN with = {1, 2} /\ DOMAIN without = {1, 2}
      /\ with[1] = own(Services) /\ with[2] = First(ops(Services))
      /\ without[1] = own({}) /\ without[2] = First(ops({}))
  OBVIOUS
<1>7. First(with) = "built" /\ BuildPart(part, {}) = First(without)
  BY <1>2
<1> HIDE DEF with, without
<1>8. {1, 2} \in SUBSET Nat /\ \A k \in {1, 2} : with[k] = "built" => without[k] \in Fine
  BY <1>3, <1>5, <1>6
<1> QED
  BY <1>6, <1>7, <1>8, FirstFine

(* What all the services build, none builds but for the services. *)
LEMMA BuiltFine ==
    ASSUME NEW stage, HoldsLists(stage), ~HoldsSheet(stage), Build(stage, Services) = "built"
    PROVE  Build(stage, {}) \in Fine
<1> DEFINE parts == PartsOf(stage)
           built(services) == [k \in DOMAIN parts |-> BuildPart(parts[k], services)]
<1>1. DOMAIN parts \in SUBSET Nat /\ \A k \in DOMAIN parts : PartLike(parts[k])
  BY PartsAre
<1>2. ASSUME NEW services
      PROVE  /\ DOMAIN built(services) = DOMAIN parts /\ Build(stage, services) = First(built(services))
             /\ \A k \in DOMAIN parts : built(services)[k] = BuildPart(parts[k], services)
  BY DEF Build
<1>3. ASSUME NEW k \in DOMAIN parts, NEW i \in DOMAIN parts[k].pipe PROVE parts[k].pipe[i].op # "sheet"
  <2>1. parts[k] \in Range(PartsOf(stage)) /\ parts[k].pipe[i] \in Range(parts[k].pipe)
    BY DEF Range
  <2> QED
    BY <2>1 DEF HoldsSheet
<1>4. ASSUME NEW k \in DOMAIN parts, built(Services)[k] = "built" PROVE built({})[k] \in Fine
  <2>1. BuildPart(parts[k], Services) = "built"
    BY <1>2, <1>4
  <2>2. BuildPart(parts[k], {}) \in Fine
    BY <1>1, <1>3, <2>1, PartFine
  <2> QED
    BY <1>2, <2>2
<1> HIDE DEF built, parts
<1> QED
  BY <1>1, <1>2, <1>4, FirstFine

(* And a stage nothing hides in is built if the services are all it needs. *)
LEMMA FineBuilt ==
    ASSUME NEW stage, stage.op # "sheet", ~Hides(stage), Build(stage, {}) \in Fine
    PROVE  Build(stage, Services) = "built"
<1>1. stage.op \notin Nesting
  BY DEF Hides
<1>2. PICK services \in SUBSET Services : Uses(Checks(stage), services) /\ ServicesLast(Checks(stage))
  BY ChecksOf
<1> QED
  BY <1>1, <1>2, BuildSimple, PassedWith

LEMMA SheetRequired ==
    ASSUME NEW stage, stage.op = "sheet"
    PROVE  Build(stage, {}) = "required"
<1>1. Build(stage, {}) = Passed(Checks(stage), {})
  BY BuildSimple DEF Nesting
<1> DEFINE a == Given(stage.config, "formulas")
<1>2. Checks(stage) = <<Service("exprCompiler"), Shape(a)>>
  BY DEF Checks, SheetChecks
<1>3. Outcome(Service("exprCompiler"), {}) = "required"
  BY ServiceIs DEF Outcome
<1> DEFINE checks == <<Service("exprCompiler"), Shape(a)>>
<1>4. DOMAIN checks = {1, 2} /\ checks[1] = Service("exprCompiler") /\ DOMAIN checks \in SUBSET Nat
  OBVIOUS
<1> HIDE DEF a, checks
<1>5. Outcome(checks[1], {}) # "built"
  BY <1>3, <1>4
<1>6. Passed(checks, {}) # "built"
  BY <1>4, <1>5, PassedOutcome
<1>7. PICK i \in DOMAIN checks : /\ Passed(checks, {}) = Outcome(checks[i], {})
                                 /\ \A j \in DOMAIN checks : j < i => Outcome(checks[j], {}) = "built"
  BY <1>4, <1>6, PassedOutcome
<1>8. i = 1
  BY <1>4, <1>5, <1>7
<1> QED
  BY <1>1, <1>2, <1>3, <1>4, <1>7, <1>8 DEF checks

LEMMA BuiltIsKnown ==
    ASSUME NEW stage, Build(stage, Services) = "built"
    PROVE  Known(stage.op)
<1> SUFFICES ASSUME ~Known(stage.op) PROVE FALSE
  OBVIOUS
<1>1. stage.op \notin Nesting
  BY DEF Known, CatalogIndex, Nesting
<1>2. Build(stage, Services) = Passed(Checks(stage), Services)
  BY <1>1, BuildSimple
<1>3. Checks(stage) = <<Shape(FALSE)>>
  BY DEF Known, CatalogIndex, Checks
<1> DEFINE checks == <<Shape(FALSE)>>
<1>4. DOMAIN checks \in SUBSET Nat /\ 1 \in DOMAIN checks /\ checks[1] = Shape(FALSE)
  OBVIOUS
<1>5. Outcome(Shape(FALSE), Services) # "built"
  BY ShapeIs DEF Outcome
<1>6. Checks(stage) = checks
  BY <1>3
<1> HIDE DEF checks
<1> QED
  BY <1>2, <1>4, <1>5, <1>6, PassedOutcome

-------------------------------------------------------------------------------
(***************************************************************************)
(* The stages of a text: the parser knows nineteen operators, and none of  *)
(* them holds stages, hides a fault or is the sheet.                       *)
(***************************************************************************)
TextualOps == Range(OpOf)

LEMMA TextualAre ==
    TextualOps = {"filter", "project", "compute", "sort", "limit", "skip", "groupBy", "aggregate", "distinct",
                  "flatten", "rename", "drop", "tap", "callFunction", "callApp", "pivot", "unpivot", "nest",
                  "unnestObject"}
<1>1. DOMAIN OpOf = {"where", "select", "compute", "sort", "limit", "skip", "groupBy", "aggregate", "distinct",
                     "flatten", "rename", "drop", "tap", "callFunction", "callApp", "pivot", "unpivot", "nest",
                     "unnestObject"}
  BY DEF OpOf
<1>2. TextualOps = {OpOf[w] : w \in DOMAIN OpOf}
  BY DEF TextualOps, Range
<1> QED
  BY <1>1, <1>2 DEF OpOf

LEMMA TextualSimple ==
    ASSUME NEW stage, stage.op \in TextualOps
    PROVE  /\ Known(stage.op) /\ stage.op # "sheet" /\ ~Hides(stage) /\ HoldsLists(stage)
           /\ stage.op \notin Nesting
           /\ ~HoldsSheet(stage)
<1>1. /\ stage.op \in DOMAIN CatalogIndex
      /\ stage.op \notin {"branch", "merge", "intersect", "except", "sheet", "asofJoin", "algo"}
  BY TextualAre DEF CatalogIndex
<1>2. ~HoldsSheet(stage)
  <2>1. PartsOf(stage) = <<Part(<<>>, <<stage>>)>>
    BY <1>1 DEF PartsOf
  <2>2. \A part \in Range(PartsOf(stage)) : part.pipe = <<stage>>
    BY <2>1 DEF Range, Part
  <2>3. \A s \in Range(<<stage>>) : s = stage
    BY DEF Range
  <2> QED
    BY <1>1, <2>2, <2>3 DEF HoldsSheet
<1> QED
  BY <1>1, <1>2 DEF Known, Hides, HoldsLists, Nesting

LEMMA TextualReported ==
    ASSUME NEW stage, stage.op \in TextualOps
    PROVE  Reported(stage) <=> Build(stage, Services) # "built"
<1>1. /\ Known(stage.op) /\ stage.op # "sheet" /\ ~Hides(stage) /\ HoldsLists(stage)
      /\ ~HoldsSheet(stage)
  BY TextualSimple
<1>2. Reported(stage) <=> Build(stage, {}) \notin Fine
  BY <1>1 DEF Reported, Known, Fine
<1> QED
  BY <1>1, <1>2, BuiltFine, FineBuilt

LEMMA SegmentsAre ==
    ASSUME NEW t \in Seq(STRING)
    PROVE  \E n \in Nat : DOMAIN Tail(SplitTopLevel(t)) = 1..n
<1> DEFINE bars == {i \in 1..Len(t) : t[i] = "|" /\ AtTop(States(t)[i])}
           k == Cardinality(bars)
<1>1. Len(t) \in Nat /\ bars \in SUBSET (1..Len(t)) /\ Bars(t) = Ordered(bars)
  BY DEF Bars
<1>2. k \in Nat /\ Enumerates(Bars(t), bars)
  BY <1>1, OrderedExists
<1> HIDE DEF bars, k
<1>3. Bars(t) \in [1..k -> bars]
  BY <1>2 DEF Enumerates, k
<1>4. Bars(t) \in Seq(bars) /\ Len(Bars(t)) = k
  BY <1>2, <1>3
<1> DEFINE cut == SplitTopLevel(t)
           all == {cut[i] : i \in 1..(k + 1)}
<1>5. cut = [i \in 1..(k + 1) |-> cut[i]]
  BY <1>2, <1>4 DEF SplitTopLevel, Parts
<1> HIDE DEF cut
<1>6. cut \in [1..(k + 1) -> all] /\ k + 1 \in Nat
  BY <1>2, <1>5
<1> HIDE DEF all
<1>7. cut \in Seq(all) /\ Len(cut) = k + 1
  BY <1>6
<1>8. cut # <<>>
  BY <1>2, <1>7
<1>9. Tail(cut) \in Seq(all)
  BY <1>7, <1>8
<1> QED
  BY <1>9 DEF cut

LEMMA StageIsTextual ==
    ASSUME NEW segment, ParseStage(segment) # Bad
    PROVE  ParseStage(segment).op \in TextualOps
<1> DEFINE t == Tokenize(segment)
<1>1. t # <<>> /\ t[1].text[1] \in DOMAIN OpOf
  BY DEF ParseStage
<1>2. KeywordOf(t) = OpOf[t[1].text[1]]
  BY <1>1 DEF KeywordOf
<1>3. KeywordOf(t) \in TextualOps
  BY <1>1, <1>2 DEF TextualOps, Range
<1>4. ParseStage(segment) = [op |-> KeywordOf(t), config |-> Arguments(KeywordOf(t), Tail(t))]
  BY <1>1 DEF ParseStage
<1> QED
  BY <1>3, <1>4

LEMMA StagesAreTextual ==
    ASSUME NEW t \in Seq(STRING), ~Failed(ParseText(t))
    PROVE  \A i \in DOMAIN ParseText(t).pipe : ParseText(t).pipe[i].op \in TextualOps
<1> DEFINE head == Sourced(t)
           stages == [i \in DOMAIN head.segments |-> ParseStage(head.segments[i])]
           bad == {i \in 1..Len(stages) : stages[i] = Bad}
           first == SelectInSeq(stages, LAMBDA s : s = Bad)
<1>1. first = IF bad # {} THEN Min(bad) ELSE 0
  BY DEF SelectInSeq
<1>2. ~Failed(head)
  BY DEF ParseText
<1>3. ParseText(t) = IF first = 0 THEN [from |-> head.from, pipe |-> stages] ELSE [failed |-> "stage", stage |-> first]
  BY <1>2 DEF ParseText
<1> HIDE DEF first
<1>4. first = 0
  <2> SUFFICES ASSUME first # 0 PROVE FALSE
    OBVIOUS
  <2>1. ParseText(t) = [failed |-> "stage", stage |-> first]
    BY <1>3
  <2> QED
    BY <2>1 DEF Failed
<1>5. head.segments = Tail(SplitTopLevel(t))
  BY <1>2 DEF Sourced, Failed, Failure
<1>6. PICK n \in Nat : DOMAIN head.segments = 1..n
  BY <1>5, SegmentsAre
<1>7. Len(stages) = n /\ DOMAIN stages = 1..n
  BY <1>6
<1>8. bad = {}
  <2> SUFFICES ASSUME bad # {} PROVE FALSE
    OBVIOUS
  <2>1. bad \in SUBSET Nat /\ 0 \notin bad
    BY <1>7
  <2>2. Min(bad) \in bad
    BY <2>1, LeastPlace
  <2> QED
    BY <1>1, <1>4, <2>1, <2>2
<1>9. ASSUME NEW i \in DOMAIN stages PROVE stages[i].op \in TextualOps
  <2>1. stages[i] # Bad /\ stages[i] = ParseStage(head.segments[i])
    BY <1>7, <1>8
  <2> QED
    BY <2>1, StageIsTextual
<1>10. ParseText(t).pipe = stages
  BY <1>3, <1>4
<1> QED
  BY <1>9, <1>10

(* Nothing is said of a text just when a host would build all its stages.  *)
LEMMA SilenceIs ==
    ASSUME NEW t \in Seq(STRING)
    PROVE  (DiagnoseText(t) = {}) = Runs(t)
<1> DEFINE query == ParseText(t)
           pipe == query.pipe
<1>1. CASE Failed(query)
  <2>1. DiagnoseText(t) # {}
    BY <1>1 DEF DiagnoseText
  <2>2. Runs(t) = FALSE
    BY <1>1 DEF Runs
  <2> QED
    BY <2>1, <2>2
<1>2. CASE ~Failed(query)
  <2>1. DiagnoseText(t) = {} <=> ValidateShape(pipe) = {}
    BY <1>2 DEF DiagnoseText, DiagnoseStages
  <2>2. ValidateShape(pipe) = {} <=> pipe # <<>> /\ \A i \in DOMAIN pipe : ~Reported(pipe[i])
    BY DEF ValidateShape
  <2>3. \A i \in DOMAIN pipe : Reported(pipe[i]) <=> Build(pipe[i], Services) # "built"
    BY <1>2, StagesAreTextual, TextualReported
  <2>4. Runs(t) = (pipe # <<>> /\ \A i \in DOMAIN pipe : Build(pipe[i], Services) = "built")
    BY <1>2 DEF Runs
  <2> HIDE DEF pipe
  <2> QED
    BY <2>1, <2>2, <2>3, <2>4
<1> QED
  BY <1>1, <1>2

-------------------------------------------------------------------------------
(***************************************************************************)
(* What is offered: a stage only from the stages of the textual form that  *)
(* the wiring has the services for.                                        *)
(***************************************************************************)
LEMMA ItemsAre ==
    ASSUME NEW kind, NEW labels, NEW partial, NEW item \in Items(kind, labels, partial)
    PROVE  item.kind = kind /\ item.label \in labels
  BY DEF Items

LEMMA ArgumentsAre ==
    ASSUME NEW op, NEW t, NEW partial, NEW columns, NEW item \in ArgumentItems(op, t, partial, columns)
    PROVE  item.kind # "stage"
<1>1. \E kind \in {"column", "operator", "snippet", "keyword", "function"} : \E labels, begun :
         item \in Items(kind, labels, begun)
  BY DEF ArgumentItems
<1> QED
  BY <1>1, ItemsAre

LEMMA SourcesAre ==
    ASSUME NEW tokens, NEW partial, NEW datasets, NEW item \in SourceItems(tokens, partial, datasets)
    PROVE  item.kind # "stage"
<1>1. \E kind \in {"keyword", "dataset"} : \E labels, begun : item \in Items(kind, labels, begun)
  BY DEF SourceItems
<1> QED
  BY <1>1, ItemsAre

LEMMA StagesOffered ==
    ASSUME NEW t, NEW services, NEW datasets, NEW item \in CompleteText(t, services, datasets),
           item.kind = "stage"
    PROVE  item.label \in TextualStageItems(services)
<1>1. PICK tokens, partial, columns :
         \/ item \in SourceItems(tokens, partial, DOMAIN datasets)
         \/ item \in StageItems(tokens, partial, services, columns)
  BY DEF CompleteText
<1>2. item \in StageItems(tokens, partial, services, columns)
  BY <1>1, SourcesAre
<1>3. \/ \E begun : item \in Items("stage", TextualStageItems(services), begun)
      \/ item \in ArgumentItems(tokens[1].text[1], Tail(tokens), partial, columns)
  BY <1>2 DEF StageItems
<1> QED
  BY <1>3, ItemsAre, ArgumentsAre

LEMMA OfferedIs ==
    ASSUME NEW item, item.label \in TextualStageItems(offered.services)
    PROVE  /\ item.label \in DOMAIN OpOf
           /\ offered.services # Unknown =>
                 \A s \in Samples : s.op = OpOf[item.label] => Build(s, offered.services) # "not available"
<1> DEFINE given == offered.services
<1>1. /\ item.label \in TextualStages
      /\ given = Unknown \/ Available(OpOf[item.label], given)
  BY DEF TextualStageItems
<1>2. item.label \in DOMAIN OpOf /\ OpOf[item.label] \in TextualOps
  BY <1>1 DEF TextualStages, OpOf, TextualOps, Range
<1>3. ASSUME given # Unknown, NEW s \in Samples, s.op = OpOf[item.label]
      PROVE  Build(s, given) # "not available"
  <2>1. Known(s.op) /\ s.op \notin Nesting
    BY <1>2, <1>3, TextualSimple
  <2>2. PICK services \in SUBSET Services : /\ Uses(Checks(s), services)
                                            /\ services \subseteq CatalogIndex[s.op].requires
    BY <2>1, ChecksOf
  <2>3. CatalogIndex[s.op].requires \subseteq given
    BY <1>1, <1>3 DEF Available, Missing
  <2> QED
    BY <2>1, <2>2, <2>3, BuildSimple, PassedOffered
<1> QED
  BY <1>2, <1>3

(* What the last request was answered with, and what was reported of the   *)
(* last submission.                                                        *)
Answered ==
    /\ \A item \in offered.items : item.kind = "stage" => item.label \in TextualStageItems(offered.services)
    /\ rejected = <<>> \/ \E stages \in Submissions : rejected = <<stages, ValidateShape(stages)>>

LEMMA OfferStep ==
    ASSUME NEW t, NEW services, NEW datasets, offered' = Offer(t, services, datasets)
    PROVE  \A item \in offered'.items : item.kind = "stage" => item.label \in TextualStageItems(offered'.services)
<1>1. offered'.items = CompleteText(t, services, datasets) /\ offered'.services = services
  BY DEF Offer
<1> QED
  BY <1>1, StagesOffered

LEMMA AnsweredStep == Answered /\ [Next]_vars => Answered'
<1> SUFFICES ASSUME Answered, [Next]_vars PROVE Answered'
  OBVIOUS
<1> DEFINE Stays == \/ offered' \in {Nothing, offered}
                    \/ \E t, services, datasets : offered' = Offer(t, services, datasets)
           Kept == \/ rejected' \in {rejected, <<>>}
                   \/ \E stages \in Submissions : rejected' = <<stages, ValidateShape(stages)>>
<1>1. Stays /\ Kept
  <2>1. CASE UNCHANGED vars
    BY <2>1 DEF vars
  <2>2. ASSUME NEW m, Send(m) PROVE Stays /\ Kept
    BY <2>2 DEF Send
  <2>3. ASSUME NEW u \in Uris, NEW t \in Openings[u], Open(u, t) PROVE Stays /\ Kept
    BY <2>2, <2>3 DEF Open
  <2>4. ASSUME NEW u \in Uris, NEW added \in Additions[u], Type(u, added) PROVE Stays /\ Kept
    BY <2>2, <2>4 DEF Type
  <2>5. ASSUME NEW u \in Uris, Touch(u) \/ Close(u) \/ Ask(u) PROVE Stays /\ Kept
    BY <2>2, <2>5 DEF Touch, Close, Ask
  <2>6. ASSUME NEW u \in Uris, NEW services \in Hosts, HostCompletes(u, services) PROVE Stays /\ Kept
    BY <2>6 DEF HostCompletes
  <2>7. CASE Serve
    BY <2>7 DEF Serve, DidOpen, DidChange, DidClose, Completion, Handle
  <2>8. ASSUME NEW stages \in Submissions, Submit(stages) PROVE Stays /\ Kept
    BY <2>8 DEF Submit
  <2> QED
    BY <2>1, <2>3, <2>4, <2>5, <2>6, <2>7, <2>8 DEF Next
<1> DEFINE Allowed ==
             \A item \in offered'.items : item.kind = "stage" => item.label \in TextualStageItems(offered'.services)
<1>2. Allowed
  <2>1. CASE offered' = Nothing
    BY <2>1 DEF Nothing
  <2>2. CASE offered' = offered
    BY <2>2 DEF Answered
  <2>3. ASSUME NEW t, NEW services, NEW datasets, offered' = Offer(t, services, datasets)
        PROVE  Allowed
    BY <2>3, OfferStep
  <2> QED
    BY <1>1, <2>1, <2>2, <2>3
<1>3. rejected' = <<>> \/ \E stages \in Submissions : rejected' = <<stages, ValidateShape(stages)>>
  BY <1>1 DEF Answered
<1> QED
  BY <1>2, <1>3 DEF Answered

LEMMA AnsweredInit == Init => Answered
  BY DEF Init, Answered, Nothing

(***************************************************************************)
(* For any texts: what the editor is told of a textual query is nothing    *)
(* exactly when a host with all services would build every stage of it.    *)
(***************************************************************************)
THEOREM SilenceIsRunning == Spec => []SilenceMeansRuns
<1>1. IInv => SilenceMeansRuns
  <2> SUFFICES ASSUME IInv, NEW u \in DOMAIN text, LooksTextual(text[u])
               PROVE  (Published(text[u]) = {}) = Runs(text[u])
    BY DEF SilenceMeansRuns
  <2>1. text[u] \in Seq(STRING)
    BY DEF IInv, TypeOK, Held, Text
  <2>2. Published(text[u]) = DiagnoseText(text[u])
    BY DEF Published
  <2> QED
    BY <2>1, <2>2, SilenceIs
<1> QED
  BY <1>1, InitStep, NextStep, PTL DEF Spec

(***************************************************************************)
(* For any text, wiring and datasets: a stage that is offered is one of    *)
(* the parser's, and its factory finds the services it asks for.           *)
(***************************************************************************)
THEOREM OffersCanRun == Spec => []OffersRun
<1>1. Answered => OffersRun
  BY OfferedIs DEF Answered, OffersRun
<1> QED
  BY <1>1, AnsweredInit, AnsweredStep, PTL DEF Spec

(***************************************************************************)
(* For any submission: what validation reports without a host is what no   *)
(* host could build, with the exceptions that ShapeJudged names.           *)
(***************************************************************************)
THEOREM ShapesAreJudged == Spec => []ShapeJudged
<1>1. Answered => ShapeJudged
  <2> SUFFICES ASSUME Answered, rejected # <<>> PROVE ShapeJudged
    BY DEF ShapeJudged
  <2>1. PICK stages \in Submissions : rejected = <<stages, ValidateShape(stages)>>
    BY DEF Answered
  <2>2. rejected[1] = stages /\ rejected[2] = ValidateShape(stages)
    BY <2>1
  <2>3. ASSUME NEW i \in DOMAIN stages
        PROVE  /\ i - 1 \in ValidateShape(stages) <=> Reported(stages[i])
               /\ HoldsLists(stages[i])
    <3>1. HoldsLists(stages[i]) /\ IsList(stages)
      BY SubmissionAssumption
    <3>2. DOMAIN stages \in SUBSET Nat /\ stages # <<>>
      BY <3>1, ListPlaces
    <3>3. ValidateShape(stages) = {k - 1 : k \in {n \in DOMAIN stages : Reported(stages[n])}}
      BY <3>2 DEF ValidateShape
    <3> QED
      BY <3>1, <3>2, <3>3
  <2>4. ASSUME NEW stage, stage.op = "sheet" PROVE Reported(stage)
    BY <2>4, SheetRequired DEF Reported
  <2>5. ASSUME NEW stage, HoldsLists(stage), Build(stage, Services) = "built", Reported(stage) PROVE HoldsSheet(stage)
    <3>1. Known(stage.op)
      BY <2>5, BuiltIsKnown
    <3> QED
      BY <2>5, <3>1, BuiltFine DEF Reported, Known, Fine
  <2>6. ASSUME NEW stage, ~Reported(stage), ~Hides(stage) PROVE Known(stage.op) /\ Build(stage, Services) = "built"
    <3>1. stage.op # "sheet" /\ Build(stage, {}) \in Fine
      BY <2>4, <2>6 DEF Reported, Fine
    <3> QED
      BY <2>6, <3>1, FineBuilt, BuiltIsKnown
  <2> QED
    BY <2>2, <2>3, <2>5, <2>6 DEF ShapeJudged
<1> QED
  BY <1>1, AnsweredInit, AnsweredStep, PTL DEF Spec

-------------------------------------------------------------------------------
(***************************************************************************)
(* An empty stage: where the catalog requires a field of an operator, but  *)
(* n, its factory finds a fault in a configuration without any field.      *)
(***************************************************************************)
Faulty(checks) == \E i \in DOMAIN checks : checks[i] = Shape(FALSE)

LEMMA FaultyFails ==
    ASSUME NEW checks, NEW services, DOMAIN checks \in SUBSET Nat, Faulty(checks)
    PROVE  Passed(checks, services) # "built"
<1>1. PICK i \in DOMAIN checks : checks[i] = Shape(FALSE)
  BY DEF Faulty
<1>2. Outcome(checks[i], services) # "built"
  BY <1>1, ShapeIs DEF Outcome
<1> QED
  BY <1>2, PassedOutcome

LEMMA FaultyFew ==
    ASSUME NEW a, NEW b, NEW d
    PROVE  /\ Faulty(<<Shape(FALSE)>>) /\ Faulty(<<Shape(FALSE), a>>) /\ Faulty(<<a, Shape(FALSE)>>)
           /\ Faulty(<<Shape(FALSE), a, b>>) /\ Faulty(<<a, Shape(FALSE), b>>)
           /\ Faulty(<<Shape(FALSE), a, b, d>>)
<1>1. ASSUME NEW checks, NEW i \in DOMAIN checks, checks[i] = Shape(FALSE) PROVE Faulty(checks)
  BY <1>1 DEF Faulty
<1> DEFINE no == Shape(FALSE)
<1> HIDE DEF no
<1>2. /\ 1 \in DOMAIN <<no>> /\ <<no>>[1] = no
      /\ 1 \in DOMAIN <<no, a>> /\ <<no, a>>[1] = no
      /\ 2 \in DOMAIN <<a, no>> /\ <<a, no>>[2] = no
  OBVIOUS
<1>3. /\ 1 \in DOMAIN <<no, a, b>> /\ <<no, a, b>>[1] = no
      /\ 2 \in DOMAIN <<a, no, b>> /\ <<a, no, b>>[2] = no
      /\ 1 \in DOMAIN <<no, a, b, d>> /\ <<no, a, b, d>>[1] = no
  OBVIOUS
<1>4. Faulty(<<no>>) /\ Faulty(<<no, a>>) /\ Faulty(<<a, no>>)
  BY <1>1, <1>2 DEF no
<1>5. Faulty(<<no, a, b>>) /\ Faulty(<<a, no, b>>) /\ Faulty(<<no, a, b, d>>)
  BY <1>1, <1>3 DEF no
<1> QED
  BY <1>4, <1>5 DEF no

LEMMA FrontOf ==
    ASSUME NEW a, NEW b, NEW d
    PROVE  1 \in DOMAIN (<<a>> \o <<b, d>>) /\ (<<a>> \o <<b, d>>)[1] = a
<1> DEFINE S == {a, b, d}
<1>1. <<a>> \in Seq(S) /\ <<b, d>> \in Seq(S) /\ Len(<<a>>) = 1 /\ Len(<<b, d>>) = 2 /\ <<a>>[1] = a
  OBVIOUS
<1> HIDE DEF S
<1>2. Len(<<a>> \o <<b, d>>) = 3 /\ (<<a>> \o <<b, d>>)[1] = a /\ <<a>> \o <<b, d>> \in Seq(S)
  BY <1>1
<1> QED
  BY <1>2

LEMMA NothingGiven ==
    ASSUME NEW c, DOMAIN c = {}
    PROVE  /\ \A f : Given(c, f) = FALSE /\ Inner(c, f) = <<>> /\ Number(c, f) = 0
           /\ \A fields : fields # {} => All(c, fields) = FALSE
  BY DEF Given, Inner, Number, All

LEMMA EmptyFaulty ==
    ASSUME NEW stage, DOMAIN stage.config = {}, Known(stage.op), stage.op \notin Nesting,
           RequiredFields(stage.op) \cup {"n"} # {"n"}
    PROVE  Faulty(Checks(stage))
<1> DEFINE c == stage.config
           op == stage.op
<1>1. /\ \A f : Given(c, f) = FALSE /\ Inner(c, f) = <<>> /\ Number(c, f) = 0
      /\ \A fields : fields # {} => All(c, fields) = FALSE
      /\ DOMAIN c = {}
  BY NothingGiven
<1>2. op \notin {"project", "distinct", "limit", "skip", "tap", "dropNulls", "fillNulls", "sample"}
  BY DEF RequiredFields, CatalogIndex, Meta, projectMeta, distinctMeta, limitMeta, skipMeta, tapMeta,
         dropNullsMeta, fillNullsMeta, sampleMeta
<1>3. op \in {"filter", "compute", "sort", "aggregate", "pivot", "callFunction", "callApp"}
             \cup {"lookup", "asofJoin", "transform", "algo", "sheet", "assert", "crossJoin"}
             \cup {"cast", "timeBucket", "gapfill", "window", "histogram", "topPerGroup"}
             \cup {"rename", "drop", "groupBy", "flatten", "unnestObject", "unpivot", "nest", "dedupe"}
  BY <1>2 DEF Known, CatalogIndex, Nesting
<1> HIDE DEF c
<1>4. CASE op \in {"filter", "compute", "sort", "aggregate", "pivot", "callFunction", "callApp"}
  <2>1. Faulty(FilterChecks(c)) /\ Faulty(SortChecks(c)) /\ Faulty(AggregateChecks(c))
    BY <1>1, FaultyFew DEF FilterChecks, SortChecks, AggregateChecks
  <2>2. Faulty(PivotChecks(c)) /\ Faulty(CallFunctionChecks(c)) /\ Faulty(CallAppChecks(c))
    BY <1>1, FaultyFew DEF PivotChecks, CallFunctionChecks, CallAppChecks
  <2>3. Faulty(ComputeChecks(c))
    <3>1. ComputeChecks(c) = <<Shape(FALSE)>> \o <<Shape(Given(c, "expr")), Service("eval")>>
      BY <1>1 DEF ComputeChecks
    <3> QED
      BY <3>1, FrontOf DEF Faulty
  <2> QED
    BY <1>4, <2>1, <2>2, <2>3 DEF Checks, c
<1>5. CASE op \in {"lookup", "asofJoin", "transform", "algo", "sheet", "assert", "crossJoin"}
  <2>1. Faulty(LookupChecks(c)) /\ Faulty(AsofJoinChecks(c))
    BY <1>1, FaultyFew DEF LookupChecks, AsofJoinChecks
  <2>2. Faulty(AlgoChecks(c)) /\ Faulty(SheetChecks(c))
    BY <1>1, FaultyFew DEF AlgoChecks, SheetChecks
  <2>3. Faulty(<<Shape(Given(c, "expr")), Service("eval")>>)
    BY <1>1, FaultyFew
  <2>4. Faulty(<<Shape(Given(c, "dataset")), Service("classic")>>)
    BY <1>1, FaultyFew
  <2>5. Faulty(TransformChecks(c))
    <3> DEFINE second == Shape(Given(c, "compute") => \A i \in DOMAIN c.compute :
                                   /\ Given(c.compute[i], "as")
                                   /\ Given(c.compute[i], "expr") # Given(c.compute[i], "from"))
               first == Shape(Given(c, "compute"))
    <3>1. TransformChecks(c) = <<first, second>> \o <<>>
      BY <1>1 DEF TransformChecks
    <3>2. first = Shape(FALSE)
      BY <1>1
    <3> HIDE DEF first, second
    <3>3. <<first, second>> \o <<>> = <<first, second>>
      OBVIOUS
    <3> QED
      BY <3>1, <3>2, <3>3, FaultyFew
  <2> QED
    BY <1>5, <2>1, <2>2, <2>3, <2>4, <2>5 DEF Checks, c
<1>6. CASE op \in {"cast", "timeBucket", "gapfill", "window", "histogram", "topPerGroup"}
  <2>1. Faulty(CastChecks(c)) /\ Faulty(TimeBucketChecks(c)) /\ Faulty(GapfillChecks(c)) /\ Faulty(WindowChecks(c))
    BY <1>1, FaultyFew DEF CastChecks, TimeBucketChecks, GapfillChecks, WindowChecks
  <2>2. Faulty(<<Shape(Given(c, "field")), Shape(Number(c, "bins") > 0)>>)
    BY <1>1, FaultyFew
  <2>3. Faulty(<<Shape(Number(c, "n") > 0), Shape(Given(c, "by"))>>)
    BY <1>1, FaultyFew
  <2> QED
    BY <1>6, <2>1, <2>2, <2>3 DEF Checks, c
<1>7. CASE op \in {"rename", "drop", "groupBy", "flatten", "unnestObject", "unpivot", "nest", "dedupe"}
  <2>1. \A f : Faulty(<<Shape(Given(c, f))>>) /\ Faulty(<<Shape(Given(c, f)), Shape(OneOf(c, "keep", {<<"first">>, <<"last">>}))>>)
    BY <1>1, FaultyFew
  <2>2. Faulty(<<Shape(All(c, {"nameAs", "valueAs"}))>>) /\ Faulty(<<Shape(All(c, {"by", "into"}))>>)
    BY <1>1, FaultyFew
  <2> QED
    BY <1>7, <2>1, <2>2 DEF Checks, c
<1> QED
  BY <1>3, <1>4, <1>5, <1>6, <1>7

LEMMA EmptyNesting ==
    ASSUME NEW stage, DOMAIN stage.config = {}, stage.op \in Nesting
    PROVE  Build(stage, Services) # "built"
<1> DEFINE c == stage.config
           parts == PartsOf(stage)
<1>1. \A f : Given(c, f) = FALSE /\ Inner(c, f) = <<>>
  BY NothingGiven
<1>2. HoldsLists(stage)
  <2>1. IsList(<<>>) /\ DOMAIN <<>> = {}
    BY DEF IsList
  <2> QED
    BY <1>1, <2>1 DEF HoldsLists
<1>3. 1 \in DOMAIN parts /\ Faulty(parts[1].own)
  <2>1. ASSUME NEW own, NEW pipe, NEW rest, Faulty(own),
               \/ parts = <<Part(own, pipe), rest>>
               \/ parts = <<Part(own, pipe)>>
        PROVE  1 \in DOMAIN parts /\ Faulty(parts[1].own)
    <3>1. Part(own, pipe).own = own
      BY DEF Part
    <3>2. 1 \in DOMAIN parts /\ parts[1] = Part(own, pipe)
      <4> HIDE DEF parts
      <4> QED
        BY <2>1
    <3> QED
      BY <2>1, <3>1, <3>2
  <2>2. CASE stage.op = "branch"
    <3> DEFINE own == <<Shape(Given(c, "when")), Service("eval"), Shape(Given(c, "then"))>>
    <3>1. parts = <<Part(own, Inner(c, "then")), Part(<<>>, Inner(c, "else"))>>
      BY <2>2 DEF PartsOf
    <3>2. Faulty(own)
      BY <1>1, FaultyFew
    <3> HIDE DEF own, parts
    <3> QED
      BY <2>1, <3>1, <3>2
  <2>3. CASE stage.op = "except"
    <3> DEFINE own == <<Shape(Given(c, "left") /\ Given(c, "right"))>>
    <3>1. parts = <<Part(own, Inner(c, "left")), Part(<<>>, Inner(c, "right"))>>
      BY <2>3 DEF PartsOf
    <3>2. (Given(c, "left") /\ Given(c, "right")) = FALSE
      BY <1>1
    <3>3. Faulty(own)
      BY <3>2, FaultyFew
    <3> HIDE DEF own, parts
    <3> QED
      BY <2>1, <3>1, <3>3
  <2>4. ASSUME NEW part PROVE <<part>> \o <<>> = <<part>>
    OBVIOUS
  <2>5. CASE stage.op = "merge"
    <3> DEFINE own == <<Shape(Inner(c, "sources") # <<>>)>>
               sources == Inner(c, "sources")
               each == [i \in DOMAIN sources |-> <<Shape(sources[i] # <<>>)>>]
               rest == [i \in DOMAIN sources |-> Part(each[i], sources[i])]
    <3>1. parts = <<Part(own, <<>>)>> \o rest
      BY <2>5 DEF PartsOf
    <3>2. rest = <<>>
      <4>1. sources = <<>>
        BY <1>1
      <4> HIDE DEF sources
      <4> QED
        BY <4>1
    <3>3. (Inner(c, "sources") # <<>>) = FALSE
      BY <1>1
    <3>4. Faulty(own)
      BY <3>3, FaultyFew
    <3> HIDE DEF own, rest, parts
    <3>5. parts = <<Part(own, <<>>)>>
      BY <2>4, <3>1, <3>2
    <3> QED
      BY <2>1, <3>4, <3>5
  <2>6. CASE stage.op = "intersect"
    <3> DEFINE own == <<Shape(Len(Inner(c, "sources")) >= 2)>>
               sources == Inner(c, "sources")
               each == [i \in DOMAIN sources |-> <<>>]
               rest == [i \in DOMAIN sources |-> Part(each[i], sources[i])]
    <3>1. parts = <<Part(own, <<>>)>> \o rest
      BY <2>6 DEF PartsOf
    <3>0. sources = <<>>
      BY <1>1
    <3>2. rest = <<>>
      <4> HIDE DEF sources
      <4> QED
        BY <3>0
    <3>3. (Len(sources) >= 2) = FALSE
      <4> HIDE DEF sources
      <4> QED
        BY <3>0
    <3>4. Faulty(own)
      BY <3>3, FaultyFew
    <3> HIDE DEF own, rest, parts
    <3>5. parts = <<Part(own, <<>>)>>
      BY <2>4, <3>1, <3>2
    <3> QED
      BY <2>1, <3>4, <3>5
  <2> QED
    BY <2>2, <2>3, <2>5, <2>6 DEF Nesting
<1>4. DOMAIN parts \in SUBSET Nat /\ PartLike(parts[1])
  BY <1>2, <1>3, PartsAre
<1> HIDE DEF parts
<1>5. Passed(parts[1].own, Services) # "built"
  BY <1>3, <1>4, FaultyFails DEF PartLike, Uses
<1>6. BuildPart(parts[1], Services) # "built"
  <2> DEFINE outcomes == <<Passed(parts[1].own, Services), BuildOps(parts[1].pipe, Services)>>
  <2>1. DOMAIN outcomes = {1, 2} /\ outcomes[1] = Passed(parts[1].own, Services)
    OBVIOUS
  <2>2. BuildPart(parts[1], Services) = First(outcomes)
    BY DEF BuildPart
  <2> HIDE DEF outcomes
  <2> QED
    BY <1>5, <2>1, <2>2, FirstOutcome
<1>7. Build(stage, Services) = First([k \in DOMAIN parts |-> BuildPart(parts[k], Services)])
  BY DEF Build, parts
<1> QED
  BY <1>3, <1>4, <1>6, <1>7, FirstOutcome

LEMMA EmptyFails ==
    ASSUME NEW op, Known(op), RequiredFields(op) \cup {"n"} # {"n"}
    PROVE  Build([op |-> op, config |-> <<>>], Services) # "built"
<1> DEFINE stage == [op |-> op, config |-> <<>>]
<1>1. stage.op = op /\ DOMAIN stage.config = {}
  OBVIOUS
<1> HIDE DEF stage
<1>2. CASE op \in Nesting
  BY <1>1, <1>2, EmptyNesting DEF stage
<1>3. CASE op \notin Nesting
  <2>1. Faulty(Checks(stage))
    BY <1>1, <1>3, EmptyFaulty
  <2>2. DOMAIN Checks(stage) \in SUBSET Nat
    BY ChecksOf DEF Uses
  <2>3. Build(stage, Services) = Passed(Checks(stage), Services)
    BY <1>1, <1>3, BuildSimple
  <2> QED
    BY <2>1, <2>2, <2>3, FaultyFails DEF stage
<1> QED
  BY <1>2, <1>3

-------------------------------------------------------------------------------
(***************************************************************************)
(* Where a segment begins: the lengths of the segments in front of it and  *)
(* the bars between them add up to the place behind a bar.                 *)
(***************************************************************************)
LEMMA OffsetIs ==
    ASSUME NEW segments, NEW n \in Nat, NEW at, at[0] = 1,
           \A k \in 1..n : at[k] = at[k - 1] + Len(segments[k]) + 1
    PROVE  Offset(segments, n) = at[n]
<1> DEFINE Rec(f) == f = [k \in 0..n |-> IF k = 0 THEN 1 ELSE f[k - 1] + Len(segments[k]) + 1]
           g == [k \in 0..n |-> at[k]]
           start == CHOOSE f : Rec(f)
<1>1. Rec(g)
  <2>1. \A k \in 0..n : g[k] = IF k = 0 THEN 1 ELSE g[k - 1] + Len(segments[k]) + 1
    OBVIOUS
  <2> QED
    BY <2>1
<1>2. Offset(segments, n) = start[n]
  BY DEF Offset
<1> HIDE DEF Rec
<1>3. Rec(start)
  BY <1>1, Zenon
<1> HIDE DEF start, g
<1> DEFINE S == {k \in Nat : k <= n => start[k] = at[k]}
<1>4. 0 \in S
  BY <1>3 DEF Rec
<1>5. ASSUME NEW k \in S PROVE k + 1 \in S
  <2> SUFFICES ASSUME k + 1 <= n PROVE start[k + 1] = at[k + 1]
    OBVIOUS
  <2> DEFINE i == k + 1
  <2>1. i \in 1..n /\ i - 1 = k /\ start[k] = at[k]
    OBVIOUS
  <2> HIDE DEF i
  <2>2. start[i] = start[i - 1] + Len(segments[i]) + 1
    BY <1>3, <2>1 DEF Rec
  <2>3. at[i] = at[i - 1] + Len(segments[i]) + 1
    BY <2>1
  <2> QED
    BY <2>1, <2>2, <2>3 DEF i
<1>6. n \in S
  <2> HIDE DEF S
  <2>1. S \in SUBSET Nat
    BY DEF S
  <2> QED
    BY <1>4, <1>5, <2>1, AllPlaces
<1> QED
  BY <1>2, <1>6

LEMMA PlacedAlways ==
    ASSUME NEW t \in Seq(STRING)
    PROVE  Placed(t)
<1> DEFINE S == {i \in 1..Len(t) : t[i] = "|" /\ AtTop(States(t)[i])}
           bars == Bars(t)
           k == Cardinality(S)
           segments == SplitTopLevel(t)
           at == [n \in 0..k |-> Behind(bars, n)]
<1>1. Len(t) \in Nat /\ S \in SUBSET (1..Len(t)) /\ bars = Ordered(S)
  BY DEF Bars
<1>2. k \in Nat /\ Enumerates(bars, S)
  BY <1>1, OrderedExists
<1> HIDE DEF S, bars, k, segments
<1>3. /\ DOMAIN bars = 1..k /\ Len(bars) = k /\ bars \in Seq(Nat)
      /\ \A n \in 1..k : bars[n] \in 1..Len(t)
      /\ \A m, n \in 1..k : m < n => bars[m] < bars[n]
  <2>1. bars \in [1..k -> 1..Len(t)]
    BY <1>1, <1>2 DEF Enumerates, k
  <2>2. DOMAIN bars = 1..k /\ \A n \in 1..k : bars[n] \in 1..Len(t)
    BY <2>1
  <2>3. bars \in Seq(Nat) /\ Len(bars) = k
    BY <1>2, <2>1
  <2> QED
    BY <1>2, <2>2, <2>3 DEF Enumerates
<1>4. /\ DOMAIN segments = 1..(k + 1)
      /\ \A n \in 1..(k + 1) :
            segments[n] = SubSeq(t, IF n = 1 THEN 1 ELSE bars[n - 1] + 1, IF n > k THEN Len(t) ELSE bars[n] - 1)
  BY <1>2, <1>3 DEF segments, SplitTopLevel, Parts, bars
<1>5. Len(segments) = k + 1
  BY <1>2, <1>4 DEF segments, SplitTopLevel, Parts
<1>6. at[0] = 1
  BY <1>2, <1>3 DEF Behind
<1>7. ASSUME NEW n \in 1..k PROVE at[n] = at[n - 1] + Len(segments[n]) + 1
  <2> DEFINE low == IF n = 1 THEN 1 ELSE bars[n - 1] + 1
             high == bars[n] - 1
  <2>1. at[n] = bars[n] + 1 /\ at[n - 1] = low
    BY <1>2, <1>3 DEF Behind
  <2>2. segments[n] = SubSeq(t, low, high)
    BY <1>2, <1>4
  <2>6. bars[n] \in 1..Len(t) /\ bars[n] \in Nat /\ Len(t) \in Nat
    BY <1>1, <1>3
  <2>7. n # 1 => n - 1 \in 1..k /\ n - 1 < n
    BY <1>2
  <2>8. n # 1 => bars[n - 1] \in 1..Len(t) /\ bars[n - 1] < bars[n]
    BY <1>3, <2>7
  <2>3. low \in Nat /\ high \in Int /\ low <= high + 1 /\ low >= 1 /\ high <= Len(t) /\ bars[n] = high + 1
    BY <2>6, <2>8
  <2> HIDE DEF low, high
  <2>4. Len(SubSeq(t, low, high)) = high - low + 1
    BY <1>1, <2>3
  <2>5. Len(segments[n]) = high - low + 1
    BY <2>2, <2>4
  <2> HIDE DEF at
  <2> QED
    BY <2>1, <2>3, <2>5
<1>8. ASSUME NEW n \in 0..k PROVE Offset(segments, n) = at[n]
  <2> HIDE DEF at
  <2>1. n \in Nat /\ \A j \in 1..n : at[j] = at[j - 1] + Len(segments[j]) + 1
    BY <1>2, <1>7
  <2> QED
    BY <1>6, <2>1, OffsetIs
<1>9. \A n \in 1..Len(segments) - 1 : StageStart(t, n) = Offset(segments, n)
  <2>1. ASSUME NEW n \in 1..k PROVE StageStart(t, n) = at[n]
    BY <1>2 DEF StageStart, bars
  <2>2. 1..Len(segments) - 1 = 1..k /\ \A n \in 1..k : n \in 0..k
    BY <1>2, <1>5
  <2> HIDE DEF at
  <2> QED
    BY <1>8, <2>1, <2>2
<1>10. LastTopLevelPipe(t) = at[k] - 1
  <2>1. LastTopLevelPipe(t) = Last(<<0>> \o bars)
    BY DEF LastTopLevelPipe, bars
  <2>2. Len(<<0>> \o bars) = k + 1 /\ (<<0>> \o bars)[k + 1] = IF k = 0 THEN 0 ELSE bars[k]
    <3>1. <<0>> \in Seq(Nat) /\ Len(<<0>>) = 1 /\ <<0>>[1] = 0
      OBVIOUS
    <3> QED
      BY <1>2, <1>3, <3>1
  <2>3. Last(<<0>> \o bars) = IF k = 0 THEN 0 ELSE bars[k]
    BY <2>2 DEF Last
  <2>4. at[k] = IF k = 0 THEN 1 ELSE bars[k] + 1
    BY <1>2, <1>3 DEF Behind
  <2>5. k # 0 => bars[k] \in Nat
    BY <1>2, <1>3
  <2> HIDE DEF at
  <2> QED
    BY <2>1, <2>3, <2>4, <2>5
<1>11. Offset(segments, Len(segments) - 1) = at[k]
  <2>1. Len(segments) - 1 = k /\ k \in 0..k
    BY <1>2, <1>5
  <2> QED
    BY <1>8, <2>1
<1> QED
  BY <1>9, <1>10, <1>11 DEF Placed, segments

-------------------------------------------------------------------------------
(***************************************************************************)
(* What the lenient parser has found behind some segments: while all could *)
(* be parsed, their stages; and what it told first, of the first that      *)
(* could not.  Whatever it tells, it tells what the catalog requires.      *)
(***************************************************************************)
ToldRight(told) ==
    /\ IsList(told)
    /\ \A d \in DOMAIN told :
          told[d].missing = IF Known(told[d].op) THEN RequiredFields(told[d].op) ELSE {}

Clean(segments, i) == \A j \in 1..i : ParseStage(segments[j]) # Bad
FirstBad(segments, b) == ParseStage(segments[b]) = Bad /\ Clean(segments, b - 1)

Found(found, from, segments, i) ==
    /\ found = [from |-> from, pipe |-> found.pipe, next |-> i, diagnostics |-> found.diagnostics]
    /\ ToldRight(found.diagnostics) /\ IsList(found.pipe)
    /\ Clean(segments, i) => /\ found.diagnostics = <<>> /\ Len(found.pipe) = i
                             /\ \A j \in 1..i : found.pipe[j] = ParseStage(segments[j])
    /\ \A b \in 1..i : FirstBad(segments, b) =>
          Len(found.diagnostics) >= 1 /\ found.diagnostics[1].stage = b - 1

LEMMA AppendIs ==
    ASSUME NEW s, IsList(s), NEW x
    PROVE  /\ IsList(Append(s, x)) /\ Len(s) \in Nat /\ Len(Append(s, x)) = Len(s) + 1
           /\ DOMAIN Append(s, x) = 1..(Len(s) + 1)
           /\ \A j \in 1..Len(s) : Append(s, x)[j] = s[j]
           /\ Append(s, x)[Len(s) + 1] = x
<1> DEFINE S == Range(s) \cup {x}
           more == Append(s, x)
<1>1. s \in Seq(S) /\ x \in S
  BY DEF IsList
<1> HIDE DEF S
<1>2. more \in Seq(S) /\ Len(s) \in Nat /\ Len(more) = Len(s) + 1
  BY <1>1
<1>3. (\A j \in 1..Len(s) : more[j] = s[j]) /\ more[Len(s) + 1] = x
  BY <1>1
<1> HIDE DEF more
<1>4. DOMAIN more = 1..(Len(s) + 1) /\ Len(s) + 1 \in Nat
  BY <1>2
<1>5. more \in [1..(Len(s) + 1) -> Range(more)]
  BY <1>2, <1>4 DEF Range
<1>6. IsList(more)
  BY <1>4, <1>5 DEF IsList
<1> QED
  BY <1>2, <1>3, <1>4, <1>6 DEF more

LEMMA LenientStep ==
    ASSUME NEW found, NEW from, NEW segments, NEW i \in Nat, Found(found, from, segments, i)
    PROVE  Found(Lenient(found, segments[i + 1]), from, segments, i + 1)
<1> DEFINE n == i + 1
           after == Lenient(found, segments[n])
           stage == ParseStage(segments[n])
           pipe == found.pipe
           told == found.diagnostics
           op == FirstStageKeyword(segments[n])
           empty == [op |-> op, config |-> <<>>]
           tells == [stage |-> i, op |-> op, missing |-> IF Known(op) THEN RequiredFields(op) ELSE {}]
<1>1. /\ found = [from |-> from, pipe |-> pipe, next |-> i, diagnostics |-> told]
      /\ ToldRight(told) /\ IsList(pipe)
      /\ Clean(segments, i) => /\ told = <<>> /\ Len(pipe) = i
                               /\ \A j \in 1..i : pipe[j] = ParseStage(segments[j])
      /\ \A b \in 1..i : FirstBad(segments, b) => Len(told) >= 1 /\ told[1].stage = b - 1
  BY DEF Found
<1>0. n \in Nat /\ n - 1 = i /\ n \in 1..n /\ \A b \in 1..n : b \in 1..i \/ b = n
  OBVIOUS
<1> HIDE DEF n
<1>2. CASE stage # Bad
  <2>1. after = [from |-> from, pipe |-> Append(pipe, stage), next |-> i + 1, diagnostics |-> told]
    <3>1. after = [[found EXCEPT !.pipe = Append(pipe, stage)] EXCEPT !.next = @ + 1]
      BY <1>2 DEF Lenient
    <3> HIDE DEF after, stage, pipe, told
    <3> QED
      BY <1>1, <3>1
  <2>2. after.pipe = Append(pipe, stage) /\ after.diagnostics = told
    BY <2>1
  <2>3. ~FirstBad(segments, n)
    BY <1>2 DEF FirstBad
  <2>4. Clean(segments, n) => Clean(segments, i)
    BY <1>0 DEF Clean, n
  <2> HIDE DEF after, stage, pipe, told
  <2>5. IsList(Append(pipe, stage))
    BY <1>1, AppendIs
  <2>6. ASSUME Clean(segments, i)
        PROVE  /\ Len(Append(pipe, stage)) = n
               /\ \A j \in 1..n : Append(pipe, stage)[j] = ParseStage(segments[j])
    <3>1. Len(pipe) = i /\ \A j \in 1..i : pipe[j] = ParseStage(segments[j])
      BY <1>1, <2>6
    <3>2. /\ Len(Append(pipe, stage)) = Len(pipe) + 1
          /\ \A j \in 1..Len(pipe) : Append(pipe, stage)[j] = pipe[j]
          /\ Append(pipe, stage)[Len(pipe) + 1] = stage
      BY <1>1, AppendIs
    <3>3. Append(pipe, stage)[n] = ParseStage(segments[n]) /\ Len(Append(pipe, stage)) = n
      BY <3>1, <3>2 DEF n, stage
    <3> QED
      BY <1>0, <3>1, <3>2, <3>3
  <2>7. \A b \in 1..n : FirstBad(segments, b) => Len(told) >= 1 /\ told[1].stage = b - 1
    BY <1>0, <1>1, <2>3
  <2>8. after = [from |-> from, pipe |-> after.pipe, next |-> n, diagnostics |-> after.diagnostics]
    BY <2>1, <2>2 DEF n
  <2> QED
    BY <1>1, <2>2, <2>4, <2>5, <2>6, <2>7, <2>8 DEF Found, after, n
<1>3. CASE stage = Bad
  <2> DEFINE more == IF Known(op) THEN Append(pipe, empty) ELSE pipe
  <2>1. after = [from |-> from, pipe |-> more, next |-> i + 1, diagnostics |-> Append(told, tells)]
    <3>1. after = [Told(found, op) EXCEPT !.next = @ + 1]
      BY <1>3 DEF Lenient
    <3>2. Told(found, op) = [found EXCEPT !.pipe = more, !.diagnostics = Append(told, [tells EXCEPT !.stage = found.next])]
      <4>1. [tells EXCEPT !.stage = found.next]
              = [stage |-> found.next, op |-> op, missing |-> IF Known(op) THEN RequiredFields(op) ELSE {}]
        OBVIOUS
      <4> HIDE DEF op, tells
      <4> QED
        BY <4>1 DEF Told
    <3>3. found.next = i
      BY <1>1
    <3>4. [tells EXCEPT !.stage = found.next] = tells
      BY <3>3
    <3> HIDE DEF after, more, told, tells, pipe
    <3> QED
      BY <1>1, <3>1, <3>2, <3>4
  <2>2. after.pipe = more /\ after.diagnostics = Append(told, tells)
    BY <2>1
  <2>3. ~Clean(segments, n)
    BY <1>0, <1>3 DEF Clean
  <2>4. IsList(more)
    BY <1>1, AppendIs
  <2>5. tells.stage = i /\ tells.missing = IF Known(tells.op) THEN RequiredFields(tells.op) ELSE {}
    OBVIOUS
  <2> HIDE DEF after, more, told, tells
  <2>6. IsList(told)
    BY <1>1 DEF ToldRight
  <2>7. /\ IsList(Append(told, tells)) /\ Len(told) \in Nat /\ Len(Append(told, tells)) = Len(told) + 1
        /\ DOMAIN Append(told, tells) = 1..(Len(told) + 1)
        /\ \A d \in 1..Len(told) : Append(told, tells)[d] = told[d]
        /\ Append(told, tells)[Len(told) + 1] = tells
    BY <2>6, AppendIs
  <2>8. ToldRight(Append(told, tells))
    <3> SUFFICES ASSUME NEW d \in DOMAIN Append(told, tells)
                 PROVE  Append(told, tells)[d].missing =
                            IF Known(Append(told, tells)[d].op) THEN RequiredFields(Append(told, tells)[d].op) ELSE {}
      BY <2>7 DEF ToldRight
    <3>1. CASE d \in 1..Len(told)
      <4>1. d \in DOMAIN told
        BY <2>6, <3>1, ListPlaces
      <4> QED
        BY <1>1, <2>7, <3>1, <4>1 DEF ToldRight
    <3>2. CASE d = Len(told) + 1
      BY <2>5, <2>7, <3>2
    <3> QED
      BY <2>7, <3>1, <3>2
  <2>9. ASSUME NEW b \in 1..n, FirstBad(segments, b)
        PROVE  Len(Append(told, tells)) >= 1 /\ Append(told, tells)[1].stage = b - 1
    <3>1. CASE b \in 1..i
      <4>1. Len(told) >= 1 /\ told[1].stage = b - 1
        BY <1>1, <2>9, <3>1
      <4> QED
        BY <2>7, <4>1
    <3>2. CASE b = n
      <4>1. Clean(segments, i)
        BY <1>0, <2>9, <3>2 DEF FirstBad
      <4>2. told = <<>>
        BY <1>1, <4>1
      <4>3. Len(told) = 0
        BY <4>2
      <4> QED
        BY <1>0, <2>5, <2>7, <3>2, <4>3
    <3> QED
      BY <1>0, <3>1, <3>2
  <2>10. after = [from |-> from, pipe |-> after.pipe, next |-> n, diagnostics |-> after.diagnostics]
    BY <2>1, <2>2 DEF n
  <2> QED
    BY <2>2, <2>3, <2>4, <2>8, <2>9, <2>10 DEF Found, after, n
<1> QED
  BY <1>2, <1>3 DEF n

LEMMA LenientRuns ==
    ASSUME NEW head, ~Failed(head), NEW n \in Nat, Len(head.segments) = n,
           NEW t, Sourced(t) = head
    PROVE  Found(ParseTextLenient(t), head.from, head.segments, n)
<1> DEFINE segments == head.segments
           start == [from |-> head.from, pipe |-> <<>>, next |-> 0, diagnostics |-> <<>>]
           Rec(f, m) == f = [k \in 0..m |-> IF k = 0 THEN start ELSE Lenient(f[k - 1], segments[k])]
           found == CHOOSE f : Rec(f, n)
<1>1. ParseTextLenient(t) = found[n]
  BY DEF ParseTextLenient
<1> HIDE DEF segments, start
<1>2. ASSUME NEW m \in Nat PROVE \E f : Rec(f, m)
  <2> DEFINE S == {k \in Nat : \E f : Rec(f, k)}
  <2>1. 0 \in S
    <3> DEFINE f == [k \in 0..0 |-> start]
    <3>1. \A k \in 0..0 : f[k] = IF k = 0 THEN start ELSE Lenient(f[k - 1], segments[k])
      OBVIOUS
    <3>2. Rec(f, 0)
      BY <3>1
    <3> HIDE DEF f, Rec
    <3> QED
      BY <3>2
  <2>2. ASSUME NEW k \in S PROVE k + 1 \in S
    <3>1. PICK f : Rec(f, k)
      OBVIOUS
    <3> DEFINE i == k + 1
               g == [j \in 0..i |-> IF j = i THEN Lenient(f[k], segments[i]) ELSE f[j]]
    <3>2. k \in Nat /\ i \in Nat /\ i # 0 /\ i - 1 = k /\ \A j \in 0..i : j = i \/ j \in 0..k
      OBVIOUS
    <3> HIDE DEF i
    <3>3. \A j \in 0..i : g[j] = IF j = 0 THEN start ELSE Lenient(g[j - 1], segments[j])
      <4>1. g[i] = Lenient(g[i - 1], segments[i])
        BY <3>2
      <4>2. ASSUME NEW j \in 0..k PROVE g[j] = IF j = 0 THEN start ELSE Lenient(g[j - 1], segments[j])
        <5>1. j \in 0..i /\ j # i /\ (j # 0 => j - 1 \in 0..k /\ j - 1 \in 0..i /\ j - 1 # i)
          BY <3>2
        <5>2. f[j] = IF j = 0 THEN start ELSE Lenient(f[j - 1], segments[j])
          BY <3>1
        <5> QED
          BY <5>1, <5>2
      <4> HIDE DEF g
      <4> QED
        BY <3>2, <4>1, <4>2
    <3>4. Rec(g, i)
      BY <3>3
    <3> HIDE DEF g, Rec
    <3> QED
      BY <3>2, <3>4 DEF i
  <2> HIDE DEF Rec
  <2>3. S \in SUBSET Nat
    OBVIOUS
  <2> HIDE DEF S
  <2>4. m \in S
    BY <2>1, <2>2, <2>3, AllPlaces
  <2> QED
    BY <2>4, Zenon DEF S
<1> HIDE DEF Rec
<1>3. Rec(found, n)
  <2>1. \E f : Rec(f, n)
    BY <1>2
  <2> QED
    BY <2>1, Zenon
<1> HIDE DEF found
<1> DEFINE S == {k \in Nat : k <= n => Found(found[k], head.from, segments, k)}
<1>4. 0 \in S
  <2>1. found[0] = start
    BY <1>3 DEF Rec
  <2>2. start = [from |-> head.from, pipe |-> <<>>, next |-> 0, diagnostics |-> <<>>]
    BY DEF start
  <2>3. IsList(<<>>) /\ DOMAIN <<>> = {} /\ Len(<<>>) = 0 /\ 1..0 = {}
    BY DEF IsList
  <2>4. start.pipe = <<>> /\ start.diagnostics = <<>>
    BY <2>2
  <2> QED
    BY <2>1, <2>2, <2>3, <2>4 DEF Found, ToldRight
<1>5. ASSUME NEW k \in S PROVE k + 1 \in S
  <2> SUFFICES ASSUME k + 1 <= n PROVE Found(found[k + 1], head.from, segments, k + 1)
    OBVIOUS
  <2>1. Found(found[k], head.from, segments, k) /\ k \in Nat
    OBVIOUS
  <2>2. found[k + 1] = Lenient(found[k], segments[k + 1])
    <3> DEFINE i == k + 1
    <3>1. i \in 0..n /\ i # 0 /\ i - 1 = k
      OBVIOUS
    <3> HIDE DEF i
    <3>2. found[i] = Lenient(found[i - 1], segments[i])
      BY <1>3, <3>1 DEF Rec
    <3> QED
      BY <3>1, <3>2 DEF i
  <2> QED
    BY <2>1, <2>2, LenientStep
<1>6. n \in S
  <2> HIDE DEF S
  <2>1. S \in SUBSET Nat
    BY DEF S
  <2> QED
    BY <1>4, <1>5, <2>1, AllPlaces
<1> QED
  BY <1>1, <1>6 DEF segments

(***************************************************************************)
(* The two parsers: of a text that is cut up, the strict one gives the     *)
(* stages if all could be parsed, and if not the first that could not.     *)
(***************************************************************************)
LEMMA StrictRuns ==
    ASSUME NEW head, ~Failed(head), NEW n \in Nat, DOMAIN head.segments = 1..n,
           NEW t, Sourced(t) = head
    PROVE  /\ Clean(head.segments, n) =>
                 ParseText(t) = [from |-> head.from, pipe |-> [i \in 1..n |-> ParseStage(head.segments[i])]]
           /\ ~Clean(head.segments, n) =>
                 \E b \in 1..n : /\ FirstBad(head.segments, b)
                                 /\ ParseText(t) = [failed |-> "stage", stage |-> b]
<1> DEFINE segments == head.segments
           stages == [i \in DOMAIN segments |-> ParseStage(segments[i])]
           bad == {i \in 1..Len(stages) : stages[i] = Bad}
           first == SelectInSeq(stages, LAMBDA s : s = Bad)
<1>1. first = IF bad # {} THEN Min(bad) ELSE 0
  BY DEF SelectInSeq
<1>2. ParseText(t) = IF first = 0 THEN [from |-> head.from, pipe |-> stages] ELSE [failed |-> "stage", stage |-> first]
  BY DEF ParseText
<1> HIDE DEF first, segments
<1>3. Len(stages) = n /\ stages = [i \in 1..n |-> ParseStage(segments[i])]
  BY DEF segments
<1>4. bad = {i \in 1..n : ParseStage(segments[i]) = Bad}
  BY <1>3
<1> HIDE DEF bad, stages
<1>5. CASE Clean(segments, n)
  <2>1. bad = {}
    BY <1>4, <1>5 DEF Clean
  <2> QED
    BY <1>1, <1>2, <1>3, <1>5, <2>1 DEF segments
<1>6. CASE ~Clean(segments, n)
  <2>1. bad # {} /\ bad \in SUBSET Nat
    BY <1>4, <1>6 DEF Clean
  <2>2. Min(bad) \in bad /\ \A k \in bad : Min(bad) <= k
    BY <2>1, LeastPlace
  <2> DEFINE b == Min(bad)
  <2>3. b \in 1..n /\ ParseStage(segments[b]) = Bad /\ first = b /\ first # 0
    BY <1>1, <1>4, <2>1, <2>2
  <2> HIDE DEF b
  <2>4. Clean(segments, b - 1)
    <3> SUFFICES ASSUME NEW j \in 1..(b - 1), ParseStage(segments[j]) = Bad PROVE FALSE
      BY DEF Clean
    <3>1. j \in bad /\ ~(b <= j)
      BY <1>4, <2>3
    <3> QED
      BY <2>2, <3>1 DEF b
  <2> QED
    BY <1>2, <1>6, <2>3, <2>4 DEF FirstBad, segments
<1> QED
  BY <1>5, <1>6 DEF segments

LEMMA SegmentsOf ==
    ASSUME NEW t \in Seq(STRING), ~Failed(Sourced(t))
    PROVE  /\ Len(Sourced(t).segments) \in Nat
           /\ DOMAIN Sourced(t).segments = 1..Len(Sourced(t).segments)
<1> DEFINE segments == Sourced(t).segments
<1>1. segments = Tail(SplitTopLevel(t))
  BY DEF Sourced, Failed, Failure
<1>2. PICK n \in Nat : DOMAIN segments = 1..n
  BY <1>1, SegmentsAre
<1> HIDE DEF segments
<1>3. Len(segments) = n
  BY <1>2
<1> QED
  BY <1>2, <1>3 DEF segments

LEMMA ParsersAgree ==
    ASSUME NEW t \in Seq(STRING)
    PROVE  AgreeOn(ParseText(t), ParseTextLenient(t))
<1> DEFINE head == Sourced(t)
           lenient == ParseTextLenient(t)
           strict == ParseText(t)
<1>1. CASE Failed(head)
  <2>1. lenient = head
    BY <1>1 DEF ParseTextLenient
  <2>2. strict = head
    BY <1>1 DEF ParseText
  <2> QED
    BY <1>1, <2>1, <2>2 DEF AgreeOn
<1>2. CASE ~Failed(head)
  <2> DEFINE segments == head.segments
             n == Len(segments)
             pipe == lenient.pipe
             told == lenient.diagnostics
  <2>1. n \in Nat /\ DOMAIN segments = 1..n
    BY <1>2, SegmentsOf
  <2>2. Found(lenient, head.from, segments, n)
    BY <1>2, <2>1, LenientRuns
  <2>3. /\ lenient = [from |-> head.from, pipe |-> pipe, next |-> n, diagnostics |-> told]
        /\ ToldRight(told) /\ IsList(pipe)
        /\ Clean(segments, n) => /\ told = <<>> /\ Len(pipe) = n
                                 /\ \A j \in 1..n : pipe[j] = ParseStage(segments[j])
        /\ \A b \in 1..n : FirstBad(segments, b) => Len(told) >= 1 /\ told[1].stage = b - 1
    BY <2>2 DEF Found
  <2>4. /\ Clean(segments, n) => strict = [from |-> head.from, pipe |-> [i \in 1..n |-> ParseStage(segments[i])]]
        /\ ~Clean(segments, n) => \E b \in 1..n : /\ FirstBad(segments, b)
                                                  /\ strict = [failed |-> "stage", stage |-> b]
    BY <1>2, <2>1, StrictRuns
  <2> HIDE DEF segments, n, pipe, told, lenient, strict
  <2>5. ~Failed(lenient) /\ lenient.from = head.from
    BY <2>3 DEF Failed
  <2>6. strict = IF told = <<>> THEN [from |-> lenient.from, pipe |-> pipe]
                 ELSE [failed |-> "stage", stage |-> told[1].stage + 1]
    <3>1. CASE Clean(segments, n)
      <4>1. pipe = [i \in 1..n |-> ParseStage(segments[i])]
        <5>1. DOMAIN pipe = 1..n /\ pipe = [i \in DOMAIN pipe |-> pipe[i]]
          BY <2>3, <3>1, ListPlaces DEF IsList
        <5> QED
          BY <2>3, <3>1, <5>1
      <4> QED
        BY <2>3, <2>4, <2>5, <3>1, <4>1
    <3>2. CASE ~Clean(segments, n)
      <4>1. PICK b \in 1..n : FirstBad(segments, b) /\ strict = [failed |-> "stage", stage |-> b]
        BY <2>4, <3>2
      <4>2. Len(told) >= 1 /\ told[1].stage = b - 1
        BY <2>3, <4>1
      <4>3. told # <<>> /\ (b - 1) + 1 = b
        BY <2>1, <4>1, <4>2
      <4> QED
        BY <4>1, <4>2, <4>3
    <3> QED
      BY <3>1, <3>2
  <2>7. ASSUME NEW d \in DOMAIN told, told[d].missing \cup {"n"} # {"n"}
        PROVE  Build([op |-> told[d].op, config |-> <<>>], Services) # "built"
    <3>1. told[d].missing = IF Known(told[d].op) THEN RequiredFields(told[d].op) ELSE {}
      BY <2>3 DEF ToldRight
    <3>2. Known(told[d].op) /\ RequiredFields(told[d].op) \cup {"n"} # {"n"}
      BY <2>7, <3>1
    <3> QED
      BY <3>2, EmptyFails
  <2> QED
    BY <2>5, <2>6, <2>7 DEF AgreeOn, told, pipe, strict, lenient
<1> QED
  BY <1>1, <1>2

(***************************************************************************)
(* For any texts, typed in any way: the strict and the lenient parser read *)
(* one language, all three scanners cut a text up at the same places, and  *)
(* a stage left empty where a field is required is never built.            *)
(***************************************************************************)
THEOREM ParsersAreOne == Spec => []FrontEndsAgree
<1>1. IInv => FrontEndsAgree
  <2> SUFFICES ASSUME IInv, NEW u \in DOMAIN text PROVE OneLanguage(text[u])
    BY DEF FrontEndsAgree
  <2>1. text[u] \in Seq(STRING)
    BY DEF IInv, TypeOK, Held, Text
  <2> QED
    BY <2>1, ParsersAgree, PlacedAlways DEF OneLanguage
<1> QED
  BY <1>1, InitStep, NextStep, PTL DEF Spec

-------------------------------------------------------------------------------
(***************************************************************************)
(* What the scanner is in at every place of a text.                        *)
(***************************************************************************)
LEMMA GreatestPlace ==
    ASSUME NEW n \in Nat, NEW T \in SUBSET (1..n), T # {}
    PROVE  Max(T) \in T /\ \A k \in T : k <= Max(T)
<1> DEFINE U == {n - x : x \in T}
<1>0. \A x \in T : x \in Nat /\ n - x \in Nat
  OBVIOUS
<1>1. U \in SUBSET Nat /\ U # {}
  BY <1>0
<1>2. PICK u \in U : \A k \in U : u <= k
  BY <1>1, LeastPlace
<1>3. PICK x \in T : u = n - x
  OBVIOUS
<1>4. ASSUME NEW y \in T PROVE x >= y
  <2>1. n - y \in U
    OBVIOUS
  <2>2. n - x <= n - y
    BY <1>2, <1>3, <2>1
  <2> QED
    BY <2>2
<1>5. \E z \in T : \A y \in T : z >= y
  BY <1>4
<1>6. Max(T) \in T /\ \A y \in T : Max(T) >= y
  BY <1>5, Zenon DEF Max
<1> QED
  BY <1>6

LEMMA StatesFold ==
    ASSUME NEW t, NEW n \in Nat, DOMAIN t = 1..n
    PROVE  \E g : /\ g[0] = <<Outside>> /\ g[n] = States(t)
                  /\ \A k \in 1..n : g[k] = Append(g[k - 1], Step(Last(g[k - 1]), t[k]))
<1> DEFINE D == 1..n
           Rec(f, T) == IF T = {} THEN <<Outside>>
                        ELSE Append(f[T \ {Max(T)}], Step(Last(f[T \ {Max(T)}]), t[Max(T)]))
           Up(k) == {T \in SUBSET D : Cardinality(T) <= k}
           Good == {k \in Nat : \E f : f = [T \in Up(k) |-> Rec(f, T)]}
           f == CHOOSE g : g = [T \in SUBSET D |-> Rec(g, T)]
<1>0. IsFiniteSet(D) /\ Cardinality(D) \in Nat
  BY FS_Interval, FS_CardinalityType
<1>1. \A T \in SUBSET D : IsFiniteSet(T) /\ Cardinality(T) \in Nat /\ (Cardinality(T) = 0 <=> T = {})
  BY <1>0, FS_Subset, FS_CardinalityType, FS_EmptySet
<1>2. \A T \in SUBSET D : \A i \in T :
         T \ {i} \in SUBSET D /\ Cardinality(T \ {i}) = Cardinality(T) - 1
  BY <1>1, FS_RemoveElement
<1>3. \A T \in SUBSET D : T # {} => Max(T) \in T
  BY GreatestPlace
<1>4. 0 \in Good
  <2>1. Up(0) = {{}}
    BY <1>1
  <2>2. [T \in {{}} |-> <<Outside>>] = [T \in Up(0) |-> Rec([T2 \in {{}} |-> <<Outside>>], T)]
    BY <2>1
  <2> QED
    BY <2>2
<1>5. \A k \in Good : k + 1 \in Good
  <2> SUFFICES ASSUME NEW k \in Good PROVE k + 1 \in Good
    OBVIOUS
  <2>1. k \in Nat /\ \E g : g = [T \in Up(k) |-> Rec(g, T)]
    OBVIOUS
  <2>2. PICK g : g = [T \in Up(k) |-> Rec(g, T)]
    BY <2>1
  <2> DEFINE h == [T \in Up(k + 1) |-> Rec(g, T)]
  <2>3. \A T \in Up(k) : T \in Up(k + 1) /\ h[T] = g[T]
    <3>1. \A T \in Up(k) : T \in Up(k + 1)
      BY <1>1, <2>1
    <3>2. \A T \in Up(k) : g[T] = Rec(g, T)
      BY <2>2
    <3> HIDE DEF Rec, Up
    <3> QED
      BY <3>1, <3>2
  <2>4. \A T \in Up(k + 1) : T # {} => T \ {Max(T)} \in Up(k)
    <3> SUFFICES ASSUME NEW T \in Up(k + 1), T # {} PROVE T \ {Max(T)} \in Up(k)
      OBVIOUS
    <3> DEFINE m == Max(T)
    <3>1. m \in T /\ T \in SUBSET D /\ Cardinality(T) <= k + 1 /\ Cardinality(T) \in Nat
      BY <1>1, <1>3
    <3> HIDE DEF m, D
    <3>2. T \ {m} \in SUBSET D /\ Cardinality(T \ {m}) = Cardinality(T) - 1
      BY <1>2, <3>1
    <3>3. Cardinality(T \ {m}) <= k
      BY <2>1, <3>1, <3>2
    <3> QED
      BY <3>2, <3>3 DEF m
  <2>5. \A T \in Up(k + 1) : Rec(h, T) = Rec(g, T)
    <3> HIDE DEF Up, h
    <3> QED
      BY <2>3, <2>4
  <2>6. h = [T \in Up(k + 1) |-> Rec(h, T)]
    <3>1. h = [T \in Up(k + 1) |-> Rec(g, T)]
      OBVIOUS
    <3> HIDE DEF Rec, Up, h
    <3> QED
      BY <3>1, <2>5
  <2> HIDE DEF h, Rec, Up
  <2> QED
    BY <2>1, <2>6
<1>6. Cardinality(D) \in Good
  <2> HIDE DEF Rec, Up
  <2>1. Good = Nat
    BY <1>4, <1>5, AllPlaces
  <2> QED
    BY <1>0, <2>1
<1>7. Up(Cardinality(D)) = SUBSET D
  BY <1>0, <1>1, FS_Subset
<1>8. \E g : g = [T \in SUBSET D |-> Rec(g, T)]
  <2> HIDE DEF Rec, Up
  <2> QED
    BY <1>6, <1>7
<1>9. f = [T \in SUBSET D |-> Rec(f, T)]
  <2> HIDE DEF Rec
  <2> QED
    BY <1>8, Zenon
<1>10. States(t) = f[D]
  BY DEF States, FoldLeft, MapThenFoldSet
<1> HIDE DEF f
<1>11. \A T \in SUBSET D : f[T] = Rec(f, T)
  <2> HIDE DEF Rec
  <2> QED
    BY <1>9
<1> DEFINE g == [k \in 0..n |-> f[1..k]]
<1>12. g[0] = <<Outside>>
  <2>1. 1..0 = {} /\ {} \in SUBSET D /\ 0 \in 0..n
    OBVIOUS
  <2>2. f[{}] = <<Outside>>
    BY <1>11, <2>1
  <2>3. g[0] = f[1..0]
    BY <2>1
  <2> QED
    BY <2>1, <2>2, <2>3
<1>13. g[n] = States(t)
  BY <1>10
<1>14. ASSUME NEW k \in 1..n PROVE g[k] = Append(g[k - 1], Step(Last(g[k - 1]), t[k]))
  <2>1. 1..k \in SUBSET D /\ 1..k # {} /\ k - 1 \in 0..n /\ k \in 0..n
    <3>1. k \in Nat /\ k >= 1 /\ k <= n
      OBVIOUS
    <3>2. \A x \in 1..k : x \in 1..n
      BY <3>1
    <3>3. k \in 1..k /\ k - 1 \in 0..n /\ k \in 0..n
      BY <3>1
    <3> QED
      BY <3>2, <3>3
  <2>2. Max(1..k) = k
    <3> DEFINE T == 1..k
    <3>1. k \in Nat /\ T \in SUBSET (1..k) /\ T # {} /\ k \in T
      BY <2>1
    <3> HIDE DEF T
    <3>2. Max(T) \in T /\ k <= Max(T)
      BY <3>1, GreatestPlace
    <3> DEFINE m == Max(T)
    <3>3. m \in T /\ k <= m
      BY <3>2
    <3> HIDE DEF m
    <3>4. m = k
      BY <3>3 DEF T
    <3> QED
      BY <3>4 DEF m, T
  <2>3. (1..k) \ {k} = 1..(k - 1)
    OBVIOUS
  <2>4. f[1..k] = Append(f[(1..k) \ {Max(1..k)}], Step(Last(f[(1..k) \ {Max(1..k)}]), t[Max(1..k)]))
    BY <1>11, <2>1
  <2> QED
    BY <2>1, <2>2, <2>3, <2>4
<1> QED
  BY <1>12, <1>13, <1>14

LEMMA StatesAre ==
    ASSUME NEW t, NEW n \in Nat, DOMAIN t = 1..n
    PROVE  /\ Len(States(t)) = n + 1 /\ States(t)[1] = Outside
           /\ \A j \in 1..n : States(t)[j + 1] = Step(States(t)[j], t[j])
<1>1. PICK g : /\ g[0] = <<Outside>> /\ g[n] = States(t)
               /\ \A k \in 1..n : g[k] = Append(g[k - 1], Step(Last(g[k - 1]), t[k]))
  BY StatesFold
<1> DEFINE Right(k) == /\ IsList(g[k]) /\ Len(g[k]) = k + 1 /\ g[k][1] = Outside
                       /\ \A j \in 1..k : g[k][j + 1] = Step(g[k][j], t[j])
           S == {k \in Nat : k <= n => Right(k)}
<1>2. 0 \in S
  <2>1. IsList(<<Outside>>) /\ Len(<<Outside>>) = 1 /\ <<Outside>>[1] = Outside
    BY DEF IsList, Range
  <2>2. 1..0 = {} /\ 0 + 1 = 1 /\ 0 \in Nat
    OBVIOUS
  <2>3. Right(0)
    BY <1>1, <2>1, <2>2
  <2> HIDE DEF Right
  <2> QED
    BY <2>2, <2>3
<1>3. ASSUME NEW k \in S PROVE k + 1 \in S
  <2> SUFFICES ASSUME k + 1 <= n PROVE Right(k + 1)
    OBVIOUS
  <2> DEFINE i == k + 1
             s == g[k]
             x == Step(Last(s), t[i])
  <2>1. k \in Nat /\ Right(k) /\ i \in 1..n /\ i - 1 = k
    OBVIOUS
  <2>2. IsList(s) /\ Len(s) = i /\ s[1] = Outside /\ \A j \in 1..k : s[j + 1] = Step(s[j], t[j])
    BY <2>1
  <2> HIDE DEF i, Right
  <2>3. g[i] = Append(s, x)
    BY <1>1, <2>1
  <2>4. Last(s) = s[i]
    BY <2>2 DEF Last
  <2> HIDE DEF s
  <2>5. /\ IsList(Append(s, x)) /\ Len(Append(s, x)) = i + 1
        /\ \A j \in 1..i : Append(s, x)[j] = s[j]
        /\ Append(s, x)[i + 1] = x
    <3> HIDE DEF x
    <3> QED
      BY <2>2, AppendIs
  <2>6. ASSUME NEW j \in 1..i PROVE Append(s, x)[j + 1] = Step(Append(s, x)[j], t[j])
    <3>1. CASE j = i
      BY <2>1, <2>4, <2>5, <3>1
    <3>2. CASE j # i
      <4>1. j \in 1..k /\ j + 1 \in 1..i
        BY <2>1, <3>2 DEF i
      <4> HIDE DEF x
      <4> QED
        BY <2>2, <2>5, <4>1
    <3> QED
      BY <3>1, <3>2
  <2>7. Append(s, x)[1] = Outside
    BY <2>1, <2>2, <2>5
  <2> HIDE DEF x
  <2> QED
    BY <2>3, <2>5, <2>6, <2>7 DEF Right, i
<1>4. n \in S
  <2>1. S \in SUBSET Nat
    OBVIOUS
  <2> HIDE DEF S
  <2> QED
    BY <1>2, <1>3, <2>1, AllPlaces
<1> QED
  BY <1>1, <1>4

(***************************************************************************)
(* A piece behind a text that ends outside of strings, expressions and     *)
(* brackets is scanned as if it stood alone.                               *)
(***************************************************************************)
Closed(t) == Last(States(t)) = Outside
Barred(t) == {i \in 1..Len(t) : t[i] = "|" /\ AtTop(States(t)[i])}

LEMMA TextFacts ==
    ASSUME NEW t \in Seq(STRING)
    PROVE  /\ Len(t) \in Nat /\ DOMAIN t = 1..Len(t)
           /\ Len(States(t)) = Len(t) + 1 /\ States(t)[1] = Outside
           /\ \A j \in 1..Len(t) : States(t)[j + 1] = Step(States(t)[j], t[j])
           /\ Last(States(t)) = States(t)[Len(t) + 1]
           /\ Barred(t) \in SUBSET (1..Len(t)) /\ Bars(t) = Ordered(Barred(t))
<1>1. Len(t) \in Nat /\ DOMAIN t = 1..Len(t)
  OBVIOUS
<1>2. /\ Len(States(t)) = Len(t) + 1 /\ States(t)[1] = Outside
      /\ \A j \in 1..Len(t) : States(t)[j + 1] = Step(States(t)[j], t[j])
  BY <1>1, StatesAre
<1>3. Last(States(t)) = States(t)[Len(t) + 1]
  BY <1>2 DEF Last
<1>4. Barred(t) \in SUBSET (1..Len(t)) /\ Bars(t) = Ordered(Barred(t))
  BY DEF Barred, Bars
<1> QED
  BY <1>1, <1>2, <1>3, <1>4

LEMMA JoinedText ==
    ASSUME NEW a \in Seq(STRING), NEW b \in Seq(STRING)
    PROVE  /\ a \o b \in Seq(STRING) /\ Len(a \o b) = Len(a) + Len(b)
           /\ \A i \in 1..Len(a) : (a \o b)[i] = a[i]
           /\ \A i \in 1..Len(b) : (a \o b)[Len(a) + i] = b[i]
  OBVIOUS

LEMMA JoinedStates ==
    ASSUME NEW a \in Seq(STRING), NEW b \in Seq(STRING), Closed(a)
    PROVE  /\ \A i \in 1..(Len(a) + 1) : States(a \o b)[i] = States(a)[i]
           /\ \A i \in 1..(Len(b) + 1) : States(a \o b)[Len(a) + i] = States(b)[i]
<1> DEFINE t == a \o b
           m == Len(a)
           n == Len(b)
           old == States(a)
           new == States(b)
           both == States(t)
<1>1. /\ m \in Nat /\ n \in Nat /\ t \in Seq(STRING) /\ Len(t) = m + n
      /\ \A i \in 1..m : t[i] = a[i]
      /\ \A i \in 1..n : t[m + i] = b[i]
  BY JoinedText, TextFacts
<1>2. old[1] = Outside /\ \A j \in 1..m : old[j + 1] = Step(old[j], a[j])
  BY TextFacts
<1>3. new[1] = Outside /\ \A j \in 1..n : new[j + 1] = Step(new[j], b[j])
  BY TextFacts
<1>4. both[1] = Outside /\ \A j \in 1..(m + n) : both[j + 1] = Step(both[j], t[j])
  BY <1>1, TextFacts
<1>5. old[m + 1] = Outside
  BY TextFacts DEF Closed
<1> HIDE DEF t, m, n, old, new, both
<1> DEFINE P == {k \in Nat : k <= m => both[k + 1] = old[k + 1]}
           Q == {k \in Nat : k <= n => both[m + k + 1] = new[k + 1]}
<1>6. P = Nat
  <2>1. 0 \in P
    BY <1>2, <1>4
  <2>2. ASSUME NEW k \in P PROVE k + 1 \in P
    <3> DEFINE i == k + 1
    <3>1. k \in Nat /\ i \in Nat /\ i >= 1 /\ (k <= m => both[i] = old[i])
      OBVIOUS
    <3>2. ASSUME i <= m PROVE both[i + 1] = old[i + 1]
      <4>1. i \in 1..m /\ i \in 1..(m + n) /\ k <= m
        BY <1>1, <3>1, <3>2
      <4> HIDE DEF i
      <4> QED
        BY <1>1, <1>2, <1>4, <3>1, <4>1
    <3> HIDE DEF i
    <3>3. i \in P
      BY <3>1, <3>2
    <3> QED
      BY <3>3 DEF i
  <2>3. P \in SUBSET Nat
    OBVIOUS
  <2> HIDE DEF P
  <2> QED
    BY <2>1, <2>2, <2>3, AllPlaces
<1>7. \A i \in 1..(m + 1) : both[i] = old[i]
  <2> SUFFICES ASSUME NEW i \in 1..(m + 1) PROVE both[i] = old[i]
    OBVIOUS
  <2> DEFINE k == i - 1
  <2>1. k \in Nat /\ k <= m /\ k + 1 = i
    BY <1>1
  <2> HIDE DEF k
  <2> QED
    BY <1>6, <2>1
<1>8. Q = Nat
  <2>1. 0 \in Q
    <3>1. both[m + 1] = old[m + 1]
      BY <1>1, <1>7
    <3>2. m + 0 + 1 = m + 1 /\ 0 + 1 = 1
      BY <1>1
    <3> QED
      BY <1>3, <1>5, <3>1, <3>2
  <2>2. ASSUME NEW k \in Q PROVE k + 1 \in Q
    <3> DEFINE i == k + 1
    <3>1. k \in Nat /\ i \in Nat /\ i >= 1 /\ (k <= n => both[m + k + 1] = new[i])
      OBVIOUS
    <3>2. ASSUME i <= n PROVE both[m + i + 1] = new[i + 1]
      <4>1. i \in 1..n /\ m + i \in 1..(m + n) /\ k <= n /\ m + k + 1 = m + i
        BY <1>1, <3>1, <3>2
      <4> HIDE DEF i
      <4>2. both[m + i] = new[i]
        BY <3>1, <4>1
      <4>3. both[m + i + 1] = Step(both[m + i], t[m + i]) /\ t[m + i] = b[i]
        BY <1>1, <1>4, <4>1
      <4> QED
        BY <1>3, <4>1, <4>2, <4>3
    <3> HIDE DEF i
    <3>3. i \in Q
      BY <3>1, <3>2
    <3> QED
      BY <3>3 DEF i
  <2>3. Q \in SUBSET Nat
    OBVIOUS
  <2> HIDE DEF Q
  <2> QED
    BY <2>1, <2>2, <2>3, AllPlaces
<1>9. \A i \in 1..(n + 1) : both[m + i] = new[i]
  <2> SUFFICES ASSUME NEW i \in 1..(n + 1) PROVE both[m + i] = new[i]
    OBVIOUS
  <2> DEFINE k == i - 1
  <2>1. k \in Nat /\ k <= n /\ k + 1 = i /\ m + k + 1 = m + i
    BY <1>1
  <2> HIDE DEF k
  <2> QED
    BY <1>8, <2>1
<1> QED
  BY <1>7, <1>9 DEF t, m, n, old, new, both

(***************************************************************************)
(* A set of places has one enumeration, and the next place behind them all *)
(* comes last in it.                                                       *)
(***************************************************************************)
LEMMA EnumeratesAll ==
    ASSUME NEW n \in Nat, NEW S \in SUBSET (1..n), NEW s, Enumerates(s, S), NEW v \in S
    PROVE  \E i \in DOMAIN s : s[i] = v
<1> SUFFICES ASSUME \A i \in DOMAIN s : s[i] # v PROVE FALSE
  OBVIOUS
<1> DEFINE k == Cardinality(S)
           D == 1..k
           T == S \ {v}
<1>1. IsFiniteSet(S) /\ k \in Nat
  <2>1. IsFiniteSet(1..n)
    BY FS_Interval
  <2> QED
    BY <2>1, FS_Subset, FS_CardinalityType
<1>2. IsFiniteSet(T) /\ Cardinality(T) = k - 1
  BY <1>1, FS_RemoveElement
<1>3. s \in [D -> S] /\ DOMAIN s = D /\ \A x, y \in D : x < y => s[x] < s[y]
  BY DEF Enumerates
<1> HIDE DEF k
<1>4. IsFiniteSet(D) /\ Cardinality(D) = k
  <2>1. k \in Int /\ 1 \in Int
    BY <1>1
  <2>2. IsFiniteSet(D) /\ Cardinality(D) = IF 1 > k THEN 0 ELSE k - 1 + 1
    BY <2>1, FS_Interval
  <2> QED
    BY <1>1, <2>2
<1>5. s \in [D -> T]
  BY <1>3
<1>6. Cardinality(T) < Cardinality(D) /\ \A x \in T : x \in Nat
  BY <1>1, <1>2, <1>4
<1> HIDE DEF T, D
<1>7. \E x, y \in D : x # y /\ s[x] = s[y]
  BY <1>2, <1>4, <1>5, <1>6, FS_PigeonHole
<1>8. PICK x \in D, y \in D : x # y /\ s[x] = s[y]
  BY <1>7
<1>9. s[x] \in Nat /\ s[y] \in Nat /\ ~(s[x] < s[y]) /\ ~(s[y] < s[x])
  BY <1>5, <1>6, <1>8
<1> QED
  BY <1>1, <1>3, <1>8, <1>9 DEF D

LEMMA EnumeratesOnce ==
    ASSUME NEW n \in Nat, NEW S \in SUBSET (1..n), NEW s, NEW r, Enumerates(s, S), Enumerates(r, S)
    PROVE  s = r
<1>0. \A v \in S : (\E i \in DOMAIN s : s[i] = v) /\ (\E i \in DOMAIN r : r[i] = v)
  BY EnumeratesAll
<1> DEFINE k == Cardinality(S)
           differ == {i \in 1..k : s[i] # r[i]}
<1>1. k \in Nat
  BY OrderedExists
<1>2. s \in [1..k -> S] /\ DOMAIN s = 1..k /\ \A i, j \in 1..k : i < j => s[i] < s[j]
  BY DEF Enumerates
<1>3. r \in [1..k -> S] /\ DOMAIN r = 1..k /\ \A i, j \in 1..k : i < j => r[i] < r[j]
  BY DEF Enumerates
<1>4. \A v \in S : v \in Nat /\ (\E i \in 1..k : s[i] = v) /\ (\E i \in 1..k : r[i] = v)
  <2>1. \A v \in S : v \in 1..n
    OBVIOUS
  <2> QED
    BY <1>0, <1>2, <1>3, <2>1
<1> HIDE DEF k
<1>5. differ = {}
  <2> SUFFICES ASSUME differ # {} PROVE FALSE
    OBVIOUS
  <2>0. differ \in SUBSET Nat
    BY <1>1
  <2>1. PICK i \in differ : \A j \in differ : i <= j
    BY <2>0, LeastPlace
  <2>2. i \in 1..k /\ s[i] # r[i] /\ \A j \in 1..k : j < i => s[j] = r[j]
    BY <1>1, <2>1
  <2>3. s[i] \in S /\ r[i] \in S /\ s[i] \in Nat /\ r[i] \in Nat
    BY <1>2, <1>3, <1>4, <2>2
  <2>4. PICK x \in 1..k : r[x] = s[i]
    BY <1>4, <2>3
  <2>5. PICK y \in 1..k : s[y] = r[i]
    BY <1>4, <2>3
  <2> HIDE DEF differ
  <2>6. CASE s[i] < r[i]
    <3>1. ~(i < x) /\ x # i
      <4>1. i < x => r[i] < r[x]
        BY <1>3, <2>2
      <4> QED
        BY <2>2, <2>3, <2>4, <2>6, <4>1
    <3>2. x < i
      BY <1>1, <2>2, <3>1
    <3>3. s[x] = r[x] /\ s[x] < s[i]
      BY <1>2, <2>2, <3>2
    <3> QED
      BY <2>3, <2>4, <3>3
  <2>7. CASE r[i] < s[i]
    <3>1. ~(i < y) /\ y # i
      <4>1. i < y => s[i] < s[y]
        BY <1>2, <2>2
      <4> QED
        BY <2>2, <2>3, <2>5, <2>7, <4>1
    <3>2. y < i
      BY <1>1, <2>2, <3>1
    <3>3. s[y] = r[y] /\ r[y] < r[i]
      BY <1>3, <2>2, <3>2
    <3> QED
      BY <2>3, <2>5, <3>3
  <2> QED
    BY <2>2, <2>3, <2>6, <2>7
<1>6. \A i \in 1..k : s[i] = r[i]
  BY <1>5
<1>7. s = [i \in 1..k |-> s[i]] /\ r = [i \in 1..k |-> r[i]]
  BY <1>2, <1>3
<1> QED
  BY <1>6, <1>7

LEMMA OrderedGrows ==
    ASSUME NEW n \in Nat, NEW S \in SUBSET (1..n)
    PROVE  /\ Ordered(S) \in Seq(Nat) /\ \A i \in DOMAIN Ordered(S) : Ordered(S)[i] \in 1..n
           /\ Ordered(S \cup {n + 1}) = Append(Ordered(S), n + 1)
<1> DEFINE k == Cardinality(S)
           T == S \cup {n + 1}
           s == Ordered(S)
           more == Append(s, n + 1)
<1>1. k \in Nat /\ s \in [1..k -> S] /\ \A i, j \in 1..k : i < j => s[i] < s[j]
  BY OrderedExists DEF Enumerates
<1>2. n + 1 \in Nat /\ T \in SUBSET (1..(n + 1)) /\ \A x \in S : x \in 1..n /\ x \in Nat
  OBVIOUS
<1>3. Cardinality(T) = k + 1
  <2>1. IsFiniteSet(1..n) /\ n + 1 \notin S
    BY FS_Interval
  <2>2. IsFiniteSet(S)
    BY <2>1, FS_Subset
  <2> QED
    BY <2>1, <2>2, FS_AddElement
<1> HIDE DEF s, k
<1>4. s \in Seq(Nat) /\ Len(s) = k /\ DOMAIN s = 1..k
  <2>1. s \in [1..k -> Nat] /\ DOMAIN s = 1..k
    BY <1>1, <1>2
  <2> QED
    BY <1>1, <2>1
<1>5. /\ DOMAIN more = 1..(k + 1)
      /\ \A i \in 1..k : more[i] = s[i]
      /\ more[k + 1] = n + 1
  BY <1>1, <1>2, <1>4
<1> HIDE DEF more
<1>6. Enumerates(more, T)
  <2>0. \A i \in 1..(k + 1) : i \in 1..k \/ i = k + 1
    BY <1>1
  <2>1. \A i \in 1..(k + 1) : more[i] \in T
    BY <1>1, <1>5, <2>0
  <2>2. ASSUME NEW i \in 1..(k + 1), NEW j \in 1..(k + 1), i < j PROVE more[i] < more[j]
    <3>1. i \in 1..k
      BY <1>1, <2>2
    <3>2. more[i] = s[i] /\ s[i] \in S /\ s[i] \in 1..n
      BY <1>1, <1>2, <1>5, <3>1
    <3>3. CASE j = k + 1
      BY <1>5, <3>2, <3>3
    <3>4. CASE j \in 1..k
      BY <1>1, <1>5, <2>2, <3>1, <3>4
    <3> QED
      BY <2>0, <3>3, <3>4
  <2>3. more \in [1..(k + 1) -> T]
    <3>1. more = [i \in 1..(k + 1) |-> more[i]]
      BY <1>4 DEF more
    <3> QED
      BY <2>1, <3>1
  <2> QED
    BY <1>3, <1>5, <2>2, <2>3 DEF Enumerates
<1>7. Enumerates(Ordered(T), T)
  BY <1>2, OrderedExists
<1>8. Ordered(T) = more
  <2> HIDE DEF T
  <2> QED
    BY <1>2, <1>6, <1>7, EnumeratesOnce
<1>9. \A i \in DOMAIN s : s[i] \in 1..n
  BY <1>1, <1>2, <1>4
<1> QED
  BY <1>4, <1>8, <1>9 DEF s, more

LEMMA BarsJoined ==
    ASSUME NEW a \in Seq(STRING), NEW b \in Seq(STRING), Closed(a), Barred(b) = {1}
    PROVE  Bars(a \o b) = Append(Bars(a), Len(a) + 1)
<1> DEFINE t == a \o b
           m == Len(a)
           n == Len(b)
<1>1. /\ m \in Nat /\ n \in Nat /\ t \in Seq(STRING) /\ Len(t) = m + n
      /\ \A i \in 1..m : t[i] = a[i]
      /\ \A i \in 1..n : t[m + i] = b[i]
  BY JoinedText, TextFacts
<1>2. /\ \A i \in 1..(m + 1) : States(t)[i] = States(a)[i]
      /\ \A i \in 1..(n + 1) : States(t)[m + i] = States(b)[i]
  BY JoinedStates
<1>3. Barred(a) \in SUBSET (1..m) /\ Bars(a) = Ordered(Barred(a)) /\ Bars(t) = Ordered(Barred(t))
  BY <1>1, TextFacts
<1> HIDE DEF t, m, n
<1>4. \A i \in 1..m : i \in Barred(t) <=> i \in Barred(a)
  <2>1. \A i \in 1..m : i \in 1..(m + n) /\ i \in 1..(m + 1)
    BY <1>1
  <2> QED
    BY <1>1, <1>2, <2>1 DEF Barred, m
<1>5. \A j \in 1..n : m + j \in Barred(t) <=> j \in Barred(b)
  <2>1. \A j \in 1..n : m + j \in 1..(m + n) /\ j \in 1..(n + 1)
    BY <1>1
  <2> QED
    BY <1>1, <1>2, <2>1 DEF Barred, n
<1>6. Barred(t) \in SUBSET (1..(m + n)) /\ 1 \in 1..n
  BY <1>1 DEF Barred, n
<1>7. Barred(t) = Barred(a) \cup {m + 1}
  <2>1. ASSUME NEW i \in 1..(m + n) PROVE i \in Barred(t) <=> i \in Barred(a) \cup {m + 1}
    <3>1. CASE i \in 1..m
      BY <1>1, <1>4, <3>1
    <3>2. CASE i \notin 1..m
      <4> DEFINE j == i - m
      <4>1. j \in 1..n /\ i = m + j /\ (j = 1 <=> i = m + 1)
        BY <1>1, <3>2
      <4> HIDE DEF j
      <4>2. i \in Barred(t) <=> j = 1
        BY <1>5, <4>1
      <4> QED
        BY <1>3, <3>2, <4>1, <4>2
    <3> QED
      BY <3>1, <3>2
  <2>2. Barred(a) \cup {m + 1} \in SUBSET (1..(m + n))
    BY <1>1, <1>3, <1>6
  <2> QED
    BY <1>6, <2>1, <2>2
<1>8. Ordered(Barred(a) \cup {m + 1}) = Append(Ordered(Barred(a)), m + 1)
  BY <1>1, <1>3, OrderedGrows
<1> QED
  BY <1>3, <1>7, <1>8 DEF t, m

LEMMA FrontPart ==
    ASSUME NEW a \in Seq(STRING), NEW b \in Seq(STRING), NEW low \in Nat, low >= 1,
           NEW high \in Int, high <= Len(a)
    PROVE  SubSeq(a \o b, low, high) = SubSeq(a, low, high)
<1>1. /\ a \o b \in Seq(STRING) /\ Len(a \o b) = Len(a) + Len(b) /\ Len(a) \in Nat /\ Len(b) \in Nat
      /\ \A i \in 1..Len(a) : (a \o b)[i] = a[i]
  BY JoinedText
<1> DEFINE t == a \o b
           size == high - low + 1
<1> HIDE DEF t
<1>2. SubSeq(t, low, high) = [i \in 1..size |-> t[i + low - 1]]
  BY DEF SubSeq
<1>3. SubSeq(a, low, high) = [i \in 1..size |-> a[i + low - 1]]
  BY DEF SubSeq
<1>4. \A i \in 1..size : i + low - 1 \in 1..Len(a)
  BY <1>1
<1>5. \A i \in 1..size : t[i + low - 1] = a[i + low - 1]
  BY <1>1, <1>4 DEF t
<1> QED
  BY <1>2, <1>3, <1>5 DEF t

LEMMA BackPart ==
    ASSUME NEW a \in Seq(STRING), NEW b \in Seq(STRING), b # <<>>
    PROVE  SubSeq(a \o b, Len(a) + 2, Len(a \o b)) = Tail(b)
<1> DEFINE t == a \o b
           m == Len(a)
           n == Len(b)
<1>1. /\ Len(t) = m + n /\ m \in Nat /\ n \in Nat /\ n >= 1
      /\ \A i \in 1..n : t[m + i] = b[i]
  BY JoinedText
<1> HIDE DEF t, m, n
<1> DEFINE part == SubSeq(t, m + 2, m + n)
           k == n - 1
<1>2. t \in Seq(STRING) /\ k \in Nat /\ m + 2 \in Nat /\ m + n \in Nat
  BY <1>1 DEF t
<1>3. Tail(b) \in Seq(STRING) /\ Len(Tail(b)) = k /\ \A i \in 1..k : Tail(b)[i] = b[i + 1]
  BY <1>1 DEF n
<1>4. part \in Seq(STRING) /\ Len(part) = k /\ \A i \in 1..k : part[i] = t[m + (i + 1)]
  <2> DEFINE low == m + 2
             high == m + n
  <2>1. /\ low \in Nat /\ high \in Nat /\ low >= 1 /\ high <= Len(t) /\ low <= high + 1 /\ high - low + 1 = k
        /\ \A i \in 1..k : low + i - 1 = m + (i + 1)
    BY <1>1
  <2> HIDE DEF low, high
  <2>2. /\ SubSeq(t, low, high) \in Seq(STRING) /\ Len(SubSeq(t, low, high)) = high - low + 1
        /\ \A i \in 1..(high - low + 1) : SubSeq(t, low, high)[i] = t[low + i - 1]
    BY <1>2, <2>1
  <2> QED
    BY <2>1, <2>2 DEF low, high
<1> HIDE DEF part, k
<1>5. \A i \in 1..k : Tail(b)[i] = part[i]
  <2>1. \A i \in 1..k : i + 1 \in 1..n
    BY <1>1 DEF k
  <2> QED
    BY <1>1, <1>3, <1>4, <2>1
<1>6. Tail(b) = part
  BY <1>2, <1>3, <1>4, <1>5
<1> QED
  BY <1>1, <1>6 DEF t, m, part

LEMMA CutIs ==
    ASSUME NEW t \in Seq(STRING), NEW p \in Seq(Nat), Bars(t) = p
    PROVE  /\ DOMAIN SplitTopLevel(t) = 1..(Len(p) + 1) /\ IsList(SplitTopLevel(t))
           /\ Len(SplitTopLevel(t)) = Len(p) + 1
           /\ \A k \in 1..(Len(p) + 1) :
                 SplitTopLevel(t)[k] = SubSeq(t, IF k = 1 THEN 1 ELSE p[k - 1] + 1,
                                                 IF k > Len(p) THEN Len(t) ELSE p[k] - 1)
<1> DEFINE cut == SplitTopLevel(t)
           low(k) == IF k = 1 THEN 1 ELSE p[k - 1] + 1
           high(k) == IF k > Len(p) THEN Len(t) ELSE p[k] - 1
           n == Len(p) + 1
<1>1. cut = [k \in 1..n |-> SubSeq(t, low(k), high(k))] /\ n \in Nat
  BY DEF SplitTopLevel, Parts
<1> HIDE DEF cut, low, high, n
<1>2. DOMAIN cut = 1..n /\ \A k \in 1..n : cut[k] = SubSeq(t, low(k), high(k))
  BY <1>1
<1>3. cut \in [1..n -> Range(cut)]
  BY <1>1, <1>2 DEF Range
<1>4. IsList(cut) /\ Len(cut) = n
  BY <1>1, <1>3 DEF IsList
<1> QED
  BY <1>2, <1>4 DEF cut, low, high, n

LEMMA CutJoined ==
    ASSUME NEW a \in Seq(STRING), NEW b \in Seq(STRING), Closed(a), Barred(b) = {1}
    PROVE  \E k \in Nat :
              /\ Len(SplitTopLevel(a)) = k + 1 /\ Len(SplitTopLevel(a \o b)) = k + 2
              /\ IsList(SplitTopLevel(a)) /\ IsList(SplitTopLevel(a \o b))
              /\ \A i \in 1..(k + 1) : SplitTopLevel(a \o b)[i] = SplitTopLevel(a)[i]
              /\ SplitTopLevel(a \o b)[k + 2] = Tail(b)
<1> DEFINE t == a \o b
           m == Len(a)
           p == Bars(a)
           q == Append(p, m + 1)
           k == Len(p)
<1>1. m \in Nat /\ t \in Seq(STRING)
  BY JoinedText
<1>2. p \in Seq(Nat) /\ k \in Nat /\ \A i \in 1..k : p[i] \in 1..m
  <2>1. Barred(a) \in SUBSET (1..m) /\ p = Ordered(Barred(a))
    BY TextFacts
  <2> HIDE DEF p, m, k
  <2>2. p \in Seq(Nat) /\ \A i \in DOMAIN p : p[i] \in 1..m
    BY <1>1, <2>1, OrderedGrows
  <2> QED
    BY <2>2 DEF k
<1>3. Bars(t) = q
  BY BarsJoined
<1> HIDE DEF p
<1>4. /\ q \in Seq(Nat) /\ Len(q) = k + 1
      /\ \A i \in 1..k : q[i] = p[i]
      /\ q[k + 1] = m + 1
  BY <1>1, <1>2
<1>5. b # <<>>
  <2>1. 1 \in Barred(b)
    OBVIOUS
  <2>2. 1 \in 1..Len(b)
    BY <2>1 DEF Barred
  <2> QED
    BY <2>2
<1>6. /\ Len(SplitTopLevel(a)) = k + 1 /\ IsList(SplitTopLevel(a))
      /\ \A i \in 1..(k + 1) :
            SplitTopLevel(a)[i] = SubSeq(a, IF i = 1 THEN 1 ELSE p[i - 1] + 1, IF i > k THEN m ELSE p[i] - 1)
  BY <1>2, CutIs DEF p
<1> HIDE DEF k, q, t, m
<1>7. /\ Len(SplitTopLevel(t)) = k + 2 /\ IsList(SplitTopLevel(t))
      /\ \A i \in 1..(k + 2) :
            SplitTopLevel(t)[i] = SubSeq(t, IF i = 1 THEN 1 ELSE q[i - 1] + 1, IF i > k + 1 THEN Len(t) ELSE q[i] - 1)
  <2>1. Len(q) + 1 = k + 2 /\ Len(q) = k + 1
    BY <1>2, <1>4
  <2>2. /\ IsList(SplitTopLevel(t)) /\ Len(SplitTopLevel(t)) = Len(q) + 1
        /\ \A i \in 1..(Len(q) + 1) :
              SplitTopLevel(t)[i] = SubSeq(t, IF i = 1 THEN 1 ELSE q[i - 1] + 1,
                                              IF i > Len(q) THEN Len(t) ELSE q[i] - 1)
    BY <1>1, <1>3, <1>4, CutIs, Zenon
  <2> QED
    BY <2>1, <2>2
<1>8. ASSUME NEW i \in 1..(k + 1) PROVE SplitTopLevel(t)[i] = SplitTopLevel(a)[i]
  <2> DEFINE low == IF i = 1 THEN 1 ELSE p[i - 1] + 1
             high == IF i > k THEN m ELSE p[i] - 1
  <2>1. i \in 1..(k + 2) /\ i \in Nat /\ ~(i > k + 1) /\ (i = k + 1 \/ i \in 1..k) /\ (i # 1 => i - 1 \in 1..k)
    BY <1>2
  <2>2. (IF i = 1 THEN 1 ELSE q[i - 1] + 1) = low
    BY <1>4, <2>1
  <2>3. (IF i > k + 1 THEN Len(t) ELSE q[i] - 1) = high
    <3>1. CASE i = k + 1
      BY <1>1, <1>2, <1>4, <2>1, <3>1
    <3>2. CASE i \in 1..k
      BY <1>2, <1>4, <2>1, <3>2
    <3> QED
      BY <2>1, <3>1, <3>2
  <2>4. low \in Nat /\ low >= 1
    BY <1>1, <1>2, <2>1
  <2>5. high \in Int /\ high <= m
    <3>1. CASE i = k + 1
      BY <1>1, <1>2, <3>1
    <3>2. CASE i \in 1..k
      <4>1. p[i] \in 1..m /\ ~(i > k)
        BY <1>2, <3>2
      <4> QED
        BY <1>1, <4>1
    <3> QED
      BY <2>1, <3>1, <3>2
  <2> HIDE DEF low, high
  <2>6. SplitTopLevel(t)[i] = SubSeq(t, low, high)
    BY <1>7, <2>1, <2>2, <2>3
  <2>7. SplitTopLevel(a)[i] = SubSeq(a, low, high)
    BY <1>6 DEF low, high
  <2>8. SubSeq(t, low, high) = SubSeq(a, low, high)
    BY <2>4, <2>5, FrontPart DEF t, m
  <2> QED
    BY <2>6, <2>7, <2>8
<1>9. SplitTopLevel(t)[k + 2] = Tail(b)
  <2> DEFINE i == k + 2
  <2>1. i \in 1..(k + 2) /\ i # 1 /\ i - 1 = k + 1 /\ i > k + 1 /\ m + 1 + 1 = m + 2
    BY <1>1, <1>2
  <2> HIDE DEF i
  <2>2. SplitTopLevel(t)[i] = SubSeq(t, q[i - 1] + 1, Len(t))
    BY <1>7, <2>1
  <2>3. q[i - 1] + 1 = m + 2
    BY <1>4, <2>1
  <2>4. SubSeq(t, m + 2, Len(t)) = Tail(b)
    BY <1>5, BackPart DEF t, m
  <2> QED
    BY <2>2, <2>3, <2>4 DEF i
<1> QED
  BY <1>2, <1>6, <1>7, <1>8, <1>9 DEF t

LEMMA ClosedJoined ==
    ASSUME NEW a \in Seq(STRING), NEW b \in Seq(STRING), Closed(a), Closed(b)
    PROVE  Closed(a \o b)
<1>1. a \o b \in Seq(STRING) /\ Len(a \o b) = Len(a) + Len(b) /\ Len(a) \in Nat /\ Len(b) \in Nat
  BY JoinedText, TextFacts
<1>2. Last(States(a \o b)) = States(a \o b)[Len(a \o b) + 1]
  BY <1>1, TextFacts
<1>3. States(a \o b)[Len(a) + (Len(b) + 1)] = States(b)[Len(b) + 1]
  <2>1. Len(b) + 1 \in 1..(Len(b) + 1)
    BY <1>1
  <2> QED
    BY <2>1, JoinedStates
<1>4. Len(a \o b) + 1 = Len(a) + (Len(b) + 1)
  BY <1>1
<1>5. States(b)[Len(b) + 1] = Outside
  BY TextFacts DEF Closed
<1> QED
  BY <1>2, <1>3, <1>4, <1>5 DEF Closed

LEMMA ClosedScans ==
    ASSUME NEW t, Closed(t)
    PROVE  ScanError(t) = "none"
<1>1. Outside.mode = "code" /\ \A b \in DOMAIN Opening : Outside.depth[b] = 0
  BY DEF Outside
<1>2. AtTop(Outside)
  BY <1>1 DEF AtTop
<1> HIDE DEF Outside
<1>3. ErrorAt(Outside) = "none"
  BY <1>1, <1>2 DEF ErrorAt
<1> QED
  BY <1>3 DEF ScanError, Closed

(***************************************************************************)
(* A text that is parsed, and behind it a piece of one stage, is parsed to *)
(* its query and that stage.                                               *)
(***************************************************************************)
LEMMA ParseJoined ==
    ASSUME NEW a \in Seq(STRING), NEW b \in Seq(STRING), Closed(a), Closed(b), Barred(b) = {1},
           ~Failed(ParseText(a)), ParseStage(Tail(b)) # Bad
    PROVE  ParseText(a \o b) = [from |-> ParseText(a).from,
                                pipe |-> Append(ParseText(a).pipe, ParseStage(Tail(b)))]
<1> DEFINE t == a \o b
           cutA == SplitTopLevel(a)
           cutT == SplitTopLevel(t)
           source == ParseSource(cutA[1])
           stage == ParseStage(Tail(b))
<1>1. PICK k \in Nat : /\ Len(cutA) = k + 1 /\ Len(cutT) = k + 2 /\ IsList(cutA) /\ IsList(cutT)
                       /\ \A i \in 1..(k + 1) : cutT[i] = cutA[i]
                       /\ cutT[k + 2] = Tail(b)
  BY CutJoined
<1>2. ScanError(a) = "none" /\ ScanError(t) = "none"
  BY ClosedJoined, ClosedScans
<1>3. ~Failed(Sourced(a))
  BY DEF ParseText
<1> HIDE DEF t, cutA, cutT
<1>4. source # Bad /\ Sourced(a) = [from |-> source.dataset, segments |-> Tail(cutA)]
  BY <1>2, <1>3 DEF Sourced, Failed, Failure, cutA
<1>5. Sourced(t) = [from |-> source.dataset, segments |-> Tail(cutT)]
  <2>1. cutT[1] = cutA[1]
    BY <1>1
  <2> QED
    BY <1>2, <1>4, <2>1 DEF Sourced, cutT
<1> DEFINE old == Tail(cutA)
           new == Tail(cutT)
           from == source.dataset
<1> HIDE DEF source
<1>6. /\ DOMAIN old = 1..k /\ \A i \in 1..k : old[i] = cutA[i + 1]
  BY <1>1 DEF IsList
<1>7. /\ DOMAIN new = 1..(k + 1) /\ \A i \in 1..(k + 1) : new[i] = cutT[i + 1]
  BY <1>1 DEF IsList
<1> HIDE DEF old, new, from, stage
<1>8. \A i \in 1..k : new[i] = old[i]
  <2>1. \A i \in 1..k : i \in 1..(k + 1) /\ i + 1 \in 1..(k + 1)
    BY <1>1
  <2> QED
    BY <1>1, <1>6, <1>7, <2>1
<1>9. new[k + 1] = Tail(b)
  <2>1. k + 1 \in 1..(k + 1) /\ k + 1 + 1 = k + 2
    BY <1>1
  <2> QED
    BY <1>1, <1>7, <2>1
<1> DEFINE headA == [from |-> from, segments |-> old]
           headT == [from |-> from, segments |-> new]
<1>10. /\ Sourced(a) = headA /\ ~Failed(headA) /\ headA.segments = old /\ headA.from = from
       /\ Sourced(t) = headT /\ ~Failed(headT) /\ headT.segments = new /\ headT.from = from
  BY <1>4, <1>5 DEF Failed, old, new, from
<1> HIDE DEF headA, headT
<1>11. Clean(old, k)
  <2> SUFFICES ASSUME ~Clean(old, k) PROVE FALSE
    OBVIOUS
  <2>1. PICK i \in 1..k : ParseText(a) = [failed |-> "stage", stage |-> i]
    BY <1>6, <1>10, StrictRuns
  <2> QED
    BY <2>1 DEF Failed
<1>12. ParseText(a) = [from |-> from, pipe |-> [i \in 1..k |-> ParseStage(old[i])]]
  BY <1>6, <1>10, <1>11, StrictRuns
<1>13. Clean(new, k + 1)
  <2> SUFFICES ASSUME NEW i \in 1..(k + 1) PROVE ParseStage(new[i]) # Bad
    BY DEF Clean
  <2>1. i \in 1..k \/ i = k + 1
    BY <1>1
  <2> QED
    BY <1>8, <1>9, <1>11, <2>1 DEF Clean
<1>14. ParseText(t) = [from |-> from, pipe |-> [i \in 1..(k + 1) |-> ParseStage(new[i])]]
  <2>1. k + 1 \in Nat
    BY <1>1
  <2> QED
    BY <1>7, <1>10, <1>13, <2>1, StrictRuns
<1> DEFINE stages == [i \in 1..k |-> ParseStage(old[i])]
           more == [i \in 1..(k + 1) |-> ParseStage(new[i])]
<1>15. more = Append(stages, stage)
  <2>1. stages \in [1..k -> Range(stages)]
    BY DEF Range
  <2>2. IsList(stages) /\ Len(stages) = k
    BY <2>1 DEF IsList
  <2>3. /\ DOMAIN Append(stages, stage) = 1..(k + 1) /\ IsList(Append(stages, stage))
        /\ \A j \in 1..k : Append(stages, stage)[j] = stages[j]
        /\ Append(stages, stage)[k + 1] = stage
    <3> HIDE DEF stages
    <3> QED
      BY <2>2, AppendIs
  <2>4. \A j \in 1..(k + 1) : Append(stages, stage)[j] = more[j]
    <3>1. \A j \in 1..(k + 1) : j \in 1..k \/ j = k + 1
      BY <1>1
    <3>2. \A j \in 1..k : stages[j] = ParseStage(old[j])
      OBVIOUS
    <3>3. \A j \in 1..(k + 1) : more[j] = ParseStage(new[j])
      OBVIOUS
    <3> HIDE DEF stages, more
    <3> QED
      BY <1>8, <1>9, <2>3, <3>1, <3>2, <3>3 DEF stage
  <2>5. Append(stages, stage) = [j \in 1..(k + 1) |-> Append(stages, stage)[j]]
    <3> DEFINE w == Append(stages, stage)
    <3>1. w \in Seq(Range(w)) /\ DOMAIN w = 1..(k + 1)
      BY <2>3 DEF IsList
    <3> HIDE DEF w
    <3>2. w = [j \in 1..(k + 1) |-> w[j]]
      BY <3>1
    <3> QED
      BY <3>2 DEF w
  <2>6. more = [j \in 1..(k + 1) |-> more[j]]
    OBVIOUS
  <2> HIDE DEF stages, more
  <2> QED
    BY <2>4, <2>5, <2>6
<1>16. ParseText(a).from = from /\ ParseText(a).pipe = stages
  BY <1>12
<1>17. ParseText(t) = [from |-> from, pipe |-> more]
  BY <1>14
<1> HIDE DEF stages, more
<1>18. ParseText(t) = [from |-> ParseText(a).from, pipe |-> Append(ParseText(a).pipe, stage)]
  BY <1>15, <1>16, <1>17
<1> QED
  BY <1>18 DEF t, stage

(***************************************************************************)
(* A piece alone means what it says: an opening is a query the parser      *)
(* gives; what is typed behind it is a bar and the words of one stage,     *)
(* with all strings, expressions and brackets closed.                      *)
(***************************************************************************)
Sound(means) == \A i \in DOMAIN means : means[i] # Bad
Query(means) == [from |-> Head(means).dataset, pipe |-> Tail(means)]
Said(t, means) ==
    /\ IsList(means) /\ means # <<>>
    /\ Sound(means) => Closed(t) /\ ParseText(t) = Query(means)

PiecesMean ==
    \A u \in Uris :
        /\ \A t \in Openings[u] : Said(t.says, t.means)
        /\ \A t \in Additions[u] :
              t.means # Bad => /\ Closed(t.says) /\ Barred(t.says) = {1}
                               /\ ParseStage(Tail(t.says)) = t.means

SaidInv ==
    /\ DOMAIN meant = DOMAIN text /\ DOMAIN text \in SUBSET Uris
    /\ \A u \in DOMAIN text : text[u] \in Seq(STRING) /\ Said(text[u], meant[u])

LEMMA SaidJoined ==
    ASSUME NEW a \in Seq(STRING), NEW means, Said(a, means), NEW b \in Seq(STRING), NEW stage,
           stage # Bad => Closed(b) /\ Barred(b) = {1} /\ ParseStage(Tail(b)) = stage
    PROVE  a \o b \in Seq(STRING) /\ Said(a \o b, Append(means, stage))
<1> DEFINE more == Append(means, stage)
<1>1. /\ IsList(more) /\ Len(means) \in Nat /\ Len(more) = Len(means) + 1
      /\ DOMAIN more = 1..(Len(means) + 1)
      /\ \A j \in 1..Len(means) : more[j] = means[j]
      /\ more[Len(means) + 1] = stage
  BY AppendIs DEF Said
<1>2. DOMAIN means = 1..Len(means) /\ means # <<>> /\ Len(means) >= 1
  BY DEF Said, IsList
<1> HIDE DEF more
<1>3. more # <<>>
  BY <1>1, <1>2
<1>4. Head(more) = Head(means)
  BY <1>1, <1>2 DEF Said, IsList
<1>5. Tail(more) = Append(Tail(means), stage)
  <2> DEFINE S == Range(means) \cup {stage}
             n == Len(means)
             left == Tail(more)
             right == Append(Tail(means), stage)
  <2>1. means \in Seq(S) /\ stage \in S
    BY DEF Said, IsList
  <2> HIDE DEF S
  <2>2. n \in Nat /\ n >= 1 /\ more \in Seq(S) /\ Len(more) = n + 1
    BY <1>2, <2>1 DEF more
  <2> HIDE DEF n
  <2>3. left \in Seq(S) /\ Len(left) = n /\ \A i \in 1..n : left[i] = more[i + 1]
    BY <2>2
  <2>4. Tail(means) \in Seq(S) /\ Len(Tail(means)) = n - 1 /\ \A i \in 1..(n - 1) : Tail(means)[i] = means[i + 1]
    BY <1>2, <2>1, <2>2 DEF n
  <2> DEFINE rest == Tail(means)
  <2> HIDE DEF rest
  <2>5. /\ right \in Seq(S) /\ Len(right) = n /\ \A i \in 1..(n - 1) : right[i] = rest[i]
        /\ right[n] = stage
    BY <2>1, <2>2, <2>4 DEF rest
  <2> HIDE DEF left, right
  <2>6. \A i \in 1..n : left[i] = right[i]
    <3> SUFFICES ASSUME NEW i \in 1..n PROVE left[i] = right[i]
      OBVIOUS
    <3>1. CASE i = n
      BY <1>1, <2>2, <2>3, <2>5, <3>1 DEF n
    <3>2. CASE i \in 1..(n - 1)
      <4>1. i + 1 \in 1..n
        BY <2>2, <3>2
      <4>2. more[i + 1] = means[i + 1]
        BY <1>1, <4>1 DEF n
      <4>3. left[i] = more[i + 1] /\ right[i] = rest[i] /\ rest[i] = means[i + 1]
        BY <2>3, <2>4, <2>5, <3>2 DEF rest
      <4> QED
        BY <4>2, <4>3
    <3>3. i = n \/ i \in 1..(n - 1)
      BY <2>2
    <3> QED
      BY <3>1, <3>2, <3>3
  <2>7. left = right
    BY <2>2, <2>3, <2>5, <2>6
  <2> QED
    BY <2>7 DEF left, right
<1>6. ASSUME Sound(more) PROVE Closed(a \o b) /\ ParseText(a \o b) = Query(more)
  <2>1. stage # Bad /\ Sound(means)
    <3>1. Len(means) + 1 \in 1..(Len(means) + 1)
      BY <1>1
    <3>2. \A i \in 1..Len(means) : i \in 1..(Len(means) + 1)
      BY <1>1
    <3> QED
      BY <1>1, <1>2, <1>6, <3>1, <3>2 DEF Sound
  <2>2. Closed(a) /\ ParseText(a) = Query(means)
    BY <2>1 DEF Said
  <2>3. ~Failed(ParseText(a))
    BY <2>2 DEF Failed, Query
  <2>4. Closed(b) /\ Barred(b) = {1} /\ ParseStage(Tail(b)) = stage
    BY <2>1
  <2>5. ParseText(a \o b) = [from |-> ParseText(a).from, pipe |-> Append(ParseText(a).pipe, stage)]
    BY <2>1, <2>2, <2>3, <2>4, ParseJoined
  <2>6. ParseText(a).from = Head(means).dataset /\ ParseText(a).pipe = Tail(means)
    BY <2>2 DEF Query
  <2>7. ParseText(a \o b) = Query(more)
    BY <1>4, <1>5, <2>5, <2>6 DEF Query
  <2> QED
    BY <2>2, <2>4, <2>7, ClosedJoined
<1>7. a \o b \in Seq(STRING)
  BY JoinedText
<1> QED
  BY <1>1, <1>3, <1>6, <1>7 DEF Said, more

LEMMA SaidStep == PiecesMean /\ SaidInv /\ [Next]_vars => SaidInv'
<1> SUFFICES ASSUME PiecesMean, SaidInv, [Next]_vars PROVE SaidInv'
  OBVIOUS
<1>1. CASE UNCHANGED <<text, meant>>
  BY <1>1 DEF SaidInv
<1>2. ASSUME NEW u \in Uris, NEW t \in Openings[u], Open(u, t) PROVE SaidInv'
  <2>1. /\ text' = [v \in DOMAIN text \cup {u} |-> IF v = u THEN t.says ELSE text[v]]
        /\ meant' = [v \in DOMAIN meant \cup {u} |-> IF v = u THEN t.means ELSE meant[v]]
    BY <1>2 DEF Open
  <2>2. t.says \in Seq(STRING) /\ Said(t.says, t.means)
    BY EditorAssumption DEF PiecesMean
  <2>3. DOMAIN meant' = DOMAIN text' /\ DOMAIN text' \in SUBSET Uris
    BY <2>1 DEF SaidInv
  <2>4. ASSUME NEW v \in DOMAIN text' PROVE text'[v] \in Seq(STRING) /\ Said(text'[v], meant'[v])
    <3>1. CASE v = u
      <4>1. text'[v] = t.says /\ meant'[v] = t.means
        BY <2>1, <2>3, <3>1
      <4> QED
        BY <2>2, <4>1
    <3>2. CASE v # u
      <4>1. v \in DOMAIN text /\ text'[v] = text[v] /\ meant'[v] = meant[v]
        BY <2>1, <2>3, <3>2
      <4> QED
        BY <4>1 DEF SaidInv
    <3> QED
      BY <3>1, <3>2
  <2>5. \A v \in DOMAIN text' : text'[v] \in Seq(STRING) /\ Said(text'[v], meant'[v])
    BY <2>4
  <2> QED
    BY <2>3, <2>5 DEF SaidInv
<1>3. ASSUME NEW u \in Uris, NEW t \in Additions[u], Type(u, t) PROVE SaidInv'
  <2>1. /\ u \in DOMAIN text
        /\ text' = [text EXCEPT ![u] = @ \o t.says]
        /\ meant' = [meant EXCEPT ![u] = Append(@, t.means)]
    BY <1>3 DEF Type
  <2>2. t.says \in Seq(STRING)
    BY EditorAssumption
  <2>3. t.means # Bad => Closed(t.says) /\ Barred(t.says) = {1} /\ ParseStage(Tail(t.says)) = t.means
    BY DEF PiecesMean
  <2>4. text[u] \in Seq(STRING) /\ Said(text[u], meant[u])
    BY <2>1 DEF SaidInv
  <2>5. text[u] \o t.says \in Seq(STRING) /\ Said(text[u] \o t.says, Append(meant[u], t.means))
    BY <2>2, <2>3, <2>4, SaidJoined
  <2>6. DOMAIN meant' = DOMAIN text' /\ DOMAIN text' = DOMAIN text /\ DOMAIN text' \in SUBSET Uris
    BY <2>1 DEF SaidInv
  <2>7. ASSUME NEW v \in DOMAIN text' PROVE text'[v] \in Seq(STRING) /\ Said(text'[v], meant'[v])
    <3>1. CASE v = u
      <4>1. text'[v] = text[u] \o t.says /\ meant'[v] = Append(meant[u], t.means)
        BY <2>1, <2>6, <3>1
      <4> QED
        BY <2>5, <4>1
    <3>2. CASE v # u
      <4>1. v \in DOMAIN text /\ text'[v] = text[v] /\ meant'[v] = meant[v]
        BY <2>1, <2>6, <3>2
      <4> QED
        BY <4>1 DEF SaidInv
    <3> QED
      BY <3>1, <3>2
  <2>8. \A v \in DOMAIN text' : text'[v] \in Seq(STRING) /\ Said(text'[v], meant'[v])
    BY <2>7
  <2> QED
    BY <2>6, <2>8 DEF SaidInv
<1>4. ASSUME NEW u \in Uris, Close(u) PROVE SaidInv'
  <2>1. /\ text' = [v \in DOMAIN text \ {u} |-> text[v]]
        /\ meant' = [v \in DOMAIN meant \ {u} |-> meant[v]]
    BY <1>4 DEF Close
  <2>2. DOMAIN meant' = DOMAIN text' /\ DOMAIN text' \in SUBSET Uris
    BY <2>1 DEF SaidInv
  <2>3. \A v \in DOMAIN text' : v \in DOMAIN text /\ text'[v] = text[v] /\ meant'[v] = meant[v]
    BY <2>1, <2>2
  <2>4. \A v \in DOMAIN text' : text'[v] \in Seq(STRING) /\ Said(text'[v], meant'[v])
    BY <2>3 DEF SaidInv
  <2> QED
    BY <2>2, <2>4 DEF SaidInv
<1>5. ASSUME NEW u \in Uris, Touch(u) \/ Ask(u) \/ \E services \in Hosts : HostCompletes(u, services)
      PROVE  SaidInv'
  BY <1>1, <1>5 DEF Touch, Ask, HostCompletes
<1>6. CASE Serve
  BY <1>1, <1>6 DEF Serve, DidOpen, DidChange, DidClose, Completion, Handle
<1>7. ASSUME NEW stages \in Submissions, Submit(stages) PROVE SaidInv'
  BY <1>1, <1>7 DEF Submit
<1>8. CASE UNCHANGED vars
  BY <1>1, <1>8 DEF vars
<1> QED
  BY <1>2, <1>3, <1>4, <1>5, <1>6, <1>7, <1>8 DEF Next

(***************************************************************************)
(* However a text is put together of pieces that mean what they say, it    *)
(* means what they say: no string, bracket or bar of one stage is taken    *)
(* for another's (MeansWhatItSays).                                        *)
(***************************************************************************)
THEOREM StagesKeepMeaning == ASSUME PiecesMean PROVE Spec => []MeansWhatItSays
<1>1. Init => SaidInv
  BY DEF Init, SaidInv
<1>2. SaidInv /\ [Next]_vars => SaidInv'
  BY SaidStep
<1>3. SaidInv => MeansWhatItSays
  <2> SUFFICES ASSUME SaidInv, NEW u \in DOMAIN text, \A i \in DOMAIN meant[u] : meant[u][i] # Bad
               PROVE  ParseText(text[u]) = [from |-> Head(meant[u]).dataset, pipe |-> Tail(meant[u])]
    BY DEF MeansWhatItSays
  <2>1. Said(text[u], meant[u]) /\ Sound(meant[u])
    BY DEF SaidInv, Sound
  <2> QED
    BY <2>1 DEF Said, Query
<1> QED
  BY <1>1, <1>2, <1>3, PTL DEF Spec

===============================================================================
