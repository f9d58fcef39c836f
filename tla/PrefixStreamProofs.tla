-------------------------- MODULE PrefixStreamProofs --------------------------
(***************************************************************************)
(* Theorems about PrefixStream, for every table, prefix, MaxRows, MaxLimit *)
(* and number of writes.                                                   *)
(***************************************************************************)
EXTENDS PrefixStream, TLAPS, SequenceTheorems

-------------------------------------------------------------------------------
(***************************************************************************)
(* The inductive invariant.  While the cursor is read, the rows in hand    *)
(* are the first n of the database's result, which is the page asked for   *)
(* and at most one row; each way out of the loop says how n compares with  *)
(* the limit, the cap and the result; the match is still the table's as    *)
(* long as nobody wrote.                                                   *)
(***************************************************************************)
Matches == After(matched, query.offset)

LimitSet ==
    /\ query.limit # 0 => limit # 0
    /\ pc # "idle" => limit \in Nat

CursorFacts ==
    pc \in {"reading", "drained"} =>
        /\ limit <= MaxLimit
        /\ cursor.limit = limit
        /\ cursor.result = Page(matched, query.offset, Probe(limit))
        /\ Len(rows) <= Len(cursor.result)
        /\ Len(rows) <= MaxRows
        /\ limit > 0 => Len(rows) <= limit
        /\ rows = SubSeq(cursor.result, 1, Len(rows))

ReadingFacts ==
    pc = "reading" => cursor.n = Len(rows) /\ ~cursor.truncated

DrainedFacts ==
    pc = "drained" =>
        /\ cursor.stop # "none"
        /\ cursor.stop = "capped" =>
              /\ ~cursor.truncated
              /\ Len(rows) = MaxRows
              /\ Len(rows) < Len(cursor.result)
              /\ limit > 0 => Len(rows) < limit
        /\ cursor.stop = "end" =>
              IF cursor.truncated
              THEN /\ limit > 0
                   /\ Len(rows) = limit
                   /\ Len(rows) < Len(cursor.result)
              ELSE Len(rows) = Len(cursor.result)

Unsignalled ==
    pc \in {"idle", "planned", "declined", "reading", "drained"} =>
        complete = "unknown"

SheetFacts ==
    pc = "sheet" /\ query.prelude = "none" /\ query.limit # 0 /\ complete = "yes" =>
        rows = Matches

StillMatches ==
    pc \in {"reading", "drained", "tail", "sheet"} /\ writes = 0 =>
        matched = Match(query, table)

IInv ==
    /\ TypeOK
    /\ LimitSet
    /\ CursorFacts
    /\ ReadingFacts
    /\ DrainedFacts
    /\ Unsignalled
    /\ SheetFacts
    /\ StillMatches
    /\ PrefixFaithful
    /\ CompleteExactly
    /\ ClosedBeforeTail
    /\ DelegationAgrees

-------------------------------------------------------------------------------
(***************************************************************************)
(* Pages and prefixes of sequences.                                        *)
(***************************************************************************)
LEMMA PrefixFacts ==
    ASSUME NEW S, NEW s \in Seq(S), NEW n \in 0..Len(s)
    PROVE  /\ SubSeq(s, 1, n) \in Seq(S)
           /\ Len(SubSeq(s, 1, n)) = n
           /\ \A i \in 1..n : SubSeq(s, 1, n)[i] = s[i]
<1>1. \A i \in 1..n : s[i] \in S
  BY ElementOfSeq
<1> QED
  BY <1>1, SubSeqProperties, SMT

LEMMA WholePrefix ==
    ASSUME NEW S, NEW s \in Seq(S), NEW n \in 0..Len(s)
    PROVE  SubSeq(s, 1, n) = s <=> n = Len(s)
<1>1. n = Len(s) => SubSeq(s, 1, n) = s
  BY SubSeqFull
<1>2. SubSeq(s, 1, n) = s => n = Len(s)
  BY PrefixFacts
<1> QED
  BY <1>1, <1>2

LEMMA PrefixGrows ==
    ASSUME NEW S, NEW s \in Seq(S), NEW n \in 0..Len(s), n < Len(s)
    PROVE  SubSeq(s, 1, n + 1) = Append(SubSeq(s, 1, n), s[n + 1])
<1>1. /\ n + 1 \in 1..Len(s)
      /\ 1 \in 1..Len(s)
  OBVIOUS
<1>2. s[n + 1] \in S
  BY <1>1, ElementOfSeq
<1>3. SubSeq(s, 1, n + 1) = SubSeq(s, 1, (n + 1) - 1) \o << s[n + 1] >>
  BY <1>1, SubSeqRecursiveSecond, SMT
<1>4. SubSeq(s, 1, n) \in Seq(S)
  BY PrefixFacts
<1>5. Append(SubSeq(s, 1, n), s[n + 1]) = SubSeq(s, 1, n) \o << s[n + 1] >>
  BY <1>2, <1>4, AppendIsConcat
<1>6. (n + 1) - 1 = n
  OBVIOUS
<1> QED
  BY <1>3, <1>5, <1>6

LEMMA PrefixOfPrefix ==
    ASSUME NEW S, NEW s \in Seq(S), NEW n \in 0..Len(s), NEW m \in 0..n
    PROVE  SubSeq(SubSeq(s, 1, n), 1, m) = SubSeq(s, 1, m)
<1>1. CASE m = 0
  BY <1>1, SubSeqEmpty, SMT
<1>2. CASE m # 0
  <2>1. /\ 1 \in 1..Len(s)
        /\ n \in 1..Len(s)
        /\ 1 \in 1..n
        /\ m \in 1..n
        /\ n - 1 + 1 = n
        /\ 1 + 1 - 1 = 1
        /\ 1 + m - 1 = m
    BY <1>2
  <2>2. SubSeq(SubSeq(s, 1, n), 1, m) = SubSeq(s, 1 + 1 - 1, 1 + m - 1)
    BY <2>1, SubSeqOfSubSeq
  <2> QED
    BY <2>1, <2>2
<1> QED
  BY <1>1, <1>2

LEMMA AfterFacts ==
    ASSUME NEW S, NEW s \in Seq(S), NEW o \in Nat
    PROVE  /\ After(s, o) \in Seq(S)
           /\ Len(After(s, o)) \in Nat
           /\ o = 0 => After(s, o) = s
<1>1. Len(s) \in Nat /\ \A i \in (o + 1)..Len(s) : s[i] \in S
  BY ElementOfSeq
<1>2. SubSeq(s, o + 1, Len(s)) \in Seq(S)
  BY <1>1, SubSeqProperties, SMT
<1>3. o = 0 => SubSeq(s, o + 1, Len(s)) = s
  BY SubSeqFull
<1> QED
  BY <1>2, <1>3 DEF After

LEMMA PageFacts ==
    ASSUME NEW S, NEW s \in Seq(S), NEW o \in Nat, NEW l \in Nat
    PROVE  /\ Page(s, o, l) \in Seq(S)
           /\ Smaller(l, Len(After(s, o))) \in 0..Len(After(s, o))
           /\ Page(s, o, l) = SubSeq(After(s, o), 1, Smaller(l, Len(After(s, o))))
           /\ Len(Page(s, o, l)) = Smaller(l, Len(After(s, o)))
<1>1. After(s, o) \in Seq(S) /\ Len(After(s, o)) \in Nat
  BY AfterFacts
<1>2. Smaller(l, Len(After(s, o))) \in 0..Len(After(s, o))
  BY <1>1 DEF Smaller
<1>3. Page(s, o, l) = SubSeq(After(s, o), 1, Smaller(l, Len(After(s, o))))
  BY DEF Page
<1> QED
  BY <1>1, <1>2, <1>3, PrefixFacts

(***************************************************************************)
(* A prefix of a page is a prefix of the match.                            *)
(***************************************************************************)
LEMMA PagePrefix ==
    ASSUME NEW S, NEW s \in Seq(S), NEW o \in Nat, NEW l \in Nat,
           NEW n \in 0..Len(Page(s, o, l))
    PROVE  /\ SubSeq(Page(s, o, l), 1, n) = SubSeq(After(s, o), 1, n)
           /\ n \in 0..Len(After(s, o))
<1> DEFINE A == After(s, o)
           k == Smaller(l, Len(A))
<1>1. /\ A \in Seq(S)
      /\ k \in 0..Len(A)
      /\ Page(s, o, l) = SubSeq(A, 1, k)
      /\ Len(Page(s, o, l)) = k
  BY AfterFacts, PageFacts
<1> HIDE DEF A, k
<1>2. n \in 0..k /\ n \in 0..Len(A)
  BY <1>1
<1> QED
  BY <1>1, <1>2, PrefixOfPrefix DEF A

LEMMA MatchFacts ==
    ASSUME NEW q \in Query, NEW t \in Seq(RowIds)
    PROVE  /\ Match(q, t) \in Seq(Row)
           /\ Single(t) \in Seq(Row)
           /\ ~q.groups => Match(q, t) = Single(t)
<1>1. Values(t) \in Row
  BY DEF Values, Row
<1>2. << Values(t) >> \in Seq(Row)
  BY <1>1
<1>3. Single(t) \in Seq(Row)
  BY DEF Single, Row
<1> QED
  BY <1>2, <1>3 DEF Match

LEMMA PageOfMatch ==
    ASSUME NEW q \in Query, NEW t \in Seq(RowIds), NEW l \in Nat
    PROVE  LET A == After(Match(q, t), q.offset)
               p == Page(Match(q, t), q.offset, l)
           IN  /\ p \in Seq(Row)
               /\ Len(p) = Smaller(l, Len(A))
               /\ p = SubSeq(A, 1, Len(p))
               /\ Len(A) \in Nat
<1>1. Match(q, t) \in Seq(Row)
  BY MatchFacts
<1>2. q.offset \in Nat
  BY DEF Query
<1> QED
  BY <1>1, <1>2, PageFacts, AfterFacts

-------------------------------------------------------------------------------
(***************************************************************************)
(* The initial states.                                                     *)
(***************************************************************************)
LEMMA InitInvariant == Init => IInv
<1> SUFFICES ASSUME Init PROVE IInv
  OBVIOUS
<1> USE ConstantsAssumption DEF Init
<1>1. TypeOK
  <2>1. query \in Query
    OBVIOUS
  <2>2. limit \in Nat \cup {NoLimit}
    BY <2>1 DEF Query
  <2>3. table \in Seq(RowIds)
    OBVIOUS
  <2> QED
    BY <2>2, <2>3 DEF TypeOK, Unopened, Row, Cursor
<1>2. LimitSet
  BY DEF LimitSet
<1> QED
  BY <1>1, <1>2
     DEF IInv, CursorFacts, ReadingFacts, DrainedFacts, Unsignalled, SheetFacts,
         StillMatches, PrefixFaithful, CompleteExactly, ClosedBeforeTail,
         DelegationAgrees, Unopened

(***************************************************************************)
(* Before the query runs.                                                  *)
(***************************************************************************)
LEMMA ClampedFacts ==
    ASSUME IInv, pc # "idle"
    PROVE  /\ Clamped \in Nat
           /\ Clamped <= MaxLimit
           /\ Clamped <= limit
           /\ limit # 0 => Clamped # 0
           /\ Smaller(Clamped, MaxLimit) = Clamped
BY ConstantsAssumption DEF IInv, LimitSet, Clamped, Smaller

LEMMA PlanStep == IInv /\ Plan => IInv'
<1> SUFFICES ASSUME IInv, Plan PROVE IInv'
  OBVIOUS
<1> USE ConstantsAssumption DEF IInv, Plan
<1>1. limit' \in Nat /\ (query.limit # 0 => limit' # 0)
  BY DEF TypeOK, LimitSet
<1>2. TypeOK'
  BY <1>1 DEF TypeOK
<1>3. LimitSet'
  BY <1>1 DEF LimitSet
<1> QED
  BY <1>2, <1>3
     DEF CursorFacts, ReadingFacts, DrainedFacts, Unsignalled, SheetFacts,
         StillMatches, PrefixFaithful, CompleteExactly, ClosedBeforeTail,
         DelegationAgrees

LEMMA DeclineStep == IInv /\ (Decline \/ QueryFails) => IInv'
<1> SUFFICES ASSUME IInv, Decline \/ QueryFails PROVE IInv'
  OBVIOUS
<1> USE ConstantsAssumption DEF Decline, QueryFails
<1>1. pc # "idle" /\ limit \in Nat
  BY DEF IInv, LimitSet
<1>2. limit' \in Nat /\ (query.limit # 0 => limit' # 0)
  BY <1>1, ClampedFacts DEF IInv, LimitSet
<1>3. TypeOK'
  BY <1>2 DEF IInv, TypeOK
<1>4. LimitSet'
  BY <1>2 DEF LimitSet
<1> QED
  BY <1>3, <1>4
     DEF IInv, CursorFacts, ReadingFacts, DrainedFacts, Unsignalled, SheetFacts,
         StillMatches, PrefixFaithful, CompleteExactly, ClosedBeforeTail,
         DelegationAgrees

LEMMA OpenStep == IInv /\ OpenCursor => IInv'
<1> SUFFICES ASSUME IInv, OpenCursor PROVE IInv'
  OBVIOUS
<1> USE ConstantsAssumption DEF OpenCursor
<1>1. /\ Clamped \in Nat
      /\ Clamped <= MaxLimit
      /\ query.limit # 0 => Clamped # 0
  BY ClampedFacts DEF IInv, LimitSet
<1>2. query \in Query /\ table \in Seq(RowIds) /\ query.offset \in Nat
  BY DEF IInv, TypeOK, Query
<1>3. Probe(Clamped) \in Nat
  BY <1>1 DEF Probe
<1>4. matched' \in Seq(Row)
  BY <1>2, MatchFacts
<1>5. /\ cursor'.result = Page(matched', query.offset, Probe(Clamped))
      /\ cursor'.result \in Seq(Row)
      /\ Len(cursor'.result) \in Nat
  BY <1>2, <1>3, <1>4, PageFacts DEF Unopened
<1>6. /\ cursor' \in Cursor
      /\ cursor'.n = 0
      /\ cursor'.limit = Clamped
      /\ cursor'.truncated = FALSE
  BY <1>1, <1>5 DEF Unopened, Cursor
<1>7. TypeOK'
  BY <1>1, <1>4, <1>6, EmptySeq DEF IInv, TypeOK
<1>8. CursorFacts'
  <2>1. << >> = SubSeq(cursor'.result, 1, 0)
    BY SubSeqEmpty
  <2> QED
    BY <1>1, <1>5, <1>6, <2>1 DEF CursorFacts
<1>9. LimitSet' /\ ReadingFacts' /\ StillMatches'
  BY <1>1, <1>6 DEF LimitSet, ReadingFacts, StillMatches
<1> QED
  BY <1>7, <1>8, <1>9
     DEF IInv, DrainedFacts, Unsignalled, SheetFacts, PrefixFaithful,
         CompleteExactly, ClosedBeforeTail, DelegationAgrees

LEMMA MaterialiseStep == IInv /\ Materialise => IInv'
<1> SUFFICES ASSUME IInv, Materialise PROVE IInv'
  OBVIOUS
<1> USE ConstantsAssumption DEF Materialise
<1> DEFINE page == Page(Match(query, table), query.offset, Clamped)
<1>1. /\ Clamped \in Nat
      /\ Clamped <= MaxLimit
      /\ query.limit # 0 => Clamped # 0
  BY ClampedFacts DEF IInv, LimitSet
<1>2. query \in Query /\ table \in Seq(RowIds) /\ query.offset \in Nat
  BY DEF IInv, TypeOK, Query
<1>3. matched' = Match(query, table) /\ Match(query, table) \in Seq(Row)
  BY <1>2, MatchFacts
<1>4. /\ page \in Seq(Row)
      /\ Len(page) = Smaller(Clamped, Len(After(matched', query.offset)))
      /\ page = SubSeq(After(matched', query.offset), 1, Len(page))
      /\ Len(After(matched', query.offset)) \in Nat
  <2>1. /\ page \in Seq(Row)
        /\ Len(page) = Smaller(Clamped, Len(After(Match(query, table), query.offset)))
        /\ page = SubSeq(After(Match(query, table), query.offset), 1, Len(page))
        /\ Len(After(Match(query, table), query.offset)) \in Nat
    <3> HIDE DEF Materialise
    <3> QED
      BY <1>1, <1>2, PageOfMatch
  <2> HIDE DEF page, Materialise
  <2> QED
    BY <1>3, <2>1
<1>5. TypeOK'
  BY <1>1, <1>3, <1>4 DEF IInv, TypeOK
<1>6. PrefixFaithful'
  <2> SUFFICES ASSUME pc' = "tail"
               PROVE  /\ rows' = Page(matched', query.offset, Smaller(limit', MaxRows))
                      /\ limit' <= MaxLimit
    BY DEF PrefixFaithful
  <2> HIDE DEF page
  <2>1. rows' = page /\ Len(page) <= MaxRows
    BY DEF page
  <2>2. Smaller(Smaller(Clamped, MaxRows), Len(After(matched', query.offset))) = Len(page)
    BY <1>1, <1>4, <2>1 DEF Smaller
  <2> QED
    BY <1>1, <1>4, <2>1, <2>2 DEF Page
<1>7. complete' = "unknown"
  BY DEF IInv, Unsignalled
<1>8. LimitSet' /\ StillMatches'
  BY <1>1 DEF LimitSet, StillMatches
<1>9. ClosedBeforeTail'
  BY DEF IInv, ClosedBeforeTail
<1> QED
  BY <1>5, <1>6, <1>7, <1>8, <1>9
     DEF IInv, CursorFacts, ReadingFacts, DrainedFacts, Unsignalled, SheetFacts,
         CompleteExactly, DelegationAgrees

-------------------------------------------------------------------------------
(***************************************************************************)
(* The draining loop.                                                      *)
(***************************************************************************)
LEMMA LoopTypes ==
    ASSUME IInv, pc \in {"reading", "drained"}
    PROVE  /\ query.offset \in Nat
           /\ query.limit # 0 => limit # 0
           /\ limit \in Nat
           /\ matched \in Seq(Row)
           /\ rows \in Seq(Row)
           /\ Len(rows) \in Nat
           /\ cursor \in Cursor
           /\ cursor.result \in Seq(Row)
           /\ Len(cursor.result) \in Nat
           /\ cursor.n \in Nat
           /\ cursor.truncated \in BOOLEAN
BY ConstantsAssumption DEF IInv, TypeOK, LimitSet, Query, Cursor

LEMMA NextRowStep == IInv /\ NextRow => IInv'
<1> SUFFICES ASSUME IInv, NextRow PROVE IInv'
  OBVIOUS
<1> USE ConstantsAssumption DEF NextRow
<1>1. /\ rows \in Seq(Row)
      /\ Len(rows) \in Nat
      /\ limit \in Nat
      /\ cursor \in Cursor
      /\ cursor.result \in Seq(Row)
      /\ Len(cursor.result) \in Nat
  BY LoopTypes
<1>2. /\ cursor.n = Len(rows)
      /\ ~cursor.truncated
      /\ cursor.limit = limit
      /\ rows = SubSeq(cursor.result, 1, Len(rows))
      /\ Len(rows) <= MaxRows
  BY DEF IInv, CursorFacts, ReadingFacts
<1>3. /\ Len(rows) < Len(cursor.result)
      /\ Len(rows) < MaxRows
      /\ limit > 0 => Len(rows) < limit
  BY <1>1, <1>2 DEF AtLimit, HasRow, AtCap
<1>4. /\ Len(rows) \in 0..Len(cursor.result)
      /\ Len(rows) + 1 \in 1..Len(cursor.result)
  BY <1>1, <1>3
<1>5. cursor.result[Len(rows) + 1] \in Row
  BY <1>1, <1>4, ElementOfSeq
<1>6. rows' = Append(rows, cursor.result[Len(rows) + 1])
  BY <1>2
<1>7. rows' \in Seq(Row) /\ Len(rows') = Len(rows) + 1
  BY <1>1, <1>5, <1>6, AppendProperties
<1>8. rows' = SubSeq(cursor.result, 1, Len(rows'))
  BY <1>1, <1>2, <1>3, <1>4, <1>6, <1>7, PrefixGrows
<1>9. /\ cursor' \in Cursor
      /\ cursor'.n = cursor.n + 1
      /\ cursor'.truncated = cursor.truncated
      /\ cursor'.limit = cursor.limit
      /\ cursor'.result = cursor.result
  <2>1. cursor.n \in Nat
    BY <1>1 DEF Cursor
  <2>2. cursor.n + 1 \in Nat
    BY <2>1
  <2>3. cursor' \in Cursor /\ cursor'.limit = cursor.limit /\ cursor'.result = cursor.result
    <3> DEFINE m == cursor.n + 1
    <3>1. m \in Nat /\ cursor' = [cursor EXCEPT !.n = m]
      BY <2>2
    <3> HIDE DEF m, NextRow
    <3> QED
      BY <1>1, <3>1 DEF Cursor
  <2>4. cursor'.n = cursor.n + 1 /\ cursor'.truncated = cursor.truncated
    BY <1>1 DEF Cursor
  <2> QED
    BY <2>3, <2>4
<1>10. TypeOK'
  BY <1>7, <1>9 DEF IInv, TypeOK
<1>11. CursorFacts'
  <2>1. Len(rows') <= Len(cursor.result)
        /\ Len(rows') <= MaxRows
        /\ (limit > 0 => Len(rows') <= limit)
    BY <1>1, <1>3, <1>7
  <2> QED
    BY <1>2, <1>8, <1>9, <2>1 DEF IInv, CursorFacts
<1>12. ReadingFacts' /\ LimitSet' /\ StillMatches'
  BY <1>2, <1>7, <1>9 DEF IInv, ReadingFacts, LimitSet, StillMatches
<1> QED
  BY <1>10, <1>11, <1>12
     DEF IInv, DrainedFacts, Unsignalled, SheetFacts, PrefixFaithful,
         CompleteExactly, ClosedBeforeTail, DelegationAgrees

LEMMA LeaveLoopStep == IInv /\ (Capped \/ Exhausted \/ ReadFails) => IInv'
<1> SUFFICES ASSUME IInv, Capped \/ Exhausted \/ ReadFails PROVE IInv'
  OBVIOUS
<1> USE ConstantsAssumption
<1>1. pc = "reading" /\ pc' = "drained"
  BY DEF Capped, Exhausted, ReadFails
<1>2. UNCHANGED <<query, limit, table, writes, matched, rows, complete, answer>>
  BY DEF Capped, Exhausted, ReadFails
<1>3. /\ rows \in Seq(Row)
      /\ Len(rows) \in Nat
      /\ limit \in Nat
      /\ cursor \in Cursor
      /\ cursor.result \in Seq(Row)
      /\ Len(cursor.result) \in Nat
      /\ cursor.n \in Nat
  BY <1>1, LoopTypes
<1>4. /\ cursor.n = Len(rows)
      /\ ~cursor.truncated
      /\ cursor.limit = limit
      /\ Len(rows) <= Len(cursor.result)
      /\ Len(rows) <= MaxRows
      /\ limit > 0 => Len(rows) <= limit
  BY <1>1 DEF IInv, CursorFacts, ReadingFacts
<1>5. /\ cursor' \in Cursor
      /\ cursor'.result = cursor.result
      /\ cursor'.limit = cursor.limit
  <2>1. cursor.n + 1 \in Nat /\ (AtLimit /\ HasRow) \in BOOLEAN
    BY <1>3 DEF AtLimit, HasRow
  <2>2. CASE Capped
    <3> DEFINE m == cursor.n + 1
    <3>1. m \in Nat /\ cursor' = [cursor EXCEPT !.n = m, !.stop = "capped"]
      BY <2>1, <2>2 DEF Capped
    <3> HIDE DEF m
    <3> QED
      BY <1>3, <3>1 DEF Cursor
  <2>3. CASE Exhausted
    <3> DEFINE t == AtLimit /\ HasRow
    <3>1. t \in BOOLEAN /\ cursor' = [cursor EXCEPT !.truncated = t, !.stop = "end"]
      BY <2>1, <2>3 DEF Exhausted
    <3> HIDE DEF t
    <3> QED
      BY <1>3, <3>1 DEF Cursor
  <2>4. CASE ReadFails
    BY <1>3, <2>1, <2>4 DEF ReadFails, Cursor
  <2> QED
    BY <2>2, <2>3, <2>4
<1>6. DrainedFacts'
  <2>1. CASE Capped
    <3>1. /\ cursor'.stop = "capped"
          /\ ~cursor'.truncated
      BY <1>3, <1>4, <2>1 DEF Capped, Cursor
    <3>2. /\ Len(rows) = MaxRows
          /\ Len(rows) < Len(cursor.result)
          /\ limit > 0 => Len(rows) < limit
      BY <1>3, <1>4, <2>1 DEF Capped, AtLimit, HasRow, AtCap
    <3> QED
      BY <1>2, <1>5, <3>1, <3>2 DEF DrainedFacts
  <2>2. CASE Exhausted
    <3>1. /\ cursor'.stop = "end"
          /\ cursor'.truncated <=> (AtLimit /\ HasRow)
      BY <1>3, <2>2 DEF Exhausted, AtLimit, HasRow, Cursor
    <3>2. /\ AtLimit => limit > 0 /\ Len(rows) = limit
          /\ HasRow <=> Len(rows) < Len(cursor.result)
          /\ ~HasRow => Len(rows) = Len(cursor.result)
      BY <1>3, <1>4 DEF AtLimit, HasRow
    <3>3. AtLimit \/ ~HasRow
      BY <2>2 DEF Exhausted
    <3> QED
      BY <1>2, <1>5, <3>1, <3>2, <3>3 DEF DrainedFacts
  <2>3. CASE ReadFails
    <3>1. cursor'.stop = "error"
      BY <1>3, <2>3 DEF ReadFails, Cursor
    <3> QED
      BY <3>1 DEF DrainedFacts
  <2> QED
    BY <2>1, <2>2, <2>3
<1>7. TypeOK'
  BY <1>1, <1>2, <1>5 DEF IInv, TypeOK
<1>8. CursorFacts'
  BY <1>1, <1>2, <1>5 DEF IInv, CursorFacts
<1>9. LimitSet' /\ StillMatches' /\ Unsignalled'
  BY <1>1, <1>2 DEF IInv, LimitSet, StillMatches, Unsignalled
<1> QED
  BY <1>1, <1>6, <1>7, <1>8, <1>9
     DEF IInv, ReadingFacts, SheetFacts, PrefixFaithful, CompleteExactly,
         ClosedBeforeTail, DelegationAgrees

(***************************************************************************)
(* Behind the loop the number of rows in hand is the least of limit, cap   *)
(* and match, and it is the whole match unless the loop saw one row more.  *)
(***************************************************************************)
LEMMA CountAtTheEnd ==
    ASSUME NEW l \in Nat, NEW cap \in Nat \ {0}, NEW all \in Nat, NEW n \in Nat,
           NEW capped \in BOOLEAN, NEW truncated \in BOOLEAN,
           n <= cap,
           l > 0 => n <= l,
           n <= Smaller(Probe(l), all),
           capped => ~truncated /\ n = cap /\ n < Smaller(Probe(l), all)
                     /\ (l > 0 => n < l),
           truncated => l > 0 /\ n = l /\ n < Smaller(Probe(l), all),
           ~capped /\ ~truncated => n = Smaller(Probe(l), all)
    PROVE  /\ n = Smaller(Smaller(l, cap), all)
           /\ l # 0 => (capped \/ truncated <=> n # all)
BY DEF Smaller, Probe

LEMMA DrainedStep == IInv /\ Drained => IInv'
<1> SUFFICES ASSUME IInv, Drained PROVE IInv'
  OBVIOUS
<1> USE ConstantsAssumption
<1>1. /\ pc = "drained"
      /\ UNCHANGED <<query, limit, table, writes, matched, rows, answer>>
  BY DEF Drained
<1>2. /\ query.offset \in Nat
      /\ query.limit # 0 => limit # 0
      /\ limit \in Nat
      /\ matched \in Seq(Row)
      /\ rows \in Seq(Row)
      /\ Len(rows) \in Nat
      /\ cursor \in Cursor
      /\ cursor.truncated \in BOOLEAN
  BY <1>1, LoopTypes
<1>3. /\ cursor' \in Cursor
      /\ ~cursor'.open
  BY <1>2 DEF Drained, Cursor
<1>4. CASE cursor.stop = "error"
  <2>1. pc' = "failed" /\ UNCHANGED complete
    BY <1>4 DEF Drained
  <2>2. TypeOK'
    BY <1>1, <1>3, <2>1 DEF IInv, TypeOK
  <2>3. LimitSet'
    BY <1>1, <1>2 DEF LimitSet
  <2> QED
    BY <1>1, <1>3, <2>1, <2>2, <2>3
       DEF IInv, CursorFacts, ReadingFacts, DrainedFacts, Unsignalled, SheetFacts,
           StillMatches, PrefixFaithful, CompleteExactly, ClosedBeforeTail,
           DelegationAgrees
<1>5. CASE cursor.stop # "error"
  <2> DEFINE A == After(matched, query.offset)
             capped == cursor.stop = "capped"
             n == Len(rows)
  <2>1. /\ pc' = "tail"
        /\ complete' = IF capped \/ cursor.truncated THEN "no" ELSE "yes"
    BY <1>5 DEF Drained
  <2>2. /\ A \in Seq(Row)
        /\ Len(A) \in Nat
    BY <1>2, AfterFacts
  <2>3. Probe(limit) \in Nat
    BY <1>2 DEF Probe
  <2>4. /\ cursor.result = Page(matched, query.offset, Probe(limit))
        /\ n <= Len(cursor.result)
        /\ n <= MaxRows
        /\ limit > 0 => n <= limit
        /\ limit <= MaxLimit
        /\ rows = SubSeq(cursor.result, 1, n)
    BY <1>1 DEF IInv, CursorFacts
  <2>5. Len(cursor.result) = Smaller(Probe(limit), Len(A))
    BY <1>2, <2>3, <2>4, PageFacts
  <2>6. n \in 0..Len(Page(matched, query.offset, Probe(limit)))
    <3>1. Len(Page(matched, query.offset, Probe(limit))) \in Nat
      BY <2>2, <2>3, <2>4, <2>5 DEF Smaller
    <3> QED
      BY <1>2, <2>4, <3>1
  <2>7. rows = SubSeq(A, 1, n) /\ n \in 0..Len(A)
    BY <1>2, <2>3, <2>4, <2>6, PagePrefix
  <2>8. /\ capped => /\ ~cursor.truncated
                     /\ n = MaxRows
                     /\ n < Len(cursor.result)
                     /\ limit > 0 => n < limit
        /\ cursor.truncated => limit > 0 /\ n = limit /\ n < Len(cursor.result)
        /\ ~capped /\ ~cursor.truncated => n = Len(cursor.result)
    <3>1. cursor.stop \in {"capped", "end"}
      BY <1>1, <1>2, <1>5 DEF IInv, DrainedFacts, Cursor
    <3>2. DrainedFacts
      BY DEF IInv
    <3>3. CASE capped
      BY <1>1, <3>2, <3>3 DEF DrainedFacts
    <3>4. CASE ~capped
      BY <1>1, <1>2, <3>1, <3>2, <3>4 DEF DrainedFacts
    <3> QED
      BY <3>3, <3>4
  <2> HIDE DEF A, n
  <2>9. /\ n = Smaller(Smaller(limit, MaxRows), Len(A))
        /\ limit # 0 => (capped \/ cursor.truncated <=> n # Len(A))
    <3> DEFINE c == capped
               t == cursor.truncated
               page == Smaller(Probe(limit), Len(A))
    <3>1. c \in BOOLEAN /\ t \in BOOLEAN /\ n \in Nat
      BY <1>2 DEF n
    <3>2. /\ n <= MaxRows
          /\ limit > 0 => n <= limit
          /\ n <= page
          /\ c => ~t /\ n = MaxRows /\ n < page /\ (limit > 0 => n < limit)
          /\ t => limit > 0 /\ n = limit /\ n < page
          /\ ~c /\ ~t => n = page
      BY <2>4, <2>5, <2>8
    <3> HIDE DEF c, t
    <3>3. /\ n = Smaller(Smaller(limit, MaxRows), Len(A))
          /\ limit # 0 => (c \/ t <=> n # Len(A))
      BY <1>2, <2>2, <3>1, <3>2, CountAtTheEnd
    <3> QED
      BY <3>3 DEF c, t
  <2>10. rows = A <=> n = Len(A)
    BY <2>2, <2>7, WholePrefix
  <2>11. PrefixFaithful'
    BY <1>1, <2>4, <2>7, <2>9 DEF PrefixFaithful, Page, A
  <2>12. CompleteExactly'
    BY <1>1, <1>2, <2>1, <2>9, <2>10 DEF CompleteExactly, A
  <2>13. TypeOK'
    BY <1>1, <1>3, <2>1 DEF IInv, TypeOK
  <2>14. LimitSet' /\ StillMatches'
    BY <1>1, <1>2, <2>1 DEF IInv, LimitSet, StillMatches
  <2> QED
    BY <1>1, <1>3, <2>1, <2>11, <2>12, <2>13, <2>14
       DEF IInv, CursorFacts, ReadingFacts, DrainedFacts, Unsignalled, SheetFacts,
           ClosedBeforeTail, DelegationAgrees
<1> QED
  BY <1>4, <1>5

-------------------------------------------------------------------------------
(***************************************************************************)
(* The tail, and the other clients.                                        *)
(***************************************************************************)
LEMMA PreludeStep == IInv /\ Prelude => IInv'
<1> SUFFICES ASSUME IInv, Prelude PROVE IInv'
  OBVIOUS
<1> USE ConstantsAssumption
<1>1. /\ pc = "tail" /\ pc' = "sheet"
      /\ UNCHANGED <<query, limit, table, writes, matched, cursor, complete, answer>>
  BY DEF Prelude
<1>2. /\ rows \in Seq(Row)
      /\ limit \in Nat
      /\ query.offset \in Nat
      /\ query.prelude \in Preludes
  BY <1>1 DEF IInv, TypeOK, LimitSet, Query
<1>3. rows' \in Seq(Row)
  <2>1. CASE query.prelude = "none"
    BY <1>2, <2>1 DEF Prelude
  <2>2. CASE query.prelude = "drop"
    BY <1>2, <2>2, AfterFacts DEF Prelude
  <2>3. CASE query.prelude = "rewrite"
    <3>1. rows' = [i \in DOMAIN rows |-> rows[i] \cup {Rewritten}]
      BY <2>3 DEF Prelude
    <3>2. \A i \in 1..Len(rows) : rows[i] \cup {Rewritten} \in Row
      BY <1>2, ElementOfSeq DEF Row
    <3>3. DOMAIN rows = 1..Len(rows) /\ Len(rows) \in Nat
      BY <1>2
    <3> QED
      BY <3>1, <3>2, <3>3, SeqDef, SMT
  <2> QED
    BY <1>2, <2>1, <2>2, <2>3 DEF Preludes
<1>4. TypeOK'
  BY <1>1, <1>3 DEF IInv, TypeOK
<1>5. SheetFacts'
  <2>1. query.prelude = "none" => rows' = rows
    BY DEF Prelude
  <2>2. complete = "yes" /\ query.limit # 0 => rows = Matches
    BY <1>1 DEF IInv, CompleteExactly, Matches
  <2> QED
    BY <1>1, <2>1, <2>2 DEF SheetFacts, Matches
<1>6. LimitSet' /\ StillMatches'
  BY <1>1 DEF IInv, LimitSet, StillMatches
<1> QED
  BY <1>1, <1>4, <1>5, <1>6
     DEF IInv, CursorFacts, ReadingFacts, DrainedFacts, Unsignalled,
         PrefixFaithful, CompleteExactly, ClosedBeforeTail, DelegationAgrees

(***************************************************************************)
(* A delegated answer spans the table as it is now, and the rows in hand   *)
(* are all that matched: the same rows when nobody wrote.                  *)
(***************************************************************************)
LEMMA AnswerStep == IInv /\ (Delegate \/ Scan) => IInv'
<1> SUFFICES ASSUME IInv, Delegate \/ Scan PROVE IInv'
  OBVIOUS
<1> USE ConstantsAssumption
<1>1. /\ pc = "sheet" /\ pc' = "done"
      /\ UNCHANGED <<query, limit, table, writes, matched, cursor, rows, complete>>
  BY DEF Delegate, Scan
<1>2. query \in Query /\ table \in Seq(RowIds) /\ rows \in Seq(Row)
  BY DEF IInv, TypeOK
<1>3. answer' \in SUBSET Row
  <2>1. \A s \in Seq(Row) : Values(s) \in SUBSET Row
    BY ElementOfSeq DEF Values
  <2>2. Single(table) \in Seq(Row)
    BY <1>2, MatchFacts
  <2> QED
    BY <1>2, <2>1, <2>2 DEF Delegate, Scan
<1>4. TypeOK'
  BY <1>1, <1>3 DEF IInv, TypeOK
<1>5. DelegationAgrees'
  <2>1. CASE Scan
    BY <2>1 DEF Scan, DelegationAgrees
  <2>2. CASE Delegate
    <3> SUFFICES ASSUME query.prelude = "none", query.limit # 0, writes = 0
                 PROVE  answer' = Values(rows)
      BY <1>1 DEF DelegationAgrees
    <3>1. complete = "yes" /\ query.offset = 0 /\ ~query.groups
      BY <2>2 DEF Delegate, Eligible
    <3>2. rows = Matches /\ matched = Match(query, table)
      BY <1>1, <3>1 DEF IInv, SheetFacts, StillMatches
    <3>3. Match(query, table) = Single(table) /\ Single(table) \in Seq(Row)
      BY <1>2, <3>1, MatchFacts
    <3>4. Matches = Single(table)
      BY <3>1, <3>2, <3>3, AfterFacts DEF Matches
    <3> QED
      BY <2>2, <3>2, <3>4 DEF Delegate
  <2> QED
    BY <2>1, <2>2
<1>6. LimitSet'
  BY <1>1 DEF IInv, LimitSet
<1> QED
  BY <1>1, <1>4, <1>5, <1>6
     DEF IInv, CursorFacts, ReadingFacts, DrainedFacts, Unsignalled, SheetFacts,
         StillMatches, PrefixFaithful, CompleteExactly, ClosedBeforeTail

LEMMA WriteStep == IInv /\ Write => IInv'
<1> SUFFICES ASSUME IInv, Write PROVE IInv'
  OBVIOUS
<1> USE ConstantsAssumption
<1>1. /\ UNCHANGED <<query, limit, pc, matched, cursor, rows, complete, answer>>
      /\ writes \in Nat /\ writes < MaxWrites /\ writes' = writes + 1
      /\ pc # "done"
  BY DEF Write, IInv, TypeOK
<1>2. table \in Seq(RowIds) /\ Len(table) \in Nat
  BY DEF IInv, TypeOK
<1>3. table' \in Seq(RowIds)
  <2>1. ASSUME NEW r \in RowIds, table' = Append(table, r)
        PROVE  table' \in Seq(RowIds)
    BY <1>2, <2>1, AppendProperties
  <2>2. ASSUME NEW i \in DOMAIN table,
               table' = SubSeq(table, 1, i - 1) \o SubSeq(table, i + 1, Len(table))
        PROVE  table' \in Seq(RowIds)
    <3>1. i \in 1..Len(table)
      BY <1>2
    <3>2. SubSeq(table, 1, i - 1) \in Seq(RowIds)
      BY <1>2, <3>1, PrefixFacts, SMT
    <3>3. SubSeq(table, i + 1, Len(table)) \in Seq(RowIds)
      BY <1>2, <3>1, AfterFacts DEF After
    <3> QED
      BY <2>2, <3>2, <3>3
  <2> QED
    BY <2>1, <2>2 DEF Write
<1>4. writes' \in 0..MaxWrites /\ writes' # 0
  BY <1>1
<1>5. TypeOK'
  BY <1>1, <1>3, <1>4 DEF IInv, TypeOK
<1>6. LimitSet' /\ CursorFacts' /\ ReadingFacts' /\ DrainedFacts'
  BY <1>1 DEF IInv, LimitSet, CursorFacts, ReadingFacts, DrainedFacts
<1>7. Unsignalled' /\ SheetFacts' /\ StillMatches' /\ PrefixFaithful'
  BY <1>1, <1>4
     DEF IInv, Unsignalled, SheetFacts, StillMatches, PrefixFaithful, Matches
<1>8. CompleteExactly' /\ ClosedBeforeTail' /\ DelegationAgrees'
  BY <1>1 DEF IInv, CompleteExactly, ClosedBeforeTail, DelegationAgrees
<1> QED
  BY <1>5, <1>6, <1>7, <1>8 DEF IInv

LEMMA StutterStep == IInv /\ UNCHANGED vars => IInv'
BY DEF IInv, vars, TypeOK, LimitSet, CursorFacts, ReadingFacts, DrainedFacts,
       Unsignalled, SheetFacts, StillMatches, PrefixFaithful, CompleteExactly,
       ClosedBeforeTail, DelegationAgrees, Matches

-------------------------------------------------------------------------------
(***************************************************************************)
(* Everything the cursor, the draining loop and the engine's limits keep   *)
(* to holds of every execution.                                            *)
(***************************************************************************)
THEOREM Invariance == Spec => []IInv
<1>1. Init => IInv
  BY InitInvariant
<1>2. IInv /\ [Next]_vars => IInv'
  BY PlanStep, DeclineStep, OpenStep, MaterialiseStep, NextRowStep, LeaveLoopStep,
     DrainedStep, PreludeStep, AnswerStep, WriteStep, StutterStep
     DEF Next, Work
<1> QED
  BY <1>1, <1>2, PTL DEF Spec

(***************************************************************************)
(* Every variable keeps its type.                                          *)
(***************************************************************************)
THEOREM TypeCorrect == Spec => []TypeOK
<1>1. IInv => TypeOK
  BY DEF IInv
<1> QED
  BY <1>1, Invariance, PTL

(***************************************************************************)
(* streamPrefix and executeClassic both hand the tail exactly the page of  *)
(* the match that limit, offset and MaxRows describe, for every table.     *)
(***************************************************************************)
THEOREM PrefixIsFaithful == Spec => []PrefixFaithful
<1>1. IInv => PrefixFaithful
  BY DEF IInv
<1> QED
  BY <1>1, Invariance, PTL

(***************************************************************************)
(* The completeness signal of sqlRowSource and streamPrefix is exact for   *)
(* every positive limit: one probe row is enough to tell.                  *)
(***************************************************************************)
THEOREM SignalIsExact == Spec => []CompleteExactly
<1>1. IInv => CompleteExactly
  BY DEF IInv
<1> QED
  BY <1>1, Invariance, PTL

(***************************************************************************)
(* A reduceDelegate's answer is the sheet's own, when the sheet comes      *)
(* first, the limit is positive and nobody writes.                         *)
(***************************************************************************)
THEOREM DelegationIsRight == Spec => []DelegationAgrees
<1>1. IInv => DelegationAgrees
  BY DEF IInv
<1> QED
  BY <1>1, Invariance, PTL

(***************************************************************************)
(* streamPrefix closes its cursor on every path before the tail runs.      *)
(***************************************************************************)
THEOREM CursorIsClosed == Spec => []ClosedBeforeTail
<1>1. IInv => ClosedBeforeTail
  BY DEF IInv
<1> QED
  BY <1>1, Invariance, PTL
===============================================================================
