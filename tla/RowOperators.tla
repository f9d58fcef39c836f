----------------------------- MODULE RowOperators -----------------------------
(***************************************************************************)
(* What the in-memory operators do to the rows they are given: windows,    *)
(* top-n, fills, casts, de-duplication and samples (pipe/window.go,        *)
(* topn.go, quality.go, distinct.go).                                      *)
(*                                                                         *)
(* A row is a function from the columns it has to values.  A value is a    *)
(* pair of its kind and its content; a number stands for so many Units.    *)
(* An operator answers which of the row maps it was given it hands on,     *)
(* which rows are new, and what the maps it was given hold afterwards.     *)
(* An option a stage leaves out has its default in the stage's record.     *)
(***************************************************************************)
EXTENDS Integers, SequencesExt

CONSTANTS
    Columns,         \* the names of columns, in order
    Alphabet,        \* the words that are no numerals, in order
    Numerals,        \* the number each numeral stands for
    Unit,            \* how many parts make one
    Seeds,           \* what a seed may draw for each row: places from 0
    ColumnOf(_, _),  \* the name made of a prefix and a printed value
    Eval(_, _),      \* the host: the value of an expression over a row
    Failed           \* what Eval answers if it cannot

ASSUME ValuesAssumption ==
    /\ Unit \in Nat \ {0} /\ Numerals \in [DOMAIN Numerals -> Nat]
    /\ \A w \in DOMAIN Numerals : \A i \in DOMAIN Alphabet : Alphabet[i] # w
    /\ \A draws \in Seeds : draws \in Seq(Nat) /\ \A i \in DOMAIN draws : draws[i] < i

Null == <<"null", 0>>
Number(n) == <<"number", n>>
Whole(n) == Number(n * Unit)
Word(w) == <<"word", w>>
ListOf(items) == <<"list", items>>
Object(row) == <<"object", row>>

IsNull(v) == v[1] = "null"
IsNumber(v) == v[1] = "number"
IsNumeral(v) == v[1] = "word" /\ v[2] \in DOMAIN Numerals

NoRow == [c \in {} |-> Null]
Get(row, c) == IF c \in DOMAIN row THEN row[c] ELSE Null
Put(row, c, v) == (c :> v) @@ row
Without(row, C) == [c \in DOMAIN row \ C |-> row[c]]

-------------------------------------------------------------------------------
(***************************************************************************)
(* pipe/helpers.go.  %v prints a numeral and its number alike, and null as *)
(* a word; a list is printed element by element.  Numbers have one digit,  *)
(* so that their texts are ordered as they are.                            *)
(***************************************************************************)
Plain(v) == IF IsNull(v) THEN Word("<nil>")
            ELSE IF IsNumeral(v) THEN Number(Numerals[v[2]]) ELSE v
Printed(v) == CASE v[1] = "list"   -> ListOf([i \in DOMAIN v[2] |-> Plain(v[2][i])])
                [] v[1] = "object" -> Object([c \in DOMAIN v[2] |-> Plain(v[2][c])])
                [] OTHER           -> Plain(v)

Float(v) == IF IsNumber(v) \/ IsNumeral(v) THEN Plain(v)[2] ELSE 0
Truthy(v) == ~IsNull(v) /\ v # Number(0) /\ v # Word("") /\ v # Word("false") /\ v # Word("0")

TextPlace(t) == IF IsNumber(t) THEN t[2]
                ELSE 10 * Unit + (CHOOSE i \in DOMAIN Alphabet : Alphabet[i] = t[2])

\* Below, at or above zero.
Compare(a, b) ==
    IF IsNull(a) \/ IsNull(b) THEN (IF IsNull(b) THEN 1 ELSE 0) - (IF IsNull(a) THEN 1 ELSE 0)
    ELSE TextPlace(Plain(a)) - TextPlace(Plain(b))

(***************************************************************************)
(* Rows S by order: the first column that tells two rows apart decides,    *)
(* and their place if none does.                                           *)
(***************************************************************************)
Ascending(S) == SelectSeq([i \in 1..Max(S \cup {0}) |-> i], LAMBDA i : i \in S)
Directed(rows, order, i, j, k) ==
    Compare(Get(rows[i], order[k].field), Get(rows[j], order[k].field))
    * (IF order[k].desc THEN -1 ELSE 1)
Comes(rows, order, i, j) ==
    \E c \in {[k \in DOMAIN order |-> Directed(rows, order, i, j, k)]} :
        \/ \E k \in DOMAIN order : c[k] < 0 /\ \A l \in 1..(k - 1) : c[l] = 0
        \/ (\A k \in DOMAIN order : c[k] = 0) /\ i < j
Ordered(S, rows, order) == SortSeq(Ascending(S), LAMBDA i, j : Comes(rows, order, i, j))

KeyBy(row, by) == [k \in DOMAIN by |-> Printed(Get(row, by[k]))]
Group(rows, by, i) == {j \in DOMAIN rows : KeyBy(rows[j], by) = KeyBy(rows[i], by)}
\* The first row of every group, in the order they come.
Heads(rows, by) ==
    Ascending({i \in DOMAIN rows : \A j \in 1..(i - 1) : KeyBy(rows[j], by) # KeyBy(rows[i], by)})

-------------------------------------------------------------------------------
(***************************************************************************)
(* What an operator answers: the input as it is afterwards, and the output *)
(* as places of the input and new rows.  Place 0 is a nil map.             *)
(***************************************************************************)
Fresh == -1
Old(i) == [from |-> i, row |-> NoRow]
New(r) == [from |-> Fresh, row |-> r]
Answers(input, out) == [input |-> input, out |-> out, ok |-> TRUE]
Keeping(rows, places) == Answers(rows, [m \in DOMAIN places |-> Old(places[m])])
InPlace(rows) == Keeping(rows, [i \in DOMAIN rows |-> i])
Making(rows, new) == Answers(rows, [m \in DOMAIN new |-> New(new[m])])
Failing(rows) == [input |-> rows, out |-> <<>>, ok |-> FALSE]

-------------------------------------------------------------------------------
(***************************************************************************)
(* window: a partition is walked in order; rank and dense_rank count up    *)
(* when the printed order columns change.                                  *)
(***************************************************************************)
OrderKey(row, order) == [k \in DOMAIN order |-> Printed(Get(row, order[k].field))]

RanksFromZero(walk, rows, order, dense) ==
    LET rank[m \in DOMAIN walk] ==
            IF m = 1 THEN 1
            ELSE IF OrderKey(rows[walk[m]], order) = OrderKey(rows[walk[m - 1]], order)
            THEN rank[m - 1] ELSE rank[m - 1] + 1
    IN  rank
Ranks(walk, rows, order, dense) ==
    LET rank[m \in DOMAIN walk] ==
            IF m = 1 THEN 1
            ELSE IF OrderKey(rows[walk[m]], order) = OrderKey(rows[walk[m - 1]], order)
            THEN rank[m - 1]
            ELSE IF dense THEN rank[m - 1] + 1 ELSE m
    IN  rank

Shift(st) == IF st.n <= 0 THEN 1 ELSE st.n

WindowValue(st, rows, walk, m) ==
    LET far(k) == IF k \in DOMAIN walk THEN Get(rows[walk[k]], st.field) ELSE st.value
    IN  CASE st.fn = "row_number" -> Whole(m)
          [] st.fn \in {"rank", "dense_rank"} ->
                Whole(Ranks(walk, rows, st.order, st.fn = "dense_rank")[m])
          [] OTHER -> far(CASE st.fn = "lag"  -> m - Shift(st)
                            [] st.fn = "lead" -> m + Shift(st)
                            [] st.fn = "first_value" -> 1
                            [] st.fn = "last_value"  -> Len(walk))

Window(st, rows) ==
    LET walks == [i \in DOMAIN rows |-> Ordered(Group(rows, st.by, i), rows, st.order)]
        value(i, walk) == WindowValue(st, rows, walk, CHOOSE m \in DOMAIN walk : walk[m] = i)
    IN  InPlace([i \in DOMAIN rows |-> Put(rows[i], st.as, value(i, walks[i]))])

TopPerGroup(st, rows) ==
    LET best(i) == SubSeq(Ordered(Group(rows, st.by, i), rows, st.order), 1,
                          Min({st.n, Cardinality(Group(rows, st.by, i))}))
        heads == Heads(rows, st.by)
    IN  Keeping(rows, FlattenSeq([h \in DOMAIN heads |-> best(heads[h])]))

-------------------------------------------------------------------------------
(***************************************************************************)
(* pipe/quality.go                                                         *)
(***************************************************************************)
DropNulls(st, rows) ==
    LET cols(r) == IF st.cols = <<>> THEN DOMAIN r ELSE ToSet(st.cols)
        nulls(r) == {c \in cols(r) : IsNull(Get(r, c))}
        drop(r) == IF st.fn = "any" THEN nulls(r) # {} ELSE nulls(r) = cols(r)
    IN  Keeping(rows, Ascending({i \in DOMAIN rows : ~drop(rows[i])}))

\* What a column is filled with, Null for nothing.
Mean(rows, c) ==
    LET known == {i \in DOMAIN rows : IsNumber(Get(rows[i], c))}
    IN  IF known = {} THEN Null
        ELSE Number(MapThenSumSet(LAMBDA i : rows[i][c][2], known) \div Cardinality(known))
LastKnown(rows, walk, c) ==
    LET last[m \in 0..Len(walk)] ==
            IF m = 0 THEN Null
            ELSE IF IsNull(Get(rows[walk[m]], c)) THEN last[m - 1] ELSE rows[walk[m]][c]
    IN  last
Carried(st, rows, c, i) ==
    LET idxs == Ordered(Group(rows, st.by, i), rows, st.order)
        upTo(walk) == LastKnown(rows, walk, c)[CHOOSE m \in DOMAIN walk : walk[m] = i]
    IN  upTo(IF st.fn = "lastvalue" THEN idxs ELSE Reverse(idxs))

FillNulls(st, rows) ==
    LET cols == IF st.cols # <<>> THEN ToSet(st.cols)
                ELSE IF rows = <<>> THEN {} ELSE DOMAIN rows[1]
        fill(i, c) == CASE st.fn = "value" -> st.value
                        [] st.fn = "zero"  -> Number(0)
                        [] st.fn = "mean"  -> Mean(rows, c)
                        [] OTHER           -> Carried(st, rows, c, i)
        \* A column nothing is known of is left as it is, missing or null.
        writes(i) == [c \in {c \in cols : IsNull(Get(rows[i], c))} |-> fill(i, c)]
        made(w, row) == [c \in {c \in DOMAIN w : st.fn = "value" \/ ~IsNull(w[c])} |-> w[c]] @@ row
    IN  InPlace([i \in DOMAIN rows |-> made(writes(i), rows[i])])

(***************************************************************************)
(* A number becomes an int by losing its fraction; a word must be a        *)
(* numeral, for an int a whole one.  Lists and objects are not cast.       *)
(***************************************************************************)
Castable(v, to) ==
    \/ to = "string"
    \/ IsNumber(v)
    \/ IsNumeral(v) /\ (to = "int" => Numerals[v[2]] % Unit = 0)
CastValue(v, to) ==
    CASE to = "int" -> Whole(Float(v) \div Unit)
      [] to = "float" -> Number(Float(v))
      [] to = "string" -> IF IsNumber(v)
                          THEN Word(CHOOSE w \in DOMAIN Numerals : Numerals[w] = v[2]) ELSE v

CastRow(st, row) ==
    LET step(s, e) ==
            LET v == Get(s.row, e.field)
            IN  IF s.fate # "keep" \/ IsNull(v) THEN s
                ELSE IF Castable(v, e.to)
                THEN [s EXCEPT !.row = Put(s.row, e.field, CastValue(v, e.to))]
                ELSE IF e.onError = "null" THEN [s EXCEPT !.row = Put(s.row, e.field, Null)]
                ELSE [s EXCEPT !.fate = IF e.onError = "skip" THEN "skip" ELSE "fail"]
    IN  FoldLeft(step, [row |-> row, fate |-> "keep"], st.entries)

Cast(st, rows) ==
    LET cast == [i \in DOMAIN rows |-> CastRow(st, rows[i])]
        fails == {i \in DOMAIN rows : cast[i].fate = "fail"}
        after == [i \in DOMAIN rows |->
                     IF \E f \in fails : f < i THEN rows[i] ELSE cast[i].row]
    IN  IF fails # {} THEN Failing(after)
        ELSE Keeping(after, Ascending({i \in DOMAIN rows : cast[i].fate = "keep"}))

Dedupe(st, rows) ==
    LET take(out, i) ==
            LET same == {m \in DOMAIN out : KeyBy(rows[out[m]], st.by) = KeyBy(rows[i], st.by)}
            IN  IF same = {} THEN Append(out, i)
                ELSE IF st.fn = "last" THEN [m \in DOMAIN out |-> IF m \in same THEN i ELSE out[m]]
                ELSE out
    IN  Keeping(rows, FoldLeft(take, <<>>, Ordered(DOMAIN rows, rows, st.order)))

(***************************************************************************)
(* distinct compares the columns it is given, or names and values of all.  *)
(***************************************************************************)
FullKey(row) == [c \in DOMAIN row |-> Printed(row[c])]
DistinctKey(st, row) == IF st.by # <<>> THEN KeyBy(row, st.by) ELSE FullKey(row)
Distinct(st, rows) ==
    Keeping(rows, Ascending({i \in DOMAIN rows :
        \A j \in 1..(i - 1) : DistinctKey(st, rows[j]) # DistinctKey(st, rows[i])}))

(***************************************************************************)
(* n rows, or a ratio of quarters, at least one.  Places of rows are 1     *)
(* more than in the code.                                                  *)
(***************************************************************************)
Target(st, rows) ==
    IF st.n # 0 THEN st.n
    ELSE LET t == (Len(rows) * st.ratio) \div 4 IN IF t = 0 THEN 1 ELSE t
Reservoir(target, n, draws) ==
    FoldLeft(LAMBDA out, i : IF draws[i] < target THEN [out EXCEPT ![draws[i] + 1] = i] ELSE out,
             [m \in 1..target |-> m], [k \in 1..(n - target) |-> target + k])
Sample(st, rows, draws) ==
    LET target == Target(st, rows)
        step == Len(rows) \div target
    IN  IF rows = <<>> \/ target <= 0 \/ target >= Len(rows) THEN InPlace(rows)
        ELSE IF st.fn = "systematic"
        THEN Keeping(rows, [m \in 1..target |-> 1 + (m - 1) * step])
        ELSE Keeping(rows, Reservoir(target, Len(rows), draws))

(***************************************************************************)
(* assert looks at every row, or once at how many there are; an unknown    *)
(* scope is found out only here.                                           *)
(***************************************************************************)
Asserted(st, rows) ==
    LET seen == IF st.fn = "row" THEN ToSet(rows) ELSE {"count" :> Whole(Len(rows))}
        holds(r) == Eval(st.expr, r) # Failed /\ Truthy(Eval(st.expr, r))
    IN  IF st.fn \in {"row", "overall"} /\ \A r \in seen : holds(r)
        THEN InPlace(rows) ELSE Failing(rows)
===============================================================================
