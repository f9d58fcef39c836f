------------------------------ MODULE RowMeanings ------------------------------
(***************************************************************************)
(* What the stages of a pipe mean, apart from how they are computed: the   *)
(* rows, as values, that may be answered for the rows given.  A stage that *)
(* may fail on some rows may answer nothing for them.  Meanings are those  *)
(* of the documents; where the program departs from them, or they from     *)
(* each other, is said at the end (Departs).                               *)
(***************************************************************************)
EXTENDS RowReshape

At(rows, places) == [m \in DOMAIN places |-> rows[places[m]]]
Kept(rows, S) == At(rows, Ascending(S))
Each(rows) == DOMAIN rows

(***************************************************************************)
(* Row i comes strictly before row j: at the first column of the order     *)
(* that tells them apart.  Rows it cannot tell apart are peers.            *)
(***************************************************************************)
Lower(rows, order, i, j) ==
    \E k \in DOMAIN order : \E c \in {[l \in 1..k |-> Directed(rows, order, i, j, l)]} :
        c[k] < 0 /\ \A l \in 1..(k - 1) : c[l] = 0
Peers(rows, order, i, j) ==
    \A k \in DOMAIN order : Get(rows[i], order[k].field) = Get(rows[j], order[k].field)
        \/ Directed(rows, order, i, j, k) = 0
Earlier(rows, order, i, j) == Lower(rows, order, i, j) \/ (Peers(rows, order, i, j) /\ i < j)

\* The place of row i among the rows of S.
Nth(S, rows, order, i) == 1 + Cardinality({j \in S : Earlier(rows, order, j, i)})
Rank(S, rows, order, i) == 1 + Cardinality({j \in S : Lower(rows, order, j, i)})
DenseRank(S, rows, order, i) ==
    1 + Cardinality({{k \in S : Peers(rows, order, j, k)} : j \in {j \in S : Lower(rows, order, j, i)}})

Leads(rows, by, i) == \A j \in Group(rows, by, i) : i <= j
Groups(rows, by) == Ascending({i \in Each(rows) : Leads(rows, by, i)})

-------------------------------------------------------------------------------
WindowMeans(st, rows) ==
    LET group(i) == Group(rows, st.by, i)
        nth == [i \in Each(rows) |-> Nth(group(i), rows, st.order, i)]
        at(G, m) == IF m \in 1..Cardinality(G)
                    THEN Get(rows[CHOOSE j \in G : nth[j] = m], st.field) ELSE st.value
        value(i, G) ==
            CASE st.fn = "row_number" -> Whole(nth[i])
              [] st.fn = "rank"       -> Whole(Rank(G, rows, st.order, i))
              [] st.fn = "dense_rank" -> Whole(DenseRank(G, rows, st.order, i))
              [] OTHER -> at(G, CASE st.fn = "lag"  -> nth[i] - Shift(st)
                                  [] st.fn = "lead" -> nth[i] + Shift(st)
                                  [] st.fn = "first_value" -> 1
                                  [] st.fn = "last_value"  -> Cardinality(G))
    IN  {[i \in Each(rows) |-> Put(rows[i], st.as, value(i, group(i)))]}

\* Groups in the order they come, in each the rows with fewer than n before them.
TopMeans(st, rows) ==
    LET places == [i \in Each(rows) |->
                      [lead |-> Min(Group(rows, st.by, i)),
                       nth |-> Nth(Group(rows, st.by, i), rows, st.order, i)]]
        first(p, q) == p.lead < q.lead \/ (p.lead = q.lead /\ p.nth < q.nth)
        top(at) == SortSeq(Ascending({i \in Each(rows) : at[i].nth <= st.n}),
                           LAMBDA i, j : first(at[i], at[j]))
    IN  {At(rows, top(at)) : at \in {places}}

DropMeans(st, rows) ==
    LET cols(i) == IF st.cols = <<>> THEN DOMAIN rows[i] ELSE ToSet(st.cols)
        known(i, c) == ~IsNull(Get(rows[i], c))
    IN  {Kept(rows, {i \in Each(rows) : IF st.fn = "any" THEN \A c \in cols(i) : known(i, c)
                                        ELSE \E c \in cols(i) : known(i, c)})}

(***************************************************************************)
(* A null is filled from the nearest known row before it, or after it.     *)
(***************************************************************************)
FillMeans(st, rows) ==
    LET cols(i) == IF st.cols # <<>> THEN ToSet(st.cols) ELSE DOMAIN rows[i]
        before(i, j) == IF st.fn = "lastvalue" THEN Earlier(rows, st.order, i, j)
                        ELSE Earlier(rows, st.order, j, i)
        nearest(S, c) == {rows[j][c] : j \in {j \in S : \A k \in S : k = j \/ before(k, j)}}
        known(c, S) == {j \in S : ~IsNull(Get(rows[j], c))}
        mean(S, c) == {Number(MapThenSumSet(LAMBDA j : rows[j][c][2], S) \div Cardinality(S)) :
                          m \in {1 : j \in S}}
        filled(i, c) ==
            CASE st.fn = "value" -> {st.value}
              [] st.fn = "zero"  -> {Whole(0)}
              [] st.fn = "mean"  -> mean({j \in Each(rows) : IsNumber(Get(rows[j], c))}, c)
              [] OTHER -> nearest({j \in known(c, Group(rows, st.by, i)) : before(j, i)}, c)
        new(row, fills) == [c \in {c \in DOMAIN fills : fills[c] # {}} |-> CHOOSE v \in fills[c] : TRUE] @@ row
    IN  {[i \in Each(rows) |->
             new(rows[i], [c \in {c \in cols(i) : IsNull(Get(rows[i], c))} |-> filled(i, c)])]}

(***************************************************************************)
(* Entries of different columns are independent, but an entry that stops a *)
(* row keeps the later ones from it; a row that fails fails them all.      *)
(***************************************************************************)
CastMeans(st, rows) ==
    LET entry(k) == st.entries[k]
        value(i, k) == Get(rows[i], entry(k).field)
        bad(i, k) == ~IsNull(value(i, k)) /\ ~Castable(value(i, k), entry(k).to)
        stops(i) == {k \in DOMAIN st.entries : bad(i, k) /\ entry(k).onError # "null"}
        fails(i) == stops(i) # {} /\ entry(Min(stops(i))).onError # "skip"
        cast(i) == [c \in DOMAIN rows[i] |->
            LET k == CHOOSE k \in DOMAIN st.entries : entry(k).field = c
            IN  IF c \notin {e.field : e \in ToSet(st.entries)} \/ IsNull(rows[i][c]) THEN rows[i][c]
                ELSE IF bad(i, k) THEN Null ELSE CastValue(rows[i][c], entry(k).to)]
        keep == {i \in Each(rows) : stops(i) = {}}
    IN  IF \E i \in Each(rows) : fails(i) THEN {}
        ELSE {Kept([i \in Each(rows) |-> IF i \in keep THEN cast(i) ELSE rows[i]], keep)}

(***************************************************************************)
(* One row of every group, where its first one is in the order.            *)
(***************************************************************************)
DedupeMeans(st, rows) ==
    LET nth == [i \in Each(rows) |-> Nth(Each(rows), rows, st.order, i)]
        end(at, G, m) == CHOOSE j \in G : at[j] = m
        first(at, G) == end(at, G, Min({at[j] : j \in G}))
        last(at, G) == end(at, G, Max({at[j] : j \in G}))
        classes == {Group(rows, st.by, i) : i \in Each(rows)}
        firsts(at) == SortSeq(Ascending({first(at, G) : G \in classes}), LAMBDA i, j : at[i] < at[j])
        chosen(at, i) == IF st.fn = "last" THEN last(at, Group(rows, st.by, i)) ELSE i
    IN  {[m \in DOMAIN firsts(at) |-> rows[chosen(at, firsts(at)[m])]] : at \in {nth}}

Alike(st, r, s) ==
    IF st.by # <<>> THEN \A c \in ToSet(st.by) : Printed(Get(r, c)) = Printed(Get(s, c))
    ELSE DOMAIN r = DOMAIN s /\ \A c \in DOMAIN r : Printed(r[c]) = Printed(s[c])
DistinctMeans(st, rows) ==
    {Kept(rows, {i \in Each(rows) : ~\E j \in 1..(i - 1) : Alike(st, rows[j], rows[i])})}

(***************************************************************************)
(* Any n rows, or n rows evenly apart from the first.                      *)
(***************************************************************************)
SampleMeans(st, rows) ==
    LET n == IF st.n # 0 THEN st.n ELSE Max({1, (Len(rows) * st.ratio) \div 4})
        evenly == [m \in 1..n |-> rows[1 + (m - 1) * (Len(rows) \div n)]]
    IN  IF n <= 0 \/ n >= Len(rows) THEN {rows}
        ELSE IF st.fn = "systematic" THEN {evenly}
        ELSE {At(rows, places) : places \in {p \in [1..n -> Each(rows)] : IsInjective(p)}}

AssertMeans(st, rows) ==
    IF st.fn = "row"
    THEN {r \in {rows} : \A i \in Each(rows) :
             Eval(st.expr, rows[i]) # Failed /\ Truthy(Eval(st.expr, rows[i]))}
    ELSE {r \in {rows} : st.fn = "overall" /\ Truthy(Eval(st.expr, "count" :> Whole(Len(rows))))}

-------------------------------------------------------------------------------
(***************************************************************************)
(* A cell of a pivot is the aggregate of the rows that have its group and  *)
(* its column.                                                             *)
(***************************************************************************)
PivotMeans(st, rows) ==
    LET name(i) == ColumnOf(st.prefix, Printed(Get(rows[i], st.field)))
        names == {name(i) : i \in Each(rows)}
        lead == Groups(rows, st.by)
        of(m, n) == {i \in Group(rows, st.by, lead[m]) : name(i) = n}
        cell(i) == Get(rows[i], st.cell)
        total(S) == MapThenSumSet(LAMBDA i : Float(cell(i)), S)
        value(S) ==
            CASE st.fn = "first" -> cell(Min(S))
              [] st.fn = "last"  -> cell(Max(S))
              [] st.fn = "count" -> Whole(Cardinality(S))
              [] st.fn = "sum"   -> Number(total(S))
              [] st.fn = "avg"   -> Number(total(S) \div Cardinality(S))
              [] st.fn = "min"   -> Number(Min({Float(cell(i)) : i \in S}))
              [] st.fn = "max"   -> Number(Max({Float(cell(i)) : i \in S}))
        out(m) == [c \in names \cup ToSet(st.by) |->
                      IF c \notin names THEN Get(rows[lead[m]], c)
                      ELSE IF of(m, c) = {} THEN st.value ELSE value(of(m, c))]
    IN  {[m \in DOMAIN lead |-> out(m)]}

\* The rows made of one row, one after the other for all rows.
Spread(made) == FlattenSeq(made)

UnpivotMeans(st, rows) ==
    LET cols(r) == IF st.cols # <<>> THEN st.cols
                   ELSE SetToSortSeq(DOMAIN r \ ToSet(st.by), LAMBDA c, d :
                          (CHOOSE i \in DOMAIN Columns : Columns[i] = c)
                        < (CHOOSE i \in DOMAIN Columns : Columns[i] = d))
        melted(r, c) == [k \in ToSet(st.by) \cup {st.name, st.as} |->
                            CASE k = st.as -> Get(r, c) [] k = st.name -> Word(c)
                              [] OTHER -> Get(r, k)]
    IN  {Spread([i \in Each(rows) |-> [m \in DOMAIN cols(rows[i]) |->
                    melted(rows[i], cols(rows[i])[m])]])}

NestMeans(st, rows) ==
    LET lead == Groups(rows, st.by)
        columns(r) == {c \in DOMAIN r : IF st.cols = <<>> THEN c \notin ToSet(st.by)
                                        ELSE c \in ToSet(st.cols)}
        part(r) == Object([c \in columns(r) |-> r[c]])
        list(i) == LET of == Ascending(Group(rows, st.by, i))
                   IN  ListOf([m \in DOMAIN of |-> part(rows[of[m]])])
    IN  {[m \in DOMAIN lead |-> [c \in ToSet(st.by) \cup {st.as} |->
             IF c = st.as THEN list(lead[m]) ELSE Get(rows[lead[m]], c)]]}

(***************************************************************************)
(* A row for each element.  preserveEmpty keeps a row that has none, and   *)
(* its element is null; one that has no list at all it keeps as it is.     *)
(***************************************************************************)
Empty(st, r) == Get(r, st.field) \in {Null, ListOf(<<>>)}
FlattenMeans(st, rows) ==
    LET into == IF st.as = "" THEN st.field ELSE st.as
        items(r) == IF Get(r, st.field)[1] = "list" THEN r[st.field][2] ELSE <<>>
        indexed(r) == DOMAIN r \cup {into} \cup ({st.name} \ {""})
        element(r, m) == [c \in indexed(r) |->
            CASE c = st.name -> Whole(m - 1) [] c = into -> items(r)[m] [] OTHER -> r[c]]
        made(r) == IF items(r) # <<>> THEN [m \in DOMAIN items(r) |-> element(r, m)]
                   ELSE IF st.fn # "preserveEmpty" THEN <<>>
                   ELSE IF Empty(st, r) THEN <<Put(r, into, Null)>> ELSE <<r>>
    IN  {Spread([i \in Each(rows) |-> made(rows[i])])}

(***************************************************************************)
(* The fields of an object under their names; dropping the object drops    *)
(* its column, even if a field of it has taken its name.                   *)
(***************************************************************************)
UnnestMeans(st, rows) ==
    LET object(r) == Get(r, st.field)[2]
        field(r, c) == {k \in DOMAIN object(r) : ColumnOf(st.prefix, Word(k)) = c}
        all(r) == DOMAIN r \cup {ColumnOf(st.prefix, Word(k)) : k \in DOMAIN object(r)}
        columns(r) == IF st.fn = "drop" THEN all(r) \ {st.field} ELSE all(r)
        flat(r) == [c \in columns(r) |->
                       IF field(r, c) = {} THEN r[c] ELSE object(r)[CHOOSE k \in field(r, c) : TRUE]]
    IN  {[i \in Each(rows) |-> IF Get(rows[i], st.field)[1] = "object" THEN flat(rows[i]) ELSE rows[i]]}

(***************************************************************************)
(* Entry k of transform sees the row with the entries before it.           *)
(***************************************************************************)
TransformMeans(st, rows) ==
    LET n == Len(st.entries)
        value(e, r) == IF e.expr = "" THEN Get(r, e.from) ELSE Eval(e.expr, r)
        with(i) == LET row[k \in 0..n] == IF k = 0 THEN rows[i]
                           ELSE Put(row[k - 1], st.entries[k].as, value(st.entries[k], row[k - 1]))
                   IN  row
        made == {e.as : e \in ToSet(st.entries)}
        columns(i) == (IF st.fn = "replace" THEN made ELSE DOMAIN with(i)[n]) \ ToSet(st.cols)
        fails(i) == \E k \in 1..n : value(st.entries[k], with(i)[k - 1]) = Failed
    IN  IF \E i \in Each(rows) : fails(i) THEN {}
        ELSE {[i \in Each(rows) |-> [c \in columns(i) |-> with(i)[n][c]]]}

(***************************************************************************)
(* Bins of equal width, half open, the last one with its right edge.       *)
(* Distances are compared in parts of a bin.                               *)
(***************************************************************************)
HistogramMeans(st, rows) ==
    LET numbers == {i \in Each(rows) : IsNumber(Get(rows[i], st.field))}
        float(i) == rows[i][st.field][2]
        known(k) == k \in DOMAIN st.range \/ numbers # {}
        low == IF "min" \in DOMAIN st.range THEN st.range["min"] ELSE Min({float(i) : i \in numbers})
        high == IF "max" \in DOMAIN st.range THEN st.range["max"] ELSE Max({float(i) : i \in numbers})
        spread == high - low
        edge(b) == low + (b * spread) \div st.n
        past(i) == st.n * (float(i) - low)
        within(b, i) ==
            /\ past(i) >= b * spread
            /\ past(i) < (b + 1) * spread \/ (b = st.n - 1 /\ float(i) = high)
        bin(b) == [c \in {"binStart", "binEnd", "count"} |->
            CASE c = "binStart" -> Number(edge(b)) [] c = "binEnd" -> Number(edge(b + 1))
              [] c = "count" -> Whole(Cardinality({i \in numbers : within(b, i)}))]
    IN  IF ~known("min") \/ ~known("max") \/ spread <= 0 THEN {}
        ELSE {[m \in 1..st.n |-> bin(m - 1)]}

(***************************************************************************)
(* The last entry that has a column for a name gives it.                   *)
(***************************************************************************)
ProjectMeans(st, rows) ==
    LET gives(r, c) == {k \in DOMAIN st.entries : OutputName(st.entries[k]) = c
                                                  /\ SourceName(st.entries[k]) \in DOMAIN r}
        names(r) == {c \in {OutputName(e) : e \in ToSet(st.entries)} : gives(r, c) # {}}
        selected(r) == [c \in names(r) |-> r[SourceName(st.entries[Max(gives(r, c))])]]
        left(r) == [c \in DOMAIN r \ ToSet(st.cols) |-> r[c]]
    IN  {[i \in Each(rows) |-> IF st.entries = <<>> THEN left(rows[i]) ELSE selected(rows[i])]}

(***************************************************************************)
(* Every column has the name given to it, and no column its old one.       *)
(***************************************************************************)
RenameMeans(st, rows) ==
    LET olds(r) == {e.from : e \in ToSet(st.entries)} \cap DOMAIN r
        gives(r, c) == {e \in ToSet(st.entries) : e.as = c /\ e.from \in DOMAIN r}
        names(r) == (DOMAIN r \ olds(r)) \cup {c \in {e.as : e \in ToSet(st.entries)} : gives(r, c) # {}}
        renamed(r) == [c \in names(r) |->
                          IF gives(r, c) = {} THEN r[c] ELSE r[(CHOOSE e \in gives(r, c) : TRUE).from]]
    IN  {[i \in Each(rows) |-> renamed(rows[i])]}

(***************************************************************************)
(* What a function answers is under the name it has, or spread over the    *)
(* columns of the row; rows answered for all of them take their place.  An *)
(* application's rows take the place of those it was asked about.          *)
(***************************************************************************)
FunctionMeans(st, rows) ==
    LET given == {e.as : e \in ToSet(st.entries)}
        argument(r, c) == Arguments(st, r)[c]
        seen(r) == [c \in DOMAIN r \cup given |-> IF c \in given THEN argument(r, c) ELSE r[c]]
        each == [i \in Each(rows) |-> Host(st.name, seen(rows[i]), <<>>)]
        all == Host(st.name, Parameters(st), rows)
        result(i) == IF st.fn = "batch" THEN all ELSE each[i]
        spread(i) == IF result(i)[1] = "object" /\ st.as = "" THEN result(i)[2]
                     ELSE [c \in {IF st.as = "" THEN "_result" ELSE st.as} |-> result(i)]
        with(i) == [c \in DOMAIN rows[i] \cup DOMAIN spread(i) |->
                       IF c \in DOMAIN spread(i) THEN spread(i)[c] ELSE rows[i][c]]
        taken(list) == [m \in DOMAIN list |-> list[m][2]]
    IN  IF IF st.fn = "batch" THEN all = Failed ELSE \E i \in Each(rows) : each[i] = Failed THEN {}
        ELSE IF st.fn = "batch" /\ st.as = "" /\ IsRows(all) THEN {taken(all[2])}
        ELSE {[i \in Each(rows) |-> with(i)]}

AppMeans(st, rows) ==
    LET ask(some) == Host(st.name, Parameters(st), some)
        one(i) == ask(<<rows[i]>>)
        fails(a) == a = Failed \/ (~IsNull(a) /\ ~IsRows(a))
        answered(a, some) == IF IsNull(a) THEN some ELSE [m \in DOMAIN a[2] |-> a[2][m][2]]
    IN  IF st.fn = "perRow"
        THEN IF \E i \in Each(rows) : fails(one(i)) THEN {}
             ELSE {Spread([i \in Each(rows) |-> answered(one(i), <<rows[i]>>)])}
        ELSE IF fails(ask(rows)) THEN {} ELSE {answered(ask(rows), rows)}

(***************************************************************************)
(* Each row in turn, next to all rows of the dataset in theirs.            *)
(***************************************************************************)
CrossMeans(st, rows) ==
    LET others == Host(st.name, NoRow, <<>>)
        width == Len(others[2])
        left(p) == rows[1 + (p - 1) \div width]
        right(p) == others[2][1 + ((p - 1) % width)][2]
        brought(p) == IF st.cols = <<>> THEN DOMAIN right(p) ELSE ToSet(st.cols)
        object(p) == Object([c \in brought(p) |-> Get(right(p), c)])
        beside(p) == IF st.as # "" THEN Put(left(p), st.as, object(p))
                     ELSE [c \in DOMAIN left(p) \cup brought(p) |->
                              IF c \in brought(p) THEN Get(right(p), c) ELSE left(p)[c]]
    IN  IF others = Failed THEN {} ELSE {[p \in 1..(Len(rows) * width) |-> beside(p)]}

-------------------------------------------------------------------------------
SimpleMeanings(st, rows) ==
    CASE st.op = "window"       -> WindowMeans(st, rows)
      [] st.op = "topPerGroup"  -> TopMeans(st, rows)
      [] st.op = "dropNulls"    -> DropMeans(st, rows)
      [] st.op = "fillNulls"    -> FillMeans(st, rows)
      [] st.op = "cast"         -> CastMeans(st, rows)
      [] st.op = "dedupe"       -> DedupeMeans(st, rows)
      [] st.op = "distinct"     -> DistinctMeans(st, rows)
      [] st.op = "sample"       -> SampleMeans(st, rows)
      [] st.op = "assert"       -> AssertMeans(st, rows)
      [] st.op = "pivot"        -> PivotMeans(st, rows)
      [] st.op = "unpivot"      -> UnpivotMeans(st, rows)
      [] st.op = "nest"         -> NestMeans(st, rows)
      [] st.op = "flatten"      -> FlattenMeans(st, rows)
      [] st.op = "unnestObject" -> UnnestMeans(st, rows)
      [] st.op = "transform"    -> TransformMeans(st, rows)
      [] st.op = "histogram"    -> HistogramMeans(st, rows)
      [] st.op = "rename"       -> RenameMeans(st, rows)
      [] st.op = "callFunction" -> FunctionMeans(st, rows)
      [] st.op = "callApp"      -> AppMeans(st, rows)
      [] st.op = "crossJoin"    -> CrossMeans(st, rows)
      [] st.op \in {"project", "drop"} -> ProjectMeans(st, rows)

\* What a sub-pipe may answer for rows.
SubMeanings(sub, rows) ==
    FoldLeft(LAMBDA S, s : UNION {SimpleMeanings(s, r) : r \in S}, {rows}, sub)

(***************************************************************************)
(* The sub-pipes of a stage answer each for itself, and a branch without   *)
(* an else drops the rows that would take it.                              *)
(***************************************************************************)
Chosen(st, answers) ==
    LET among(k, r) == \E s \in ToSet(answers[k]) : Alike(st, r, s)
    IN  CASE st.op = "merge"  -> Spread(answers)
          [] st.op = "branch" -> IF st.subs[2] = <<>> THEN answers[1] ELSE Spread(answers)
          [] st.op = "intersect" ->
                SelectSeq(answers[1], LAMBDA r : \A k \in DOMAIN answers : among(k, r))
          [] st.op = "except" -> SelectSeq(answers[1], LAMBDA r : ~among(2, r))

Taken(st, row, k) == st.op = "branch" => (Truthy(Eval(st.expr, row)) <=> k = 1)
Part(st, rows, k) == Kept(rows, {i \in Each(rows) : Taken(st, rows[i], k)})
Fails(st, rows) == st.op = "branch" /\ \E i \in Each(rows) : Eval(st.expr, rows[i]) = Failed

Meanings(st, rows) ==
    LET choices(answers) == {c \in [DOMAIN answers -> UNION Range(answers)] :
                                \A k \in DOMAIN answers : c[k] \in answers[k]}
        subMeanings == [k \in DOMAIN st.subs |-> SubMeanings(st.subs[k], Part(st, rows, k))]
    IN  IF Fails(st, rows) THEN {}
        ELSE IF st.op \in Composites
        THEN UNION {{Chosen(st, choice) : choice \in choices(answers)} : answers \in {subMeanings}}
        ELSE SimpleMeanings(st, rows)

-------------------------------------------------------------------------------
(***************************************************************************)
(* Where the program does something else than a document says of it.       *)
(***************************************************************************)

\* New names that are old ones, or meet (pipe/project.go:93).
Crossing(st) == \E d, e \in ToSet(st.entries) : d.as = e.from \/ (d # e /\ d.as = e.as)

\* The row is kept without a null for its element (pipe/flatten.go:42).
Unmarked(st, r) ==
    LET into == IF st.as = "" THEN st.field ELSE st.as
    IN  st.fn = "preserveEmpty" /\ Empty(st, r) /\ Put(r, into, Null) # r

\* Less than a bin outside of the range, and counted (pipe/histogram.go:75).
Outside(st, rows, i) ==
    LET numbers == {j \in Each(rows) : IsNumber(Get(rows[j], st.field))}
        float(j) == rows[j][st.field][2]
        low == IF "min" \in DOMAIN st.range THEN st.range["min"] ELSE Min({float(j) : j \in numbers})
        high == IF "max" \in DOMAIN st.range THEN st.range["max"] ELSE Max({float(j) : j \in numbers})
        reach(d) == d > 0 /\ st.n * d < high - low
    IN  i \in numbers /\ (reach(low - float(i)) \/ reach(float(i) - high))

\* A batch's object is not spread, its rows have no name (pipe/call_function.go:84).
Unnamed(st, rows) ==
    LET all == Host(st.name, Parameters(st), rows)
    IN  st.fn = "batch" /\ (IF st.as = "" THEN all[1] = "object" ELSE IsRows(all))

SimpleDeparts(st, rows) ==
    \/ st.op = "rename" /\ Crossing(st)
    \/ st.op = "flatten" /\ \E i \in Each(rows) : Unmarked(st, rows[i])
    \* No rows have no bins (pipe/histogram.go:39).
    \/ st.op = "histogram" /\ (rows = <<>> \/ \E i \in Each(rows) : Outside(st, rows, i))
    \/ st.op = "callFunction" /\ Unnamed(st, rows)
    \* Only the first row's columns are filled (pipe/quality.go:109).
    \/ st.op = "fillNulls" /\ st.cols = <<>> /\ \E i, j \in Each(rows) : DOMAIN rows[i] # DOMAIN rows[j]
    \* No columns are kept (pipe/reshape.go:213), the name is a prefix (pipe/lookup.go:168).
    \/ st.op = "unpivot" /\ st.by = <<>>
    \/ st.op = "crossJoin" /\ st.as # ""

SubDeparts(sub, rows) ==
    \E k \in DOMAIN sub : \E r \in SubMeanings(SubSeq(sub, 1, k - 1), rows) : SimpleDeparts(sub[k], r)

\* The same values under other columns, which are not told apart (pipe/setops.go:82).
Confused(st, rows) ==
    LET in(r) == SelectSeq(Columns, LAMBDA c : c \in DOMAIN r)
        cells(r) == [m \in DOMAIN in(r) |-> Printed(r[in(r)[m]])]
        some == UNION {ToSet(r) : r \in UNION {SubMeanings(sub, rows) : sub \in ToSet(st.subs)}}
    IN  \E r, s \in some : DOMAIN r # DOMAIN s /\ cells(r) = cells(s)

Departs(st, rows) ==
    \/ st.op \in Composites /\ \E k \in DOMAIN st.subs : SubDeparts(st.subs[k], Part(st, rows, k))
    \/ st.op \in {"intersect", "except"} /\ st.by = <<>> /\ Confused(st, rows)
    \* Without an else they pass through (pipe/branch.go:17).
    \/ st.op = "branch" /\ st.subs[2] = <<>> /\ Part(st, rows, 2) # <<>>
    \/ SimpleDeparts(st, rows)
===============================================================================
