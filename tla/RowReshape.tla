------------------------------ MODULE RowReshape ------------------------------
(***************************************************************************)
(* The operators that change the shape of rows (pipe/reshape.go,           *)
(* flatten.go, transform.go, histogram.go), the stages a factory refuses,  *)
(* and one operator for all of them.                                       *)
(***************************************************************************)
EXTENDS RowColumns

(***************************************************************************)
(* pivot: one row for each group, a column for each printed value of the   *)
(* column key; null counts as zero in a sum, a minimum or a maximum.       *)
(***************************************************************************)
AggregateValues(fn, vs) ==
    LET total == FoldLeft(LAMBDA a, v : a + Float(v), 0, vs)
        floats == {Float(vs[m]) : m \in DOMAIN vs}
    IN  CASE fn = "first" -> vs[1]
          [] fn = "last"  -> vs[Len(vs)]
          [] fn = "count" -> Whole(Len(vs))
          [] fn = "sum"   -> Number(total)
          [] fn = "avg"   -> Number(total \div Len(vs))
          [] fn = "min"   -> Number(Min(floats))
          [] fn = "max"   -> Number(Max(floats))

Pivot(st, rows) ==
    LET text(i) == Printed(Get(rows[i], st.field))
        texts == {text(i) : i \in DOMAIN rows}
        cell(h, t) ==
            LET of == Ascending({i \in Group(rows, st.by, h) : text(i) = t})
            IN  IF of = <<>> THEN st.value
                ELSE AggregateValues(st.fn, [m \in DOMAIN of |-> Get(rows[of[m]], st.cell)])
        named(n) == CHOOSE t \in texts : ColumnOf(st.prefix, t) = n
        pivoted(h) == [n \in {ColumnOf(st.prefix, t) : t \in texts} |-> cell(h, named(n))]
                      @@ [c \in ToSet(st.by) |-> Get(rows[h], c)]
        heads == Heads(rows, st.by)
    IN  IF rows = <<>> THEN InPlace(rows)
        ELSE Making(rows, [h \in DOMAIN heads |-> pivoted(heads[h])])

(***************************************************************************)
(* unpivot: a row for each value column; those of the row itself, by name, *)
(* if none are listed.                                                     *)
(***************************************************************************)
ValueCols(st, row) ==
    IF st.cols # <<>> THEN st.cols
    ELSE SelectSeq(Columns, LAMBDA c : c \in DOMAIN row \ ToSet(st.by))
Unpivot(st, rows) ==
    LET molten(r, c) == Put(Put([k \in ToSet(st.by) |-> Get(r, k)], st.name, Word(c)),
                            st.as, Get(r, c))
        melt(r) == [m \in DOMAIN ValueCols(st, r) |-> molten(r, ValueCols(st, r)[m])]
    IN  Making(rows, FlattenSeq([i \in DOMAIN rows |-> melt(rows[i])]))

(***************************************************************************)
(* nest collects the rows of a group, flatten makes a row of each element  *)
(* of a list, unnestObject spreads an object over its row.                 *)
(***************************************************************************)
Nest(st, rows) ==
    LET kept(r) == IF st.cols # <<>> THEN DOMAIN r \cap ToSet(st.cols)
                   ELSE DOMAIN r \ ToSet(st.by)
        record(i) == Object([c \in kept(rows[i]) |-> rows[i][c]])
        of(h) == Ascending(Group(rows, st.by, h))
        nested(h) == Put([k \in ToSet(st.by) |-> Get(rows[h], k)], st.as,
                         ListOf([m \in DOMAIN of(h) |-> record(of(h)[m])]))
        heads == Heads(rows, st.by)
    IN  Making(rows, [h \in DOMAIN heads |-> nested(heads[h])])

Items(v) == IF v[1] = "list" THEN v[2] ELSE <<>>
Flatten(st, rows) ==
    LET into == IF st.as # "" THEN st.as ELSE st.field
        element(r, m) ==
            LET dup == Put(r, into, Items(Get(r, st.field))[m])
            IN  IF st.name = "" THEN dup ELSE Put(dup, st.name, Whole(m - 1))
        elements(i) ==
            LET items == Items(Get(rows[i], st.field))
            IN  IF items # <<>> THEN [m \in DOMAIN items |-> New(element(rows[i], m))]
                ELSE IF st.fn = "preserveEmpty" THEN <<Old(i)>> ELSE <<>>
    IN  Answers(rows, FlattenSeq([i \in DOMAIN rows |-> elements(i)]))

UnnestObject(st, rows) ==
    LET spread(r) ==
            LET v == Get(r, st.field)
                merged == [c \in {ColumnOf(st.prefix, Word(k)) : k \in DOMAIN v[2]} |->
                              v[2][CHOOSE k \in DOMAIN v[2] : ColumnOf(st.prefix, Word(k)) = c]]
                          @@ r
            IN  IF v[1] # "object" THEN r
                ELSE IF st.fn = "drop" THEN Without(merged, {st.field}) ELSE merged
    IN  InPlace([i \in DOMAIN rows |-> spread(rows[i])])

(***************************************************************************)
(* transform writes into the row it reads, entry by entry, and stops at    *)
(* the first expression that fails, the rows before it written.            *)
(***************************************************************************)
TransformRow(st, row) ==
    LET step(s, e) ==
            LET v == IF e.from # "" THEN Get(s.row, e.from) ELSE Eval(e.expr, s.row)
            IN  IF ~s.ok THEN s
                ELSE IF v = Failed THEN [s EXCEPT !.ok = FALSE]
                ELSE [s EXCEPT !.row = Put(s.row, e.as, v)]
        done == FoldLeft(step, [row |-> row, ok |-> TRUE], st.entries)
        produced == {st.entries[k].as : k \in DOMAIN st.entries}
        dropped == (IF st.fn = "replace" THEN DOMAIN done.row \ produced ELSE {})
                   \cup ToSet(st.cols)
    IN  IF done.ok THEN [done EXCEPT !.row = Without(done.row, dropped)] ELSE done

Transform(st, rows) ==
    LET done == [i \in DOMAIN rows |-> TransformRow(st, rows[i])]
        fails == {i \in DOMAIN rows : ~done[i].ok}
        after == [i \in DOMAIN rows |->
                     IF \E f \in fails : f < i THEN rows[i] ELSE done[i].row]
    IN  IF fails # {} THEN Failing(after) ELSE InPlace(after)

(***************************************************************************)
(* histogram: a range that is not given is taken from the numbers, the     *)
(* bin of a number is the quotient rounded toward zero.                    *)
(***************************************************************************)
BinOf(f, min, max, bins) ==
    LET q == IF f < min THEN -(((min - f) * bins) \div (max - min))
             ELSE ((f - min) * bins) \div (max - min)
    IN  IF q = bins THEN bins - 1 ELSE q

Histogram(st, rows) ==
    LET floats == {rows[i][st.field][2] : i \in {i \in DOMAIN rows : IsNumber(Get(rows[i], st.field))}}
        derives == "min" \notin DOMAIN st.range \/ "max" \notin DOMAIN st.range
        min == IF "min" \in DOMAIN st.range THEN st.range["min"] ELSE Min(floats)
        max == IF "max" \in DOMAIN st.range THEN st.range["max"] ELSE Max(floats)
        count(b) == Cardinality({i \in DOMAIN rows :
                        IsNumber(Get(rows[i], st.field))
                        /\ BinOf(rows[i][st.field][2], min, max, st.n) = b})
        bin(b) == ("binStart" :> Number(min + (b * (max - min)) \div st.n))
                  @@ ("binEnd" :> Number(min + ((b + 1) * (max - min)) \div st.n))
                  @@ ("count" :> Whole(count(b)))
    IN  IF rows = <<>> THEN Making(rows, <<>>)
        ELSE IF (derives /\ floats = {}) \/ max <= min THEN Failing(rows)
        ELSE Making(rows, [b \in 1..st.n |-> bin(b - 1)])

-------------------------------------------------------------------------------
(***************************************************************************)
(* What the factories refuse; a stage of sub-pipes is built with them.     *)
(***************************************************************************)
Aggregates == {"first", "last", "count", "sum", "avg", "min", "max"}
Composites == {"merge", "intersect", "except", "branch"}

RefusesWindow(st) ==
    \/ st.as = ""
    \/ CASE st.fn \in {"row_number", "rank", "dense_rank"} -> st.order = <<>>
         [] st.fn \in {"lag", "lead"} -> st.field = "" \/ st.order = <<>>
         [] st.fn \in {"first_value", "last_value"} -> st.field = ""
         [] OTHER -> TRUE
RefusesTop(st) == st.n <= 0 \/ st.order = <<>> \/ \E k \in DOMAIN st.order : st.order[k].field = ""
RefusesFill(st) == st.fn \notin {"value", "zero", "mean", "lastvalue", "nextvalue"}
RefusesCast(st) ==
    \/ st.entries = <<>>
    \/ \E e \in ToSet(st.entries) : e.field = "" \/ e.to \notin {"int", "float", "string"}
RefusesDedupe(st) == st.by = <<>> \/ st.fn \notin {"first", "last"}
RefusesSample(st) == (st.n = 0 <=> st.ratio = 0) \/ st.ratio \notin 0..4
RefusesPivot(st) == st.field = "" \/ st.cell = "" \/ st.fn \notin Aggregates
RefusesTransform(st) ==
    \/ st.entries = <<>>
    \/ \E e \in ToSet(st.entries) : e.as = "" \/ (e.expr = "" <=> e.from = "")
RefusesHistogram(st) == st.field = "" \/ st.n <= 0

RefusesAssert(st) == st.expr = ""
RefusesUnpivot(st) == st.name = "" \/ st.as = ""
RefusesNest(st) == st.by = <<>> \/ st.as = ""
RefusesField(st) == st.field = ""

RefusesSimple(st) ==
    CASE st.op = "window"       -> RefusesWindow(st)
      [] st.op = "topPerGroup"  -> RefusesTop(st)
      [] st.op = "fillNulls"    -> RefusesFill(st)
      [] st.op = "cast"         -> RefusesCast(st)
      [] st.op = "dedupe"       -> RefusesDedupe(st)
      [] st.op = "sample"       -> RefusesSample(st)
      [] st.op = "assert"       -> RefusesAssert(st)
      [] st.op = "pivot"        -> RefusesPivot(st)
      [] st.op = "unpivot"      -> RefusesUnpivot(st)
      [] st.op = "nest"         -> RefusesNest(st)
      [] st.op = "transform"    -> RefusesTransform(st)
      [] st.op = "histogram"    -> RefusesHistogram(st)
      [] st.op = "project"      -> RefusesProject(st)
      [] st.op = "rename"       -> RefusesRename(st)
      [] st.op = "drop"         -> RefusesDrop(st)
      [] st.op = "callFunction" -> RefusesFunction(st)
      [] st.op = "callApp"      -> RefusesApp(st)
      [] st.op = "crossJoin"    -> RefusesCrossJoin(st)
      [] st.op \in {"flatten", "unnestObject"} -> RefusesField(st)
      [] st.op \in {"dropNulls", "distinct"}   -> FALSE

RefusesMerge(st) == st.subs = <<>> \/ <<>> \in ToSet(st.subs)
RefusesIntersect(st) == Len(st.subs) < 2
RefusesExcept(st) == <<>> \in ToSet(st.subs)
RefusesBranch(st) == st.expr = "" \/ st.subs[1] = <<>>
RefusesSources(st) ==
    CASE st.op = "merge"     -> RefusesMerge(st)
      [] st.op = "intersect" -> RefusesIntersect(st)
      [] st.op = "except"    -> RefusesExcept(st)
      [] st.op = "branch"    -> RefusesBranch(st)

Refused(st) ==
    IF st.op \in Composites
    THEN RefusesSources(st) \/ \E sub \in ToSet(st.subs) : \E s \in ToSet(sub) : RefusesSimple(s)
    ELSE RefusesSimple(st)

Apply(st, rows, draws, walks) ==
    CASE st.op = "window"       -> Window(st, rows)
      [] st.op = "topPerGroup"  -> TopPerGroup(st, rows)
      [] st.op = "dropNulls"    -> DropNulls(st, rows)
      [] st.op = "fillNulls"    -> FillNulls(st, rows)
      [] st.op = "cast"         -> Cast(st, rows)
      [] st.op = "dedupe"       -> Dedupe(st, rows)
      [] st.op = "distinct"     -> Distinct(st, rows)
      [] st.op = "sample"       -> Sample(st, rows, draws)
      [] st.op = "assert"       -> Asserted(st, rows)
      [] st.op = "pivot"        -> Pivot(st, rows)
      [] st.op = "unpivot"      -> Unpivot(st, rows)
      [] st.op = "nest"         -> Nest(st, rows)
      [] st.op = "flatten"      -> Flatten(st, rows)
      [] st.op = "unnestObject" -> UnnestObject(st, rows)
      [] st.op = "transform"    -> Transform(st, rows)
      [] st.op = "histogram"    -> Histogram(st, rows)
      [] st.op = "project"      -> Project(st, rows)
      [] st.op = "rename"       -> Rename(st, rows, walks)
      [] st.op = "drop"         -> DropColumns(st, rows)
      [] st.op = "callFunction" -> CallFunction(st, rows)
      [] st.op = "callApp"      -> CallApp(st, rows)
      [] st.op = "crossJoin"    -> CrossJoin(st, rows)
===============================================================================
