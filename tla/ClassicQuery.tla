----------------------------- MODULE ClassicQuery -----------------------------
(***************************************************************************)
(* A classic query: what the planner pushes to the database                *)
(* (planner/planner.go), the statement it becomes (sqlgen), and what the   *)
(* processor does with its rows (processor/processor.go).                  *)
(*                                                                         *)
(* A query joins datasets, selects columns (or "*"), computes columns from *)
(* expressions, filters, groups by a list of columns, folds aggregates,    *)
(* filters groups, orders and pages; the expander (expand/expander.go)     *)
(* adds what the ids in reference columns stand for.                       *)
(***************************************************************************)
EXTENDS QuerySource

CONSTANTS
    DefaultLimit,    \* EngineConfig.DefaultLimit
    MaxLimit         \* EngineConfig.MaxLimit

ASSUME LimitsAssumption ==
    /\ DefaultLimit \in Nat \ {0}
    /\ MaxLimit \in Nat \ {0}

-------------------------------------------------------------------------------
NoExpand == [all |-> FALSE, columns |-> {}]
AllRows == [join |-> <<>>, select |-> {}, computed |-> [c \in {} |-> {}], where |-> NoWhere,
            groupBy |-> <<>>, aggs |-> {}, having |-> NoWhere, orderBy |-> <<>>,
            limit |-> NoLimit, offset |-> 0, expand |-> NoExpand]

Computed(q) == DOMAIN q.computed
FieldsOf(order) == {order[n].field : n \in DOMAIN order}

(***************************************************************************)
(* applyDefaults.                                                          *)
(***************************************************************************)
WithDefaults(q) ==
    [q EXCEPT !.limit = IF @ = NoLimit THEN Min({DefaultLimit, MaxLimit})
                        ELSE Min({@, MaxLimit})]

(***************************************************************************)
(* A versioned dataset shows its current rows, unless the query asks.      *)
(***************************************************************************)
NamesVersion(w) == \E v \in Parts(w) : v.field = "cur"
CurrentRow == Simple("cur", "==", 1)
CurrentOnly(q) ==
    IF dataset.versioned /\ "cur" \in dataset.raw /\ ~NamesVersion(q.where)
    THEN [q EXCEPT !.where = MergeAnd(CurrentRow, @)]
    ELSE q

(***************************************************************************)
(* The literals of that condition are strings.                             *)
(***************************************************************************)
ASSUME CurrentRowAssumption == {"cur", "=="} \subseteq STRING

(***************************************************************************)
(* splitWhere: what can be pushed, and whether anything is left.  Part of  *)
(* a conjunction can be; part of a disjunction or negation cannot.         *)
(***************************************************************************)
InMemory == [pushed |-> NoWhere, rest |-> TRUE]
Pushed(parts) == {part.pushed : part \in parts} \ {NoWhere}
Rest(parts) == \E part \in parts : part.rest
SplitLeaf(w, computed) ==
    IF w.type = "none" THEN [pushed |-> NoWhere, rest |-> FALSE]
    ELSE IF w.type = "expr" \/ w.field \in computed THEN InMemory
    ELSE [pushed |-> w, rest |-> FALSE]
SplitPart(w, parts) ==
    [pushed |-> IF Pushed(parts) = {} THEN NoWhere ELSE [w EXCEPT !.of = Pushed(parts)],
     rest |-> Rest(parts)]
SplitIf(w, computed, parts) ==
    CASE w.type \in {"none", "expr", "simple"} -> SplitLeaf(w, computed)
      [] w.type = "and" -> SplitPart(w, parts)
      [] w.type \in {"or", "not"} ->
            IF Rest(parts) \/ \E part \in parts : part.pushed = NoWhere THEN InMemory
            ELSE [pushed |-> [w EXCEPT !.of = Pushed(parts)], rest |-> FALSE]
SplitAnyIf(w, computed, parts) ==
    IF w.of = {} THEN SplitLeaf(w, computed) ELSE SplitPart(w, parts)
SplitAnyPart(w, computed) == Read(LAMBDA v, of : SplitAnyIf(v, computed, of), w)
Split(w, computed) == Read(LAMBDA v, of : SplitIf(v, computed, of), w)

(***************************************************************************)
(* planSelect: the columns asked for; the empty set asks for all.          *)
(***************************************************************************)
PlanSelect(q) ==
    LET shown == (q.select \cup FieldsOf(q.orderBy)) \ Computed(q)
        folded == Range(q.groupBy) \cup {a.field : a \in q.aggs}
    IN  IF "*" \in q.select \/ (q.select = {} /\ q.aggs = {}) THEN {}
        ELSE (shown \cup folded) \cap dataset.raw

(***************************************************************************)
(* The columns the rest of the plan may push, those of the joined datasets *)
(* among them.                                                             *)
(***************************************************************************)
RawColumns(joins) ==
    dataset.raw \cup UNION {NamesFor(j.alias, j.of.raw) : j \in Range(joins)}

(***************************************************************************)
(* The page is pushed when nothing left to memory changes the rows.        *)
(***************************************************************************)
PagePushed(memory) == memory \cap {"filter_expr", "aggregate", "having"} = {}

(***************************************************************************)
(* Plan: the clauses pushed, and the names of those left in memory.        *)
(***************************************************************************)
Plan(query) ==
    LET q == CurrentOnly(query)
        split == Split(q.where, Computed(q))
        joins == PlanJoins(q.join)
        raw == RawColumns(joins)
        groupRaw == Range(q.groupBy) \subseteq raw
        aggs == {a \in q.aggs : groupRaw /\ Pushable(a) /\ a.field \in raw}
        order == Kept(q.orderBy, {n \in DOMAIN q.orderBy :
                                     q.orderBy[n].field \in raw \ Computed(q)})
        left == (IF split.rest THEN {"filter_expr"} ELSE {})
                \cup (IF aggs # q.aggs THEN {"aggregate"} ELSE {})
                \cup (IF q.having # NoWhere /\ ~groupRaw THEN {"having"} ELSE {})
                \cup (IF order # q.orderBy THEN {"sort"} ELSE {})
                \cup (IF Computed(q) # {} THEN {"computed_columns"} ELSE {})
        paged == PagePushed(left)
    IN  [joins  |-> joins,
         select |-> PlanSelect(query),
         where  |-> split.pushed,
         group  |-> IF groupRaw THEN q.groupBy ELSE <<>>,
         aggs   |-> aggs,
         having |-> IF groupRaw THEN q.having ELSE NoWhere,
         order  |-> order,
         limit  |-> IF paged THEN q.limit ELSE NoLimit,
         offset |-> IF paged THEN q.offset ELSE 0,
         memory |-> left \cup (IF paged THEN {} ELSE {"paginate"})]

-------------------------------------------------------------------------------
(***************************************************************************)
(* The statement GenerateSQL writes for a plan, as a database answers it.  *)
(***************************************************************************)
Matching(p, d) ==
    LET sources == Sources(d.rows, p.joins)
        Named(key) == NamedByLast(p.joins, RowsAt(sources, key))
    IN  InOrder([key \in {k \in Keys(d.rows, p.joins) :
                             /\ Inside(RowsAt(sources, k)[1], ScopedBy(d))
                             /\ SqlHolds(p.where, Named(k))} |-> Named(key)])

Grouping(p) == p.group # <<>> \/ p.aggs # {}
Fetched(p) ==
    IF p.aggs # {} THEN Range(p.group) \cup {a.as : a \in p.aggs}
    ELSE IF p.select = {} THEN UNION {table.cols : table \in Range(Tables(p.joins))}
    ELSE p.select

(***************************************************************************)
(* A statement with a name that no table or more than one has, or that     *)
(* shows or orders by an ungrouped column, is refused.                     *)
(***************************************************************************)
Mentioned(p) ==
    Fields(p.where) \cup FieldsOf(p.order) \cup Range(p.group)
    \cup (IF p.aggs = {} THEN p.select ELSE {a.field : a \in p.aggs})
Refused(p) ==
    \/ NoSuchSource(p.joins)
    \/ \E c \in Mentioned(p) : Cardinality(Owners(p.joins, c)) # 1
    \/ Grouping(p) /\ ~(FieldsOf(p.order) \subseteq Range(p.group))
    \/ Grouping(p) /\ p.aggs = {} /\ ~(Fetched(p) \subseteq Range(p.group))
    \/ p.having # NoWhere
       /\ ~(Fields(p.having) \subseteq Range(p.group) \cup {a.as : a \in p.aggs})

(***************************************************************************)
(* HAVING over the name of an aggregate: some databases know it there,     *)
(* PostgreSQL does not.                                                    *)
(***************************************************************************)
MayBeRefused(p) ==
    p.having # NoWhere /\ ~(Fields(p.having) \subseteq Range(p.group))

Answer(p, d) ==
    LET matching == Matching(p, d)
        rows == IF Grouping(p) THEN Folded(matching, p.group, p.aggs, Database) ELSE matching
        kept == Kept(rows, {i \in DOMAIN rows : SqlHolds(p.having, rows[i])})
        page == Page(Sorted(p.order, Database, kept), p.offset, p.limit)
    IN  [i \in DOMAIN page |-> ScanRow(page[i], Fetched(p))]

-------------------------------------------------------------------------------
(***************************************************************************)
(* The processor's steps.                                                  *)
(***************************************************************************)
WithComputed(q, rows) ==
    [i \in DOMAIN rows |->
        [c \in DOMAIN rows[i] \cup Computed(q) |->
            IF c \in Computed(q) THEN Eval(q.computed[c], rows[i]) ELSE rows[i][c]]]

Filtered(w, rows) == Kept(rows, {i \in DOMAIN rows : Holds(w, rows[i])})

Project(q, rows) ==
    IF q.select = {} \/ q.aggs # {} \/ "*" \in q.select THEN rows
    ELSE [i \in DOMAIN rows |-> Columns(rows[i], q.select \cup Computed(q))]

When(condition, rows, otherwise) == IF condition THEN rows ELSE otherwise

Process(p, q, rows) ==
    LET computed == WithComputed(q, rows)
        kept == When(HasExpr(q.where), Filtered(q.where, computed), computed)
        folded == When("aggregate" \in p.memory,
                       Folded(kept, q.groupBy, q.aggs, Memory), kept)
        groups == When("having" \in p.memory, Filtered(q.having, folded), folded)
        sorted == When("sort" \in p.memory, Sorted(q.orderBy, Memory, groups), groups)
        paged == When("paginate" \in p.memory, Page(sorted, q.offset, q.limit), sorted)
    IN  [rows |-> Project(q, paged), total |-> Len(sorted)]

(***************************************************************************)
(* ProcessInMemory: the whole query over rows no database has touched.     *)
(***************************************************************************)
ProcessInMemory(q, rows) ==
    LET kept == Filtered(q.where, WithComputed(q, rows))
        folded == When(q.aggs # {}, Folded(kept, q.groupBy, q.aggs, Memory), kept)
        sorted == Sorted(q.orderBy, Memory, Filtered(q.having, folded))
    IN  [rows |-> Project(q, Page(sorted, q.offset, q.limit)), total |-> Len(sorted)]

(***************************************************************************)
(* executeClassic: the answer, and whether it says that there is more.     *)
(***************************************************************************)
HasMoreAtOnce(q, total) == q.limit > 0 /\ q.offset + q.limit <= total
HasMore(q, total) == q.limit > 0 /\ q.offset + q.limit < total

(***************************************************************************)
(* Expand: which columns hold references, to what, and whether the query   *)
(* names one that does not.  A reference to another dataset, or to a       *)
(* directory that is not wired, is passed over.                            *)
(***************************************************************************)
SystemUserColumns == {"created_by", "updated_by", "deleted_by", "committed_by"}
Expandable ==
    [c \in DOMAIN dataset.refs \cup SystemUserColumns |->
        IF c \in DOMAIN dataset.refs THEN dataset.refs[c] ELSE "@user"]
NotExpandable(q) == ~q.expand.all /\ ~(q.expand.columns \subseteq DOMAIN Expandable)
RefMap(q) ==
    LET asked == IF q.expand.all THEN DOMAIN Expandable ELSE q.expand.columns
    IN  Restrict(Expandable, {c \in asked : Expandable[c] \in DOMAIN host.knows})

(***************************************************************************)
(* The ids of all rows are collected and looked up, one batch for each     *)
(* directory; then every row is given what was found for its own.  Zero    *)
(* stands for the empty string.                                            *)
(***************************************************************************)
Id(row, c) == IF Get(row, c) = 0 THEN Null ELSE Get(row, c)
Resolved(refs, rows, kind) ==
    {Id(rows[i], c) : i \in DOMAIN rows, c \in {d \in DOMAIN refs : refs[d] = kind}}
        \cap host.knows[kind]
WithMeta(refs, cache, row) ==
    LET found == {c \in DOMAIN refs : Id(row, c) \in cache[refs[c]]}
    IN  IF found = {} THEN row
        ELSE [c \in DOMAIN row \cup {"_meta"} |->
                IF c = "_meta" THEN [d \in found |-> <<refs[d], row[d]>>] ELSE row[c]]
Expanded(q, rows) ==
    LET refs == RefMap(q)
        cache == [kind \in DOMAIN host.knows |-> Resolved(refs, rows, kind)]
    IN  [i \in DOMAIN rows |-> WithMeta(refs, cache, rows[i])]

(***************************************************************************)
(* What a query means: the in-memory pipeline over the rows the caller may *)
(* see, joined as the query writes it.  A versioned dataset shows its      *)
(* current rows unless asked, and of two columns with one name the first   *)
(* table's is meant.                                                       *)
(***************************************************************************)
Current(q) ==
    LET seen == SeenIn(dataset)
    IN  Restrict(seen, {p \in DOMAIN seen :
            dataset.versioned => NamesVersion(q.where) \/ Get(seen[p], "cur") = 1})
Asked(q) == Keys(Current(q), AsWritten(q.join))
AskedRows(q, key) == RowsAt(Sources(Current(q), AsWritten(q.join)), key)
Visible(q) ==
    InOrder([key \in Asked(q) |-> NamedByFirst(AsWritten(q.join), AskedRows(q, key))])
Shown(row) == Restrict(row, DOMAIN row \ DOMAIN Qualified)
Meaning(q) ==
    LET result == ProcessInMemory(q, Visible(q))
    IN  [result EXCEPT !.rows = [i \in DOMAIN @ |-> Shown(@[i])]]

-------------------------------------------------------------------------------
(***************************************************************************)
(* When a plan divides a query so that the answer is the query's: whatever *)
(* the database does comes before whatever is left in memory, the rows     *)
(* bring the columns that are still to be read, a condition that was held  *)
(* back is applied, no null meets an operation that treats it differently  *)
(* in the two places, and the joins are such that the statement can say    *)
(* them.                                                                   *)
(***************************************************************************)
DatabaseFirst(p, q) ==
    /\ Grouping(p) => p.aggs # {}
                      /\ p.memory \cap {"computed_columns", "filter_expr", "aggregate"} = {}
    /\ "aggregate" \in p.memory => p.order = <<>> /\ p.having = NoWhere
    /\ "sort" \in p.memory /\ PagePushed(p.memory) =>
            Meaning(q).total <= q.limit /\ q.offset = 0

ReadLater(p, q) ==
    (UNION {q.computed[c] : c \in Computed(q)})
    \cup (IF HasExpr(q.where) THEN Fields(CurrentOnly(q).where) ELSE {})
    \cup (IF "sort" \in p.memory THEN FieldsOf(q.orderBy) ELSE {})
    \cup (IF "aggregate" \in p.memory THEN Range(q.groupBy) \cup {a.field : a \in q.aggs}
          ELSE Fields(q.having) \cup (q.select \ Computed(q)))
BringsAll(p, q) ==
    ~Grouping(p) => ReadLater(p, q) \cap (NamesIn(p.joins) \cup dataset.raw) \subseteq Fetched(p)

FiltersAll(p, q) ==
    /\ "filter_expr" \in p.memory => HasExpr(q.where)
    /\ dataset.versioned /\ ~NamesVersion(q.where) => "cur" \in dataset.raw \ Computed(q)

Negates(w) == \E v \in Parts(w) : v.type = "not"
NullsAlike(q) ==
    \/ /\ \A row \in Range(Visible(q)) : Null \notin Range(row)
       /\ q.groupBy # <<>> \/ Filtered(q.where, WithComputed(q, Visible(q))) # <<>>
    \/ /\ ~Negates(q.where) /\ ~Negates(q.having)
       /\ q.orderBy = <<>>
       /\ \A a \in q.aggs : a.fn = "COUNT"

(***************************************************************************)
(* Every join starts from the first table, no predicate in WHERE drops the *)
(* rows that an outer join keeps without it, the groups have bare names,   *)
(* and where all columns are shown two of one name agree.                  *)
(***************************************************************************)
JoinsSaid(p, q) ==
    /\ \A n \in DOMAIN p.joins : AsWritten(q.join)[n].at = 1
    /\ (\E j \in Range(p.joins) : j.type \in {"right", "full"}) =>
            host.scope = {} /\ CurrentOnly(q) = q
    /\ Range(q.groupBy) \cap DOMAIN Qualified = {}
    /\ p.select = {} /\ ~Grouping(p) =>
            \A key \in Asked(q) :
                Shown(NamedByFirst(p.joins, AskedRows(q, key)))
                    = Shown(NamedByLast(p.joins, AskedRows(q, key)))

WellDivided(p, q) ==
    /\ ScopeReaches(p.joins) /\ BringsAll(p, q) /\ FiltersAll(p, q)
    /\ DatabaseFirst(p, q) /\ JoinsSaid(p, q) /\ NullsAlike(q)
===============================================================================
