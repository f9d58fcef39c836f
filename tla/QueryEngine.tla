------------------------------ MODULE QueryEngine ------------------------------
(***************************************************************************)
(* Engine.Execute (exec/engine.go): a classic query is planned, answered   *)
(* by the database, finished by the processor and enriched by the          *)
(* expander.  Of a pipe, PlanPipe (pipe/planner.go) first folds a prefix   *)
(* of the stages into such a query, which neither joins nor expands, and   *)
(* the stages behind it run over its rows (pipe/executor.go).              *)
(*                                                                         *)
(* The pipes are linear: what `from` does to a pipe is in PipeTail, and    *)
(* how the rows of a prefix are read and capped is in PrefixStream.        *)
(***************************************************************************)
EXTENDS ClassicQuery

CONSTANTS
    Worlds,          \* datasets, each with an embedder, the classic queries and
                     \* the pipes (sequences of stages) asked
    MaxRows          \* ExecutorConfig.MaxRows

ASSUME EngineAssumption ==
    MaxRows \in Nat \ {0} /\ \A world \in Worlds : <<>> \notin world.pipes

(***************************************************************************)
(* Datasets, classic queries and stages have their parts.  No column and   *)
(* no aggregate has a name written with an alias, metadata declares what   *)
(* is there, and a scope asks for a value: a database finds no row equal   *)
(* to null.  What the parser lets through has a HAVING over groups or      *)
(* aggregates only (parser/parser.go).                                     *)
(***************************************************************************)
IsRow(row) == \A c \in DOMAIN row : row[c] \in Int
IsDataset(d) ==
    /\ {"table", "raw", "columns", "versioned", "refs", "rows"} \subseteq DOMAIN d
    /\ d.columns \cap DOMAIN Qualified = {}
    /\ d.raw \subseteq d.columns
    /\ d.rows \in Seq(Range(d.rows))
    /\ \A row \in Range(d.rows) : IsRow(row) /\ Range(row) \subseteq Nat \cup {Null}
IsQuery(q) ==
    /\ DOMAIN q = DOMAIN AllRows
    /\ q.join \in Seq(Range(q.join))
    /\ \A n \in DOMAIN q.join : IsDataset(q.join[n].dataset)
HasClauses(q) ==
    /\ IsTree(q.where) /\ IsTree(q.having) /\ ~HasExpr(q.having)
    /\ q.having # NoWhere => q.groupBy # <<>> \/ q.aggs # {}
    /\ (Computed(q) \cup {a.as : a \in q.aggs}) \cap DOMAIN Qualified = {}
    /\ \A c \in Computed(q) : IsFiniteSet(q.computed[c])
    /\ q.groupBy \in Seq(Range(q.groupBy))
    /\ q.orderBy \in Seq(Range(q.orderBy))
    /\ q.limit \in Nat \cup {NoLimit} /\ q.offset \in Nat
IsStage(s) ==
    /\ {"op", "where", "cols", "order", "n", "keys", "aggs"} \subseteq DOMAIN s
    /\ IsTree(s.where)
    /\ s.order \in Seq(Range(s.order))
    /\ s.n \in Nat
    /\ \A a \in s.aggs : a.as \notin DOMAIN Qualified

ASSUME WorldsAssumption ==
    \A world \in Worlds :
        /\ IsDataset(world.dataset)
        /\ \A c \in world.host.scope : c.value # Null
        /\ \A q \in world.queries : IsQuery(q) /\ HasClauses(q)
        /\ \A pipe \in world.pipes :
              pipe \in Seq(Range(pipe)) /\ \A s \in Range(pipe) : IsStage(s)

VARIABLES
    stages,          \* q.Pipe; empty for a classic query
    query,           \* the classic query: asked, or folded so far
    have,            \* haveSort, haveLimit, haveSkip, haveSelect
    exact,           \* whether every stage so far was folded where it may be
    folded,          \* how many stages were folded: plan.PushedStages
    at,              \* the next stage
    plan,            \* what Plan made of the query
    rows,            \* the rows in hand
    more,            \* the answer's has_more
    phase            \* what comes next

vars == <<dataset, host, stages, query, have, exact, folded, at, plan, rows, more, phase>>

-------------------------------------------------------------------------------
Init ==
    /\ \E world \in Worlds :
          /\ dataset = world.dataset
          /\ host = world.host
          /\ \/ /\ stages = <<>>
                /\ query \in world.queries
                /\ phase = "query"
             \/ /\ stages \in world.pipes
                /\ query = AllRows
                /\ phase = "folding"
    /\ have = {}
    /\ exact = TRUE
    /\ folded = 0
    /\ at = 1
    /\ plan = Plan(AllRows)
    /\ rows = <<>>
    /\ more = FALSE

Stage == stages[at]
Folding(op) ==
    /\ phase = "folding"
    /\ at \in DOMAIN stages
    /\ Stage.op = op
    /\ UNCHANGED <<dataset, host, stages, plan, rows, more>>

(***************************************************************************)
(* What each stage needs in order to be folded.                            *)
(***************************************************************************)
Clear(flags) == have \cap flags = {}
FiltersAnywhere == ~HasExpr(Stage.where)
FilterFolds == Clear({"sort", "limit", "skip"}) /\ ~HasExpr(Stage.where)
ProjectFolds == Clear({"select", "limit", "skip"}) /\ Stage.cols # {}
SortFolds == Clear({"limit", "skip"})
SkipFolds == Clear({"limit"})
AllPushable(s) == \A a \in s.aggs : Pushable(a)
GroupByFolds ==
    /\ at < Len(stages)
    /\ stages[at + 1].op = "aggregate"
    /\ AllPushable(stages[at + 1])

Folds ==
    CASE Stage.op = "filter"    -> FilterFolds
      [] Stage.op = "project"   -> ProjectFolds
      [] Stage.op = "sort"      -> SortFolds
      [] Stage.op = "limit"     -> TRUE
      [] Stage.op = "skip"      -> SkipFolds
      [] Stage.op = "groupBy"   -> GroupByFolds
      [] Stage.op = "aggregate" -> AllPushable(Stage)
      [] OTHER                  -> FALSE

(***************************************************************************)
(* Where a stage may be folded without changing what the pipe means: not   *)
(* over a clause of its own kind that it would overwrite or outrank, no    *)
(* aggregate over an ordered or cut prefix or of nothing, only over        *)
(* columns that are still there, no "*", which only a query knows, and no  *)
(* condition that makes a query show versions that are not current.        *)
(***************************************************************************)
Known == {c \in dataset.raw : "select" \in have => c \in query.select}
Present(cols) == cols \subseteq Known
ReadBy(aggs) == {a.field : a \in {b \in aggs : b.fn # "COUNT" \/ b.field # "*"}}
MayAggregate(keys, s) ==
    /\ Clear({"sort", "limit", "skip"})
    /\ s.keys = <<>> /\ s.aggs # {}
    /\ Present(Range(keys) \cup ReadBy(s.aggs))

Fold(q, flags, may, n) ==
    /\ query' = q
    /\ have' = have \cup flags
    /\ exact' = (exact /\ may)
    /\ folded' = folded + n
    /\ at' = at + n

FoldFilter ==
    /\ Folding("filter") /\ FilterFolds
    /\ Fold([query EXCEPT !.where = MergeAnd(@, Stage.where)], {},
            /\ Present(Fields(Stage.where))
            /\ dataset.versioned => ~NamesVersion(Stage.where), 1)
    /\ UNCHANGED phase

FoldProject ==
    /\ Folding("project") /\ ProjectFolds
    /\ Fold([query EXCEPT !.select = Stage.cols], {"select"}, "*" \notin Stage.cols, 1)
    /\ UNCHANGED phase

FoldSort ==
    /\ Folding("sort") /\ SortFolds
    /\ Fold([query EXCEPT !.orderBy = @ \o Stage.order], {"sort"},
            Clear({"sort"}) /\ Present(FieldsOf(Stage.order)), 1)
    /\ UNCHANGED phase

FoldLimit ==
    /\ Folding("limit")
    /\ Fold([query EXCEPT !.limit = Stage.n], {"limit"}, Clear({"limit"}), 1)
    /\ UNCHANGED phase

FoldSkip ==
    /\ Folding("skip") /\ SkipFolds
    /\ Fold([query EXCEPT !.offset = Stage.n], {"skip"}, Clear({"skip"}), 1)
    /\ UNCHANGED phase

(***************************************************************************)
(* An aggregate is the last stage of a prefix.                             *)
(***************************************************************************)
FoldGroupBy ==
    /\ Folding("groupBy") /\ GroupByFolds
    /\ LET s == stages[at + 1]
       IN  Fold([query EXCEPT !.groupBy = Stage.keys, !.aggs = s.aggs], {},
                MayAggregate(Stage.keys, s), 2)
    /\ phase' = "query"

FoldAggregate ==
    /\ Folding("aggregate") /\ AllPushable(Stage)
    /\ Fold([query EXCEPT !.aggs = Stage.aggs], {}, MayAggregate(<<>>, Stage), 1)
    /\ phase' = "query"

Break ==
    /\ phase = "folding"
    /\ at \in DOMAIN stages => ~Folds
    /\ phase' = "query"
    /\ UNCHANGED <<dataset, host, stages, query, have, exact, folded, at, plan, rows, more>>

PlanPipe ==
    \/ FoldFilter \/ FoldProject \/ FoldSort \/ FoldLimit \/ FoldSkip
    \/ FoldGroupBy \/ FoldAggregate \/ Break

-------------------------------------------------------------------------------
(***************************************************************************)
(* The classic engine.  The executor asks for MaxRows rows if the pipe set *)
(* no limit and has stages left to run.                                    *)
(***************************************************************************)
NotLimited(q) == q
Limited(q) ==
    IF folded < Len(stages) /\ q.limit = NoLimit THEN [q EXCEPT !.limit = MaxRows] ELSE q

PlanQuery ==
    /\ phase = "query"
    /\ query' = WithDefaults(Limited(query))
    /\ plan' = Plan(query')
    /\ phase' = "planned"
    /\ UNCHANGED <<dataset, host, stages, have, exact, folded, at, rows, more>>

Ask ==
    /\ phase = "planned"
    /\ \/ (Refused(plan) \/ MayBeRefused(plan)) /\ phase' = "failed" /\ UNCHANGED rows
       \/ ~Refused(plan) /\ phase' = "answered" /\ rows' = Answer(plan, dataset)
    /\ UNCHANGED <<dataset, host, stages, query, have, exact, folded, at, plan, more>>

Finish ==
    /\ phase = "answered"
    /\ LET result == Process(plan, CurrentOnly(query), rows)
       IN  IF host.expander /\ NotExpandable(query)
           THEN phase' = "failed" /\ UNCHANGED <<rows, more>>
           ELSE /\ rows' = IF host.expander THEN Expanded(query, result.rows)
                           ELSE result.rows
                /\ more' = HasMore(query, result.total)
                /\ phase' = IF stages = <<>> THEN "done" ELSE "tail"
    /\ UNCHANGED <<dataset, host, stages, query, have, exact, folded, at, plan>>

-------------------------------------------------------------------------------
(***************************************************************************)
(* The stages behind the prefix.  A limit of zero keeps everything and a   *)
(* groupBy passes its rows on.                                             *)
(***************************************************************************)
Distinct(in) == Kept(in, {i \in DOMAIN in : \A j \in 1..(i - 1) : in[j] # in[i]})

Applied(s, in) ==
    CASE s.op = "filter"    -> Filtered(s.where, in)
      [] s.op = "project"   -> [i \in DOMAIN in |-> Columns(in[i], s.cols)]
      [] s.op = "sort"      -> Sorted(s.order, Memory, in)
      [] s.op = "limit"     -> IF s.n = 0 THEN in ELSE Page(in, 0, s.n)
      [] s.op = "skip"      -> Page(in, s.n, NoLimit)
      [] s.op = "groupBy"   -> in
      [] s.op = "aggregate" -> Folded(in, s.keys, s.aggs, Memory)
      [] s.op = "distinct"  -> Distinct(in)
      [] s.op = "compute"   ->
            WithComputed([AllRows EXCEPT !.computed = [c \in s.cols |-> s.expr]], in)

ApplyStage ==
    /\ phase = "tail"
    /\ at \in DOMAIN stages
    /\ rows' = Applied(Stage, rows)
    /\ at' = at + 1
    /\ UNCHANGED <<dataset, host, stages, query, have, exact, folded, plan, more, phase>>

Return ==
    /\ phase = "tail"
    /\ at \notin DOMAIN stages
    /\ phase' = "done"
    /\ UNCHANGED <<dataset, host, stages, query, have, exact, folded, at, plan, rows, more>>

Next == PlanPipe \/ PlanQuery \/ Ask \/ Finish \/ ApplyStage \/ Return

Spec == Init /\ [][Next]_vars

-------------------------------------------------------------------------------
(***************************************************************************)
(* The type of every variable.                                             *)
(***************************************************************************)
TypeOK ==
    /\ have \subseteq {"sort", "limit", "skip", "select"}
    /\ exact \in BOOLEAN
    /\ folded \in 0..Len(stages)
    /\ at \in 1..(Len(stages) + 1)
    /\ DOMAIN query = DOMAIN AllRows
    /\ query.limit \in {NoLimit} \cup Nat
    /\ plan.memory \subseteq {"computed_columns", "filter_expr", "aggregate", "having",
                              "sort", "paginate"}
    /\ more \in BOOLEAN
    /\ phase \in {"folding", "query", "planned", "answered", "tail", "done", "failed"}

(***************************************************************************)
(* What the pipe's documentation says the stages do: a limit of zero drops *)
(* everything, and an aggregate folds by its own keys or by those of the   *)
(* groupBy right before it.                                                *)
(***************************************************************************)
KeysOf(i) ==
    IF stages[i].keys # <<>> \/ i = 1 \/ stages[i - 1].op # "groupBy"
    THEN stages[i].keys ELSE stages[i - 1].keys
Documented(i, in) ==
    CASE stages[i].op = "limit"     -> Page(in, 0, stages[i].n)
      [] stages[i].op = "aggregate" -> Folded(in, KeysOf(i), stages[i].aggs, Memory)
      [] OTHER                      -> Applied(stages[i], in)
Outcome(i) ==
    LET after[n \in 0..Len(stages)] ==
            IF n = 0 THEN Meaning(AllRows).rows ELSE Documented(n, after[n - 1])
    IN  after[i]

(***************************************************************************)
(* As long as every stage was folded where it may be, the query folded so  *)
(* far means what the stages so far do.                                    *)
(***************************************************************************)
FoldKeepsMeaning ==
    stages # <<>> /\ phase \in {"folding", "query"} /\ exact =>
        Meaning(query).rows = Outcome(at - 1)

(***************************************************************************)
(* What rows from outside the caller's scope a table has, be it the        *)
(* dataset's or a joined one, the database's answer is the same, whatever  *)
(* is joined how, filtered, grouped or cut, as long as the scope reaches   *)
(* every table.                                                            *)
(***************************************************************************)
OthersUnseen ==
    phase = "answered" /\ ScopeReaches(plan.joins) =>
        rows = Answer([plan EXCEPT !.joins = SeenThrough(@)], Seen(dataset))

(***************************************************************************)
(* A classic query that is well divided is answered as if no database had  *)
(* taken part: in the caller's scope, current rows only, joined as it is   *)
(* written, every clause in its turn, and each row with what its own       *)
(* references stand for.                                                   *)
(***************************************************************************)
Enriched(row) ==
    IF host.expander THEN WithMeta(RefMap(query), host.knows, row) ELSE row
QueryAnswered ==
    phase = "done" /\ stages = <<>> /\ WellDivided(plan, query) =>
        LET meant == Meaning(query).rows
        IN  rows = [i \in DOMAIN meant |-> Enriched(meant[i])]

(***************************************************************************)
(* has_more never promises what is not there, and is exact when the page   *)
(* was cut in memory.                                                      *)
(***************************************************************************)
MoreIsTrue ==
    phase = "done" /\ stages = <<>> /\ WellDivided(plan, query) =>
        LET there == query.limit > 0 /\ query.offset + query.limit < Meaning(query).total
        IN  /\ more => there
            /\ "paginate" \in plan.memory => more = there

(***************************************************************************)
(* A pipe whose prefix was folded where it may be and divided well, and    *)
(* whose tail has no limit of zero and no groupBy for an aggregate, gives  *)
(* what its stages do one after the other.  If all of it was folded it is  *)
(* a classic query, which has a limit when none is set.                    *)
(***************************************************************************)
Promised ==
    IF folded = Len(stages) /\ "limit" \notin have
    THEN Page(Outcome(Len(stages)), 0, query.limit) ELSE Outcome(Len(stages))
InTail(op) == {i \in (folded + 1)..Len(stages) : stages[i].op = op}
PipeAnswered ==
    phase = "done" /\ stages # <<>> /\ exact /\ WellDivided(plan, query)
        /\ (\A i \in InTail("limit") : stages[i].n # 0)
        /\ (\A i \in InTail("aggregate") : KeysOf(i) = stages[i].keys)
        => rows = Promised

(***************************************************************************)
(* What the program says of itself and does not do.                        *)
(*                                                                         *)
(* "Track what has already been folded into pushed so later ops obey       *)
(* ordering" (pipe/planner.go): whatever is folded, the query means what   *)
(* the stages so far do.                                                   *)
(***************************************************************************)
FoldObeysOrder ==
    stages # <<>> /\ phase \in {"folding", "query"} =>
        Meaning(query).rows = Outcome(at - 1)

===============================================================================
