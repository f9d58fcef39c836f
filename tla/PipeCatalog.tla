----------------------------- MODULE PipeCatalog -----------------------------
(***************************************************************************)
(* The operators of a pipe as an editor and a validator see them: what the *)
(* catalog says each requires (pipe/catalog.go, pipe/requirements.go), and *)
(* what its factory checks (Build in pipe/operator.go).                    *)
(*                                                                         *)
(* A stage is an operator with a configuration, the fields it is given.  A *)
(* factory is the sequence of its checks: the first to fail is its error.  *)
(***************************************************************************)
EXTENDS Integers, SequencesExt, FiniteSetsExt

Services == {"eval", "functionRegistry", "appCaller", "formula", "classic", "algorithms", "exprCompiler"}

-------------------------------------------------------------------------------
(* The catalog: the services an operator needs, the fields it must have. *)
Meta(requires, required) == [requires |-> requires, required |-> required]

filterMeta == Meta({"eval"}, {"where"})
projectMeta == Meta({}, {})
renameMeta == Meta({}, {"map"})
dropMeta == Meta({}, {"columns"})
computeMeta == Meta({"eval", "formula"}, {"as"})
flattenMeta == Meta({}, {"field"})
distinctMeta == Meta({}, {})
sheetMeta == Meta({"exprCompiler"}, {"formulas"})
sortMeta == Meta({}, {"by"})
limitMeta == Meta({}, {"n"})
skipMeta == Meta({}, {"n"})
groupByMeta == Meta({}, {"keys"})
aggregateMeta == Meta({}, {"aggs"})
windowMeta == Meta({}, {"fn", "as"})
lookupMeta == Meta({"classic"}, {"dataset", "on"})
callFunctionMeta == Meta({"functionRegistry"}, {"name"})
callAppMeta == Meta({"appCaller"}, {"appId"})
algoMeta == Meta({"algorithms"}, {"name"})
branchMeta == Meta({"eval"}, {"when", "then"})
mergeMeta == Meta({}, {"sources"})
tapMeta == Meta({}, {})
timeBucketMeta == Meta({}, {"field", "interval", "as"})
gapfillMeta == Meta({}, {"field", "interval"})
asofJoinMeta == Meta({"classic"}, {"dataset", "leftTime", "rightTime"})
topPerGroupMeta == Meta({}, {"n", "by"})
pivotMeta == Meta({}, {"columnKey", "valueField"})
unpivotMeta == Meta({}, {"nameAs", "valueAs"})
unnestObjectMeta == Meta({}, {"field"})
nestMeta == Meta({}, {"by", "into"})
dropNullsMeta == Meta({}, {})
fillNullsMeta == Meta({}, {})
transformMeta == Meta({"eval"}, {"compute"})
castMeta == Meta({}, {"casts"})
dedupeMeta == Meta({}, {"by"})
sampleMeta == Meta({}, {})
assertMeta == Meta({"eval"}, {"expr"})
intersectMeta == Meta({"classic"}, {"sources"})
exceptMeta == Meta({"classic"}, {"left", "right"})
crossJoinMeta == Meta({"classic"}, {"dataset"})
histogramMeta == Meta({}, {"field", "bins"})

CatalogIndex ==
    [filter |-> filterMeta, project |-> projectMeta, rename |-> renameMeta,
     drop |-> dropMeta, compute |-> computeMeta, flatten |-> flattenMeta,
     distinct |-> distinctMeta, sheet |-> sheetMeta, sort |-> sortMeta,
     limit |-> limitMeta, skip |-> skipMeta, groupBy |-> groupByMeta,
     aggregate |-> aggregateMeta, window |-> windowMeta, lookup |-> lookupMeta,
     callFunction |-> callFunctionMeta, callApp |-> callAppMeta, algo |-> algoMeta,
     branch |-> branchMeta, merge |-> mergeMeta, tap |-> tapMeta,
     timeBucket |-> timeBucketMeta, gapfill |-> gapfillMeta, asofJoin |-> asofJoinMeta,
     topPerGroup |-> topPerGroupMeta, pivot |-> pivotMeta, unpivot |-> unpivotMeta,
     unnestObject |-> unnestObjectMeta, nest |-> nestMeta, dropNulls |-> dropNullsMeta,
     fillNulls |-> fillNullsMeta, transform |-> transformMeta, cast |-> castMeta,
     dedupe |-> dedupeMeta, sample |-> sampleMeta, assert |-> assertMeta,
     intersect |-> intersectMeta, except |-> exceptMeta, crossJoin |-> crossJoinMeta,
     histogram |-> histogramMeta]

Missing(op, services) == CatalogIndex[op].requires \ services
Available(op, services) == Missing(op, services) = {}
Known(op) == op \in DOMAIN CatalogIndex
RequiredFields(op) == CatalogIndex[op].required

-------------------------------------------------------------------------------
(* A check of the configuration, and one for a service of the host. *)
Shape(ok) == [service |-> "none", ok |-> ok]
Service(name) == [service |-> name, ok |-> TRUE]

Given(c, field) == field \in DOMAIN c /\ c[field] # <<>>
All(c, fields) == \A f \in fields : Given(c, f)
OneOf(c, field, choices) == Given(c, field) => c[field] \in choices
Number(c, field) == IF field \in DOMAIN c THEN c[field] ELSE 0

Durations == {<<"5m">>, <<"1h">>}
KnownAlgorithms == {<<"rank">>}

HasExpr(where) == "expr" \in DOMAIN where

FilterChecks(c) ==
    IF "where" \notin DOMAIN c THEN <<Shape(FALSE)>>
    ELSE IF HasExpr(c.where) THEN <<Service("eval")>> ELSE <<>>

ComputeChecks(c) ==
    <<Shape(Given(c, "as"))>> \o
    (IF Given(c, "kind") THEN <<Shape(Given(c, "formula")), Service("formula")>>
                         ELSE <<Shape(Given(c, "expr")), Service("eval")>>)

SortChecks(c) ==
    <<Shape(Given(c, "by")), Shape(Given(c, "by") => \A i \in DOMAIN c.by : Given(c.by[i], "field"))>>

AggregateFns == {<<fn>> : fn \in {"count", "sum", "avg", "min", "max", "EXPR"}}
AggregateChecks(c) ==
    <<Shape(Given(c, "aggs")),
      Shape(Given(c, "aggs") => \A i \in DOMAIN c.aggs : /\ c.aggs[i].fn \in AggregateFns
                                                         /\ Given(c.aggs[i], "as"))>>

PivotFns == {<<fn>> : fn \in {"first", "last", "count", "sum", "avg", "min", "max"}}
PivotChecks(c) == <<Shape(All(c, {"columnKey", "valueField"})), Shape(OneOf(c, "aggregate", PivotFns))>>

CallFunctionChecks(c) ==
    <<Shape(Given(c, "name")), Shape(OneOf(c, "mode", {<<"perRow">>, <<"batch">>})), Service("functionRegistry")>>

CallAppChecks(c) == <<Shape(Given(c, "appId")), Service("appCaller")>>

LookupServiceFirst(c) ==
    <<Service("classic"), Shape(All(c, {"dataset", "on"})), Shape(OneOf(c, "mode", {<<"left">>, <<"inner">>}))>>
LookupChecks(c) ==
    <<Shape(All(c, {"dataset", "on"})), Shape(OneOf(c, "mode", {<<"left">>, <<"inner">>})), Service("classic")>>

AsofJoinChecks(c) ==
    <<Shape(All(c, {"dataset", "leftTime", "rightTime"})),
      Shape(OneOf(c, "direction", {<<"backward">>, <<"forward">>, <<"nearest">>})),
      Service("classic"), Shape(OneOf(c, "tolerance", Durations))>>

TransformChecks(c) ==
    <<Shape(Given(c, "compute")),
      Shape(Given(c, "compute") => \A i \in DOMAIN c.compute :
                /\ Given(c.compute[i], "as")
                /\ Given(c.compute[i], "expr") # Given(c.compute[i], "from"))>> \o
    (IF Given(c, "compute") /\ (\E i \in DOMAIN c.compute : Given(c.compute[i], "expr"))
     THEN <<Service("eval")>> ELSE <<>>)

AlgoChecks(c) == <<Shape(Given(c, "name")), Service("algorithms"), Shape(OneOf(c, "name", KnownAlgorithms))>>

CastChecks(c) ==
    <<Shape(Given(c, "casts")),
      Shape(Given(c, "casts") => \A i \in DOMAIN c.casts :
                /\ Given(c.casts[i], "field")
                /\ c.casts[i].to \in {<<t>> : t \in {"int", "float", "bool", "string", "timestamp"}})>>

TimeBucketChecks(c) == <<Shape(All(c, {"field", "interval", "as"})), Shape(OneOf(c, "interval", Durations))>>
GapfillChecks(c) == <<Shape(All(c, {"field", "interval"})), Shape(OneOf(c, "interval", Durations))>>

SampleChecks(c) ==
    LET n == Number(c, "n") percent == Number(c, "ratio")
    IN  <<Shape(n # 0 \/ percent # 0), Shape(n = 0 \/ percent = 0), Shape(percent \in 0..100)>>

Ranks == {<<"row_number">>, <<"rank">>, <<"dense_rank">>}
Shifts == {<<"lag">>, <<"lead">>}
Ends == {<<"first_value">>, <<"last_value">>}
WindowChecks(c) ==
    <<Shape(Given(c, "as")),
      Shape(Given(c, "fn")),
      Shape(Given(c, "fn") => \/ c.fn \in Ranks /\ Given(c, "orderBy")
                              \/ c.fn \in Shifts /\ All(c, {"field", "orderBy"})
                              \/ c.fn \in Ends /\ Given(c, "field"))>>

FillNullsChecks(c) ==
    <<Shape(OneOf(c, "method", {<<m>> : m \in {"value", "zero", "mean", "lastValue", "nextValue"}}))>>

(* Its message names the service but not as "not available". *)
SheetChecks(c) == <<Service("exprCompiler"), Shape(Given(c, "formulas"))>>

(* The operators whose stages hold further stages, and the others' checks. *)
Nesting == {"branch", "merge", "intersect", "except"}

Checks(stage) ==
    LET c == stage.config op == stage.op
    IN  CASE op = "filter"       -> FilterChecks(c)
          [] op = "project"      -> <<Shape(~(Given(c, "select") /\ Given(c, "drop")))>>
          [] op = "compute"      -> ComputeChecks(c)
          [] op = "sort"         -> SortChecks(c)
          [] op \in {"limit", "skip"} -> <<Shape(Number(c, "n") >= 0)>>
          [] op = "aggregate"    -> AggregateChecks(c)
          [] op = "pivot"        -> PivotChecks(c)
          [] op = "callFunction" -> CallFunctionChecks(c)
          [] op = "callApp"      -> CallAppChecks(c)
          [] op = "lookup"       -> LookupChecks(c)
          [] op = "asofJoin"     -> AsofJoinChecks(c)
          [] op = "transform"    -> TransformChecks(c)
          [] op = "algo"         -> AlgoChecks(c)
          [] op = "sheet"        -> SheetChecks(c)
          [] op = "assert"       -> <<Shape(Given(c, "expr")), Service("eval")>>
          [] op = "crossJoin"    -> <<Shape(Given(c, "dataset")), Service("classic")>>
          [] op = "cast"         -> CastChecks(c)
          [] op = "timeBucket"   -> TimeBucketChecks(c)
          [] op = "gapfill"      -> GapfillChecks(c)
          [] op = "sample"       -> SampleChecks(c)
          [] op = "window"       -> WindowChecks(c)
          [] op = "fillNulls"    -> FillNullsChecks(c)
          [] op = "histogram"    -> <<Shape(Given(c, "field")), Shape(Number(c, "bins") > 0)>>
          [] op = "topPerGroup"  -> <<Shape(Number(c, "n") > 0), Shape(Given(c, "by"))>>
          [] op = "rename"       -> <<Shape(Given(c, "map"))>>
          [] op = "drop"         -> <<Shape(Given(c, "columns"))>>
          [] op = "groupBy"      -> <<Shape(Given(c, "keys"))>>
          [] op \in {"flatten", "unnestObject"} -> <<Shape(Given(c, "field"))>>
          [] op = "unpivot"      -> <<Shape(All(c, {"nameAs", "valueAs"}))>>
          [] op = "nest"         -> <<Shape(All(c, {"by", "into"}))>>
          [] op = "dedupe"       -> <<Shape(Given(c, "by")), Shape(OneOf(c, "keep", {<<"first">>, <<"last">>}))>>
          [] op \in {"distinct", "tap", "dropNulls"} -> <<>>
          [] OTHER               -> <<Shape(FALSE)>>

(* A stage that holds sub-pipes: its own checks, and behind them a pipe.   *)
Part(own, pipe) == [own |-> own, pipe |-> pipe]

(* A pipe, or a list of them, that the configuration does not give is nil. *)
Inner(c, field) == IF field \in DOMAIN c THEN c[field] ELSE <<>>

PartsOf(stage) ==
    LET c == stage.config
        sources == Inner(c, "sources")
        Sources(own) == [i \in DOMAIN sources |-> Part(own[i], sources[i])]
    IN  CASE stage.op = "branch" ->
               <<Part(<<Shape(Given(c, "when")), Service("eval"), Shape(Given(c, "then"))>>, Inner(c, "then")),
                 Part(<<>>, Inner(c, "else"))>>
          [] stage.op = "merge" ->
               <<Part(<<Shape(sources # <<>>)>>, <<>>)>>
               \o Sources([i \in DOMAIN sources |-> <<Shape(sources[i] # <<>>)>>])
          [] stage.op = "intersect" ->
               <<Part(<<Shape(Len(sources) >= 2)>>, <<>>)>> \o Sources([i \in DOMAIN sources |-> <<>>])
          [] stage.op = "except" ->
               <<Part(<<Shape(Given(c, "left") /\ Given(c, "right"))>>, Inner(c, "left")), Part(<<>>, Inner(c, "right"))>>
          [] OTHER -> <<Part(<<>>, <<stage>>)>>

(* The first error is the factory's, whoever of its stages made it.        *)
Outcome(check, services) ==
    IF check.ok /\ check.service \in services \cup {"none"} THEN "built"
    ELSE CASE check.service = "none"         -> "shape"
           [] check.service = "exprCompiler" -> "required"
           [] OTHER                          -> "not available"
First(outcomes) ==
    LET failed == {i \in DOMAIN outcomes : outcomes[i] # "built"}
    IN  IF failed = {} THEN "built" ELSE outcomes[Min(failed)]

Passed(checks, services) == First([i \in DOMAIN checks |-> Outcome(checks[i], services)])
BuildOps(pipe, services) == First([i \in DOMAIN pipe |-> Passed(Checks(pipe[i]), services)])
BuildPart(part, services) == First(<<Passed(part.own, services), BuildOps(part.pipe, services)>>)

Build(stage, services) ==
    LET parts == PartsOf(stage) IN First([k \in DOMAIN parts |-> BuildPart(parts[k], services)])

(* The places, from 0, of the stages reported; -1 reports an empty pipe. *)
UnknownOnly(stage) == stage.op \notin DOMAIN CatalogIndex
Reported(stage) ==
    stage.op \notin DOMAIN CatalogIndex \/ Build(stage, {}) \notin {"built", "not available"}
ValidateShape(stages) ==
    IF stages = <<>> THEN {-1} ELSE {i - 1 : i \in {n \in DOMAIN stages : Reported(stages[n])}}

===============================================================================
