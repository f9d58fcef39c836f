# Verification of dql

dql turns a query document into rows. A *classic* query is planned, sent to a
database as one SQL statement and finished in memory; a *pipe* query is a list
of stages, of which a prefix is folded into a classic query and the rest, the
*tail*, runs as operators over rows in memory. One of those operators is a
*sheet*: named formulas that refer to each other and to columns. Live
subscriptions replay the tail of a pipe from a snapshot. A pipe may be written
as text, and a language server tells an editor what is wrong with it.

This directory holds TLA+ models of the parts whose correctness depends on
order, sharing, boundaries, agreement and failure, the TLC configurations that
check them and TLAPS proofs of what matters most.

## 1. The system

| component | state it keeps | operations | what makes it hard |
|---|---|---|---|
| pipe executor (`pipe/executor.go`) | per run: current rows, named stage outputs; per execution: `PrimedRows`, `PrimedAt`, `PrimedOutputs` | `ExecuteDetailed`, `ExecuteDetailedOnRows`, `ExecuteFromStage` | rows are maps shared by reference; some operators write into them; several replays run over one snapshot; side effects must not be repeated |
| pipe planner (`pipe/planner.go`) | the pushed query being built, where the prefix breaks | `PlanPipe`, `validateStageGraph` | pushing must not change the meaning of the pipe; stages others read from must not be pushed |
| prefix stream (`pipe/source.go`, `exec/stream.go`) | a database cursor, its count, its limit, whether it was truncated | `streamPrefix`, `Next`, `Err`, `Close` | limit, probe row and row cap meet; errors look like the end; the signal "these are all rows" licenses pushdown |
| reduce pushdown (`pipe/pushdown.go`, `sheet/pushdown.go`) | the prefix it aggregates over | `Delegate`, `delegateReduces` | a second query at a later time must span the same rows |
| classic engine (`exec/engine.go`) | configuration, a planner built once | `executeClassic`, `applyDefaults`, `scanRow` | defaults and caps are written into the caller's query; rows of joined tables share names |
| classic planner, SQL, processor (`planner`, `sqlgen`, `processor`) | one plan per query | `Plan`, `GenerateSQL`, `Process` | which clause the database does and which is left, in which order |
| scope (`scope`) | the columns the caller is confined to | `Columns`, `JoinColumns` | must hold for the dataset and every joined one |
| expander (`expand`) | a cache per result | `Expand` | batches ids over rows and columns, enriches each row with its own |
| sheet compiler (`sheet/formula.go`, `sheet/dag.go`) | in-degrees, ready list, order | `Compile`, `topoSort` | cycles, duplicate references, a predictable order |
| reduce registry (`sheet/registry.go`) | a host's kernels | `RegisterReduce`, `LookupReduce` | precedence over built-ins; decides what is delegated |
| sheet evaluation (`sheet/sheet.go`) | scalars, rows written in place, resident columns, byte budget | `Apply`, `evalColumn`, `evalReduce`, `columnFor`, `admit` | a cache keyed by name over rows that are being written; eviction; error policies |
| spill file (`sheet/spill.go`) | an unlinked file and its index | `Put`, `Get`, `Close` | every operation may fail; encodings must round-trip |
| typed columns (`sheet/builder.go`, `sheet/column.go`, `sheet/reduce.go`) | a backing slice, its type, a null bitmap | `Append`, `Build`, kernels | the backing changes type while it grows |
| row operators (`pipe/project.go`, `window.go`, `quality.go`, `reshape.go`, `topn.go`, `histogram.go`, ...) | none between calls | `Apply` | they write into the row maps they are given; ties, nulls, missing columns and edges of bins |
| stages of sub-pipes, crossJoin (`pipe/merge.go`, `setops.go`, `branch.go`) | none between calls | `Apply` | several pipes over the same rows |
| time operators (`pipe/time_ops.go`) | none between calls | `timeBucket`, `gapfill`, `asofJoin` | rounding toward zero, two walks side by side, nearest rows |
| host-backed operators (`pipe/lookup.go`, `call_app.go`, `call_function.go`) | the lookup cache | `Apply`, `IsLiveSafe` | side effects, time to live, sharing between replays |
| front ends (`pipe/textual.go`, `validate.go`, `parser`, `dsl`) | none | `ParseText`, `ParseTextLenient`, `ValidateShape` | two parsers and three scanners for one language |
| editor support (`pipe/completions.go`, `diagnostics.go`, `catalog.go`, `lang`, `cmd/dql-lsp`) | the documents open in the editor | `didOpen`, `didChange`, `didClose`, `completion` | what is shown is of an earlier text until it is replaced; a catalog beside the factories |

The library starts no goroutine. What runs concurrently is what a host runs
concurrently: executions, and replays of one plan, whose operators are shared;
and other clients of the database. The language server answers its editor's
messages one by one, while the editor goes on.

The properties each part needs, in words:

- *pipe executor*: what a live replay starts from never changes behind its
  back; side effects happen once however often the tail is replayed; a replay
  ends with what the execution returned.
- *pipe planner*: a pipe means its stages one after the other, however many of
  them the database does; what a stage reads from another one is there.
- *prefix stream, pushdown*: the tail gets a page of the match, whole; "these
  are all the rows" is said exactly when it is true; a delegated aggregate is
  the one the sheet would have computed.
- *classic path*: dividing a query between database and memory is not
  observable, and neither are the rows of other scopes; a row is enriched with
  what its own references stand for.
- *sheets*: an order exists if and only if there is no cycle, inputs come
  first, and neither cache, budget, file, delegate nor error policy is
  observable in what a formula reads; a sheet means the same on every host.
- *typed columns*: a column is the rows, whatever types they had and wherever
  the column has been in the meantime.
- *lookup*: an answer is the join with one state of the right side, and that
  state is not older than the time to live and one fetch.
- *row operators, stages of sub-pipes*: a stage answers what it means for the rows
  it was given, whatever other stages write into their maps.
- *time operators*: a row is in its bucket, a gap is filled once, a join is with the
  nearest row.
- *front ends, editor support*: both parsers read one language, which means what
  its comments say; what is not reported runs, what is offered can be built, and
  the editor shows what is wrong with the text it holds.

## 2. The modules

| module | models | uses |
|---|---|---|
| `LiveReplay` | what live replay promises, without shared rows: each tail has one meaning, a snapshot keeps it, an effect happens once | |
| `PipeTail` | `pipe/executor.go`, the stage graph of `pipe/planner.go`, and what the operators of `pipe/` mean to sharing | implements `LiveReplay` |
| `PrefixStream` | `pipe/source.go`, `exec/stream.go`, `pipe/pushdown.go`, defaults of `exec/engine.go` | |
| `SheetDag` | `sheet/formula.go`, `sheet/dag.go` | |
| `SheetRun` | `sheet/sheet.go`, `sheet/registry.go`, `sheet/pushdown.go`, the life of the entries of `sheet/spill.go` | extends `SheetDag` |
| `RowAlgebra` | conditions, sorting, grouping, aggregates and pages over rows, as SQL and as the processor do them | |
| `QuerySource` | `scope/scope.go`; joins and scope predicates in `planner/planner.go` and `sqlgen`; how `exec/engine.go` scans a joined row | extends `RowAlgebra` |
| `ClassicQuery` | `planner/planner.go`, the statement, `processor/processor.go`, `expand/expander.go` | extends `QuerySource` |
| `QueryEngine` | the classic path of `exec/engine.go`; folding by `pipe/planner.go`; the executor over the operators a prefix may push | extends `ClassicQuery` |
| `Lookup` | `pipe/lookup.go` | |
| `TypedColumns` | `sheet/builder.go`, `sheet/column.go`, the encodings of `sheet/spill.go`, the kernels of `sheet/reduce.go` | |
| `TimeSeries` | `pipe/time_ops.go` | |
| `RowOperators` | values and their comparison in `pipe/helpers.go`; `window.go`, `topn.go`, `quality.go`, `distinct.go` | |
| `RowColumns` | `pipe/project.go`, `call_function.go`, `call_app.go`, crossJoin of `setops.go` | extends `RowOperators` |
| `RowReshape` | `pipe/reshape.go`, `flatten.go`, `transform.go`, `histogram.go`; what the factories refuse | extends `RowColumns` |
| `RowMeanings` | what each of these stages means, without walks, indices or maps, and where the code departs from it | extends `RowReshape` |
| `SubPipes` | a pipe of them at work; `pipe/merge.go`, `setops.go`, `branch.go` | extends `RowMeanings` |
| `PipeScan` | how a text is cut into segments and tokens: the scanners of `pipe/textual.go`, `diagnostics.go`, `completions.go` | |
| `PipeGrammar` | the stage parsers of `pipe/textual.go` | extends `PipeScan` |
| `PipeCatalog` | `pipe/catalog.go`, `pipe/requirements.go`, the checks of the factories, `pipe/validate.go` | |
| `PipeEditor` | both parsers, `pipe/diagnostics.go`, `completions.go`, `lang/lang.go`, `cmd/dql-lsp/main.go`; the editor | extends `PipeGrammar`, `PipeCatalog` |
| `...Proofs` | theorems about the module they extend | |
| `MC...` | instances for TLC | extend the module they run |

`PROJECT.json` maps each definition that models code to the lines it stands
for. Next to a definition there may be a variant of it that no specification
uses (`Barrier` and `BarrierIgnoresReferences`): a plausible mistake, which the
mutants of `PROJECT.json` put in its place and which a property must notice.

### PipeTail

Operators differ, as far as sharing goes, in whether they build new rows
(`fresh`), pass their input on (`alias`) or write into it (`inplace`). A *cell*
stands for the row maps a Go slice points to, `heap` says what they hold (the
last stage that wrote them), and a slice remembers what its cell held when it
was made: a slice whose cell was written since reads as `Other`.

| action | code |
|---|---|
| `Refuse` | `validateStageGraph` rejects the pipe |
| `Begin` | `ExecuteDetailed` up to the tail: prefix, first snapshot |
| `Apply` | one turn of the loop in `applyInMemoryOps` or `ExecuteFromStage`: input (a clone of a named output, if the stage has `from`), operator, named output (a clone), and behind an operator that is not live-safe a new snapshot |
| `Fail`, `LookupFails` | the operator fails, having written or called or not; the named output is not there |
| `Mute` | a replay skips an operator that is not live-safe |
| `ReplaySnapshot`, `ReplayDry` | `ExecuteFromStage` from the snapshot, or from rows of the host |

### PrefixStream

One execution from `Plan` (a pipe without a limit asks for `MaxRows`) to the
answer of a sheet's aggregate. `limit` is the cell the caller's query and the
engine's copy both point to. `OpenCursor`, `NextRow`, `Capped`, `Exhausted`,
`ReadFails` and `Drained` are the draining loop call by call; `Decline` and
`Materialise` are the path without a cursor. `Prelude` is what stands between
the prefix and the sheet, `Delegate` and `Scan` the two ways to answer. `Write`
is another client of the database.

### SheetDag and SheetRun

`RefuseFormulas` is the validation, `CountEdges` the
in-degrees, `TakeFirst` one turn of the loop of `topoSort`, `Accept` and
`ReportCycle` its ends. `RegisterReduce` fills the host's registry before the
sheet is compiled: nothing guards the registry's map against a sheet that reads
it, so a host must have it complete by then. A formula says which function it
*calls*, if it is one function applied to its references; `Known` is the lookup
(the host's kernels first, then the built-ins) and `IsKernel` what `kernelFor`
recognises. `SheetRun` then evaluates `order[at]`, one formula per
step. A cell of the rows holds the number of the run that wrote it (0 for the
source, `Absent` before, `Partly` behind a failure), so a stale value shows;
`columns`, `held`, `bytes` and `spill` are the fields of the run, `answered` what a
delegate was asked and answered. `EvalColumn`, `EvalReduce`, `UseDelegated`,
`ScanResident`, `ScanSpilled`, `ScanRows` and `RefuseScalar` are the ways a formula
can be evaluated, with the failures of host and file under both error policies;
`err` is the kind of error `Apply` returns; `Cancel` is the context.

### RowAlgebra, QuerySource, ClassicQuery, QueryEngine

A query is a record of clauses, a row a function from columns to small numbers
or null. A condition has a height and is made of conditions less high (`Trees`), and what
is read of it (`Holds`, `SqlHolds`, `Parts`, `Split`) is read from its leaves (`Read`),
by a function over the conditions up to its height and no recursive operator. A dataset is its table and what its metadata declares: raw columns (none
at all for a source without metadata), whether it is versioned, and which columns
hold references. `host` is what the embedder wired: the caller's scope, the scope of
no caller (the planner is built once and is given that one), the directories of the
expander. A *world* of `Worlds` is a dataset, a host, and the queries and pipes asked.

`QuerySource` has the joins: `PlanJoin` is the planner's clause, `OnHolds` what `ON`
says (keys and the scope predicates of the joined table), `JoinedTo` inner, left,
right and full joins over *keys*, the places of the tables' rows that stand in one row of
the join (`InOrder` puts them in their order), `ScopedBy` the predicates
in `WHERE`, `ScanRow` the map of bare names a row becomes, `NoSuchSource` the
statements no database accepts. `SeenIn`, `SeenJoined` and `AsWritten` say what the
caller may see and what the clauses mean as they are written.

`ClassicQuery` has the plan (what is pushed and what stays in memory),
the statement's answer, what the processor does with the rest, the expander
(`Resolved` is one batch per directory over all rows and columns, `WithMeta` what
one row is given) and `Meaning`: every clause in its turn over the rows the caller
may see. `QueryEngine` takes one step per
turn of the planner's loop (`FoldFilter` ... `Break`), one for the plan, one for
the database, one for processor and expander, and one per stage of the tail.
`exact` remembers whether every stage so far was folded where the documentation
allows.

### Lookup

`Begin` reads the configuration, `Serve` finds a fresh index, `Ask` leaves the
lock and starts the right-hand query, `Read` is the database's answer and the
index made from it (for a key the last row that has it), `Store` takes the lock and
stamps it with the time *now*, `Answer` joins: the left rows with their partners
(`Joins`), of an inner lookup only those that have one (`Kept`), in their order
(`Ascending`). `Tick` is the clock and `Write` another client. `versions` and
`since` (the states the right side had, and since when) and `began` and `asked`
of each call are ghosts.

### TypedColumns

`AppendRow` is one `Append`: the slots and their type, and the bitmap with its
own length. `Build` closes the builder; `Spill` and `Restore` put a block into
the file and read it again. A slot under a null holds a filler, as in the code.

### TimeSeries

One call of one of the three operators. `Bucket` is `timeBucket`; `BeginGroup`,
`SkipRow`, `EmitRow`, `EmitSynthetic` and `EndGroup` are the nested loops of
`gapfill`, the row index and the current time side by side; `Fetch` and `Join` are
`asofJoin`, a binary search of the right rows of the key. Times are in ticks, several
to a `Second`: `Written` is what the format RFC3339 keeps of one, whole seconds, in
the starts of `timeBucket` and in the synthetic rows of `gapfill` (a given row keeps its
own time). `Sub`, `Apart` and `Wrap` are the arithmetic of `time.Duration`, which stops
at `Longest`, 292 years, and goes round in a product.

### RowOperators, RowColumns, RowReshape, RowMeanings, SubPipes

An operator is a function of a stage's configuration and of the rows as values; it
answers which of the maps it was given it hands on, which rows it made, and what
the maps hold afterwards (`Old`, `New`, `Answers`). `SubPipes` keeps the maps in
`heap` and slices as places of it: `ApplyOperator` is one operator of a chain,
`Enter`, `Start` and `Leave` one sub-pipe after the other, with a copy of the rows
for each but in `branch`, which splits them, and the last `Leave` combines.
`RowMeanings` defines each stage again by sets and counting (a rank is one more
than the number of rows strictly before), as the set of answers it may give. The
meanings are those of `docs/OPERATORS.md` and of the comments in the code; `Departs` at
its end names, one by one, the stages and rows for which the code does something else
(section 6). What the host answers for a call or a dataset is `Host`; which arguments it is given and
what becomes of its answer is the code's. `Walks` is the order in which Go ranges over
the map of a rename, chosen for each row anew.

### PipeScan, PipeGrammar, PipeCatalog, PipeEditor

A text is a sequence of lexemes (a word, a number, a mark, a quote, a tick, a
newline for white space); a name is the lexemes it is written with, so that a
name may hold a bar, a bracket or a keyword in quotes. `Step` is the scanner's
automaton, `SplitTopLevel` cuts at the bars outside of strings, expressions and
brackets, `StageStart` and `LastTopLevelPipe` are the second and third scanner, of the
diagnostics and the completions. `PipeGrammar` has a parser per keyword, from tokens
to the fields it sets; `Bad` is every parse error. `PipeCatalog` has what the catalog
says of each of the 40 operators and `Build`: a stage is a list of parts, a part is
checks and a pipe, and what is answered is the first error (`First`) of the checks of
the factory (`Outcome` of each) and of the stages inside. `ValidateShape` is the set of
places reported, and diagnostics are the set of what is said of a text.

| action | code |
|---|---|
| `Open`, `Type`, `Touch`, `Close`, `Ask` | the user; the editor sends a notification or request and does not wait. One `didChange` may gather several edits, or none |
| `DidOpen`, `DidChange`, `DidClose` | the handlers of `cmd/dql-lsp/main.go`: the document, and the diagnostics published for it |
| `Completion` | the handler: completions at the end of the document, for no wiring and no columns |
| `HostCompletes` | a host's endpoint calls `lang.CompleteText` with its own services and columns |
| `Submit` | `parser.Parse` on a pipe in the form of a document, up to the verdict of `ValidateShape` |

`text` and `meant` (what the user wrote, and meant by it) are the editor's, `unsent` the
messages under way, `docs` the server's documents, `gutter` what the editor shows.
The order of messages and that one is handled at a time are the langserver
library's, modelled as external. `SubmissionAssumption` says what a submission is
after decoding, a list of stages with lists of stages inside, and bounds it: the pipes
inside a stage hold no further pipes.

## 3. The runs

| run | result | distinct states | bounds |
|---|---|---|---|
| `live_replay` | holds | 36,976 | pipes of one to three stages over one id; the execution and two replays |
| `prefix` | holds | 38,136 | tables of 0 to 4 rows, limits 0 to 4 and none, offsets 0 to 2, `MaxRows` 2, `MaxLimit` 3, one write |
| `sheet` | holds | 264,490 | all 512 reference graphs of three formulas, and sheets whose kernels read up to four columns or call what only some hosts have; four kernels offered to the registry; budgets none and 3 (columns of size 2 and 3); two runs over the same rows |
| `query` | holds | 423,599 | nine datasets, 6,160 classic queries of one dataset, 3,808 that join one or two of five more, 72 that expand; six embedders; every pipe of up to three of 19 stages |
| `lookup` | holds | 2,592,496 | three calls (symmetric), time to live off and two ticks, fetches of up to one tick, three ticks, one write |
| `columns` | holds | 307,125 | up to four rows of every type, three capacity hints |
| `time_series` | holds | 190,527 | a second of two ticks, a longest duration of seven; intervals of half a second, of one and a half and of two seconds, of a day, and none that is positive; origins on a second and between two; up to three rows of two keys, before and behind the origin, on and off the grid, of one time, out of reach of each other, without a time |
| `row_operators` | holds | 141,792 | nine slices of up to four rows; 291 stages alone, thirteen of them in pairs and in every pair of sub-pipes of merge, intersect, except and branch |
| `front_end` | holds | 65,304 | two documents; eleven openings; every form of every keyword with three kinds of name and 53 segments that are wrong, two stages behind a source; two messages under way; five wirings of services; 101 submitted pipes |
| `swallowed_output`, `prefix_later_sheet`, `query_fold_order` | violated | | see section 6 |

What they ask, and why the bounds reach it:

- **live_replay**. `SnapshotFaithful`: the snapshot holds the rows and the named
  outputs of the stages before `PrimedAt`, whatever writes in place.
  `EffectsOnce`: over the execution and all replays an effect happens once and in
  order. `ReplayAgrees`: a replay ends with the rows of the execution.
  `LookupMissesOnlySwallowed`: `from` finds what it names, but for an aggregate
  that a pushed groupBy took along. `ImplementsLiveReplay`: the executor with its
  shared rows implements `LiveReplay`, where nothing is shared. Two
  stages are the least that can share a row, a third one reads a named output over
  the head of the second; two replays can disturb each other and the execution.
- **prefix**. `PrefixFaithful`, `CompleteExactly`, `DelegationAgrees`,
  `ClosedBeforeTail`. The tables and limits put the number of rows one
  below, at and one above the limit, `MaxRows` and `MaxLimit`, each of which may be
  the smallest. `DelegationAgrees` is about executions nobody wrote during: prefix
  and aggregate are two statements outside one transaction, so with a writer in
  between they may differ, and the code claims nothing else. A limit of zero is
  excepted, see section 6.
- **sheet**. `InputsFirst`, `EarliestFirst` and `RightVerdict` of the sort: an accepted
  sheet has every formula in its order, and a rejected one has formulas that wait for
  one another and an error that names exactly those. `ReadsFinal` (what a formula
  reads is what this run computed, or the
  source), `CacheCoherent`, `ResourcesKept` (the books agree with what is resident,
  within the budget, and no file is left behind), `WholeSheet` of the run;
  `NullKeepsSheet`: under the null policy no formula fails the sheet, but for a kernel
  over one of its scalars; `Portable`: whatever a host registered, a built-in is asked
  of the database as what it is; `Ends`:
  compilation and evaluation come to an end. Three formulas have self references, cycles of two and
  three, diamonds and chains; with a budget of 3 two columns never fit, so every
  second kernel evicts. The second run starts from rows the first one wrote. The
  kernels offered to the registry are one that no database has, one that a database
  has under another name, the name of a built-in, and no name.
- **query**. `FoldKeepsMeaning`: as long as every stage was folded where it may be,
  the query folded so far means the stages so far. `OthersUnseen`: where the scope
  reaches every table (`ScopeReaches`), the database's answer is the one over the
  caller's rows alone, however the query joins, filters, folds or cuts. `QueryAnswered` and
  `PipeAnswered`: a query that is *well divided* is answered as if there were no
  database. `WellDivided` names six conditions on the plan and the data: what the
  database does comes before what memory does (`DatabaseFirst`), the rows bring the
  columns still to be read (`BringsAll`), a condition that was held back is applied
  (`FiltersAll`), no null meets an operation that treats it differently in the
  two places (`NullsAlike`), the statement can say the joins (`JoinsSaid`), and the
  scope reaches. About 6,800 classic executions of the run (3,130 of them with joins)
  and more than 14,500 of pipes end with all of them true. The conditions say where the code does
  *not* keep the promise; section 6 lists the cases. `MoreIsTrue`: `has_more` never
  promises what is not there. Each joined dataset has something that matters: rows out
  of scope that match a key, no scope column, a column of the same name as one of the
  first table, old versions, or no metadata; each type of join is there, onto the
  first table and onto a joined one.
- **lookup**. `AnswersJoin`: every answer is the join with one state of the right
  side, as the mode and the limit ask. `BoundedStaleness`: the state an answer shows
  was current at or after the call's own request, or, for a cached answer, within
  the time to live plus one fetch before. Three calls are one that fills the cache, one
  whose slow fetch overwrites it, and one that is served. The clock stands still
  while a fetch is `MaxFetch` old: that is the deadline of the host's query, without
  which the code bounds nothing.
- **columns**. `ColumnFaithful`: reading the column, built or restored from the spill
  file, gives the rows: numbers as float64, times outside the range of
  nanoseconds excepted. `KernelsAgree`: the kernels are the aggregates over the
  numbers among the rows, as SQL's are, and count counts every value; the least and
  the greatest of a column that has values and no number are left open, since the
  kernels have none and SQL has (section 6). Four rows change the backing twice with nulls before, between and behind,
  and pass two growths of the bitmap.
- **time_series**. `InBucket`: the time a row is given is, to the second, the last
  boundary of its grid at or before its own; exactly that boundary if origin and
  interval are whole seconds; and if the interval is a second or more, two rows get one
  start if and only if they are in one bucket. (Shorter buckets share their starts,
  and times a duration does not reach are left open: section 6.) `GapsFilled`: of
  every group and every time of the grid that lies in the range there is one row: a
  given one if one is close, with its own time, or else a synthetic one dated to the
  second. Close is what the comment and the code agree on, less than a second and less
  than half an interval behind; between the two either row will do. `Nearest`: a joined
  row is the nearest one of its key on the side asked for, the very time included,
  within the tolerance. Which row it is stays open where the code does not keep to the
  document: a forward join onto a row of the same time, and a tolerance that is
  configured and not positive. Rows further away than a duration reaches are alike.
  `CallsEnd`: every call ends, but for a gapfill whose interval is not
  positive. With two ticks to the second the starts of half of all buckets are off the
  grid as they are written; an interval of one tick halves down; the differences of some
  times and origins are longer than the longest duration.
- **row_operators**. `Answered`: a stage answers what the documents and comments say of
  it (`RowMeanings`) for the values it was given, and fails only if nothing can be
  answered; the stages and rows of `Departs` are excepted, each of which TLC finds to
  be needed: without it `Answered` is violated. `RowsApart`: no row
  map is twice among the rows in work and the results of earlier sub-pipes, which is
  why operators may write in place. The slices have ties, nulls, missing columns,
  numerals next to numbers, equal values under other names, lists and objects, and
  the pairs put every kind of stage (in place, making rows, dropping, failing) in
  front of every other. Numbers are in twelfths so that quotients are exact. Which
  rows a sample draws is open, and in which order a rename is carried out.
- **front_end**. `FrontEndsAgree`: both parsers fail alike in front of the stages; the
  strict one accepts what the lenient one has nothing to say of, and as the same query;
  it gives up at the first stage the lenient one tells of, where all three scanners look
  for it; and a stage the lenient one leaves empty is not built as if it were complete.
  `MeansWhatItSays`: who writes a stage as its comments say, with any name, gets that
  stage. `SilenceMeansRuns`: no diagnostics if and only if a host with all services would
  build every stage. `GutterTruthful`: when all messages are handled, the editor shows
  what is wrong with the text it holds. `OffersRun`: a stage offered to a host is one it
  can build. `ShapeJudged`: validation reports no stage that could be built, and
  every one that a host with all services could not, but for the sheets, which it reports
  whatever they are, and for the faults `Hides` names (section 6). One stage reaches every parser, the second one
  stands behind every other; the ways to be wrong are each keyword without its
  arguments, with half of them and with too many, strings, ticks and brackets left open,
  operators that are not keywords. Two messages under way are an edit and a close or a
  reopening. The longest text matters only to the scanners, whose state is in the
  opening with a bar and a brace inside of strings.

Deadlock checking is off everywhere: executions, replays, sheets and builders end,
a user may stop typing, and then nothing happens.

## 4. Fairness

Two specifications state fairness. `FairSpec` of `SheetRun` has weak fairness of
`Compile` and `Evaluate`, loops of the caller's goroutine that go round as long as the
scheduler runs it. A sheet need not be applied, a kernel need not be registered, and no
context need be cancelled. `Spec` of `TimeSeries` has weak fairness of its next step: one
call of an operator in one goroutine. `CallsEnd` says which call never ends. Nothing has
strong fairness. `ImplementsLiveReplay` is a safety refinement. The other modules are
loops over bounded input, or, in `PipeEditor`, a user who may stop; `GutterTruthful` is
about the states in which everything was handled and assumes nothing of when.

## 5. What is proved

For every value of the constants that satisfies the named assumptions (the
assumptions only give the constants their types and keep the markers apart, but
for those in the table), tlapm checks:

| module | theorems | assumptions beyond types |
|---|---|---|
| `PipeTailProofs` | `TypeCorrect`, `SnapshotIsFaithful`, `EffectsHappenOnce`, `ReplaysAgree`, `LookupsMissOnlySwallowed`, `KeepsThePromise` | none |
| `PrefixStreamProofs` | `TypeCorrect`, `PrefixIsFaithful`, `SignalIsExact`, `DelegationIsRight`, `CursorIsClosed` | `MaxRows`, `MaxLimit` at least 1 |
| `SheetRunProofs` | of `SheetDag`: `OrderIsRight`, `OrderIsPredictable`, `VerdictIsRight`; of `SheetRun`: `RunsCompile`, `ReadsAreFinal`, `CacheIsCoherent`, `ResourcesAreKept`, `RunsAreWhole`, `NullKeepsSheets`, `HostsAgree` | names are finite; a column has a size of at least 1; the source's columns are names |
| `LookupProofs` | `TypeCorrect`, `StalenessIsBounded`, `FetchesAreNeeded`, `AnswersAreJoins` | the dataset has some state |
| `TypedColumnsProofs` | `TypeCorrect`, `ColumnsAreFaithful`, `KernelsAreAggregates` | widening a number twice is widening it once; a time in range survives nanoseconds |
| `TimeSeriesProofs` | `TypeCorrect`, `RowsInBuckets`, `GapsAreFilled`, `PairsAreNearest` | only an `asofJoin` may come without an interval; no interval is longer than a `time.Duration` |
| `PipeEditorProofs` | `GutterFollows`, `SilenceIsRunning`, `OffersCanRun`, `ShapesAreJudged`, `ParsersAreOne`, `StagesKeepMeaning` | the texts are sequences; `SubmissionAssumption`; `StagesKeepMeaning` has the hypothesis `PiecesMean` |
| `QueryEngineProofs` | `QueryOthersUnseen`, `QueryFoldKeepsMeaning`, `QueryIsAnswered`, `QueryMoreIsTrue`; of conditions: `SplitIsSafe`, `SqlAlike` | no column, aggregate or computed column is written with an alias; the values of rows are natural numbers or null; an expression reads finitely many columns; HAVING has no expression and comes with groups or aggregates; a scope asks for a value other than null; limits and `MaxRows` at least 1 |

Each module proves `Spec => []IInv` (as `Invariance`; `DagInvariance`, `RunInvariance`,
`JoinInvariance`, and `AnswerInv`, `FoldInv` and `ClassicInv` of the query engine, for the parts) from `Init => IInv` and one lemma per action, and reads
the theorems off. The invariants were checked by TLC on the runs' instances first.

- *PipeTail*. That the snapshot does not change is not inductive: one has to know
  that no slice an operator may write through shares a cell with it. `RunInv` says
  in which cells the rows and the outputs of a run lie (cells are named by who
  allocated them, at which stage, so that those of two runs differ), `PrimedInv`
  that those of the snapshot are its own, `CallsInv` that the effects so far are
  those of the unsafe stages in front of the execution, `PlanInv` what the stage
  graph guarantees. `KeepsThePromise` is the refinement: under the invariant the session
  of a replay is told by its program counter and its kind alone, so each action of a run
  is one of `LiveReplay` or a stutter, and no effect is called out of its turn.
- *PrefixStream*. While the cursor is read the rows in hand are the first `n` of
  the result, which is the page and at most one row; each end of the loop says how
  `n` compares with limit, cap and result (`ReadingFacts`, `DrainedFacts`). The
  signal is right because of the row behind the limit. `StillMatches`: until
  somebody writes, the match is the table's.
- *SheetDag*. In-degrees count the references to formulas not yet sorted and the
  ready list is the formulas with none (`Degrees`, `Ready`); each formula is taken
  once. That a rejected sheet has a cycle follows: what is left has an edge into
  what is left from everywhere.
- *SheetRun*. `RunsCompile` says that what the run does to the compiler's state is the
  compiler's (`Spec => DagSpec`), so the theorems of the sort hold of it. The invariant of
  the loop, `RunInv`: the formulas in front of the one it is at are done (`Behind`: their
  column has this run's mark, their scalar is there, none was a kernel over a scalar), and
  what is resident or in the file is the column as it is now and one that no formula
  to come will write (`CacheSettled`), because references come first in the order. That
  the books are right (`CacheHeld`, `FileKept`) is a sum over what is held, kept through
  every eviction. `HostsAgree` needs that a delegate is asked of a built-in only if the
  registry does not shadow it.
- *Lookup*. `AnswersAreJoins`: every index, in flight or in the cache, was made from one
  state of the right side (`IndexInv`), and a join with such an index is the join with
  that state; that an index has a row of each key, and it is the last one, needs
  that a set of places has a greatest member. That a cached answer is young enough needs the age of what the cache
  holds (`CacheInv`), which needs the age of what each call in flight is about to
  store (`FetchInv`) and the order of a call's own times (`CallsInv`).
  `FetchesAreNeeded`: no call fetches while the cache it looked at was fresh.
- *TypedColumns*. The bitmap reaches every row and marks the null ones
  (`BitmapInv`), and each slot holds what its row had or the filler (`SlotsInv`),
  through every change of backing. The loops of the kernels then read the rows: what a
  loop has behind place `i` is the count, the sum, the least or the greatest of the
  values known so far (`KnownTo`), and what the aggregate says is a sum over a set of
  places, which does not depend on the order it is taken in.
- *TimeSeries*. For rows of any number and times and every interval that is no longer
  than a duration, with any number of ticks to the second. A row's bucket is arithmetic:
  the start computed is the exact one wherever the duration reaches, and two starts that
  are a second apart or more stay apart when they are written. The nested loops of gapfill need to know where they are: in the group at
  hand the rows behind the index are earlier than the current time (`Behind`), what was
  emitted last is one interval before it, in the group or not yet (`InStep`), and what was
  emitted before is right for good (`Given`). An `asofJoin` reads the rows of the key in
  an order by time, where the binary search finds the last one at or before.
- *PipeEditor*. For any documents, texts and number of messages under way. That the
  server holds the editor's texts when nothing is under way is not inductive: one has
  to say what the messages bring. `InStep`: the last message under way that tells of a
  document brings the text the editor holds, and only if none does is that text the
  server's already. What the gutter shows follows from the server's copy at any time
  (`Shown`), whatever the diagnostics are. The other three theorems compare what is said
  without a host with what a host would do. The answer of a factory is the outcome of its
  first check that fails (`FirstOutcome`), and two facts about each of the 40
  operators decide: the services the checks ask for are among those of the catalog, and
  behind a service no check of the configuration stands, but in those `Hides` names
  (`ServiceChecks`, `PlainChecks`). Hence a stage fails without services as it would with
  them, or for want of one (`BuiltFine`, `FineBuilt`, lifted through the parts of a
  stage). For `SilenceIsRunning` a stage of a text is one of the nineteen operators of the
  grammar, whatever the arguments (`StagesAreTextual`).
  `ParsersAreOne` puts the two parsers side by side, segment by segment: what the lenient
  one has behind `i` segments is all their stages as long as none is wrong, the first
  stage it told of is the first wrong one, and each it told of is wrong (`Found`). That it
  looks for the stage where the strict one does: the bars are enumerated in ascending
  order, and the lengths of the segments in front of one add up to its place (`Placed`). A
  stage the lenient one leaves empty fails a check of its own (`EmptyFails`).
  `StagesKeepMeaning` is the compositional half of `MeansWhatItSays`: *if* every opening
  and every stage that may be typed means alone what it says (`PiecesMean`), so does every
  text made of them. Behind a text that ends outside of strings and brackets a piece is
  scanned as if it stood alone (`JoinedStates`), so the one bar it begins with is the next one
  in the enumeration (`OrderedGrows`), and the cut and the query grow by that piece. That
  `PiecesMean` holds of the instance is what the run checks with texts of one and two
  pieces.
- *QueryEngine*. Statements are about data of any size, conditions of any height and
  pipes of any length. `QueryOthersUnseen` compares the execution with one over the
  caller's rows alone (`AnswerInv`): join by join the keys whose rows are all in the scope
  are the same on both sides, the scope in `WHERE` keeps only those, and groups, order and
  page read nothing else. `QueryFoldKeepsMeaning` needs to know what a folded query
  looks like (`FoldInv`): a clause that no stage added is empty, and the query means the
  selected columns of a page of its sorted and filtered source (`MeansPlain`) or its
  filtered source folded (`MeansFolded`); each stage that may be folded commutes with
  what stands behind it. A sort is a strict total order on places, so that there is one
  sorted sequence and no algorithm to follow.
  `QueryIsAnswered` and `QueryMoreIsTrue` have an invariant that only remembers what was
  planned, asked and finished (`ClassicInv`); the work is in `AllAnswers`, which says of one
  state that for a query that was not refused and is well divided (`Executed`) the plan's
  answer, processed, is its meaning. Its steps: the statement's rows and the rows the query
  means are the same joined rows in the same order, with the same values in every column
  the statement may mention (`FindsAll`, `Told`); what is pushed of WHERE drops none that
  is meant (`SplitIsSafe`) and keeps them as memory does (`SqlAlike`); picking rows in an
  order, filtering what was picked and sorting it anew is picking fewer in the other order
  (`PickFiltered`, `PickSorted`); the rows brought agree with those meant in all that is
  read later (`BroughtIs`), and what reads the same says the same. Then one case for each
  way a query is divided: without aggregates (`PlainAnswers`), folded in memory
  (`FoldedInMemory`), folded by the database (`GroupsAnswer`, where no null meets a fold,
  `FoldedAlike`). That one batch of lookups gives each row what its own ids stand for is
  `BatchFinds`. `WellDivided` is a hypothesis of the property and not of the theorem: the
  theorem shows that any query answered differently breaks one of its six conditions, and
  section 6 lists what each of them is for.

Some definitions are written for the prover as well as for TLC: what is first, last or
in ascending order is chosen (`Ascending`, `Ordered`, `First`) and not filtered out of a
sequence, since the provers know nothing of `SelectSeq` and cannot do induction over data.

Only model-checked, and why:

- all liveness (`Ends`, `CallsEnd`): the prover has no rule for fairness and `ENABLED`;
- `PipeAnswered` of `QueryEngine`: it is true only where no cap is reached, since a prefix is
  cut at `MaxRows` and `MaxLimit` rows and the stages behind it never see the rest
  (`PrefixStream` has the theorems about that). Its parts without a cap are
  `QueryFoldKeepsMeaning` and `AllAnswers`;
- `Answered` and `RowsApart` of `SubPipes`: what each of 27 operators answers is written
  with folds, filters and sorting of the community modules, of which the provers know
  nothing;
- `PiecesMean`, the hypothesis of `StagesKeepMeaning`: it is about the sentences the
  instance lists, each taken through the tokenizer and the grammar.

The type invariant of `QueryEngine` is there for the reader; those of the other modules
with a proof module are theorems or part of one (`RunInv`).

## 6. Where the code does something else

Runs that end in a violation, each with one property that quotes the program:

| run | what happens |
|---|---|
| `swallowed_output` | a pushed groupBy folds the aggregate behind it even if a later `from` names it; the lookup then fails at run time |
| `prefix_later_sheet` | a sheet behind a stage that drops or rewrites rows is answered by an aggregate over the prefix |
| `query_fold_order` | a limit of 1 in front of a SUM: the query aggregates all rows; a second limit or skip replaces the first |

Met while modelling and visible in the models, without a run of their own. Where a
property is about such a place, it states what the document says and leaves the place
out by name (the name stands with the entry), so that it is never asserted of the code
that it should do what the document denies.

Prefix, sheets, paging:

- A pushed limit of 0 asks the database for no row while the cursor reads 0 as
  unlimited, so that the signal says "complete" (`exec/stream.go:49`); in the tail a
  limit of 0 keeps every row (`pipe/sort_limit.go:71`), `docs/OPERATORS.md:605` says
  otherwise.
- A pipe without a limit asks for `MaxRows`, which `MaxLimit` lowers silently; the
  clamp is written through a pointer the caller's query shares.
- `LIMIT` is pushed although the sort behind it stays in memory; a simple WHERE on a
  computed column is never applied; `COUNT(*)` next to a pushed aggregate counts
  groups: the cases `DatabaseFirst` and `FiltersAll` exclude.
- A groupBy without aggregates gives its distinct groups if the database groups, and
  all rows if memory would (`processor/processor.go:51`); a `HAVING` with a `not` over
  a null key drops the group in the database and keeps it in memory (`DatabaseFirst`,
  `NullsAlike`).
- A versioned dataset whose metadata does not declare the version column, or a query
  that computes a column of that name, shows old versions (`FiltersAll`).
- groupBy and aggregate in the tail give one row: `aggregateOp.WithKeys`
  (`pipe/aggregate.go:65`) has no caller, so the keys of a groupBy that was not pushed
  are lost (`docs/OPERATORS.md:657`). `PipeAnswered` leaves it out.
- Under the null policy a kernel over a sheet-wide scalar still fails the sheet; whether
  a reduce is a kernel depends on what the host registered.
- `has_more` is false for a full page that the database cut.
- The statement does not bring a column that only a computed expression or a `HAVING`
  left in memory reads, and drops a selected column that the metadata does not declare
  (`BringsAll`).

Joins, scope, expansion (the cases `JoinsSaid`, `ScopeReaches` and `Refused` name):

- The columns of the statement are chosen before the joins are planned
  (`planner/planner.go:62`, `93`), so a joined column selected next to a column of the
  dataset is not fetched; a name written with its alias vanishes in the projection,
  since a scanned row has bare names.
- Of two columns with one name the later table's wins, and is null where a left join
  found nothing (`exec/engine.go:383`).
- The left side of `ON` is a column of the first table whatever alias it was written
  with: a join onto a joined table is refused or means another column. A cross join is
  written with an `ON`, which no database takes.
- The scope of the dataset stands in `WHERE`: a right or full join loses the rows that
  found no partner, or, if the dataset has no scope column, brings rows of the joined
  table from outside the scope without their values.
- The scope of a joined table is derived from `ScopeFor("", "")` at construction
  (`exec/engine.go:176`): a column that is left out for empty ids is not applied to
  joins. A joined dataset without declared columns is never scoped, a first one is.
- Joined versioned datasets show every version; two versioned ones make `_is_current`
  ambiguous.
- `HAVING` over the name of an aggregate is refused by PostgreSQL (`MayBeRefused`).
- A folded filter that names a version column takes away the filter for current rows
  (`planner/planner.go:67-84`); the same filter in the tail finds only current ones.
- A folded `project` of `*` shows all columns, one in the tail gives rows without any;
  an aggregate of nothing is folded as if it were not there.
- `expand` knows the columns of the first dataset only, and is dropped in a pipe.

Operators (`Departs` of `RowMeanings` where no other name is given):

- rename carries its pairs out one after the other, in the order Go ranges over a map
  (`pipe/project.go:93`). A swap of two columns loses one of them, a chain gives one row
  another result than the next, and a column renamed to itself is deleted;
  `docs/OPERATORS.md:144` promises new names for existing ones. Such a pipe is live safe,
  so a replay may differ from its execution (`Crossing`).
- A branch with an empty `else` lets rows pass (`pipe/branch.go:17` says so);
  `docs/OPERATORS.md:889`: "Empty drops the row."
- flatten with `preserveEmpty` keeps a row whose list is empty or null as it is
  (`pipe/flatten.go:42`); `docs/OPERATORS.md:375` and the comment at `pipe/flatten.go:20`
  give it a null element (`Unmarked`).
- `fillNulls` without columns fills those of the first row (`pipe/quality.go:109`);
  `docs/OPERATORS.md:356`: "Empty means every column on each row."
- unpivot without `idCols` keeps no column (`pipe/reshape.go:213`);
  `docs/OPERATORS.md:449`: "Empty means every column not in `valueCols`."
- `as` of crossJoin is a prefix of the right side's columns (`pipe/lookup.go:168`);
  `docs/OPERATORS.md:762`: "each right row is nested under this column".
- `histogram` with a given range counts values outside of it, if they are less than a
  bin away: below it in the first bin, above it in the last (`pipe/histogram.go:75`
  rounds toward zero and takes the quotient `bins` for the right edge; `Outside`). Over no
  rows it answers no bins (`pipe/histogram.go:39`), whatever the range.
- `intersect` and `except` without `by` compare the values of rows in the order of
  their columns and not the columns' names, so `{a: 1}` and `{b: 1}` are equal;
  `pipe/setops.go:86` says "hash all key=value pairs", `docs/OPERATORS.md:780` "full-row
  equality" (`Confused`).
- What a function answers for a batch: an object without `as` is put under `_result` and
  not spread over the row (`pipe/call_function.go:87`, against the comment at 29), and
  rows with `as` replace the rows instead of standing in that column (`:84`,
  `docs/OPERATORS.md:813`; `Unnamed`). A function called for a batch gets `"$col"` as it
  is written, called for each row it gets the column (`pipe/call_function.go:73`, `105`);
  one that answers an empty list for a batch drops all rows.
- The comment at `pipe/lookup.go:88` speaks of null columns for a row without a match;
  the row is passed on as it is, and `AnswersJoin` says nothing of columns.
- An inner lookup without a limit drops rows whose match lies behind the engine's
  default limit (`docs/OPERATORS.md:718`: "`inner` drops left rows with no match").
- `asofJoin` forward takes the earliest row strictly later than the left one and does
  not find a row of the same time; `pipe/time_ops.go:294` says "forward (right ≥ left)",
  `docs/OPERATORS.md:742` "the earliest at or after". A tolerance of `0d` is no
  tolerance, while `docs/OPERATORS.md:743` drops "matches further than this". `Nearest`
  leaves both open (`LeftOpen`).
- `timeBucket` and `gapfill` write times in the format RFC3339
  (`pipe/time_ops.go:51`, `202`), which drops the fraction of a second: with an interval of
  `500ms` two buckets share a start that only one of them begins with, and with an origin
  or a bound between two seconds the times written are not on the grid. A time further
  than 292 years from the origin is taken for one at that distance, and the product that
  follows goes round: the year 1 in buckets of a day lands in the year 2262
  (`pipe/time_ops.go:61-66`). `InBucket` leaves such times open (`Reached`). An interval of
  more than 106,751 days overflows before that, which is not modelled.
- `gapfill` matches a row within half an interval (`pipe/time_ops.go:193`), where the
  comment at 180 says "within sub-second tolerance"; `GapsFilled` leaves open what happens
  between the two (`Close`, `Window`). It drops a row in the later half of an interval when
  the next time of the grid has a row of its own, and the second row near one time. An
  interval of `0d` or `-1d` passes `parseInterval`, and `gapfill` never comes to its end
  (`CallsEnd` leaves it out).
- `timeBucket` reads its time zone and buckets by the same instants in every one.
- The kernels `min` and `max` know numbers only: over a column of strings or times they
  answer nil, where SQL answers a value. `sheet/reduce.go:10` says "Kernels must match
  SQL's aggregate semantics exactly", and
  `docs/superpowers/specs/2026-08-03-sheet-semantics-design.md:373` delegates
  `min(ts), max(ts)`: the delegated answer is a time, the kernel's is not there.
  `KernelsAgree` leaves columns with values and no number open.
- `unnestObject` with `drop` loses a field that has the name of its column; `dedupe`
  that keeps the last row leaves it at the place of the first.

Front ends:

- `ValidateShape` takes an error with "not available" for a missing service
  (`pipe/validate.go:24-29`, `45-47`), which the one of the sheet does not say
  (`pipe/sheet.go:63`), so every document with a sheet is rejected, and one with a sheet
  inside of merge, intersect or except; branch finds its evaluator missing first.
  `ShapeJudged` leaves them open (`HoldsSheet`). Faults that a factory
  looks for behind a service are not reported: those inside of branch, merge, intersect
  and except, the tolerance of asofJoin, the name of an algorithm (`Hides`).
- `lang/lang.go:39-41` calls a parser lenient that is the strict one.
- Behind an operator that is not known, the stage index of a lenient diagnostic is the
  one in the text, not the one in the returned pipe (`pipe/textual.go:62-73`). A limit or
  skip that is left empty builds, with 0.
- What follows a complete stage is ignored: `where a == 1 and b == 2` filters by the
  first condition, `where a in [1,2]` compares with `[`; `limit 1.5` is a limit of 0.
- A JSON payload with a brace inside of a string is rejected: the scanner of payloads
  counts braces only. The scanners behind a diagnostic's position know no escapes.
- `as` of callApp is set and is no field of its configuration, and `.method` behind an
  application needs a space in front of it.
- The list of stages completions offer lacks pivot, unpivot, nest and unnestObject, which
  the parser knows. The catalog asks for more services than factories do (compute for
  both of two, filter for an evaluator it may not use), so it offers less than would run.
- The example in `cmd/dql-lsp/main.go:3` has `filter`, which is no keyword of the text;
  `source app:slack | ...` is taken for a document of the other form.

## 7. What is not modelled

- *Row operators*: casts to bool and timestamp, casts of lists and objects, floating
  point; filter, project, sort, limit and compute are in `QueryEngine`. Sub-pipes hold
  no further stages of sub-pipes.
- *What a called application or function answers*: the host's. `PipeTail` has the
  sharing of rows and the failures, `RowColumns` the arguments and the merging.
- *Classic path*: the text of the SQL statement, column metadata of a result,
  statistics and Explain, aliases and expression selects, failures of the evaluator. A
  nil scope and a dataset that cannot be resolved are refused before anything is sent.
  Ids are small numbers, of which 0 stands for the empty string; a directory that fails
  is one that does not know the id; every column a joined dataset declares is raw.
- *Sheets*: the recorded errors; `ApplyStream` (`sheet/stream.go`), which nothing in the
  repository calls: it keeps its source open while a delegate may query; the switch that turns kernels off, which only a test
  of the package sets.
- *Front ends*: the validation of a classic statement; how a number or a JSON payload
  is spelt; a lexeme is not cut further, a keyword has one spelling (its case does not
  matter to the code) and no name of a stage is also one of the clauses' words
  unless it is quoted. Completions are at the end of a text. Hover, the generated
  reference and the JSON schema are text from the catalog.
- *Data*: values are small, names and messages are model values; the names of the columns a
  lookup merges (they are those of crossJoin) and the capacity of slices are left out.

## 8. Plan

Done, in this order: `PipeTail` with `LiveReplay`, `PrefixStream`, `SheetDag` and
`SheetRun`, `QueryEngine` over `ClassicQuery` over `RowAlgebra`, `Lookup`,
`TypedColumns`, their proof modules, `TimeSeries`, `RowOperators` with `RowColumns`,
`RowReshape`, `RowMeanings` and `SubPipes`; then the front end (`PipeScan`, `PipeGrammar`,
`PipeCatalog`, `PipeEditor` with its proofs), joins, scope and expander
(`QuerySource`), and the registry in `SheetRun`.

Proved since: `SheetRunProofs`, the refinement of `LiveReplay`, `TimeSeriesProofs`, the
joins of `Lookup`, and of the front end what is said without a host.

Then `QueryEngine` was written without recursive operators (conditions are read by
recursive functions over a bounded height, grouping and sorting by what they choose),
and `OthersUnseen` and `FoldKeepsMeaning` of it, the kernels of `TypedColumns` and the
agreement of the two parsers were proved, and that the meaning of a stage does not
depend on the text around it.

Last, `QueryAnswered` and `MoreIsTrue` of it were proved: clause by clause, the database's
reading is memory's where no null meets it.

To come:

1. `RowsApart` of `SubPipes`: what an operator answers of the maps it was given.
2. Statistics, column metadata and Explain of an execution; the validation of a
   classic statement.
