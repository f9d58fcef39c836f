------------------------------- MODULE SheetRun -------------------------------
(***************************************************************************)
(* One sheet over one slice of rows: Sheet.Apply and what it calls         *)
(* (sheet/sheet.go), with the columns it caches for its kernels, the byte  *)
(* budget that evicts them and the spill file they come back from          *)
(* (sheet/spill.go).  A host may register kernels of its own before it     *)
(* compiles a sheet (sheet/registry.go), and may apply the sheet again to  *)
(* the rows it wrote, as it does when it re-executes a pipe over a prefix  *)
(* of its own.                                                             *)
(*                                                                         *)
(* What a column holds is told by who wrote it last: 0, the source; n, the *)
(* n-th run of the sheet.  A formula is evaluated rightly when it read the *)
(* source's columns as they came and the formulas' as this run wrote them. *)
(***************************************************************************)
EXTENDS SheetDag, Functions

CONSTANTS
    Source,      \* the columns the input has
    Typed,       \* the columns whose values have one type: they can be spilled
    Size,        \* Size[c]: columnBytes of column c
    Builtins,    \* the built-in kernels: name -> the SQL aggregate it is
    Offers,      \* the kernels a host may register: a name and the SQL
                 \* aggregate, which is empty if no database has it
    Budgets,     \* the ColumnBudgetBytes a sheet may be configured with
    MaxRuns      \* how often the host applies the sheet

ASSUME RunAssumption ==
    /\ Source \subseteq Names
    /\ Typed \subseteq Names
    /\ Size \in [Names -> Nat \ {0}]
    /\ "" \notin DOMAIN Builtins
    /\ Budgets \subseteq Nat
    /\ MaxRuns \in Nat \ {0}

VARIABLES
    registry,    \* the host's kernels: name -> SQL aggregate
    policy,      \* what an evaluation error does: "fail" or "null"
    budget,      \* ColumnBudgetBytes; zero is no budget
    pc,          \* "idle", "running", "done" or "failed"
    err,         \* the kind of the error Apply returned, "none" if it did not
    run,         \* which run of the sheet this is
    at,          \* the loop index of Apply over the sorted formulas
    cell,        \* cell[c]: who wrote column c of the rows last
    scalars,     \* res.Scalars: the reduces computed in this run
    answered,    \* run.delegated: the reduces a delegate answered, and the
                 \* SQL aggregate each was asked as
    reads,       \* reads[i]: the columns formula i read in this run, by writer
    columns,     \* run.columns: the resident columns, by writer
    held,        \* run.held: the resident columns, least recently used first
    bytes,       \* run.bytes
    spill        \* run.spill: the file's columns, by writer, when there is one

runVars == <<registry, policy, budget, pc, err, run, at, cell, scalars, answered, reads,
             columns, held, bytes, spill>>
vars == <<formulas, sorter, inDegree, ready, order, registry, policy, budget, pc,
          err, run, at, cell, scalars, answered, reads, columns, held, bytes,
          spill>>

-------------------------------------------------------------------------------
Absent == -1         \* no row has the column
Partly == -2         \* a failed column formula wrote some of the rows
Writer == Partly..MaxRuns

Nothing == [c \in {} |-> 0]

(***************************************************************************)
(* The entries of g, and of h what g lacks; c mapped to w over h.          *)
(***************************************************************************)
Over(g, h) ==
    [c \in DOMAIN g \cup DOMAIN h |-> IF c \in DOMAIN g THEN g[c] ELSE h[c]]
With(h, c, w) == Over([d \in {c} |-> w], h)

NoFile == [open |-> FALSE, index |-> Nothing]
Cache == <<columns, held, bytes>>

Init ==
    /\ DagInit
    /\ registry = Nothing
    /\ policy \in {"fail", "null"}
    /\ budget \in Budgets
    /\ pc = "idle"
    /\ err = "none"
    /\ run = 0
    /\ at = 0
    /\ cell = [c \in Names |-> IF c \in Source THEN 0 ELSE Absent]
    /\ scalars = {}
    /\ answered = Nothing
    /\ reads = [i \in Places |-> Nothing]
    /\ columns = Nothing
    /\ held = <<>>
    /\ bytes = 0
    /\ spill = NoFile

Compile == Sort /\ UNCHANGED runVars

-------------------------------------------------------------------------------
(***************************************************************************)
(* A kernel must have a name that is neither a built-in's nor taken.  The  *)
(* host has its kernels before it compiles: nothing guards the registry    *)
(* against a sheet that reads it.                                          *)
(***************************************************************************)
Register(k) ==
    /\ sorter = "declared"
    /\ registry' = With(registry, k.name, k.push)
    /\ UNCHANGED <<formulas, sorter, inDegree, ready, order, policy, budget, pc,
                   err, run, at, cell, scalars, answered, reads, Cache, spill>>
RegisterAnyName(k) == k.name # "" /\ k.name \notin DOMAIN registry /\ Register(k)
RegisterReduce(k) ==
    /\ k.name # ""
    /\ k.name \notin DOMAIN Builtins
    /\ k.name \notin DOMAIN registry
    /\ Register(k)

(***************************************************************************)
(* The host's kernels come first.  A reduce is a kernel when kernelFor     *)
(* recognises it as one of either sort applied to one column.              *)
(***************************************************************************)
Known == Over(registry, Builtins)
IsKernel(i) ==
    /\ formulas[i].kind = "reduce"
    /\ formulas[i].call \in DOMAIN Known
    /\ Cardinality(formulas[i].refs) = 1
PushdownName(i) == Known[formulas[i].call]

-------------------------------------------------------------------------------
(***************************************************************************)
(* References that are neither a column of the rows nor a formula.         *)
(***************************************************************************)
Unresolved ==
    {n \in UNION {formulas[i].refs : i \in Places} :
        cell[n] = Absent /\ n \notin FormulaNames}

(***************************************************************************)
(* Only a kernel a database has, over a column this sheet does not         *)
(* compute, is asked of the delegate, which may answer none, some or all.  *)
(***************************************************************************)
DelegableAny == {i \in Places : IsKernel(i) /\ PushdownName(i) # ""}
Delegable ==
    {i \in Places : /\ IsKernel(i) /\ PushdownName(i) # ""
                    /\ formulas[i].refs \cap FormulaNames = {}}

(***************************************************************************)
(* Apply on rows that are not empty, up to its loop.                       *)
(***************************************************************************)
Start ==
    /\ sorter = "sorted"
    /\ pc # "running"
    /\ run < MaxRuns
    /\ run' = run + 1
    /\ at' = 1
    /\ IF Unresolved # {}
       THEN pc' = "failed" /\ err' = "references" /\ answered' = Nothing
       ELSE /\ pc' = "running" /\ err' = "none"
            /\ \E A \in SUBSET Delegable : answered' = [i \in A |-> PushdownName(i)]
    /\ scalars' = {}
    /\ reads' = [i \in Places |-> Nothing]
    /\ columns' = Nothing
    /\ held' = <<>>
    /\ bytes' = 0
    /\ UNCHANGED <<formulas, sorter, inDegree, ready, order, registry, policy,
                   budget, cell, spill>>

-------------------------------------------------------------------------------
(***************************************************************************)
(* One formula of the loop: what it reads, and how it ends.                *)
(***************************************************************************)
f == formulas[order[at]]

Evaluating(kind) ==
    /\ pc = "running"
    /\ at \in DOMAIN order
    /\ f.kind = kind
    /\ UNCHANGED <<formulas, sorter, inDegree, ready, order, registry, policy,
                   budget, run, answered>>

(***************************************************************************)
(* A reference is bound to this run's scalar of that name, or else to the  *)
(* column of the rows.                                                     *)
(***************************************************************************)
Seen(n) == IF n \in scalars THEN run ELSE cell[n]
Reads(w) == reads' = [reads EXCEPT ![order[at]] = w]

AdvanceNot == UNCHANGED <<at, pc, err>>
Advance == at' = at + 1 /\ UNCHANGED <<pc, err>>

(***************************************************************************)
(* An error returns from Apply, whose deferred close drops the file.       *)
(***************************************************************************)
Fail(kind) == pc' = "failed" /\ err' = kind /\ UNCHANGED at
FileAfter(s) == IF pc' = "running" THEN s ELSE NoFile

(***************************************************************************)
(* A reduce ends with its scalar, null if it failed under PolicyNull, or   *)
(* with an error.                                                          *)
(***************************************************************************)
ReduceNullUnset ==
    /\ \/ Advance /\ scalars' = scalars \cup {f.as}
       \/ policy = "null" /\ Advance /\ UNCHANGED scalars
       \/ policy = "fail" /\ Fail("formula") /\ UNCHANGED scalars
    /\ UNCHANGED cell
ReduceUnforgiving ==
    /\ \/ Advance /\ scalars' = scalars \cup {f.as}
       \/ Fail("formula") /\ UNCHANGED scalars
    /\ UNCHANGED cell
Reduce ==
    /\ \/ Advance /\ scalars' = scalars \cup {f.as}
       \/ policy = "fail" /\ Fail("formula") /\ UNCHANGED scalars
    /\ UNCHANGED cell

EvalColumn ==
    /\ Evaluating("column")
    /\ Reads([n \in f.refs |-> Seen(n)])
    /\ \/ /\ Advance
          /\ cell' = [cell EXCEPT ![f.as] = run]
       \/ /\ policy = "fail"
          /\ Fail("formula")
          /\ cell' \in {cell, [cell EXCEPT ![f.as] = Partly]}
    /\ spill' = FileAfter(spill)
    /\ UNCHANGED <<scalars, Cache>>

EvalReduce ==
    /\ Evaluating("reduce")
    /\ ~IsKernel(order[at])
    /\ Reads([n \in f.refs |-> Seen(n)])
    /\ Reduce
    /\ spill' = FileAfter(spill)
    /\ UNCHANGED Cache

(***************************************************************************)
(* The delegate's answer is over the source's column.  One that is not a   *)
(* scalar is an error whatever the policy.                                 *)
(***************************************************************************)
UseDelegated ==
    /\ Evaluating("reduce")
    /\ order[at] \in DOMAIN answered
    /\ Reads([n \in f.refs |-> IF n \in Source THEN 0 ELSE Absent])
    /\ \/ Advance /\ scalars' = scalars \cup {f.as}
       \/ Fail("delegate") /\ UNCHANGED scalars
    /\ spill' = FileAfter(spill)
    /\ UNCHANGED <<cell, Cache>>

-------------------------------------------------------------------------------
(***************************************************************************)
(* A kernel has its column from columnFor.                                 *)
(***************************************************************************)
Column == CHOOSE c \in f.refs : TRUE
Scan ==
    Evaluating("reduce") /\ IsKernel(order[at]) /\ order[at] \notin DOMAIN answered
Dropped(h, i) == [j \in 1..(Len(h) - 1) |-> IF j < i THEN h[j] ELSE h[j + 1]]
Touched(h, c) ==
    IF c \in Range(h)
    THEN Append(Dropped(h, First({i \in DOMAIN h : h[i] = c})), c)
    ELSE Append(h, c)

(***************************************************************************)
(* A scalar is no column, whatever the policy.                             *)
(***************************************************************************)
RefuseScalar ==
    /\ Scan
    /\ Column \in scalars
    /\ Fail("formula")
    /\ spill' = NoFile
    /\ UNCHANGED <<reads, cell, scalars, Cache>>

ScanResident ==
    /\ Scan
    /\ Column \notin scalars
    /\ Column \in DOMAIN columns
    /\ Reads([c \in {Column} |-> columns[c]])
    /\ Reduce
    /\ held' = IF Column \in Range(held) THEN Touched(held, Column) ELSE held
    /\ spill' = FileAfter(spill)
    /\ UNCHANGED <<columns, bytes>>

(***************************************************************************)
(* The bytes of the columns in h are counted one by one: the columns' sum. *)
(* How many of the columns in h, oldest first, give way to a total of b    *)
(* bytes: as few as it takes to fit, and never the newest.                 *)
(***************************************************************************)
BytesOf(C) == {e \in C \X UNION {1..Size[c] : c \in C} : e[2] <= Size[e[1]]}
Bytes(h) == Cardinality(BytesOf(Range(h)))
Evicts(h, b) ==
    CHOOSE k \in 0..(Len(h) - 1) :
        /\ b - Bytes(SubSeq(h, 1, k)) <= budget \/ k = Len(h) - 1
        /\ \A j \in 0..(k - 1) : ~(b - Bytes(SubSeq(h, 1, j)) <= budget)

(***************************************************************************)
(* The spill file after the columns V of cs were put to it.  There may be  *)
(* no file, an untyped column is not written, and any write may fail.      *)
(***************************************************************************)
Spilled(V, cs) ==
    {s \in [open : BOOLEAN, index : {Over(Restrict(cs, K), spill.index) :
                                        K \in SUBSET (V \cap Typed)}] :
        /\ spill.open => s.open
        /\ s.index # spill.index => s.open
        /\ V = {} => s = spill}

(***************************************************************************)
(* admit: column c, written by w, becomes resident.                        *)
(***************************************************************************)
AdmitUncounted(c, w) ==
    LET h == Touched(held, c)
        k == Evicts(h, bytes)
        V == Range(SubSeq(h, 1, k))
    IN  /\ columns' = Restrict(With(columns, c, w), DOMAIN columns \ V)
        /\ held' = SubSeq(h, k + 1, Len(h))
        /\ bytes' = bytes - Bytes(SubSeq(h, 1, k))
        /\ \E s \in Spilled(V, columns) : spill' = FileAfter(s)
Admit(c, w) ==
    IF budget = 0
    THEN /\ columns' = With(columns, c, w)
         /\ UNCHANGED <<held, bytes>>
         /\ spill' = FileAfter(spill)
    ELSE LET h  == Touched(held, c)
             k  == Evicts(h, bytes + Size[c])
             V  == Range(SubSeq(h, 1, k))
             cs == With(columns, c, w)
         IN  /\ columns' = Restrict(cs, DOMAIN cs \ V)
             /\ held' = SubSeq(h, k + 1, Len(h))
             /\ bytes' = (bytes + Size[c]) - Bytes(SubSeq(h, 1, k))
             /\ \E s \in Spilled(V, cs) : spill' = FileAfter(s)

ScanSpilled ==
    /\ Scan
    /\ Column \notin scalars
    /\ Column \notin DOMAIN columns
    /\ Column \in DOMAIN spill.index
    /\ Reads([c \in {Column} |-> spill.index[c]])
    /\ Reduce
    /\ Admit(Column, spill.index[Column])

(***************************************************************************)
(* Built from the rows: never seen, evicted and not spilled, or not to be  *)
(* read back.                                                              *)
(***************************************************************************)
ScanRows ==
    /\ Scan
    /\ Column \notin scalars
    /\ Column \notin DOMAIN columns
    /\ Reads([c \in {Column} |-> cell[c]])
    /\ Reduce
    /\ Admit(Column, cell[Column])

-------------------------------------------------------------------------------
(***************************************************************************)
(* The context is cancelled between two formulas.                          *)
(***************************************************************************)
Cancel ==
    /\ pc = "running"
    /\ at \in DOMAIN order
    /\ Fail("context")
    /\ spill' = NoFile
    /\ UNCHANGED <<formulas, sorter, inDegree, ready, order, registry, policy,
                   budget, run, answered, reads, cell, scalars, Cache>>

(***************************************************************************)
(* The loop is over; sheetOp writes the scalars into the rows.             *)
(***************************************************************************)
Done ==
    /\ pc = "running"
    /\ at \notin DOMAIN order
    /\ pc' = "done"
    /\ cell' = [c \in Names |-> IF c \in scalars THEN run ELSE cell[c]]
    /\ spill' = NoFile
    /\ UNCHANGED <<formulas, sorter, inDegree, ready, order, registry, policy,
                   budget, err, run, at, answered, reads, scalars, Cache>>

Evaluate ==
    \/ EvalColumn \/ EvalReduce \/ UseDelegated
    \/ RefuseScalar \/ ScanResident \/ ScanSpilled \/ ScanRows
    \/ Done

Next ==
    \/ \E k \in Offers : RegisterReduce(k)
    \/ Compile \/ Start \/ Evaluate \/ Cancel

Spec == Init /\ [][Next]_vars

(***************************************************************************)
(* Compile and Apply run to their end in the goroutine that calls them.    *)
(***************************************************************************)
FairSpec == Spec /\ WF_vars(Compile) /\ WF_vars(Evaluate)

-------------------------------------------------------------------------------
Written(g) == DOMAIN g \subseteq Names /\ \A c \in DOMAIN g : g[c] \in Writer

(***************************************************************************)
(* The type of every variable.                                             *)
(***************************************************************************)
TypeOK ==
    /\ DagTypeOK
    /\ policy \in {"fail", "null"}
    /\ budget \in Budgets
    /\ pc \in {"idle", "running", "done", "failed"}
    /\ err \in {"none", "references", "formula", "delegate", "context"}
    /\ err # "none" <=> pc = "failed"
    /\ run \in 0..MaxRuns
    /\ at \in Nat
    /\ cell \in [Names -> Writer]
    /\ scalars \subseteq FormulaNames
    /\ DOMAIN answered \subseteq Places
    /\ DOMAIN reads = Places /\ \A i \in Places : Written(reads[i])
    /\ Written(columns)
    /\ held \in Seq(Names)
    /\ bytes \in Nat
    /\ spill.open \in BOOLEAN /\ Written(spill.index)

(***************************************************************************)
(* Every formula a run evaluated read final values: of a formula what this *)
(* run computed, of the source what it held at first.  Neither the cache,  *)
(* the budget, the spill file, a delegate, an error written as null nor    *)
(* what an earlier run left in the rows can be observed.                   *)
(***************************************************************************)
ReadsFinal ==
    \A i \in Places :
        \A n \in DOMAIN reads[i] :
            reads[i][n] = IF n \in FormulaNames THEN run ELSE 0

(***************************************************************************)
(* A column kept in memory or in the file is what building it from the     *)
(* rows would give now: no formula writes a column after a kernel read it. *)
(***************************************************************************)
CacheCoherent ==
    pc = "running" =>
        /\ \A c \in DOMAIN columns : columns[c] = cell[c]
        /\ \A c \in DOMAIN spill.index : spill.index[c] = cell[c]

(***************************************************************************)
(* Under a budget run.bytes is the size of the columns held, each once,    *)
(* and exceeds the budget only by the one column in use.  The file that    *)
(* holds the others is gone with the run, however that ends, and without a *)
(* budget there is none.                                                   *)
(***************************************************************************)
BudgetKept ==
    budget # 0 =>
        /\ Range(held) = DOMAIN columns
        /\ Cardinality(Range(held)) = Len(held)
        /\ bytes = Bytes(held)
        /\ bytes <= budget \/ Len(held) = 1
FileDropped == spill.open => pc = "running" /\ budget # 0
ResourcesKept == BudgetKept /\ FileDropped

(***************************************************************************)
(* A finished run computed every formula: each column written by it, each  *)
(* scalar in the rows.                                                     *)
(***************************************************************************)
WholeSheet ==
    pc = "done" => \A n \in FormulaNames : cell[n] = run

(***************************************************************************)
(* PolicyNull "writes null into the failing cell and continues": no        *)
(* formula fails the sheet, unless the sheet aggregates with a kernel over *)
(* one of its own scalars: then every run fails.                           *)
(***************************************************************************)
OverScalar ==
    \E i, j \in Places : /\ IsKernel(i)
                         /\ formulas[j].kind = "reduce"
                         /\ formulas[j].as \in formulas[i].refs
NullKeepsSheet ==
    policy = "null" =>
        /\ err = "formula" => OverScalar
        /\ pc = "done" => ~OverScalar

(***************************************************************************)
(* A sheet means the same on every host: whatever a host registered, a     *)
(* built-in is asked of the database as what it is, and a kernel that no   *)
(* database has is not asked of it.                                        *)
(***************************************************************************)
Portable ==
    \A i \in DOMAIN answered :
        LET name == formulas[i].call
        IN  /\ answered[i] # ""
            /\ IF name \in DOMAIN Builtins
               THEN answered[i] = Builtins[name]
               ELSE \E k \in Offers : k.name = name /\ k.push = answered[i]

(***************************************************************************)
(* The sort ends, whatever it is given, and so does every run over what it *)
(* accepted.                                                               *)
(***************************************************************************)
Ends ==
    /\ sorter = "declared" ~> sorter \in {"sorted", "cyclic", "refused"}
    /\ pc = "running" ~> pc \in {"done", "failed"}
===============================================================================
