------------------------------- MODULE SheetDag -------------------------------
(***************************************************************************)
(* How a sheet is compiled: validateFormulas (sheet/formula.go) and the    *)
(* topological sort of topoSort (sheet/dag.go).  A formula stands at its   *)
(* place in the declaration; its refs are the free identifiers of its      *)
(* expression, which may name formulas or columns of the input.            *)
(***************************************************************************)
EXTENDS Integers, Sequences, FiniteSets

CONSTANTS
    Names,           \* names of formulas and columns
    Declarations     \* the lists of formulas a sheet may declare

(***************************************************************************)
(* An expression that is one function applied to its references calls it;  *)
(* of any other the call is empty.                                         *)
(***************************************************************************)
Kinds == {"column", "reduce"}
Formula == [as : Names, refs : SUBSET Names, kind : Kinds, call : STRING]

ASSUME DeclarationsAssumption ==
    IsFiniteSet(Names) /\ Declarations \subseteq Seq(Formula)

VARIABLES
    formulas,        \* cfg.Formulas
    sorter,          \* what the compilation is doing or has answered
    inDegree,        \* inDegree[i]: the unsorted formulas formula i refers to
    ready,           \* the places whose formulas have none left, kept sorted
    order            \* the places sorted so far: out

dagVars == <<formulas, sorter, inDegree, ready, order>>

-------------------------------------------------------------------------------
Places == DOMAIN formulas
NamesIn(fs) == {fs[i].as : i \in DOMAIN fs}
FormulaNames == NamesIn(formulas)

Valid(fs) ==
    /\ fs # <<>>
    /\ \A i, j \in DOMAIN fs : fs[i].as = fs[j].as => i = j

(***************************************************************************)
(* Only references to formulas are edges; each counts once.                *)
(***************************************************************************)
DepsOfColumns(i) ==
    IF formulas[i].kind = "column" THEN formulas[i].refs \cap FormulaNames ELSE {}
Deps(i) == formulas[i].refs \cap FormulaNames
Dependents(i) == {j \in Places : formulas[i].as \in formulas[j].refs}

First(S) == CHOOSE i \in S : \A j \in S : i <= j
Last(S) == CHOOSE i \in S : \A j \in S : i >= j

Sorted == {order[k] : k \in DOMAIN order}
Waiting == Places \ Sorted

DagInit ==
    /\ formulas \in Declarations
    /\ sorter = "declared"
    /\ inDegree = [i \in Places |-> 0]
    /\ ready = {}
    /\ order = <<>>

RefuseFormulas ==
    /\ sorter = "declared"
    /\ ~Valid(formulas)
    /\ sorter' = "refused"
    /\ UNCHANGED <<formulas, inDegree, ready, order>>

CountEdges ==
    /\ sorter = "declared"
    /\ Valid(formulas)
    /\ inDegree' = [i \in Places |-> Cardinality(Deps(i))]
    /\ ready' = {i \in Places : Deps(i) = {}}
    /\ sorter' = "sorting"
    /\ UNCHANGED <<formulas, order>>

FreedEarly(i) == {j \in Dependents(i) : inDegree[j] <= 2}
Freed(i) == {j \in Dependents(i) : inDegree[j] = 1}

(***************************************************************************)
(* The newest entry of an unsorted ready list, against the first.          *)
(***************************************************************************)
TakeLast ==
    /\ sorter = "sorting"
    /\ ready # {}
    /\ LET i == Last(ready)
       IN  /\ order' = Append(order, i)
           /\ inDegree' = [j \in Places |-> IF j \in Dependents(i)
                                            THEN inDegree[j] - 1 ELSE inDegree[j]]
           /\ ready' = (ready \ {i}) \cup Freed(i)
    /\ UNCHANGED <<formulas, sorter>>

TakeFirst ==
    /\ sorter = "sorting"
    /\ ready # {}
    /\ LET i == First(ready)
       IN  /\ order' = Append(order, i)
           /\ inDegree' = [j \in Places |-> IF j \in Dependents(i)
                                            THEN inDegree[j] - 1 ELSE inDegree[j]]
           /\ ready' = (ready \ {i}) \cup Freed(i)
    /\ UNCHANGED <<formulas, sorter>>

AcceptAny ==
    /\ sorter = "sorting"
    /\ ready = {}
    /\ sorter' = "sorted"
    /\ UNCHANGED <<formulas, inDegree, ready, order>>

Accept ==
    /\ sorter = "sorting"
    /\ ready = {}
    /\ Len(order) = Len(formulas)
    /\ sorter' = "sorted"
    /\ UNCHANGED <<formulas, inDegree, ready, order>>

(***************************************************************************)
(* The error names the formulas that still wait for another.               *)
(***************************************************************************)
ReportCycle ==
    /\ sorter = "sorting"
    /\ ready = {}
    /\ Len(order) # Len(formulas)
    /\ sorter' = "cyclic"
    /\ UNCHANGED <<formulas, inDegree, ready, order>>

Stuck == {i \in Places : inDegree[i] > 0}

Sort == RefuseFormulas \/ CountEdges \/ TakeFirst \/ Accept \/ ReportCycle

DagSpec == DagInit /\ [][Sort]_dagVars

-------------------------------------------------------------------------------
(***************************************************************************)
(* The type of every variable.                                             *)
(***************************************************************************)
DagTypeOK ==
    /\ formulas \in Declarations
    /\ sorter \in {"declared", "sorting", "sorted", "cyclic", "refused"}
    /\ inDegree \in [Places -> Nat]
    /\ ready \in SUBSET Places
    /\ order \in Seq(Places)

Before(k) == {order[l] : l \in 1..(k - 1)}

(***************************************************************************)
(* Each formula is sorted at most once, and behind everything it refers    *)
(* to: when it is evaluated its inputs have been.                          *)
(***************************************************************************)
InputsFirst ==
    \A k \in DOMAIN order :
        /\ order[k] \notin Before(k)
        /\ \A n \in Deps(order[k]) : \E i \in Before(k) : formulas[i].as = n

(***************************************************************************)
(* The verdict on a sheet is right.  It is accepted with every formula in  *)
(* the order; it is only rejected for a cycle, and the formulas the error  *)
(* names are the unsorted ones, each of which refers to another of them.   *)
(***************************************************************************)
AcceptedWhole == sorter = "sorted" => Sorted = Places

RejectedForCycle ==
    sorter = "cyclic" =>
        /\ Stuck = Waiting
        /\ Stuck # {}
        /\ \A i \in Stuck : \E j \in Stuck : formulas[j].as \in Deps(i)
RightVerdict == AcceptedWhole /\ RejectedForCycle

(***************************************************************************)
(* Of the formulas that could come next, the earliest declared does: what  *)
(* is left of declaration order once the references are honoured.          *)
(***************************************************************************)
EarliestFirst ==
    \A k \in DOMAIN order :
        \A i \in Places :
            i < order[k] /\ i \notin Before(k) =>
                \E n \in Deps(i) : \A j \in Before(k) : formulas[j].as # n
===============================================================================
