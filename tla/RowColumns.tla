------------------------------ MODULE RowColumns ------------------------------
(***************************************************************************)
(* The stages that choose and name columns, and those that ask the host:   *)
(* project, drop and rename (pipe/project.go), callFunction                *)
(* (call_function.go), callApp (call_app.go) and crossJoin (setops.go).    *)
(*                                                                         *)
(* The entries of a stage are records of a name as, and of what has the    *)
(* name: a column from, or a text expr.                                    *)
(***************************************************************************)
EXTENDS RowOperators

CONSTANT Host(_, _, _)   \* what a function, an application or a dataset answers
                         \* for its name, the arguments and the rows, or Failed

(***************************************************************************)
(* project keeps the columns it selects, as new rows, or drops some in     *)
(* place; a selected column a row does not have is left out.               *)
(***************************************************************************)
SourceName(e) == IF e.from = "" THEN e.as ELSE e.from
OutputName(e) == IF e.as = "" THEN e.from ELSE e.as

DropColumns(st, rows) == InPlace([i \in DOMAIN rows |-> Without(rows[i], ToSet(st.cols))])
Project(st, rows) ==
    LET take(out, row, e) == IF SourceName(e) \notin DOMAIN row THEN out
                             ELSE Put(out, OutputName(e), row[SourceName(e)])
        selected(row) == FoldLeft(LAMBDA out, e : take(out, row, e), NoRow, st.entries)
    IN  IF st.entries = <<>> THEN DropColumns(st, rows)
        ELSE Making(rows, [i \in DOMAIN rows |-> selected(rows[i])])

(***************************************************************************)
(* rename walks a Go map, for every row in an order of its own, and        *)
(* renames the columns one after the other: a name that is both an old and *)
(* a new one may be read after it was written, and one that stays the same *)
(* is deleted.                                                             *)
(***************************************************************************)
Walks(st) == IF st.op = "rename"
             THEN {w \in [DOMAIN st.entries -> DOMAIN st.entries] : IsInjective(w)}
             ELSE {<<>>}
RenameOne(row, e) == IF e.from \notin DOMAIN row THEN row
                     ELSE Without(Put(row, e.as, row[e.from]), {e.from})
Rename(st, rows, walks) ==
    InPlace([i \in DOMAIN rows |->
                FoldLeft(LAMBDA row, k : RenameOne(row, st.entries[k]), rows[i], walks[i])])

(***************************************************************************)
(* A function is called for each row, with the row and the arguments over  *)
(* it, or once, with all rows.  References to columns are resolved unless  *)
(* they are to be taken literally, and never in a batch.  Merging makes a  *)
(* new row; a batch that does not answer rows writes into the ones it has. *)
(***************************************************************************)
Entry(st, c) == CHOOSE e \in ToSet(st.entries) : e.as = c
Literal(e) == IF e.from = "" THEN Word(e.expr) ELSE Word(ColumnOf("$", Word(e.from)))
Parameters(st) == [c \in {e.as : e \in ToSet(st.entries)} |-> Literal(Entry(st, c))]
Arguments(st, row) ==
    [c \in DOMAIN Parameters(st) |->
        IF st.fn = "literal" \/ Entry(st, c).from = "" THEN Parameters(st)[c]
        ELSE Get(row, Entry(st, c).from)]

ResultColumn(st) == IF st.as = "" THEN "_result" ELSE st.as
Merged(st, row, result) ==
    IF st.as = "" /\ result[1] = "object" THEN result[2] @@ row
    ELSE Put(row, ResultColumn(st), result)
IsRows(v) == v[1] = "list" /\ \A m \in DOMAIN v[2] : v[2][m][1] = "object"

CallPerRow(st, rows) ==
    LET results == [i \in DOMAIN rows |-> Host(st.name, Arguments(st, rows[i]) @@ rows[i], <<>>)]
    IN  IF \E i \in DOMAIN rows : results[i] = Failed THEN Failing(rows)
        ELSE Making(rows, [i \in DOMAIN rows |-> Merged(st, rows[i], results[i])])
CallBatch(st, rows) ==
    LET result == Host(st.name, Parameters(st), rows)
    IN  IF result = Failed THEN Failing(rows)
        ELSE IF IsRows(result) THEN Making(rows, [m \in DOMAIN result[2] |-> result[2][m][2]])
        ELSE InPlace([i \in DOMAIN rows |-> Put(rows[i], ResultColumn(st), result)])
CallFunction(st, rows) == IF st.fn = "batch" THEN CallBatch(st, rows) ELSE CallPerRow(st, rows)

(***************************************************************************)
(* An application that answers no rows leaves those it was asked about.    *)
(***************************************************************************)
ExtractAppRows(answer, places) ==
    IF IsNull(answer) THEN [m \in DOMAIN places |-> Old(places[m])]
    ELSE [m \in DOMAIN answer[2] |-> New(answer[2][m][2])]
CallApp(st, rows) ==
    LET every == [i \in DOMAIN rows |-> i]
        calls == IF st.fn = "perRow" THEN [i \in DOMAIN rows |-> <<i>>] ELSE <<every>>
        answers == [k \in DOMAIN calls |->
            Host(st.name, Parameters(st), [m \in DOMAIN calls[k] |-> rows[calls[k][m]]])]
        unusable(a) == a = Failed \/ ~(IsNull(a) \/ IsRows(a))
    IN  IF \E k \in DOMAIN calls : unusable(answers[k]) THEN Failing(rows)
        ELSE Answers(rows, FlattenSeq([k \in DOMAIN calls |-> ExtractAppRows(answers[k], calls[k])]))

(***************************************************************************)
(* Every row with every row of a dataset.  A selected column the right row *)
(* lacks is null; without a prefix the right column hides the left one.    *)
(***************************************************************************)
OutKey(st, c) == IF st.as = "" THEN c ELSE ColumnOf(st.as, Word(c))
Merge(st, left, right) ==
    LET cols == IF st.cols = <<>> THEN DOMAIN right ELSE ToSet(st.cols)
    IN  [k \in {OutKey(st, c) : c \in cols} |->
            Get(right, CHOOSE c \in cols : OutKey(st, c) = k)] @@ left
CrossJoin(st, rows) ==
    LET right == Host(st.name, NoRow, <<>>)
        merged(row) == [m \in DOMAIN right[2] |-> Merge(st, row, right[2][m][2])]
    IN  IF right = Failed THEN Failing(rows)
        ELSE Making(rows, FlattenSeq([i \in DOMAIN rows |-> merged(rows[i])]))

-------------------------------------------------------------------------------
(***************************************************************************)
(* What the factories refuse.                                              *)
(***************************************************************************)
RefusesProject(st) == st.entries # <<>> /\ st.cols # <<>>
RefusesRename(st) == st.entries = <<>>
RefusesDrop(st) == st.cols = <<>>
RefusesFunction(st) == st.name = "" \/ st.fn \notin {"perRow", "literal", "batch"}
RefusesApp(st) == st.name = ""
RefusesCrossJoin(st) == st.name = ""
===============================================================================
