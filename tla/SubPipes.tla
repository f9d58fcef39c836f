------------------------------- MODULE SubPipes -------------------------------
(***************************************************************************)
(* A pipe of in-memory stages at work, and the stages that are made of     *)
(* sub-pipes: merge, intersect, except and branch (pipe/merge.go,          *)
(* setops.go, branch.go).                                                  *)
(*                                                                         *)
(* Rows are maps, handed on by reference: heap holds what each map holds,  *)
(* cells are places of it.  A stage of sub-pipes runs them one after the   *)
(* other, each over a part of what it was given, and then combines what    *)
(* they answered.  The cap on rows, the outputs of named stages and the    *)
(* snapshot for live replay are PipeTail's.                                *)
(***************************************************************************)
EXTENDS RowMeanings

CONSTANTS Inputs,   \* the slices of rows a pipe may start from
          Pipes     \* the pipes

VARIABLES
    pipe,     \* the stages
    status,   \* "decoded", "running", "refused", "failed" or "done"
    heap,     \* what each row map holds
    rows,     \* the slice in work
    at,       \* the stage to run next, the sub-pipe in work and the stage of it
    parts,    \* what each sub-pipe is given
    results,  \* what the sub-pipes have answered
    asked     \* the values of the rows the stage was given

vars == <<pipe, status, heap, rows, at, parts, results, asked>>

\* A sub-pipe is entered with step 0; source is 0 outside of one.
Place(s, k, n) == [stage |-> s, source |-> k, step |-> n]
stage == at.stage
source == at.source
step == at.step

Values(cells) == [m \in DOMAIN cells |-> heap[cells[m]]]
Current == IF source = 0 THEN pipe[stage] ELSE pipe[stage].subs[source][step]

-------------------------------------------------------------------------------
Init ==
    /\ pipe \in Pipes
    /\ \E input \in Inputs : heap = input /\ rows = [i \in DOMAIN input |-> i]
    /\ status = "decoded"
    /\ at = Place(1, 0, 0)
    /\ parts = <<>> /\ results = <<>>
    /\ asked = <<>>

(***************************************************************************)
(* Operators are built before anything runs; one refusal refuses the pipe. *)
(***************************************************************************)
Build ==
    /\ status = "decoded"
    /\ status' = IF \E st \in ToSet(pipe) : Refused(st) THEN "refused" ELSE "running"
    /\ UNCHANGED <<pipe, heap, rows, at, parts, results, asked>>

(***************************************************************************)
(* An operator leaves its marks in the maps it was given, and allocates    *)
(* the rows it makes.                                                      *)
(***************************************************************************)
Marked(cells, answer) ==
    [c \in DOMAIN heap |->
        IF \E m \in DOMAIN cells : cells[m] = c
        THEN answer.input[CHOOSE m \in DOMAIN cells : cells[m] = c]
        ELSE heap[c]]
Made(answer) == SelectSeq(answer.out, LAMBDA item : item.from = Fresh)
Handed(cells, answer, size) ==
    LET made(m) == Len(SelectSeq(SubSeq(answer.out, 1, m), LAMBDA item : item.from = Fresh))
    IN  [m \in DOMAIN answer.out |->
            LET from == answer.out[m].from
            IN  IF from = Fresh THEN size + made(m) ELSE IF from = 0 THEN 0 ELSE cells[from]]

ApplyOperator ==
    /\ status = "running" /\ stage <= Len(pipe)
    /\ source # 0 => step \in DOMAIN pipe[stage].subs[source]
    /\ Current.op \notin Composites
    /\ \E draws \in Seeds, walks \in [DOMAIN rows -> Walks(Current)] :
       \E answer \in {Apply(Current, Values(rows), draws, walks)} :
           /\ heap' = Marked(rows, answer)
                      \o [m \in DOMAIN Made(answer) |-> Made(answer)[m].row]
           /\ IF answer.ok
              THEN /\ rows' = Handed(rows, answer, Len(heap))
                   /\ at' = IF source = 0 THEN Place(stage + 1, 0, 0)
                           ELSE Place(stage, source, step + 1)
                   /\ UNCHANGED status
              ELSE /\ status' = "failed"
                   /\ UNCHANGED <<rows, at>>
    /\ asked' = IF source = 0 THEN Values(rows) ELSE asked
    /\ UNCHANGED <<pipe, parts, results>>

-------------------------------------------------------------------------------
(***************************************************************************)
(* branch splits what it is given; the others give every source a copy.    *)
(***************************************************************************)
Holds(st, cell) == Truthy(Eval(st.expr, heap[cell]))
Split(st, cells) == <<SelectSeq(cells, LAMBDA c : Holds(st, c)),
                      SelectSeq(cells, LAMBDA c : ~Holds(st, c))>>
Undecided(st, cells) ==
    st.op = "branch" /\ \E m \in DOMAIN cells : Eval(st.expr, heap[cells[m]]) = Failed

Enter ==
    /\ status = "running" /\ stage <= Len(pipe) /\ source = 0
    /\ Current.op \in Composites
    /\ asked' = Values(rows)
    /\ results' = <<>>
    /\ IF Undecided(Current, rows)
       THEN /\ status' = "failed"
            /\ parts' = <<>> /\ UNCHANGED <<rows, heap, at>>
       ELSE /\ parts' = IF Current.op = "branch" THEN Split(Current, rows)
                        ELSE [k \in DOMAIN Current.subs |-> rows]
            /\ at' = Place(stage, 1, 0)
            /\ UNCHANGED <<rows, heap, status>>
    /\ UNCHANGED pipe

CloneShared(cells) == [cells |-> cells, heap |-> heap]
\* A copy of every row, for the next sub-pipe to work on.
Clone(cells) ==
    [cells |-> [m \in DOMAIN cells |-> Len(heap) + m], heap |-> heap \o Values(cells)]

Start ==
    /\ status = "running" /\ source # 0 /\ step = 0
    /\ LET part == parts[source]
           copy == Clone(part)
       IN  IF pipe[stage].op = "branch"
           THEN rows' = part /\ UNCHANGED heap
           ELSE rows' = copy.cells /\ heap' = copy.heap
    /\ at' = [at EXCEPT !.step = 1]
    /\ UNCHANGED <<pipe, status, parts, results, asked>>

(***************************************************************************)
(* Rows are compared by the columns of by.  Without any the key is made of *)
(* the values in the order of their columns, and not of the columns'       *)
(* names: rows with the same values under other names are equal.           *)
(***************************************************************************)
IntersectKey(row, by) ==
    IF by # <<>> THEN KeyBy(row, by)
    ELSE KeyBy(row, SelectSeq(Columns, LAMBDA c : c \in DOMAIN row))

HasKey(st, cells, c) ==
    \E m \in DOMAIN cells : IntersectKey(heap[cells[m]], st.by) = IntersectKey(heap[c], st.by)

Common(st, answers) ==
    SelectSeq(answers[1], LAMBDA c : \A k \in 2..Len(answers) : HasKey(st, answers[k], c))
Remaining(st, answers) == SelectSeq(answers[1], LAMBDA c : ~HasKey(st, answers[2], c))
Combined(st, answers) ==
    CASE st.op = "intersect"           -> Common(st, answers)
      [] st.op = "except"              -> Remaining(st, answers)
      [] st.op \in {"merge", "branch"} -> FlattenSeq(answers)

Leave ==
    /\ status = "running" /\ source # 0 /\ step > Len(pipe[stage].subs[source])
    /\ LET answers == Append(results, rows)
       IN  IF source < Len(pipe[stage].subs)
           THEN /\ results' = answers
                /\ at' = Place(stage, source + 1, 0)
                /\ UNCHANGED <<rows, parts>>
           ELSE /\ rows' = Combined(pipe[stage], answers)
                /\ at' = Place(stage + 1, 0, 0)
                /\ parts' = <<>> /\ results' = <<>>
    /\ UNCHANGED <<pipe, status, heap, asked>>

Finish ==
    /\ status = "running" /\ stage > Len(pipe)
    /\ status' = "done"
    /\ UNCHANGED <<pipe, heap, rows, at, parts, results, asked>>

Next == Build \/ ApplyOperator \/ Enter \/ Start \/ Leave \/ Finish

Spec == Init /\ [][Next]_vars

-------------------------------------------------------------------------------
(***************************************************************************)
(* A slice never holds a nil row map, and inside a stage of sub-pipes      *)
(* there is a part for every sub-pipe and a result for each one before.    *)
(***************************************************************************)
Cells == 1..Len(heap)
TypeOK ==
    /\ status \in {"decoded", "running", "refused", "failed", "done"}
    /\ rows \in Seq(Cells) /\ stage \in 1..(Len(pipe) + 1)
    /\ \A k \in DOMAIN parts : parts[k] \in Seq(Cells)
    /\ \A k \in DOMAIN results : results[k] \in Seq(Cells)
    /\ IF source = 0 THEN step = 0 /\ results = <<>>
       ELSE /\ Len(parts) = Len(pipe[stage].subs) /\ source \in DOMAIN parts
            /\ Len(results) = source - 1
            /\ step \in 0..(Len(pipe[stage].subs[source]) + 1)

(***************************************************************************)
(* A stage answers what the documents say it means for the rows it was     *)
(* given, whatever other stages and sub-pipes wrote into their maps; it    *)
(* fails only if nothing can be answered.  Nothing is said of a stage and  *)
(* rows for which the program departs from them.                           *)
(***************************************************************************)
Answered ==
    LET failed == status = "failed"
        ended == status \in {"running", "done"} /\ source = 0 /\ stage > 1
        asking == IF failed THEN stage ELSE stage - 1
    IN  (failed \/ ended) /\ ~Departs(pipe[asking], asked) =>
            \E S \in {Meanings(pipe[asking], asked)} :
                IF failed THEN S = {} ELSE Values(rows) \in S

(***************************************************************************)
(* No row map is twice among the rows in work and the results of earlier   *)
(* sub-pipes, so a stage that writes into its rows changes no other row.   *)
(***************************************************************************)
RowsApart ==
    LET held == FlattenSeq(results) \o rows
    IN  (status = "running" /\ (source = 0 \/ step > 0)) => IsInjective(held)
===============================================================================
