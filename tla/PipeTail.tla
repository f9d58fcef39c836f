------------------------------- MODULE PipeTail -------------------------------
(***************************************************************************)
(* The in-memory tail of a pipe and its live replays: PlanPipe's choice of *)
(* where the tail starts (pipe/planner.go), applyInMemoryOps and the       *)
(* snapshot it primes, ExecuteFromStage (pipe/executor.go).                *)
(*                                                                         *)
(* Rows are kept in cells, one cell per slice of row maps the code         *)
(* allocates.  A slice names the cell its row maps live in, so an operator *)
(* that writes into the rows it is given (sheet, callFunction) changes     *)
(* what every other holder of that cell reads.  What a slice holds is told *)
(* only as far as the properties need: the position of the pipe stage      *)
(* whose correct output it is, or Other.  Position tailStart - 1 stands    *)
(* for the pushed prefix.                                                  *)
(***************************************************************************)
EXTENDS Integers, Sequences, FiniteSets

CONSTANTS
    Exec,        \* the one-shot execution
    Replays,     \* the live replay sessions of the host
    Ids,         \* the stage ids a pipe may use
    NoId,        \* the empty string: no id, no `from`
    NoRows,      \* an id with no entry in a stage-output map
    Pipes,       \* the pipes a caller may send
    MaxStages    \* ExecutorConfig.MaxStages

Runs == {Exec} \cup Replays

(***************************************************************************)
(* What an operator does with the rows it is given: builds new row maps,   *)
(* returns (some of) the same row maps, or writes into them.               *)
(***************************************************************************)
Modes == {"fresh", "alias", "inplace"}

(***************************************************************************)
(* How the prefix loop treats a stage: folded and passed over; a groupBy   *)
(* or an aggregate whose functions can be pushed; anything that breaks the *)
(* prefix, a filter behind a sort or an aggregate that cannot be pushed    *)
(* included.                                                               *)
(***************************************************************************)
Folds == {"fold", "groupBy", "aggregate", "break"}

Stage == [id : Ids \cup {NoId}, from : Ids \cup {NoId},
          fold : Folds, safe : BOOLEAN, mode : Modes]

ASSUME ConstantsAssumption ==
    /\ Exec \notin Replays
    /\ NoId \notin Ids
    /\ MaxStages \in Nat \ {0}
    /\ Pipes \subseteq Seq(Stage)

VARIABLES
    pipe,        \* q.Pipe
    pc,          \* pc[r]: what run r is doing
    kind,        \* kind[r]: which entry point started run r
    at,          \* at[r]: the loop index of run r, as a position of the pipe
    rows,        \* rows[r]: the current rows of run r
    outputs,     \* outputs[r]: its stageOutputs map
    primed,      \* PrimedRows, PrimedAt and PrimedOutputs
    heap,        \* what each cell's row maps hold
    calls        \* the side-effecting stages applied so far, in order

vars == <<pipe, pc, kind, at, rows, outputs, primed, heap, calls>>

-------------------------------------------------------------------------------
(***************************************************************************)
(* Planning.                                                               *)
(***************************************************************************)
ValidGraph(p) ==
    /\ \A i, j \in DOMAIN p : p[i].id # NoId /\ p[i].id = p[j].id => i = j
    /\ \A i \in DOMAIN p :
          p[i].from # NoId => \E j \in 1..(i - 1) : p[j].id = p[i].from

IsReferenced(p, i) ==
    /\ p[i].id # NoId
    /\ \E j \in DOMAIN p : p[j].from = p[i].id

BarrierIgnoresReferences(p, i) == p[i].from # NoId
Barrier(p, i) == p[i].from # NoId \/ IsReferenced(p, i)

StopsPrefix(p, i) == Barrier(p, i) \/ p[i].fold # "fold"

(***************************************************************************)
(* The first stage of the tail.  A groupBy takes the pushable aggregate    *)
(* behind it into the prefix without asking whether that one is a barrier. *)
(***************************************************************************)
TailStart(p) ==
    IF \A i \in DOMAIN p : ~StopsPrefix(p, i) THEN Len(p) + 1
    ELSE LET i == CHOOSE i \in DOMAIN p :
                    StopsPrefix(p, i) /\ \A j \in 1..(i - 1) : ~StopsPrefix(p, j)
         IN  IF Barrier(p, i) THEN i
             ELSE IF p[i].fold = "aggregate" THEN i + 1
             ELSE IF /\ p[i].fold = "groupBy"
                     /\ i + 1 \in DOMAIN p
                     /\ p[i + 1].fold = "aggregate"
                  THEN i + 2
                  ELSE i

tailStart == TailStart(pipe)

-------------------------------------------------------------------------------
(***************************************************************************)
(* Cells, slices and what they hold.                                       *)
(***************************************************************************)
Other == -1
Token == Other..MaxStages
Positions == 0..(MaxStages + 1)

(***************************************************************************)
(* Each cell is named by the run that allocates it, why, and at which      *)
(* stage.  No run allocates for the same purpose at the same stage twice.  *)
(***************************************************************************)
Cells == (Runs \X {"start"} \X {0})
    \cup ({Exec} \X {"primed"} \X (0..MaxStages))
    \cup (Runs \X {"new", "from", "out"} \X (1..MaxStages))

(***************************************************************************)
(* tag is what the cell held when the slice was made: a slice whose cell   *)
(* was written since no longer reads as it did.                            *)
(***************************************************************************)
Slice == [cell : Cells, tag : Token, view : Token]
ASSUME NoRowsAssumption == NoRows \notin Slice

Filled(c, v) == [cell |-> c, tag |-> v, view |-> v]
Read(h, s) == IF h[s.cell] = s.tag THEN s.view ELSE Other

StageNamed(id) == CHOOSE j \in DOMAIN pipe : pipe[j].id = id
InputOf(k) == IF pipe[k].from = NoId THEN k - 1 ELSE StageNamed(pipe[k].from)
Result(k, v) == IF v = InputOf(k) THEN k ELSE Other

NoOutputs == [id \in Ids |-> NoRows]

Init ==
    /\ pipe \in Pipes
    /\ pc = [r \in Runs |-> "idle"]
    /\ kind = [r \in Runs |-> "none"]
    /\ at = [r \in Runs |-> 0]
    /\ rows = [r \in Runs |-> Filled(<<r, "start", 0>>, Other)]
    /\ outputs = [r \in Runs |-> NoOutputs]
    /\ primed = [rows |-> Filled(<<Exec, "primed", 0>>, Other), at |-> 0,
                 outputs |-> NoOutputs]
    /\ heap = [c \in Cells |-> Other]
    /\ calls = <<>>

-------------------------------------------------------------------------------
(***************************************************************************)
(* Entry points.  Plan and prefix may fail before the tail starts: too     *)
(* many stages, a stage graph that does not validate, an engine error or a *)
(* prefix over MaxRows.  The primed snapshot starts as a clone of the      *)
(* prefix.                                                                 *)
(***************************************************************************)
Refuse ==
    /\ pc[Exec] = "idle"
    /\ pc' = [pc EXCEPT ![Exec] = "failed"]
    /\ kind' = [kind EXCEPT ![Exec] = "exec"]
    /\ UNCHANGED <<pipe, at, rows, outputs, primed, heap, calls>>

Begin ==
    /\ pc[Exec] = "idle"
    /\ Len(pipe) \in 1..MaxStages
    /\ ValidGraph(pipe)
    /\ LET prefix == <<Exec, "start", 0>>
           first  == <<Exec, "primed", 0>>
           v      == tailStart - 1
       IN  /\ heap' = [heap EXCEPT ![prefix] = v, ![first] = v]
           /\ rows' = [rows EXCEPT ![Exec] = Filled(prefix, v)]
           /\ primed' = [rows |-> Filled(first, v), at |-> tailStart,
                         outputs |-> NoOutputs]
    /\ pc' = [pc EXCEPT ![Exec] = "running"]
    /\ kind' = [kind EXCEPT ![Exec] = "exec"]
    /\ at' = [at EXCEPT ![Exec] = tailStart]
    /\ UNCHANGED <<pipe, outputs, calls>>

(***************************************************************************)
(* ExecuteFromStage: the rows it starts from are cloned; the output map is *)
(* copied, its slices are shared.                                          *)
(***************************************************************************)
ReplaySharesRows(r, from, start, outs) ==
    /\ pc[Exec] = "done"
    /\ pc[r] = "idle"
    /\ rows' = [rows EXCEPT ![r] = from]
    /\ outputs' = [outputs EXCEPT ![r] = outs]
    /\ at' = [at EXCEPT ![r] = start]
    /\ pc' = [pc EXCEPT ![r] = "running"]
    /\ UNCHANGED <<pipe, primed, calls, heap>>

StartReplay(r, from, start, outs) ==
    /\ pc[Exec] = "done"
    /\ pc[r] = "idle"
    /\ LET c == <<r, "start", 0>>
       IN  /\ heap' = [heap EXCEPT ![c] = Read(heap, from)]
           /\ rows' = [rows EXCEPT ![r] = Filled(c, Read(heap, from))]
    /\ outputs' = [outputs EXCEPT ![r] = outs]
    /\ at' = [at EXCEPT ![r] = start]
    /\ pc' = [pc EXCEPT ![r] = "running"]
    /\ UNCHANGED <<pipe, primed, calls>>

ReplaySnapshot(r) ==
    /\ StartReplay(r, primed.rows, primed.at, primed.outputs)
    /\ kind' = [kind EXCEPT ![r] = "snapshot"]

(***************************************************************************)
(* A dry run: primedAt 0 and no outputs, over rows the host supplies.      *)
(***************************************************************************)
ReplayDry(r) ==
    /\ StartReplay(r, Filled(<<r, "start", 0>>, Other), tailStart, NoOutputs)
    /\ kind' = [kind EXCEPT ![r] = "dry"]

-------------------------------------------------------------------------------
(***************************************************************************)
(* One iteration of the loop, the same in applyInMemoryOps and in          *)
(* ExecuteFromStage but for the muting.                                    *)
(***************************************************************************)
AtStage(r) == pc[r] = "running" /\ at[r] \in tailStart..Len(pipe)

MutedNever(r, k) == FALSE
Muted(r, k) == r # Exec /\ ~pipe[k].safe

Mute(r) ==
    /\ AtStage(r)
    /\ Muted(r, at[r])
    /\ at' = [at EXCEPT ![r] = @ + 1]
    /\ UNCHANGED <<pipe, pc, kind, rows, outputs, primed, heap, calls>>

HasInput(r, k) == pipe[k].from # NoId => outputs[r][pipe[k].from] # NoRows

LookupFails(r) ==
    /\ AtStage(r)
    /\ ~Muted(r, at[r])
    /\ ~HasInput(r, at[r])
    /\ pc' = [pc EXCEPT ![r] = "missing"]
    /\ UNCHANGED <<pipe, kind, at, rows, outputs, primed, heap, calls>>

(***************************************************************************)
(* The rows stage k is given, and the heap once it has them: the current   *)
(* rows, or a clone of the named output.                                   *)
(***************************************************************************)
TakenUncloned(r, k) ==
    IF pipe[k].from = NoId THEN [slice |-> rows[r], heap |-> heap]
    ELSE [slice |-> outputs[r][pipe[k].from], heap |-> heap]
Taken(r, k) ==
    IF pipe[k].from = NoId THEN [slice |-> rows[r], heap |-> heap]
    ELSE LET c == <<r, "from", k>>
             v == Read(heap, outputs[r][pipe[k].from])
         IN  [slice |-> Filled(c, v), heap |-> [heap EXCEPT ![c] = v]]

(***************************************************************************)
(* The rows it returns, and the heap once it has.                          *)
(***************************************************************************)
Produced(r, k) ==
    LET in == Taken(r, k)
        v  == Result(k, Read(in.heap, in.slice))
        c  == <<r, "new", k>>
    IN  CASE pipe[k].mode = "fresh" ->
                [slice |-> Filled(c, v), heap |-> [in.heap EXCEPT ![c] = v]]
          [] pipe[k].mode = "alias" ->
                [slice |-> [in.slice EXCEPT !.view = v], heap |-> in.heap]
          [] pipe[k].mode = "inplace" ->
                [slice |-> Filled(in.slice.cell, v),
                 heap  |-> [in.heap EXCEPT ![in.slice.cell] = v]]

(***************************************************************************)
(* stageOutputs[id] = cloneRows(out), for a stage that has an id.          *)
(***************************************************************************)
Stored(r, k) ==
    LET out == Produced(r, k)
        v   == Read(out.heap, out.slice)
        c   == <<r, "out", k>>
    IN  IF pipe[k].id = NoId
        THEN [heap |-> out.heap, outputs |-> outputs[r]]
        ELSE [heap |-> [out.heap EXCEPT ![c] = v],
              outputs |-> [outputs[r] EXCEPT ![pipe[k].id] = Filled(c, v)]]

(***************************************************************************)
(* An operator that is not live-safe makes its output the new snapshot.    *)
(***************************************************************************)
PrimedUncloned(k) ==
    [rows |-> Produced(Exec, k).slice, at |-> k + 1,
     outputs |-> Stored(Exec, k).outputs]
Primed(k) ==
    LET out == Produced(Exec, k)
    IN  [rows |-> Filled(<<Exec, "primed", k>>, Read(out.heap, out.slice)),
         at |-> k + 1,
         outputs |-> Stored(Exec, k).outputs]

Apply(r) ==
    /\ AtStage(r)
    /\ LET k == at[r]
       IN  /\ ~Muted(r, k)
           /\ HasInput(r, k)
           /\ rows' = [rows EXCEPT ![r] = Produced(r, k).slice]
           /\ outputs' = [outputs EXCEPT ![r] = Stored(r, k).outputs]
           /\ calls' = IF pipe[k].safe THEN calls ELSE Append(calls, k)
           /\ IF r = Exec /\ ~pipe[k].safe
              THEN /\ primed' = Primed(k)
                   /\ heap' = [Stored(r, k).heap EXCEPT
                                 ![<<Exec, "primed", k>>] = Primed(k).rows.view]
              ELSE /\ heap' = Stored(r, k).heap
                   /\ UNCHANGED primed
           /\ at' = [at EXCEPT ![r] = k + 1]
    /\ UNCHANGED <<pipe, pc, kind>>

(***************************************************************************)
(* The operator returns an error, or more than MaxRows rows.  One that     *)
(* works in place may have written some of its input, one with side        *)
(* effects may have had them.                                              *)
(***************************************************************************)
Fail(r) ==
    /\ AtStage(r)
    /\ LET k  == at[r]
           in == Taken(r, k)
       IN  /\ ~Muted(r, k)
           /\ HasInput(r, k)
           /\ \/ heap' = in.heap
              \/ /\ pipe[k].mode = "inplace"
                 /\ heap' = [in.heap EXCEPT ![in.slice.cell] = Other]
           /\ \/ UNCHANGED calls
              \/ ~pipe[k].safe /\ calls' = Append(calls, k)
    /\ pc' = [pc EXCEPT ![r] = "failed"]
    /\ UNCHANGED <<pipe, kind, at, rows, outputs, primed>>

Finish(r) ==
    /\ pc[r] = "running"
    /\ at[r] = Len(pipe) + 1
    /\ pc' = [pc EXCEPT ![r] = "done"]
    /\ UNCHANGED <<pipe, kind, at, rows, outputs, primed, heap, calls>>

Step(r) == Mute(r) \/ LookupFails(r) \/ Apply(r) \/ Fail(r) \/ Finish(r)

Next ==
    \/ Refuse
    \/ Begin
    \/ \E r \in Replays : ReplaySnapshot(r) \/ ReplayDry(r)
    \/ \E r \in Runs : Step(r)

Spec == Init /\ [][Next]_vars

-------------------------------------------------------------------------------
PcStates == {"idle", "running", "done", "failed", "missing"}
Outputs == [Ids -> Slice \cup {NoRows}]

(***************************************************************************)
(* The type of every variable.                                             *)
(***************************************************************************)
TypeOK ==
    /\ pipe \in Pipes
    /\ pc \in [Runs -> PcStates]
    /\ kind \in [Runs -> {"none", "exec", "snapshot", "dry"}]
    /\ at \in [Runs -> Positions]
    /\ rows \in [Runs -> Slice]
    /\ outputs \in [Runs -> Outputs]
    /\ primed \in [rows : Slice, at : Positions, outputs : Outputs]
    /\ heap \in [Cells -> Token]
    /\ calls \in Seq(Positions)

Started == pc[Exec] \in {"running", "done"}

(***************************************************************************)
(* The primed snapshot always holds the rows and the named outputs of the  *)
(* stages before PrimedAt, none missing and none changed since, whatever   *)
(* the rest of the execution and the replays write in place: the clones of *)
(* applyInMemoryOps and ExecuteFromStage are where they have to be.        *)
(***************************************************************************)
SnapshotFaithful ==
    Started =>
        /\ Read(heap, primed.rows) = primed.at - 1
        /\ \A j \in tailStart..(primed.at - 1) :
              pipe[j].id # NoId =>
                  /\ primed.outputs[pipe[j].id] # NoRows
                  /\ Read(heap, primed.outputs[pipe[j].id]) = j

(***************************************************************************)
(* Live replay never repeats a side effect: the outside calls made by the  *)
(* execution and all replays together are those of the unsafe tail stages, *)
(* each at most once and in order, and all of them once it is done.        *)
(***************************************************************************)
EffectsOnce ==
    /\ \A i, j \in DOMAIN calls : i < j => calls[i] < calls[j]
    /\ \A i \in DOMAIN calls :
          calls[i] \in tailStart..Len(pipe) /\ ~pipe[calls[i]].safe
    /\ pc[Exec] = "done" =>
          \A k \in tailStart..Len(pipe) :
              ~pipe[k].safe => \E i \in DOMAIN calls : calls[i] = k

(***************************************************************************)
(* A replay from the primed snapshot, run beside other replays over the    *)
(* same plan, ends with the rows the execution itself returned; and those  *)
(* stay as they were returned.                                             *)
(***************************************************************************)
ReplayAgrees ==
    \A r \in Runs :
        pc[r] = "done" /\ kind[r] # "dry" => Read(heap, rows[r]) = Len(pipe)

(***************************************************************************)
(* A stage's `from` always finds the output it names, in the execution and *)
(* in every replay from the snapshot, unless the referenced stage is an    *)
(* aggregate that a pushed groupBy took with it into the prefix.           *)
(***************************************************************************)
LookupMissesOnlySwallowed ==
    \A r \in Runs :
        pc[r] = "missing" =>
            \/ kind[r] = "dry"
            \/ /\ tailStart - 2 \in DOMAIN pipe
               /\ pipe[tailStart - 2].fold = "groupBy"
               /\ IsReferenced(pipe, tailStart - 1)

(***************************************************************************)
(* The same without the exception, as planner.go says it: stages           *)
(* "referenced later via `from` must run in-memory so the executor can     *)
(* capture and replay their output rows", and validateStageGraph lets the  *)
(* executor "look up cached outputs without runtime checks".               *)
(***************************************************************************)
LookupsSucceed == \A r \in Runs : pc[r] = "missing" => kind[r] = "dry"

(***************************************************************************)
(* The executor implements LiveReplay: rows, cells and outputs forgotten.  *)
(***************************************************************************)
Execution == CASE pc[Exec] = "idle"    -> "none"
               [] pc[Exec] = "running" -> "running"
               [] pc[Exec] = "done"    -> "answered"
               [] OTHER                -> "failed"

Answer(r) ==
    CASE pc[r] = "idle"    -> "none"
      [] pc[r] = "running" -> kind[r]
      [] pc[r] = "done"    -> IF kind[r] = "dry" THEN "preview"
                              ELSE IF Read(heap, rows[r]) = Read(heap, rows[Exec])
                              THEN "same rows" ELSE "other rows"
      [] OTHER             -> "failed"

Promise == INSTANCE LiveReplay
             WITH execution <- Execution,
                  calls <- calls,
                  replay <- [r \in Replays |-> Answer(r)],
                  Stages <- 1..MaxStages

ImplementsLiveReplay == Promise!Spec
===============================================================================
