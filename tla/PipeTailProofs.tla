---------------------------- MODULE PipeTailProofs ----------------------------
(***************************************************************************)
(* Proofs about PipeTail: for every pipe, every number of replays and      *)
(* every interleaving.                                                     *)
(***************************************************************************)
EXTENDS PipeTail, TLAPS, WellFoundedInduction

(***************************************************************************)
(* A nonempty set of naturals has a least element.                         *)
(***************************************************************************)
LEMMA LeastNatural ==
    ASSUME NEW S \in SUBSET Nat, S # {}
    PROVE  \E m \in S : \A k \in S : m <= k
<1>1. \E x \in S : \A y \in S : ~ (<<y, x>> \in OpToRel(<, Nat))
  BY NatLessThanWellFounded, WFMin
<1>2. OpToRel(<, Nat) = {ss \in Nat \X Nat : ss[1] < ss[2]}
  BY DEF OpToRel
<1>3. PICK x \in S : \A y \in S : ~ (<<y, x>> \in {ss \in Nat \X Nat : ss[1] < ss[2]})
  BY <1>1, <1>2
<1>4. \A y \in S : ~ (y < x)
  BY <1>3
<1>5. QED
  BY <1>4

(***************************************************************************)
(* PlanPipe cuts a valid pipe at one of its stages or behind its last one; *)
(* a stage it folds is no barrier, except an aggregate folded together     *)
(* with the groupBy before it.                                             *)
(***************************************************************************)
LEMMA TailStartFacts ==
    ASSUME NEW p \in Seq(Stage)
    PROVE  /\ TailStart(p) \in 1..(Len(p) + 1)
           /\ \A j \in 1..(TailStart(p) - 1) :
                 \/ ~IsReferenced(p, j)
                 \/ /\ j = TailStart(p) - 1
                    /\ j - 1 \in DOMAIN p
                    /\ p[j - 1].fold = "groupBy"
<1> DEFINE Stops == {i \in DOMAIN p : StopsPrefix(p, i)}
<1>1. CASE Stops = {}
  <2>1. TailStart(p) = Len(p) + 1
    BY <1>1 DEF TailStart
  <2>2. QED
    BY <1>1, <2>1 DEF StopsPrefix, Barrier
<1>2. CASE Stops # {}
  <2> DEFINE First(i) == StopsPrefix(p, i) /\ \A j \in 1..(i - 1) : ~StopsPrefix(p, j)
             f == CHOOSE i \in DOMAIN p : First(i)
  <2>1. \E i \in DOMAIN p : First(i)
    <3>1. PICK m \in Stops : \A k \in Stops : m <= k
      BY <1>2, LeastNatural, Stops \in SUBSET Nat
    <3>2. QED
      BY <3>1
  <2>2. f \in DOMAIN p /\ First(f)
    BY <2>1
  <2>3. TailStart(p) = IF Barrier(p, f) THEN f
             ELSE IF p[f].fold = "aggregate" THEN f + 1
             ELSE IF /\ p[f].fold = "groupBy"
                     /\ f + 1 \in DOMAIN p
                     /\ p[f + 1].fold = "aggregate"
                  THEN f + 2
                  ELSE f
    BY <1>2 DEF TailStart
  <2> HIDE DEF f
  <2>4. QED
    BY <2>2, <2>3 DEF StopsPrefix, Barrier
<1>3. QED
  BY <1>1, <1>2

-------------------------------------------------------------------------------
(***************************************************************************)
(* The inductive invariant.  Its heart is who may write which cell: an     *)
(* operator writes only cells its own run made for its rows, and nothing   *)
(* that is kept (a stored output, the primed snapshot) lives in one.       *)
(***************************************************************************)
OwnCells(r) == {c \in Cells : c[1] = r /\ c[2] \in {"start", "new", "from"}}

Live(r) == pc[r] \in {"running", "done"}

KeptIn(o, runs, n) ==
    \A id \in Ids :
        o[id] # NoRows => /\ o[id].cell[1] \in runs
                          /\ o[id].cell[2] = "out"
                          /\ o[id].cell[3] < n

FaithfulOutputs(o, n) ==
    /\ \A id \in Ids : o[id] # NoRows => Read(heap, o[id]) = StageNamed(id)
    /\ \A j \in tailStart..(n - 1) : pipe[j].id # NoId => o[pipe[j].id] # NoRows

PlanInv == Started => ValidGraph(pipe) /\ Len(pipe) \in 1..MaxStages

RunInv(r) ==
    /\ pc[r] = "idle" => kind[r] = "none" /\ outputs[r] = NoOutputs
    /\ pc[r] = "done" => at[r] = Len(pipe) + 1
    /\ Live(r) => /\ at[r] \in tailStart..(Len(pipe) + 1)
                  /\ rows[r].cell \in OwnCells(r)
                  /\ KeptIn(outputs[r], {Exec, r}, at[r])
    /\ Live(r) /\ kind[r] # "dry" => /\ Read(heap, rows[r]) = at[r] - 1
                                    /\ FaithfulOutputs(outputs[r], at[r])

KindInv ==
    /\ kind[Exec] \in {"none", "exec"}
    /\ \A r \in Replays : /\ pc[r] # "idle" => pc[Exec] = "done" /\ kind[r] # "none"
                          /\ kind[r] # "exec"
                          /\ kind[r] = "snapshot" => at[r] >= primed.at

PrimedInv ==
    Started =>
        /\ primed.at \in tailStart..at[Exec]
        /\ primed.rows.cell[1] = Exec
        /\ primed.rows.cell[2] = "primed"
        /\ primed.rows.cell[3] < primed.at
        /\ Read(heap, primed.rows) = primed.at - 1
        /\ KeptIn(primed.outputs, {Exec}, primed.at)
        /\ FaithfulOutputs(primed.outputs, primed.at)
        /\ \A k \in primed.at..(at[Exec] - 1) : pipe[k].safe

CallsInv ==
    /\ \A i, j \in DOMAIN calls : i < j => calls[i] < calls[j]
    /\ \A i \in DOMAIN calls :
          calls[i] \in tailStart..Len(pipe) /\ ~pipe[calls[i]].safe
    /\ pc[Exec] = "idle" => calls = <<>>
    /\ Started =>
          /\ \A i \in DOMAIN calls : calls[i] < at[Exec]
          /\ \A k \in tailStart..(at[Exec] - 1) :
                ~pipe[k].safe => \E i \in DOMAIN calls : calls[i] = k

IInv ==
    /\ TypeOK
    /\ PlanInv
    /\ \A r \in Runs : RunInv(r)
    /\ KindInv
    /\ PrimedInv
    /\ CallsInv
    /\ LookupMissesOnlySwallowed

-------------------------------------------------------------------------------
(***************************************************************************)
(* What one stage does to the heap, whatever its operator does with rows.  *)
(***************************************************************************)
Wellformed(r, k) ==
    /\ TypeOK
    /\ r \in Runs
    /\ k \in DOMAIN pipe
    /\ k <= MaxStages
    /\ ValidGraph(pipe)
    /\ HasInput(r, k)
    /\ rows[r].cell \in OwnCells(r)

LEMMA StageFacts ==
    ASSUME TypeOK, NEW k \in DOMAIN pipe
    PROVE  /\ pipe \in Seq(Stage)
           /\ Len(pipe) \in Nat
           /\ DOMAIN pipe = 1..Len(pipe)
           /\ pipe[k] \in Stage
           /\ k \in Nat \ {0}
BY ConstantsAssumption DEF TypeOK

LEMMA NamedFacts ==
    ASSUME TypeOK, ValidGraph(pipe), NEW j \in DOMAIN pipe, pipe[j].id # NoId
    PROVE  StageNamed(pipe[j].id) = j
BY DEF StageNamed, ValidGraph

LEMMA InputFacts ==
    ASSUME TypeOK, ValidGraph(pipe), NEW k \in DOMAIN pipe
    PROVE  /\ InputOf(k) \in 0..(k - 1)
           /\ pipe[k].from # NoId => /\ InputOf(k) \in DOMAIN pipe
                                    /\ pipe[InputOf(k)].id = pipe[k].from
<1>1. /\ k \in Nat \ {0} /\ DOMAIN pipe = 1..Len(pipe) /\ Len(pipe) \in Nat
  BY StageFacts
<1>2. CASE pipe[k].from = NoId
  BY <1>1, <1>2 DEF InputOf
<1>3. CASE pipe[k].from # NoId
  <2>1. PICK j \in 1..(k - 1) : pipe[j].id = pipe[k].from
    BY <1>3 DEF ValidGraph
  <2>2. j \in DOMAIN pipe
    BY <1>1, <2>1
  <2>3. StageNamed(pipe[k].from) = j
    BY <2>1, <2>2, <1>3, NamedFacts
  <2>4. QED
    BY <1>3, <2>1, <2>2, <2>3, <1>1 DEF InputOf
<1>4. QED
  BY <1>2, <1>3

LEMMA ResultIsToken ==
    ASSUME NEW k \in 1..MaxStages, NEW v
    PROVE  Result(k, v) \in Token
BY ConstantsAssumption DEF Result, Token, Other

LEMMA TakenFacts ==
    ASSUME NEW r, NEW k, Wellformed(r, k)
    PROVE  /\ Taken(r, k).slice \in Slice
           /\ Taken(r, k).heap \in [Cells -> Token]
           /\ Taken(r, k).slice.cell \in OwnCells(r)
           /\ \A c \in Cells \ OwnCells(r) : Taken(r, k).heap[c] = heap[c]
           /\ Read(Taken(r, k).heap, Taken(r, k).slice) =
                IF pipe[k].from = NoId THEN Read(heap, rows[r])
                ELSE Read(heap, outputs[r][pipe[k].from])
<1> DEFINE o == outputs[r][pipe[k].from]
           c == <<r, "from", k>>
           v == Read(heap, o)
<1>1. /\ TypeOK /\ r \in Runs /\ k \in DOMAIN pipe /\ k <= MaxStages
      /\ rows[r] \in Slice /\ rows[r].cell \in OwnCells(r)
      /\ heap \in [Cells -> Token]
  BY DEF Wellformed, TypeOK
<1>2. pipe[k] \in Stage /\ k \in 1..MaxStages
  BY <1>1, StageFacts
<1>3. CASE pipe[k].from = NoId
  BY <1>1, <1>3 DEF Taken
<1>4. CASE pipe[k].from # NoId
  <2>1. o \in Slice
    <3>1. pipe[k].from \in Ids
      BY <1>2, <1>4 DEF Stage
    <3>2. o # NoRows
      BY <1>4 DEF Wellformed, HasInput
    <3>3. outputs[r] \in [Ids -> Slice \cup {NoRows}]
      BY <1>1 DEF TypeOK, Outputs
    <3>4. QED
      BY <3>1, <3>2, <3>3
  <2>2. v \in Token
    BY <2>1, <1>1, ConstantsAssumption DEF Read, Slice, Token, Other
  <2>3. c \in Cells /\ c \in OwnCells(r)
    BY <1>1, <1>2 DEF Cells, OwnCells
  <2>4. Taken(r, k) = [slice |-> Filled(c, v), heap |-> [heap EXCEPT ![c] = v]]
    BY <1>4 DEF Taken
  <2> HIDE DEF v, o, c
  <2>5. Filled(c, v) \in Slice /\ Filled(c, v).cell = c
    BY <2>2, <2>3 DEF Filled, Slice
  <2>6. Read([heap EXCEPT ![c] = v], Filled(c, v)) = v
    BY <1>1, <2>3 DEF Read, Filled
  <2>7. [heap EXCEPT ![c] = v] \in [Cells -> Token]
    BY <1>1, <2>2, <2>3
  <2>8. QED
    BY <1>1, <1>4, <2>3, <2>4, <2>5, <2>6, <2>7 DEF v, o
<1>5. QED
  BY <1>3, <1>4

LEMMA ProducedFacts ==
    ASSUME NEW r, NEW k, Wellformed(r, k)
    PROVE  /\ Produced(r, k).slice \in Slice
           /\ Produced(r, k).heap \in [Cells -> Token]
           /\ Produced(r, k).slice.cell \in OwnCells(r)
           /\ \A c \in Cells \ OwnCells(r) : Produced(r, k).heap[c] = heap[c]
           /\ Read(Produced(r, k).heap, Produced(r, k).slice) =
                Result(k, Read(Taken(r, k).heap, Taken(r, k).slice))
<1> DEFINE in == Taken(r, k)
           v  == Result(k, Read(in.heap, in.slice))
           c  == <<r, "new", k>>
<1>1. /\ in.slice \in Slice /\ in.heap \in [Cells -> Token]
      /\ in.slice.cell \in OwnCells(r) /\ in.slice.cell \in Cells
      /\ \A d \in Cells \ OwnCells(r) : in.heap[d] = heap[d]
  BY TakenFacts DEF OwnCells
<1>2. /\ pipe[k] \in Stage /\ k \in 1..MaxStages /\ r \in Runs
  BY StageFacts DEF Wellformed
<1>3. v \in Token
  BY <1>2, ResultIsToken
<1>4. c \in Cells /\ c \in OwnCells(r)
  BY <1>2 DEF Cells, OwnCells
<1>5. pipe[k].mode \in Modes
  BY <1>2 DEF Stage
<1>6. CASE pipe[k].mode = "fresh"
  <2>1. Produced(r, k) = [slice |-> Filled(c, v), heap |-> [in.heap EXCEPT ![c] = v]]
    BY <1>6 DEF Produced
  <2> HIDE DEF v, in, c
  <2>2. QED
    BY <1>1, <1>3, <1>4, <2>1 DEF Filled, Slice, Read, v, in
<1>7. CASE pipe[k].mode = "alias"
  <2>1. Produced(r, k) = [slice |-> [in.slice EXCEPT !.view = v], heap |-> in.heap]
    BY <1>7 DEF Produced
  <2>2. Read(in.heap, in.slice) = Other => v = Other
    <3>1. InputOf(k) # Other
      BY InputFacts DEF Wellformed, Other
    <3>2. QED
      BY <3>1 DEF Result
  <2> HIDE DEF v, in
  <2>3. Read(in.heap, [in.slice EXCEPT !.view = v]) = v
    BY <1>1, <2>2 DEF Read, Slice
  <2>4. QED
    BY <1>1, <1>3, <2>1, <2>3 DEF Slice, v, in
<1>8. CASE pipe[k].mode = "inplace"
  <2>1. Produced(r, k) = [slice |-> Filled(in.slice.cell, v),
                          heap |-> [in.heap EXCEPT ![in.slice.cell] = v]]
    BY <1>8 DEF Produced
  <2> HIDE DEF v, in
  <2>2. QED
    BY <1>1, <1>3, <2>1 DEF Filled, Slice, Read, v, in
<1>9. QED
  BY <1>5, <1>6, <1>7, <1>8 DEF Modes

(***************************************************************************)
(* What the stage is given and what it makes of it.                        *)
(***************************************************************************)
Given(r, k) == IF pipe[k].from = NoId THEN Read(heap, rows[r])
               ELSE Read(heap, outputs[r][pipe[k].from])
Made(r, k) == Result(k, Given(r, k))

LEMMA StoredFacts ==
    ASSUME NEW r, NEW k, Wellformed(r, k)
    PROVE  /\ Made(r, k) \in Token
           /\ Stored(r, k).heap \in [Cells -> Token]
           /\ Stored(r, k).outputs \in Outputs
           /\ \A c \in Cells : /\ c \notin OwnCells(r)
                               /\ c # <<r, "out", k>>
                               => Stored(r, k).heap[c] = heap[c]
           /\ Read(Stored(r, k).heap, Produced(r, k).slice) = Made(r, k)
           /\ Read(Produced(r, k).heap, Produced(r, k).slice) = Made(r, k)
           /\ pipe[k].id = NoId => Stored(r, k).outputs = outputs[r]
           /\ pipe[k].id # NoId =>
                 /\ Stored(r, k).heap[<<r, "out", k>>] = Made(r, k)
                 /\ Stored(r, k).outputs =
                      [outputs[r] EXCEPT ![pipe[k].id] = Filled(<<r, "out", k>>, Made(r, k))]
<1> DEFINE out == Produced(r, k)
           v   == Made(r, k)
           c   == <<r, "out", k>>
<1>1. /\ out.slice \in Slice /\ out.heap \in [Cells -> Token]
      /\ out.slice.cell \in OwnCells(r)
      /\ \A d \in Cells \ OwnCells(r) : out.heap[d] = heap[d]
      /\ Read(out.heap, out.slice) = v
  BY ProducedFacts, TakenFacts DEF Made, Given
<1>2. /\ pipe[k] \in Stage /\ k \in 1..MaxStages /\ r \in Runs
      /\ outputs[r] \in [Ids -> Slice \cup {NoRows}]
  BY StageFacts DEF Wellformed, TypeOK, Outputs
<1>3. v \in Token
  BY <1>2, ResultIsToken DEF Made
<1>4. c \in Cells /\ c \notin OwnCells(r)
  BY <1>2 DEF Cells, OwnCells
<1>5. CASE pipe[k].id = NoId
  <2>1. Stored(r, k) = [heap |-> out.heap, outputs |-> outputs[r]]
    BY <1>5 DEF Stored
  <2> HIDE DEF out, v
  <2>2. QED
    BY <1>1, <1>2, <1>3, <1>5, <2>1 DEF Outputs, v, out
<1>6. CASE pipe[k].id # NoId
  <2>1. Stored(r, k) = [heap |-> [out.heap EXCEPT ![c] = v],
                        outputs |-> [outputs[r] EXCEPT ![pipe[k].id] = Filled(c, v)]]
    BY <1>6, <1>1 DEF Stored
  <2>2. pipe[k].id \in Ids
    BY <1>2, <1>6 DEF Stage
  <2> HIDE DEF out, v, c
  <2>3. Filled(c, v) \in Slice
    BY <1>3, <1>4 DEF Filled, Slice
  <2>4. [outputs[r] EXCEPT ![pipe[k].id] = Filled(c, v)] \in Outputs
    BY <1>2, <2>2, <2>3 DEF Outputs
  <2>5. [out.heap EXCEPT ![c] = v] \in [Cells -> Token]
    BY <1>1, <1>3, <1>4
  <2>6. Read([out.heap EXCEPT ![c] = v], out.slice) = v
    BY <1>1, <1>4 DEF Read, Slice
  <2>7. QED
    BY <1>1, <1>3, <1>4, <1>6, <2>1, <2>4, <2>5, <2>6 DEF v, out, c
<1>7. QED
  BY <1>5, <1>6

(***************************************************************************)
(* A run keeps its invariant while nobody writes its cells or the outputs  *)
(* it holds, and the snapshot keeps its own.                               *)
(***************************************************************************)
LEMMA RunStable ==
    ASSUME TypeOK, NEW q \in Runs, RunInv(q),
           pipe' = pipe, pc'[q] = pc[q], kind'[q] = kind[q], at'[q] = at[q],
           rows'[q] = rows[q], outputs'[q] = outputs[q],
           \A c \in Cells : c \in OwnCells(q) => heap'[c] = heap[c],
           \A c \in Cells : /\ c[1] \in {Exec, q} /\ c[2] = "out" /\ c[3] < at[q]
                           => heap'[c] = heap[c]
    PROVE  RunInv(q)'
<1>1. tailStart' = tailStart
  BY DEF tailStart
<1>2. \A id \in Ids : outputs[q][id] # NoRows => outputs[q][id] \in Slice
  BY DEF TypeOK, Outputs
<1>3. ASSUME Live(q), NEW id \in Ids, outputs[q][id] # NoRows
      PROVE  Read(heap', outputs'[q][id]) = Read(heap, outputs[q][id])
  BY <1>2, <1>3 DEF RunInv, KeptIn, Read, Slice
<1>4. Live(q) => Read(heap', rows'[q]) = Read(heap, rows[q])
  BY DEF RunInv, Read, OwnCells
<1>5. \A id : StageNamed(id)' = StageNamed(id)
  BY DEF StageNamed
<1>6. Live(q)' = Live(q)
  BY DEF Live
<1>7. OwnCells(q)' = OwnCells(q)
  BY DEF OwnCells
<1>8. Live(q) /\ FaithfulOutputs(outputs[q], at[q]) => FaithfulOutputs(outputs[q], at[q])'
  BY <1>1, <1>3, <1>5 DEF FaithfulOutputs
<1>9. QED
  BY <1>1, <1>4, <1>6, <1>7, <1>8 DEF RunInv, KeptIn, NoOutputs

LEMMA PrimedStable ==
    ASSUME TypeOK, PrimedInv, Started,
           pipe' = pipe, primed' = primed,
           at[Exec] \in Nat, at'[Exec] \in Nat, at[Exec] <= at'[Exec],
           \A k \in at[Exec]..(at'[Exec] - 1) : pipe[k].safe,
           \A c \in Cells : /\ c[1] = Exec /\ c[2] \in {"out", "primed"} /\ c[3] < primed.at
                           => heap'[c] = heap[c]
    PROVE  PrimedInv'
<1>1. tailStart' = tailStart
  BY DEF tailStart
<1>2. primed.rows \in Slice /\ primed.at \in Nat /\ primed.outputs \in Outputs
  BY DEF TypeOK, Positions
<1>3. Read(heap', primed.rows) = Read(heap, primed.rows)
  BY <1>2 DEF PrimedInv, Read, Slice
<1>4. ASSUME NEW id \in Ids, primed.outputs[id] # NoRows
      PROVE  Read(heap', primed.outputs[id]) = Read(heap, primed.outputs[id])
  BY <1>2, <1>4 DEF PrimedInv, KeptIn, Read, Slice, Outputs
<1>5. \A id : StageNamed(id)' = StageNamed(id)
  BY DEF StageNamed
<1>6. FaithfulOutputs(primed.outputs, primed.at)'
  BY <1>1, <1>4, <1>5 DEF FaithfulOutputs, PrimedInv
<1>7. \A k \in primed.at..(at'[Exec] - 1) : pipe[k].safe
  BY <1>2 DEF PrimedInv
<1>8. primed.at \in tailStart..at'[Exec]
  BY <1>2, TailStartFacts DEF PrimedInv
<1>9. QED
  BY <1>1, <1>3, <1>6, <1>7, <1>8 DEF PrimedInv, KeptIn

LEMMA StageWellformed ==
    ASSUME IInv, NEW r \in Runs, AtStage(r)
    PROVE  /\ Started
           /\ at[r] \in 1..MaxStages
           /\ at[r] \in DOMAIN pipe
           /\ tailStart \in 1..(Len(pipe) + 1)
           /\ Len(pipe) \in 1..MaxStages
           /\ ValidGraph(pipe)
           /\ rows[r].cell \in OwnCells(r)
           /\ HasInput(r, at[r]) => Wellformed(r, at[r])
<1>1. Started
  BY DEF IInv, KindInv, AtStage, Started, Runs
<1>2. pipe \in Seq(Stage)
  BY ConstantsAssumption DEF IInv, TypeOK
<1>3. tailStart \in 1..(Len(pipe) + 1)
  BY <1>2, TailStartFacts DEF tailStart
<1>4. ValidGraph(pipe) /\ Len(pipe) \in 1..MaxStages
  BY <1>1 DEF IInv, PlanInv
<1>5. at[r] \in 1..MaxStages /\ at[r] \in DOMAIN pipe
  BY <1>2, <1>3, <1>4, ConstantsAssumption DEF AtStage
<1>6. rows[r].cell \in OwnCells(r)
  BY DEF IInv, RunInv, AtStage, Live
<1>7. QED
  BY <1>1, <1>3, <1>4, <1>5, <1>6, ConstantsAssumption DEF Wellformed, IInv

(***************************************************************************)
(* The whole effect of applying an operator.                               *)
(***************************************************************************)
WritesOwn(r, k) ==
    \A c \in Cells : /\ c \notin OwnCells(r)
                    /\ c # <<r, "out", k>>
                    /\ ~ (r = Exec /\ ~pipe[k].safe /\ c = <<Exec, "primed", k>>)
                    => heap'[c] = heap[c]

ReturnsMade(r, k) ==
    /\ rows'[r].cell \in OwnCells(r)
    /\ Read(heap', rows'[r]) = Made(r, k)

StoresMade(r, k) ==
    /\ pipe[k].id = NoId => outputs'[r] = outputs[r]
    /\ pipe[k].id # NoId =>
          /\ outputs'[r] = [outputs[r] EXCEPT
                              ![pipe[k].id] = Filled(<<r, "out", k>>, Made(r, k))]
          /\ heap'[<<r, "out", k>>] = Made(r, k)

PrimesMade(r, k) ==
    /\ r = Exec /\ ~pipe[k].safe =>
          /\ primed' = [rows |-> Filled(<<Exec, "primed", k>>, Made(r, k)),
                        at |-> k + 1, outputs |-> outputs'[r]]
          /\ heap'[<<Exec, "primed", k>>] = Made(r, k)
    /\ ~ (r = Exec /\ ~pipe[k].safe) => primed' = primed

LEMMA ApplyFacts ==
    ASSUME IInv, NEW r \in Runs, Apply(r), NEW k, k = at[r]
    PROVE  /\ heap' \in [Cells -> Token]
           /\ rows' \in [Runs -> Slice]
           /\ outputs' \in [Runs -> Outputs]
           /\ WritesOwn(r, k)
           /\ ReturnsMade(r, k)
           /\ StoresMade(r, k)
           /\ PrimesMade(r, k)
           /\ calls' = IF pipe[k].safe THEN calls ELSE Append(calls, k)
           /\ at' = [at EXCEPT ![r] = k + 1]
<1>1. Wellformed(r, k) /\ k \in 1..MaxStages /\ TypeOK
  BY StageWellformed DEF Apply, IInv
<1>2. /\ rows' = [rows EXCEPT ![r] = Produced(r, k).slice]
      /\ outputs' = [outputs EXCEPT ![r] = Stored(r, k).outputs]
      /\ at' = [at EXCEPT ![r] = k + 1]
      /\ calls' = IF pipe[k].safe THEN calls ELSE Append(calls, k)
      /\ IF r = Exec /\ ~pipe[k].safe
         THEN /\ primed' = Primed(k)
              /\ heap' = [Stored(r, k).heap EXCEPT
                            ![<<Exec, "primed", k>>] = Primed(k).rows.view]
         ELSE /\ heap' = Stored(r, k).heap
              /\ UNCHANGED primed
  BY DEF Apply
<1>3. /\ Produced(r, k).slice \in Slice
      /\ Produced(r, k).slice.cell \in OwnCells(r)
  BY <1>1, ProducedFacts
<1>4. /\ Made(r, k) \in Token
      /\ Stored(r, k).heap \in [Cells -> Token]
      /\ Stored(r, k).outputs \in Outputs
      /\ \A c \in Cells : /\ c \notin OwnCells(r)
                          /\ c # <<r, "out", k>>
                          => Stored(r, k).heap[c] = heap[c]
      /\ Read(Stored(r, k).heap, Produced(r, k).slice) = Made(r, k)
      /\ Read(Produced(r, k).heap, Produced(r, k).slice) = Made(r, k)
      /\ pipe[k].id = NoId => Stored(r, k).outputs = outputs[r]
      /\ pipe[k].id # NoId =>
            /\ Stored(r, k).heap[<<r, "out", k>>] = Made(r, k)
            /\ Stored(r, k).outputs =
                 [outputs[r] EXCEPT ![pipe[k].id] = Filled(<<r, "out", k>>, Made(r, k))]
  BY <1>1, StoredFacts
<1>5. /\ rows' \in [Runs -> Slice] /\ rows'[r] = Produced(r, k).slice
      /\ outputs' \in [Runs -> Outputs] /\ outputs'[r] = Stored(r, k).outputs
  BY <1>1, <1>2, <1>3, <1>4 DEF TypeOK
<1>6. <<r, "out", k>> \in Cells /\ <<Exec, "primed", k>> \in Cells \ OwnCells(r)
  BY <1>1 DEF Cells, OwnCells, Runs
<1>7. CASE r = Exec /\ ~pipe[k].safe
  <2> DEFINE c == <<Exec, "primed", k>>
  <2>1. primed' = [rows |-> Filled(c, Made(r, k)), at |-> k + 1, outputs |-> outputs'[r]]
    BY <1>2, <1>4, <1>5, <1>7 DEF Primed
  <2>2. heap' = [Stored(r, k).heap EXCEPT ![c] = Made(r, k)]
    BY <1>2, <1>4, <1>7 DEF Primed, Filled
  <2> HIDE DEF c
  <2>3. heap' \in [Cells -> Token] /\ heap'[c] = Made(r, k)
    BY <2>2, <1>4, <1>6 DEF c
  <2>4. \A d \in Cells : d # c => heap'[d] = Stored(r, k).heap[d]
    BY <2>2, <1>4
  <2>5. Read(heap', rows'[r]) = Made(r, k)
    BY <2>4, <1>3, <1>4, <1>5, <1>6 DEF Read, Slice, c
  <2>6. <<r, "out", k>> # c
    BY DEF c
  <2>7. QED
    BY <1>1, <1>2, <1>3, <1>4, <1>5, <1>6, <1>7, <2>1, <2>3, <2>4, <2>5, <2>6
    DEF c, WritesOwn, ReturnsMade, StoresMade, PrimesMade
<1>8. CASE ~ (r = Exec /\ ~pipe[k].safe)
  BY <1>1, <1>2, <1>3, <1>4, <1>5, <1>6, <1>8
  DEF WritesOwn, ReturnsMade, StoresMade, PrimesMade
<1>9. QED
  BY <1>7, <1>8

(***************************************************************************)
(* A run whose outputs and rows are right gives the stage its right input. *)
(***************************************************************************)
LEMMA MadeRight ==
    ASSUME IInv, NEW r \in Runs, AtStage(r), HasInput(r, at[r]), kind[r] # "dry"
    PROVE  Made(r, at[r]) = at[r]
<1> DEFINE k == at[r]
<1>1. TypeOK /\ ValidGraph(pipe) /\ k \in DOMAIN pipe /\ k \in Nat
  BY StageWellformed DEF IInv
<1>2. Read(heap, rows[r]) = k - 1 /\ FaithfulOutputs(outputs[r], k)
  BY DEF IInv, RunInv, AtStage, Live
<1>3. CASE pipe[k].from = NoId
  BY <1>2, <1>3 DEF Made, Given, Result, InputOf
<1>4. CASE pipe[k].from # NoId
  <2>1. outputs[r][pipe[k].from] # NoRows /\ pipe[k].from \in Ids
    BY <1>1, <1>4, StageFacts DEF HasInput, Stage
  <2>2. QED
    BY <1>2, <1>4, <2>1 DEF Made, Given, Result, InputOf, FaithfulOutputs
<1>5. QED
  BY <1>3, <1>4

-------------------------------------------------------------------------------
(***************************************************************************)
(* The invariant is inductive: one lemma per action.                       *)
(***************************************************************************)
LEMMA ApplyType ==
    ASSUME IInv, NEW r \in Runs, Apply(r), NEW k, k = at[r]
    PROVE  TypeOK'
<1>1. TypeOK /\ k \in 1..MaxStages /\ AtStage(r) /\ HasInput(r, k)
  BY StageWellformed DEF IInv, Apply
<1>2. UNCHANGED <<pipe, pc, kind>>
  BY DEF Apply
<1>3. /\ heap' \in [Cells -> Token] /\ rows' \in [Runs -> Slice]
      /\ outputs' \in [Runs -> Outputs] /\ at' = [at EXCEPT ![r] = k + 1]
      /\ calls' = IF pipe[k].safe THEN calls ELSE Append(calls, k)
      /\ PrimesMade(r, k)
  BY ApplyFacts
<1>4. k + 1 \in Positions /\ k \in Positions
  BY <1>1, ConstantsAssumption DEF Positions
<1>5. at' \in [Runs -> Positions] /\ calls' \in Seq(Positions)
  BY <1>1, <1>3, <1>4 DEF TypeOK
<1>6. primed' \in [rows : Slice, at : Positions, outputs : Outputs]
  <2>1. Filled(<<Exec, "primed", k>>, Made(r, k)) \in Slice
    BY <1>1, ResultIsToken, ConstantsAssumption
    DEF Made, Filled, Slice, Cells
  <2>2. QED
    BY <1>1, <1>3, <1>4, <2>1 DEF TypeOK, PrimesMade
<1>7. QED
  BY <1>1, <1>2, <1>3, <1>5, <1>6 DEF TypeOK

LEMMA ApplyRun ==
    ASSUME IInv, NEW r \in Runs, Apply(r), NEW k, k = at[r]
    PROVE  RunInv(r)'
<1>1. /\ TypeOK /\ AtStage(r) /\ HasInput(r, k) /\ k \in 1..MaxStages
      /\ k \in DOMAIN pipe /\ ValidGraph(pipe) /\ Len(pipe) \in Nat
      /\ tailStart \in Nat \ {0} /\ DOMAIN pipe = 1..Len(pipe) /\ pipe[k] \in Stage
  BY StageWellformed, StageFacts DEF IInv, Apply
<1>2. UNCHANGED <<pipe, pc, kind>> /\ tailStart' = tailStart
  BY DEF Apply, tailStart
<1>3. at'[r] = k + 1
  <2>1. at' = [at EXCEPT ![r] = k + 1]
    BY ApplyFacts
  <2>2. QED
    BY <1>1, <2>1 DEF TypeOK
<1>4. /\ rows'[r].cell \in OwnCells(r) /\ Read(heap', rows'[r]) = Made(r, k)
      /\ outputs[r] \in Outputs /\ outputs'[r] \in Outputs
  <2>1. /\ outputs' \in [Runs -> Outputs] /\ outputs \in [Runs -> Outputs]
        /\ ReturnsMade(r, k)
    BY <1>1, ApplyFacts DEF TypeOK
  <2>2. QED
    BY <2>1 DEF ReturnsMade
<1>5. StoresMade(r, k) /\ WritesOwn(r, k)
  BY ApplyFacts
<1>6. KeptIn(outputs[r], {Exec, r}, k) /\ pc[r] = "running" /\ k \in tailStart..Len(pipe)
  BY <1>1 DEF IInv, RunInv, AtStage, Live
<1>7. KeptIn(outputs'[r], {Exec, r}, k + 1)
  <2> SUFFICES ASSUME NEW id \in Ids, outputs'[r][id] # NoRows
               PROVE  /\ outputs'[r][id].cell[1] \in {Exec, r}
                      /\ outputs'[r][id].cell[2] = "out"
                      /\ outputs'[r][id].cell[3] < k + 1
    BY DEF KeptIn
  <2>1. CASE id = pipe[k].id /\ pipe[k].id # NoId
    BY <2>1, <1>1, <1>4, <1>5 DEF Filled, Outputs, StoresMade
  <2>2. CASE ~ (id = pipe[k].id /\ pipe[k].id # NoId)
    <3>1. outputs'[r][id] = outputs[r][id]
      BY <2>2, <1>4, <1>5 DEF Outputs, StoresMade
    <3>2. outputs[r][id] \in Slice
      BY <3>1, <1>4 DEF Outputs
    <3>3. outputs[r][id].cell[3] \in Int
      BY <3>2, ConstantsAssumption DEF Slice, Cells
    <3>4. QED
      BY <3>1, <3>3, <1>1, <1>6 DEF KeptIn
  <2>3. QED
    BY <2>1, <2>2
<1>8. ASSUME kind[r] # "dry"
      PROVE  Read(heap', rows'[r]) = k /\ FaithfulOutputs(outputs[r], k + 1)'
  <2>1. Made(r, k) = k
    BY <1>1, <1>8, MadeRight
  <2>2. FaithfulOutputs(outputs[r], k)
    BY <1>1, <1>8 DEF IInv, RunInv, AtStage, Live
  <2>3. ASSUME NEW id \in Ids, outputs'[r][id] # NoRows
        PROVE  Read(heap', outputs'[r][id]) = StageNamed(id)
    <3>1. CASE id = pipe[k].id /\ pipe[k].id # NoId
      <4>1. outputs'[r][id] = Filled(<<r, "out", k>>, k)
        BY <3>1, <1>4, <1>5, <2>1 DEF Outputs, StoresMade
      <4>2. QED
        BY <4>1, <3>1, <1>1, <1>5, <2>1, NamedFacts DEF Filled, Read, StoresMade
    <3>2. CASE ~ (id = pipe[k].id /\ pipe[k].id # NoId)
      <4>1. outputs'[r][id] = outputs[r][id]
        BY <3>2, <1>4, <1>5 DEF Outputs, StoresMade
      <4>2. outputs[r][id] \in Slice
        BY <2>3, <4>1, <1>4 DEF Outputs
      <4>3. outputs[r][id].cell \in Cells /\ outputs[r][id].cell[2] = "out"
            /\ outputs[r][id].cell[3] < k
        BY <2>3, <4>1, <4>2, <1>6 DEF KeptIn, Slice
      <4>4. heap'[outputs[r][id].cell] = heap[outputs[r][id].cell]
        BY <4>3, <1>1, <1>5 DEF OwnCells, WritesOwn
      <4>5. QED
        BY <2>3, <4>1, <4>4, <2>2 DEF Read, FaithfulOutputs
    <3>3. QED
      BY <3>1, <3>2
  <2>4. ASSUME NEW j \in tailStart..k, pipe[j].id # NoId
        PROVE  outputs'[r][pipe[j].id] # NoRows
    <3>1. pipe[j].id \in Ids
      <4>1. j \in DOMAIN pipe
        BY <1>1, <1>6
      <4>2. QED
        BY <4>1, <2>4, <1>1, StageFacts DEF Stage
    <3>2. CASE pipe[j].id = pipe[k].id
      <4>1. outputs'[r][pipe[j].id] = Filled(<<r, "out", k>>, k)
        BY <3>1, <3>2, <2>4, <1>4, <1>5, <2>1 DEF Outputs, StoresMade
      <4>2. Filled(<<r, "out", k>>, k) # NoRows
        BY NoRowsAssumption, <1>1, ConstantsAssumption DEF Filled, Slice, Cells, Token, Other
      <4>3. QED
        BY <4>1, <4>2
    <3>3. CASE pipe[j].id # pipe[k].id
      <4>1. outputs'[r][pipe[j].id] = outputs[r][pipe[j].id]
        BY <3>1, <3>3, <1>4, <1>5 DEF Outputs, StoresMade
      <4>2. j \in tailStart..(k - 1)
        BY <3>3, <1>1
      <4>3. QED
        BY <4>1, <4>2, <2>2, <2>4 DEF FaithfulOutputs
    <3>4. QED
      BY <3>2, <3>3
  <2>5. \A id : StageNamed(id)' = StageNamed(id)
    BY <1>2 DEF StageNamed
  <2>6. QED
    BY <1>1, <1>2, <1>4, <2>1, <2>3, <2>4, <2>5 DEF FaithfulOutputs
<1>9. OwnCells(r)' = OwnCells(r)
  BY DEF OwnCells
<1>10. at'[r] - 1 = k /\ at'[r] \in tailStart'..(Len(pipe)' + 1)
  BY <1>1, <1>2, <1>3, <1>6
<1>11. kind[r]' = kind[r] /\ pc[r]' = "running"
  BY <1>2, <1>6
<1>12. QED
  BY <1>3, <1>4, <1>7, <1>8, <1>9, <1>10, <1>11 DEF RunInv, KeptIn

LEMMA ApplyOthers ==
    ASSUME IInv, NEW r \in Runs, Apply(r), NEW q \in Runs \ {r}
    PROVE  RunInv(q)'
<1>1. PICK k : k = at[r]
  OBVIOUS
<1>2. /\ TypeOK /\ AtStage(r) /\ k \in Nat /\ RunInv(q) /\ RunInv(r)
  BY <1>1, StageWellformed DEF IInv, Apply
<1>3. UNCHANGED <<pipe, pc, kind>>
  BY DEF Apply
<1>4. WritesOwn(r, k)
  BY <1>1, ApplyFacts
<1>5. at'[q] = at[q] /\ rows'[q] = rows[q] /\ outputs'[q] = outputs[q]
  BY <1>2 DEF Apply, TypeOK
<1>6. \A c \in Cells : c \in OwnCells(q) => heap'[c] = heap[c]
  BY <1>4 DEF OwnCells, WritesOwn
<1>7. CASE r = Exec
  <2>1. pc[q] = "idle"
    BY <1>2, <1>7 DEF IInv, KindInv, AtStage, Runs
  <2>2. QED
    BY <2>1, <1>2, <1>3, <1>5 DEF RunInv, Live, NoOutputs
<1>8. CASE r # Exec
  <2>1. \A c \in Cells : /\ c[1] \in {Exec, q} /\ c[2] = "out" /\ c[3] < at[q]
                         => heap'[c] = heap[c]
    BY <1>4, <1>8 DEF OwnCells, WritesOwn
  <2>2. QED
    BY <1>2, <1>3, <1>5, <1>6, <2>1, RunStable
<1>9. QED
  BY <1>7, <1>8

LEMMA ApplyPrimed ==
    ASSUME IInv, NEW r \in Runs, Apply(r), NEW k, k = at[r]
    PROVE  PrimedInv'
<1>1. /\ TypeOK /\ AtStage(r) /\ HasInput(r, k) /\ k \in 1..MaxStages
      /\ k \in DOMAIN pipe /\ Started /\ PrimedInv
      /\ tailStart \in 1..(Len(pipe) + 1)
  BY StageWellformed DEF IInv, Apply
<1>2. UNCHANGED <<pipe, pc, kind>> /\ tailStart' = tailStart
  BY DEF Apply, tailStart
<1>3. at' = [at EXCEPT ![r] = k + 1]
  BY ApplyFacts
<1>4. WritesOwn(r, k)
  BY ApplyFacts
<1>5. primed.at \in tailStart..at[Exec] /\ primed.at \in Nat /\ at \in [Runs -> Nat]
  BY <1>1 DEF PrimedInv, TypeOK, Positions
<1>10. PrimesMade(r, k)
  BY ApplyFacts
<1>6. CASE r # Exec
  <2>1. primed' = primed /\ at'[Exec] = at[Exec]
    BY <1>1, <1>3, <1>6, <1>10 DEF TypeOK, Runs, PrimesMade
  <2>3. \A c \in Cells : /\ c[1] = Exec /\ c[2] \in {"out", "primed"} /\ c[3] < primed.at
                         => heap'[c] = heap[c]
    BY <1>4, <1>6 DEF OwnCells, WritesOwn
  <2>4. at[Exec] \in Nat
    BY <1>5 DEF Runs
  <2>5. QED
    BY <1>1, <1>2, <2>1, <2>3, <2>4, PrimedStable
<1>7. CASE r = Exec /\ pipe[k].safe
  <2>1. primed' = primed /\ at'[Exec] = k + 1 /\ at[Exec] = k
    BY <1>1, <1>3, <1>7, <1>10 DEF TypeOK, PrimesMade
  <2>2. \A c \in Cells : /\ c[1] = Exec /\ c[2] \in {"out", "primed"} /\ c[3] < primed.at
                         => heap'[c] = heap[c]
    BY <1>4, <1>5, <1>7, <2>1 DEF OwnCells, WritesOwn
  <2>3. \A i \in at[Exec]..(at'[Exec] - 1) : pipe[i].safe
    BY <1>1, <1>7, <2>1
  <2>4. QED
    BY <1>1, <1>2, <2>1, <2>2, <2>3, PrimedStable
<1>8. CASE r = Exec /\ ~pipe[k].safe
  <2>1. /\ primed' = [rows |-> Filled(<<Exec, "primed", k>>, k),
                      at |-> k + 1, outputs |-> outputs'[Exec]]
        /\ heap'[<<Exec, "primed", k>>] = k
    <3>1. kind[r] # "dry"
      BY <1>8 DEF IInv, KindInv
    <3>2. Made(r, k) = k
      BY <1>1, <3>1, MadeRight
    <3>3. QED
      BY <1>8, <3>2, <1>10 DEF PrimesMade
  <2>2. RunInv(Exec)' /\ kind'[Exec] # "dry" /\ pc'[Exec] = "running"
    BY <1>1, <1>2, <1>8, ApplyRun DEF IInv, KindInv, AtStage
  <2>3. KeptIn(outputs'[Exec], {Exec}, k + 1) /\ FaithfulOutputs(outputs[Exec], at[Exec])'
    BY <1>1, <1>3, <1>8, <2>2 DEF RunInv, Live, KeptIn, TypeOK
  <2>4. at'[Exec] = k + 1
    BY <1>1, <1>3, <1>8 DEF TypeOK
  <2>5. FaithfulOutputs(primed.outputs, primed.at)'
    BY <2>1, <2>3, <2>4 DEF FaithfulOutputs
  <2>6. Read(heap', primed'.rows) = primed'.at - 1
    BY <2>1, <1>1 DEF Read, Filled
  <2>7. KeptIn(primed.outputs, {Exec}, primed.at)'
    BY <2>1, <2>3 DEF KeptIn
  <2>8. primed'.at \in tailStart'..at'[Exec]
    BY <1>1, <1>2, <1>8, <2>1, <2>4 DEF AtStage
  <2>9. QED
    BY <1>1, <2>1, <2>4, <2>5, <2>6, <2>7, <2>8 DEF PrimedInv, Filled
<1>9. QED
  BY <1>6, <1>7, <1>8

(***************************************************************************)
(* The calls stay in order when stage k is called, or is not.              *)
(***************************************************************************)
LEMMA CallsAppend ==
    ASSUME TypeOK, CallsInv, NEW k \in tailStart..Len(pipe), tailStart \in Nat,
           ~pipe[k].safe, \A i \in DOMAIN calls : calls[i] < k,
           calls' = Append(calls, k)
    PROVE  /\ \A i, j \in DOMAIN calls' : i < j => calls'[i] < calls'[j]
           /\ \A i \in DOMAIN calls' :
                 /\ calls'[i] \in tailStart..Len(pipe) /\ ~pipe[calls'[i]].safe
                 /\ calls'[i] <= k
           /\ \A i \in DOMAIN calls : \E j \in DOMAIN calls' : calls'[j] = calls[i]
           /\ \E j \in DOMAIN calls' : calls'[j] = k
<1>1. calls \in Seq(Nat) /\ Len(calls) \in Nat /\ DOMAIN calls = 1..Len(calls)
  BY ConstantsAssumption DEF TypeOK, Positions
<1>2. /\ Len(calls') = Len(calls) + 1 /\ DOMAIN calls' = 1..(Len(calls) + 1)
      /\ \A i \in 1..Len(calls) : calls'[i] = calls[i]
      /\ calls'[Len(calls) + 1] = k
  BY <1>1
<1>3. \A i \in DOMAIN calls' : i \in DOMAIN calls \/ i = Len(calls) + 1
  BY <1>1, <1>2
<1>4. \A i \in DOMAIN calls : calls[i] \in Nat
  BY <1>1
<1>5. QED
  BY <1>1, <1>2, <1>3, <1>4 DEF CallsInv

LEMMA ApplyCalls ==
    ASSUME IInv, NEW r \in Runs, Apply(r), NEW k, k = at[r]
    PROVE  CallsInv'
<1>1. /\ TypeOK /\ CallsInv /\ Started /\ at \in [Runs -> Nat] /\ k \in tailStart..Len(pipe)
      /\ tailStart \in Nat /\ Len(pipe) \in Nat /\ pc[r] = "running" /\ ~Muted(r, k)
  BY StageWellformed, ConstantsAssumption DEF IInv, Apply, AtStage, TypeOK, Positions
<1>2. UNCHANGED <<pipe, pc, kind>> /\ tailStart' = tailStart /\ Started'
  BY <1>1 DEF Apply, tailStart, Started
<1>3. /\ at' = [at EXCEPT ![r] = k + 1]
      /\ calls' = IF pipe[k].safe THEN calls ELSE Append(calls, k)
  BY ApplyFacts
<1>4. \A i \in DOMAIN calls : calls[i] \in Nat
  BY <1>1, ConstantsAssumption DEF TypeOK, Positions
<1>5. CASE r # Exec
  <2>1. pipe[k].safe /\ at'[Exec] = at[Exec]
    BY <1>1, <1>3, <1>5 DEF Muted, Runs
  <2>2. QED
    BY <1>1, <1>2, <1>3, <2>1 DEF CallsInv, Started
<1>6. CASE r = Exec /\ pipe[k].safe
  <2>1. calls' = calls /\ at'[Exec] = k + 1 /\ at[Exec] = k
    BY <1>1, <1>3, <1>6
  <2>2. \A j \in tailStart..k : j = k \/ j \in tailStart..(k - 1)
    BY <1>1
  <2>3. QED
    BY <1>1, <1>2, <1>4, <1>6, <2>1, <2>2 DEF CallsInv, Started
<1>7. CASE r = Exec /\ ~pipe[k].safe
  <2>1. calls' = Append(calls, k) /\ at'[Exec] = k + 1 /\ at[Exec] = k
    BY <1>1, <1>3, <1>7
  <2>2. \A i \in DOMAIN calls : calls[i] < k
    BY <1>1, <2>1 DEF CallsInv
  <2>3. /\ \A i, j \in DOMAIN calls' : i < j => calls'[i] < calls'[j]
        /\ \A i \in DOMAIN calls' :
              /\ calls'[i] \in tailStart..Len(pipe) /\ ~pipe[calls'[i]].safe
              /\ calls'[i] <= k
        /\ \A i \in DOMAIN calls : \E j \in DOMAIN calls' : calls'[j] = calls[i]
        /\ \E j \in DOMAIN calls' : calls'[j] = k
    BY <1>1, <1>7, <2>1, <2>2, CallsAppend
  <2>4. \A j \in tailStart..k : ~pipe[j].safe => \E i \in DOMAIN calls' : calls'[i] = j
    <3>1. \A j \in tailStart..k : j = k \/ j \in tailStart..(k - 1)
      BY <1>1
    <3>2. \A j \in tailStart..(k - 1) :
              ~pipe[j].safe => \E i \in DOMAIN calls : calls[i] = j
      BY <1>1, <2>1 DEF CallsInv
    <3>3. SUFFICES ASSUME NEW j \in tailStart..k, ~pipe[j].safe
                   PROVE  \E i \in DOMAIN calls' : calls'[i] = j
      OBVIOUS
    <3>4. CASE j = k
      BY <2>3, <3>4
    <3>5. CASE j \in tailStart..(k - 1)
      BY <2>3, <3>2, <3>3, <3>5
    <3>6. QED
      BY <3>1, <3>4, <3>5
  <2>5. \A i \in DOMAIN calls' : calls'[i] < k + 1
    BY <1>1, <2>3
  <2>6. (pc[Exec] = "idle")' => FALSE
    BY <1>1, <1>2, <1>7
  <2>7. (at[Exec] - 1)' = k
    BY <1>1, <2>1
  <2>8. QED
    BY <1>1, <1>2, <2>1, <2>3, <2>4, <2>5, <2>6, <2>7 DEF CallsInv
<1>8. QED
  BY <1>5, <1>6, <1>7

LEMMA ApplyInductive ==
    ASSUME IInv, NEW r \in Runs, Apply(r)
    PROVE  IInv'
<1>1. PICK k : k = at[r]
  OBVIOUS
<1>2. UNCHANGED <<pipe, pc, kind>> /\ tailStart' = tailStart
  BY DEF Apply, tailStart
<1>3. TypeOK' /\ PrimedInv' /\ CallsInv'
  BY <1>1, ApplyType, ApplyPrimed, ApplyCalls
<1>4. PlanInv'
  BY <1>2 DEF IInv, PlanInv, Started
<1>5. \A q \in Runs : RunInv(q)'
  BY <1>1, ApplyRun, ApplyOthers
<1>6. KindInv'
  <2>1. at' = [at EXCEPT ![r] = k + 1] /\ PrimesMade(r, k) /\ TypeOK /\ KindInv
    BY <1>1, ApplyFacts DEF IInv
  <2>2. pc[r] = "running" /\ at[r] = k /\ k \in Nat
    BY <1>1, StageWellformed DEF Apply, AtStage
  <2>3. primed.at \in Nat /\ \A q \in Replays : at[q] \in Nat
    BY <2>1 DEF TypeOK, Positions, Runs
  <2>4. CASE r = Exec
    <3>1. \A q \in Replays : pc[q] = "idle" /\ kind[q] = "none"
      BY <2>1, <2>2, <2>4 DEF KindInv, IInv, RunInv, Runs
    <3>2. QED
      BY <1>2, <2>1, <3>1 DEF KindInv
  <2>5. CASE r # Exec
    <3>1. primed' = primed /\ \A q \in Replays : at'[q] = at[q] \/ at'[q] = at[q] + 1
      BY <2>1, <2>2, <2>5 DEF PrimesMade, TypeOK, Runs
    <3>2. QED
      BY <1>2, <2>1, <2>3, <3>1 DEF KindInv
  <2>6. QED
    BY <2>4, <2>5
<1>7. LookupMissesOnlySwallowed'
  BY <1>2 DEF IInv, LookupMissesOnlySwallowed
<1>8. QED
  BY <1>3, <1>4, <1>5, <1>6, <1>7 DEF IInv

LEMMA InitInductive == Init => IInv
<1> SUFFICES ASSUME Init PROVE IInv
  OBVIOUS
<1>1. pipe \in Seq(Stage)
  BY ConstantsAssumption DEF Init
<1>2. TypeOK
  <2>1. Other \in Token /\ 0 \in Positions /\ 0 \in 0..MaxStages
    BY ConstantsAssumption DEF Other, Token, Positions
  <2>2. \A r \in Runs : Filled(<<r, "start", 0>>, Other) \in Slice
    BY <2>1 DEF Filled, Slice, Cells
  <2>3. Filled(<<Exec, "primed", 0>>, Other) \in Slice
    BY <2>1 DEF Filled, Slice, Cells
  <2>4. NoOutputs \in Outputs
    BY DEF NoOutputs, Outputs
  <2>5. QED
    BY <2>1, <2>2, <2>3, <2>4 DEF Init, TypeOK, PcStates
<1>3. \A r \in Runs : pc[r] = "idle" /\ kind[r] = "none" /\ outputs[r] = NoOutputs
  BY DEF Init
<1>4. Exec \in Runs /\ calls = <<>>
  BY DEF Runs, Init
<1>5. QED
  BY <1>2, <1>3, <1>4
  DEF IInv, PlanInv, RunInv, KindInv, PrimedInv, CallsInv, Started, Live, Runs,
      LookupMissesOnlySwallowed

LEMMA RefuseInductive == IInv /\ Refuse => IInv'
<1> SUFFICES ASSUME IInv, Refuse PROVE IInv'
  OBVIOUS
<1>1. /\ TypeOK /\ Exec \in Runs /\ pc[Exec] = "idle"
      /\ UNCHANGED <<pipe, at, rows, outputs, primed, heap, calls>>
      /\ pc' = [pc EXCEPT ![Exec] = "failed"] /\ kind' = [kind EXCEPT ![Exec] = "exec"]
  BY DEF IInv, Refuse, Runs
<1>2. TypeOK'
  BY <1>1 DEF TypeOK, PcStates
<1>3. pc'[Exec] = "failed" /\ kind'[Exec] = "exec" /\ tailStart' = tailStart
  BY <1>1 DEF TypeOK, tailStart
<1>4. \A r \in Replays : pc[r] = "idle" /\ kind[r] = "none" /\ outputs[r] = NoOutputs
  BY <1>1 DEF IInv, KindInv, RunInv, Runs
<1>5. \A r \in Replays : pc'[r] = "idle" /\ kind'[r] = "none" /\ outputs'[r] = NoOutputs
  BY <1>1, <1>4, ConstantsAssumption DEF TypeOK, Runs
<1>6. ~Started'
  BY <1>3 DEF Started
<1>7. CallsInv'
  BY <1>1, <1>3, <1>6 DEF IInv, CallsInv
<1>8. QED
  BY <1>2, <1>3, <1>5, <1>6, <1>7
  DEF IInv, PlanInv, RunInv, KindInv, PrimedInv, Live, Runs, LookupMissesOnlySwallowed

LEMMA BeginInductive == IInv /\ Begin => IInv'
<1> SUFFICES ASSUME IInv, Begin PROVE IInv'
  OBVIOUS
<1> DEFINE prefix == <<Exec, "start", 0>>
           first  == <<Exec, "primed", 0>>
           v      == tailStart - 1
<1>1. /\ TypeOK /\ Exec \in Runs /\ pc[Exec] = "idle" /\ Len(pipe) \in 1..MaxStages
      /\ ValidGraph(pipe) /\ UNCHANGED <<pipe, outputs, calls>>
      /\ heap' = [heap EXCEPT ![prefix] = v, ![first] = v]
      /\ rows' = [rows EXCEPT ![Exec] = Filled(prefix, v)]
      /\ primed' = [rows |-> Filled(first, v), at |-> tailStart, outputs |-> NoOutputs]
      /\ pc' = [pc EXCEPT ![Exec] = "running"] /\ kind' = [kind EXCEPT ![Exec] = "exec"]
      /\ at' = [at EXCEPT ![Exec] = tailStart]
  BY DEF IInv, Begin, Runs
<1>2. tailStart \in 1..(Len(pipe) + 1) /\ tailStart' = tailStart
  BY <1>1, TailStartFacts, ConstantsAssumption DEF tailStart, TypeOK
<1>3. prefix \in Cells /\ first \in Cells /\ prefix # first /\ v \in Token
      /\ tailStart \in Positions
  BY <1>1, <1>2, ConstantsAssumption DEF Cells, Token, Other, Positions
<1>4. Filled(prefix, v) \in Slice /\ Filled(first, v) \in Slice /\ NoOutputs \in Outputs
  BY <1>3 DEF Filled, Slice, NoOutputs, Outputs
<1> HIDE DEF v, prefix, first
<1>5. TypeOK'
  BY <1>1, <1>3, <1>4 DEF TypeOK, PcStates
<1>6. /\ pc'[Exec] = "running" /\ kind'[Exec] = "exec" /\ at'[Exec] = tailStart
      /\ rows'[Exec] = Filled(prefix, v) /\ heap'[prefix] = v /\ heap'[first] = v
  BY <1>1, <1>3 DEF TypeOK
<1>7. Read(heap', rows'[Exec]) = v /\ Read(heap', primed'.rows) = v
  BY <1>1, <1>6 DEF Read, Filled
<1>8. \A r \in Replays : pc[r] = "idle" /\ kind[r] = "none" /\ outputs[r] = NoOutputs
  BY <1>1 DEF IInv, KindInv, RunInv, Runs
<1>9. \A r \in Replays : pc'[r] = "idle" /\ kind'[r] = "none" /\ outputs'[r] = NoOutputs
  BY <1>1, <1>8, ConstantsAssumption DEF TypeOK, Runs
<1>10. outputs'[Exec] = NoOutputs /\ primed'.outputs = NoOutputs /\ primed'.at = tailStart
  BY <1>1 DEF IInv, RunInv
<1>11. FaithfulOutputs(outputs[Exec], at[Exec])' /\ FaithfulOutputs(primed.outputs, primed.at)'
  BY <1>2, <1>6, <1>10 DEF FaithfulOutputs, NoOutputs
<1>12. RunInv(Exec)'
  <2>1. rows'[Exec].cell \in OwnCells(Exec)'
    BY <1>3, <1>6 DEF OwnCells, Filled, prefix
  <2>2. KeptIn(outputs[Exec], {Exec}, at[Exec])'
    BY <1>10 DEF KeptIn, NoOutputs
  <2>3. (at[Exec] - 1)' = v
    BY <1>6 DEF v
  <2>4. at'[Exec] \in (tailStart..(Len(pipe) + 1))'
    BY <1>1, <1>2, <1>6
  <2>5. QED
    BY <1>1, <1>6, <1>7, <1>11, <2>1, <2>2, <2>3, <2>4 DEF RunInv, Live, KeptIn
<1>13. PrimedInv'
  <2>1. KeptIn(primed.outputs, {Exec}, primed.at)'
    BY <1>10 DEF KeptIn, NoOutputs
  <2>2. primed'.rows.cell = first /\ 0 < tailStart
    BY <1>1, <1>2 DEF Filled
  <2>3. primed'.at - 1 = v
    BY <1>10 DEF v
  <2>4. QED
    BY <1>2, <1>6, <1>7, <1>10, <1>11, <2>1, <2>2, <2>3 DEF PrimedInv, first
<1>14. CallsInv'
  BY <1>1, <1>2, <1>6 DEF IInv, CallsInv, Started
<1>15. PlanInv'
  BY <1>1 DEF PlanInv, ValidGraph
<1>16. KindInv' /\ LookupMissesOnlySwallowed'
  BY <1>6, <1>9 DEF KindInv, LookupMissesOnlySwallowed, Runs
<1>17. \A r \in Replays : RunInv(r)'
  BY <1>9, <1>10 DEF RunInv, Live, NoOutputs
<1>18. QED
  BY <1>5, <1>12, <1>13, <1>14, <1>15, <1>16, <1>17 DEF IInv, Runs

(***************************************************************************)
(* Changing only where a run other than Exec is leaves the snapshot and    *)
(* the calls alone.                                                        *)
(***************************************************************************)
LEMMA ReplayInductive ==
    ASSUME IInv, NEW r \in Replays, ReplaySnapshot(r) \/ ReplayDry(r)
    PROVE  IInv'
<1> DEFINE c == <<r, "start", 0>>
<1>1. PICK from, start, outs, knd :
         /\ StartReplay(r, from, start, outs) /\ kind' = [kind EXCEPT ![r] = knd]
         /\ \/ /\ knd = "snapshot" /\ from = primed.rows
               /\ start = primed.at /\ outs = primed.outputs
            \/ /\ knd = "dry" /\ from = Filled(<<r, "start", 0>>, Other)
               /\ start = tailStart /\ outs = NoOutputs
  BY DEF ReplaySnapshot, ReplayDry
<1>2. /\ TypeOK /\ r \in Runs /\ r # Exec /\ Exec \in Runs /\ pc[Exec] = "done" /\ Started
      /\ kind[Exec] # "dry" /\ RunInv(Exec) /\ PrimedInv /\ Len(pipe) \in 1..MaxStages
  BY <1>1, ConstantsAssumption DEF IInv, StartReplay, Runs, Started, KindInv, PlanInv
<1>3. tailStart \in 1..(Len(pipe) + 1) /\ at[Exec] = Len(pipe) + 1
  BY <1>2, TailStartFacts, ConstantsAssumption DEF tailStart, TypeOK, RunInv
<1>4. primed.at \in tailStart..(Len(pipe) + 1)
  BY <1>2, <1>3 DEF PrimedInv
<1>5. c \in Cells /\ Other \in Token /\ Filled(c, Other) \in Slice
  BY <1>2, ConstantsAssumption DEF Cells, Filled, Slice, Token, Other
<1>6. from \in Slice /\ start \in tailStart..(Len(pipe) + 1) /\ outs \in Outputs
      /\ start \in Positions
  <2>1. NoOutputs \in Outputs
    BY DEF NoOutputs, Outputs
  <2>2. QED
    BY <1>1, <1>2, <1>3, <1>4, <1>5, <2>1, ConstantsAssumption DEF TypeOK, Positions
<1>7. PICK v : v = Read(heap, from) /\ v \in Token
  BY <1>6, ConstantsAssumption DEF Read, Slice, Token, Other
<1>8. /\ heap' = [heap EXCEPT ![c] = v] /\ rows' = [rows EXCEPT ![r] = Filled(c, v)]
      /\ outputs' = [outputs EXCEPT ![r] = outs] /\ at' = [at EXCEPT ![r] = start]
      /\ pc' = [pc EXCEPT ![r] = "running"] /\ UNCHANGED <<pipe, primed, calls>>
      /\ tailStart' = tailStart
  BY <1>1, <1>7 DEF StartReplay, tailStart
<1>9. Filled(c, v) \in Slice
  BY <1>5, <1>7 DEF Filled, Slice
<1> HIDE DEF c
<1>10. TypeOK'
  BY <1>1, <1>2, <1>5, <1>6, <1>7, <1>8, <1>9 DEF TypeOK, PcStates
<1>11. /\ pc'[r] = "running" /\ kind'[r] = knd /\ at'[r] = start /\ outputs'[r] = outs
       /\ rows'[r] = Filled(c, v) /\ heap'[c] = v
  BY <1>1, <1>2, <1>5, <1>8 DEF TypeOK
<1>12. \A q \in Runs \ {r} : /\ pc'[q] = pc[q] /\ kind'[q] = kind[q] /\ at'[q] = at[q]
                            /\ rows'[q] = rows[q] /\ outputs'[q] = outputs[q]
  BY <1>1, <1>2, <1>8 DEF TypeOK
<1>13. \A d \in Cells : d # c => heap'[d] = heap[d]
  BY <1>2, <1>8 DEF TypeOK
<1>14. ASSUME NEW q \in Runs \ {r} PROVE RunInv(q)'
  <2>1. RunInv(q)
    BY DEF IInv
  <2>2. \A d \in Cells : d \in OwnCells(q) => heap'[d] = heap[d]
    BY <1>13 DEF OwnCells, c
  <2>3. \A d \in Cells : /\ d[1] \in {Exec, q} /\ d[2] = "out" /\ d[3] < at[q]
                         => heap'[d] = heap[d]
    BY <1>13 DEF c
  <2>4. QED
    BY <1>2, <1>8, <1>12, <2>1, <2>2, <2>3, RunStable
<1>15. PrimedInv'
  <2>1. \A d \in Cells : /\ d[1] = Exec /\ d[2] \in {"out", "primed"} /\ d[3] < primed.at
                         => heap'[d] = heap[d]
    BY <1>13 DEF c
  <2>2. at'[Exec] = at[Exec] /\ at[Exec] \in Nat
    BY <1>2, <1>3, <1>12
  <2>3. QED
    BY <1>2, <1>8, <2>1, <2>2, PrimedStable
<1>16. KeptIn(outs, {Exec, r}, start)
  BY <1>1, <1>2 DEF PrimedInv, KeptIn, NoOutputs
<1>17. ASSUME knd # "dry"
       PROVE  Read(heap', rows'[r]) = start - 1 /\ FaithfulOutputs(outputs[r], at[r])'
  <2>1. from = primed.rows /\ start = primed.at /\ outs = primed.outputs
    BY <1>1, <1>17
  <2>2. v = start - 1
    BY <1>2, <1>7, <2>1 DEF PrimedInv
  <2>3. FaithfulOutputs(primed.outputs, primed.at)'
    BY <1>2, <1>8, <1>12, <1>15 DEF PrimedInv, Started
  <2>4. QED
    BY <1>8, <1>11, <2>1, <2>2, <2>3 DEF FaithfulOutputs, Read, Filled
<1>18. RunInv(r)'
  <2>1. rows'[r].cell \in OwnCells(r)'
    BY <1>5, <1>11 DEF OwnCells, Filled, c
  <2>2. KeptIn(outputs[r], {Exec, r}, at[r])'
    BY <1>11, <1>16 DEF KeptIn
  <2>3. at'[r] \in tailStart'..(Len(pipe) + 1)'
    BY <1>6, <1>8, <1>11
  <2>4. QED
    BY <1>11, <1>17, <2>1, <2>2, <2>3 DEF RunInv, Live
<1>19. KindInv'
  <2>1. knd # "exec" /\ knd # "none" /\ (knd = "snapshot" => start >= primed.at)
    BY <1>1, <1>4
  <2>2. \A q \in Replays \ {r} : q \in Runs \ {r}
    BY DEF Runs
  <2>3. QED
    BY <1>2, <1>8, <1>11, <1>12, <2>1, <2>2 DEF IInv, KindInv
<1>20. CallsInv' /\ PlanInv'
  BY <1>2, <1>8, <1>12 DEF IInv, CallsInv, PlanInv, Started, ValidGraph
<1>21. LookupMissesOnlySwallowed'
  BY <1>8, <1>11, <1>12 DEF IInv, LookupMissesOnlySwallowed
<1>22. QED
  BY <1>10, <1>14, <1>15, <1>18, <1>19, <1>20, <1>21 DEF IInv

LEMMA MuteInductive ==
    ASSUME IInv, NEW r \in Runs, Mute(r)
    PROVE  IInv'
<1>1. /\ TypeOK /\ AtStage(r) /\ r # Exec /\ ~pipe[at[r]].safe /\ pc[r] = "running"
      /\ at' = [at EXCEPT ![r] = at[r] + 1] /\ at[r] \in 1..MaxStages
      /\ UNCHANGED <<pipe, pc, kind, rows, outputs, primed, heap, calls>>
      /\ at[r] \in tailStart..Len(pipe) /\ Exec \in Runs
      /\ tailStart \in 1..(Len(pipe) + 1) /\ Len(pipe) \in 1..MaxStages
  BY StageWellformed DEF Mute, Muted, AtStage, IInv, Runs
<1>2. TypeOK'
  BY <1>1, ConstantsAssumption DEF TypeOK, Positions
<1>3. at'[r] = at[r] + 1 /\ \A q \in Runs \ {r} : at'[q] = at[q]
  BY <1>1 DEF TypeOK
<1>4. pc[Exec] = "done" /\ Started /\ at[Exec] = Len(pipe) + 1 /\ PrimedInv
  BY <1>1 DEF IInv, KindInv, Runs, RunInv, Started
<1>5. kind[r] = "dry"
  <2>1. r \in Replays /\ kind[r] # "exec" /\ kind[r] \in {"none", "exec", "snapshot", "dry"}
    BY <1>1 DEF IInv, KindInv, Runs, TypeOK
  <2>2. kind[r] # "snapshot"
    <3>1. SUFFICES ASSUME kind[r] = "snapshot" PROVE FALSE
      OBVIOUS
    <3>2. at[r] >= primed.at /\ primed.at \in Nat
      BY <2>1, <3>1, <1>1 DEF IInv, KindInv, TypeOK, Positions
    <3>3. at[r] \in primed.at..(at[Exec] - 1)
      BY <1>1, <1>4, <3>2
    <3>4. QED
      BY <1>1, <1>4, <3>3 DEF PrimedInv
  <2>3. kind[r] # "none"
    BY <2>1, <1>1 DEF IInv, KindInv
  <2>4. QED
    BY <2>1, <2>2, <2>3
<1>6. tailStart' = tailStart /\ Started'
  BY <1>1, <1>4 DEF tailStart, Started
<1>7. ASSUME NEW q \in Runs \ {r} PROVE RunInv(q)'
  BY <1>1, <1>3, RunStable DEF IInv
<1>8. RunInv(r)'
  <2>1. KeptIn(outputs[r], {Exec, r}, at[r]) /\ rows[r].cell \in OwnCells(r)
    BY <1>1 DEF IInv, RunInv, Live
  <2>2. \A id \in Ids : outputs[r][id] # NoRows => outputs[r][id].cell[3] \in Int
    <3>1. outputs[r] \in [Ids -> Slice \cup {NoRows}]
      BY <1>1 DEF TypeOK, Outputs
    <3>2. QED
      BY <3>1, ConstantsAssumption DEF Slice, Cells
  <2>3. KeptIn(outputs[r], {Exec, r}, at[r] + 1)
    BY <1>1, <2>1, <2>2 DEF KeptIn
  <2>4. KeptIn(outputs[r], {Exec, r}, at[r])' /\ (rows[r].cell \in OwnCells(r))'
    BY <1>1, <1>3, <2>1, <2>3 DEF KeptIn, OwnCells
  <2>5. at'[r] \in tailStart'..(Len(pipe)' + 1)
    BY <1>1, <1>3, <1>6
  <2>6. QED
    BY <1>1, <1>5, <2>4, <2>5 DEF RunInv
<1>9. PrimedInv'
  <2>1. at'[Exec] = at[Exec] /\ at[Exec] \in Nat
    BY <1>1, <1>3, <1>4
  <2>2. QED
    BY <1>1, <1>4, <2>1, PrimedStable
<1>10. KindInv'
  <2>1. \A q \in Replays : at[q] \in Nat /\ at'[q] \in {at[q], at[q] + 1}
    BY <1>1, <1>3 DEF TypeOK, Positions, Runs
  <2>2. primed.at \in Nat
    BY <1>1 DEF TypeOK, Positions
  <2>3. QED
    BY <1>1, <2>1, <2>2 DEF IInv, KindInv
<1>11. CallsInv' /\ PlanInv' /\ LookupMissesOnlySwallowed'
  BY <1>1, <1>3, <1>4, <1>6
  DEF IInv, CallsInv, PlanInv, LookupMissesOnlySwallowed, Started, ValidGraph
<1>12. QED
  BY <1>2, <1>7, <1>8, <1>9, <1>10, <1>11 DEF IInv

(***************************************************************************)
(* A lookup misses only if the stage it names was folded into the prefix:  *)
(* every named stage of the tail before this one has its output stored.    *)
(***************************************************************************)
LEMMA MissSwallowed ==
    ASSUME IInv, NEW r \in Runs, AtStage(r), ~HasInput(r, at[r]), kind[r] # "dry"
    PROVE  /\ tailStart - 2 \in DOMAIN pipe
           /\ pipe[tailStart - 2].fold = "groupBy"
           /\ IsReferenced(pipe, tailStart - 1)
<1> DEFINE k == at[r]
           f == pipe[k].from
           j == InputOf(k)
<1>1. /\ TypeOK /\ ValidGraph(pipe) /\ k \in DOMAIN pipe /\ k \in 1..MaxStages
      /\ tailStart \in 1..(Len(pipe) + 1) /\ Len(pipe) \in Nat
      /\ pipe \in Seq(Stage) /\ DOMAIN pipe = 1..Len(pipe)
  BY StageWellformed, StageFacts DEF IInv
<1>2. f # NoId /\ outputs[r][f] = NoRows
  BY DEF HasInput
<1>3. j \in 1..(k - 1) /\ j \in DOMAIN pipe /\ pipe[j].id = f
  BY <1>1, <1>2, InputFacts
<1> HIDE DEF j
<1>4. IsReferenced(pipe, j)
  BY <1>1, <1>2, <1>3 DEF IsReferenced
<1>5. FaithfulOutputs(outputs[r], k)
  BY DEF IInv, RunInv, AtStage, Live
<1>6. j < tailStart
  BY <1>1, <1>2, <1>3, <1>5 DEF FaithfulOutputs
<1>7. j \in 1..(TailStart(pipe) - 1)
  BY <1>1, <1>3, <1>6 DEF tailStart
<1>8. /\ j = TailStart(pipe) - 1 /\ j - 1 \in DOMAIN pipe
      /\ pipe[j - 1].fold = "groupBy"
  BY <1>1, <1>4, <1>7, TailStartFacts
<1>9. QED
  BY <1>1, <1>4, <1>8 DEF tailStart

(***************************************************************************)
(* A run that stops makes no more claims, but that it stopped rightly.     *)
(***************************************************************************)
LEMMA LookupFailsInductive ==
    ASSUME IInv, NEW r \in Runs, LookupFails(r)
    PROVE  IInv'
<1>1. /\ TypeOK /\ AtStage(r) /\ ~HasInput(r, at[r]) /\ pc[r] = "running"
      /\ pc' = [pc EXCEPT ![r] = "missing"]
      /\ UNCHANGED <<pipe, kind, at, rows, outputs, primed, heap, calls>>
      /\ tailStart' = tailStart /\ Exec \in Runs
  BY DEF LookupFails, AtStage, IInv, tailStart, Runs
<1>2. TypeOK'
  BY <1>1 DEF TypeOK, PcStates
<1>3. pc'[r] = "missing" /\ \A q \in Runs \ {r} : pc'[q] = pc[q]
  BY <1>1 DEF TypeOK
<1>4. ASSUME NEW q \in Runs \ {r} PROVE RunInv(q)'
  BY <1>1, <1>3, RunStable DEF IInv
<1>5. RunInv(r)'
  BY <1>3 DEF RunInv, Live
<1>6. Started' => Started
  BY <1>1, <1>3 DEF Started
<1>7. KindInv'
  <2>1. CASE r = Exec
    <3>1. \A q \in Replays : pc[q] = "idle"
      BY <1>1, <2>1 DEF IInv, KindInv
    <3>2. \A q \in Replays : pc'[q] = "idle"
      BY <1>3, <2>1, <3>1, ConstantsAssumption DEF Runs
    <3>3. QED
      BY <1>1, <3>2 DEF IInv, KindInv
  <2>2. CASE r # Exec
    BY <1>1, <1>3, <2>2 DEF IInv, KindInv, Runs
  <2>3. QED
    BY <2>1, <2>2
<1>8. Started' => PrimedInv'
  <2>1. Started' => at[Exec] \in Nat
    BY <1>1 DEF TypeOK, Positions
  <2>2. QED
    BY <1>1, <1>6, <2>1, PrimedStable DEF IInv
<1>9. PrimedInv' /\ CallsInv' /\ PlanInv'
  BY <1>1, <1>3, <1>6, <1>8 DEF IInv, CallsInv, PlanInv, PrimedInv, ValidGraph
<1>10. LookupMissesOnlySwallowed'
  BY <1>1, <1>3, MissSwallowed DEF IInv, LookupMissesOnlySwallowed
<1>11. QED
  BY <1>2, <1>4, <1>5, <1>7, <1>9, <1>10 DEF IInv

LEMMA FinishInductive ==
    ASSUME IInv, NEW r \in Runs, Finish(r)
    PROVE  IInv'
<1>1. /\ TypeOK /\ pc[r] = "running" /\ at[r] = Len(pipe) + 1
      /\ pc' = [pc EXCEPT ![r] = "done"]
      /\ UNCHANGED <<pipe, kind, at, rows, outputs, primed, heap, calls>>
      /\ tailStart' = tailStart /\ Exec \in Runs
  BY DEF Finish, IInv, tailStart, Runs
<1>2. TypeOK'
  BY <1>1 DEF TypeOK, PcStates
<1>3. pc'[r] = "done" /\ \A q \in Runs \ {r} : pc'[q] = pc[q]
  BY <1>1 DEF TypeOK
<1>4. ASSUME NEW q \in Runs \ {r} PROVE RunInv(q)'
  BY <1>1, <1>3, RunStable DEF IInv
<1>5. RunInv(r)'
  <2>1. RunInv(r) /\ Live(r)
    BY <1>1 DEF IInv, Live
  <2>2. OwnCells(r)' = OwnCells(r) /\ \A id : StageNamed(id)' = StageNamed(id)
    BY <1>1 DEF OwnCells, StageNamed
  <2>3. FaithfulOutputs(outputs[r], at[r]) => FaithfulOutputs(outputs[r], at[r])'
    BY <1>1, <2>2 DEF FaithfulOutputs
  <2>4. QED
    BY <1>1, <1>3, <2>1, <2>2, <2>3 DEF RunInv, KeptIn
<1>6. Started' = Started
  BY <1>1, <1>3 DEF Started
<1>7. KindInv'
  BY <1>1, <1>3 DEF IInv, KindInv, Runs
<1>8. PrimedInv'
  <2>1. at[Exec] \in Nat
    BY <1>1 DEF TypeOK, Positions
  <2>2. Started => PrimedInv'
    BY <1>1, <2>1, PrimedStable DEF IInv
  <2>3. QED
    BY <1>6, <2>2 DEF PrimedInv
<1>9. CallsInv' /\ PlanInv' /\ LookupMissesOnlySwallowed'
  BY <1>1, <1>3, <1>6
  DEF IInv, CallsInv, PlanInv, LookupMissesOnlySwallowed, ValidGraph
<1>10. QED
  BY <1>2, <1>4, <1>5, <1>7, <1>8, <1>9 DEF IInv

LEMMA FailInductive ==
    ASSUME IInv, NEW r \in Runs, Fail(r)
    PROVE  IInv'
<1>1. PICK k : k = at[r]
  OBVIOUS
<1>2. /\ TypeOK /\ AtStage(r) /\ HasInput(r, k) /\ ~Muted(r, k) /\ pc[r] = "running"
      /\ pc' = [pc EXCEPT ![r] = "failed"]
      /\ UNCHANGED <<pipe, kind, at, rows, outputs, primed>>
      /\ calls' = calls \/ (~pipe[k].safe /\ calls' = Append(calls, k))
      /\ \/ heap' = Taken(r, k).heap
         \/ heap' = [Taken(r, k).heap EXCEPT ![Taken(r, k).slice.cell] = Other]
      /\ tailStart' = tailStart /\ Exec \in Runs
  BY <1>1 DEF Fail, AtStage, IInv, tailStart, Runs
<1>3. /\ Wellformed(r, k) /\ k \in tailStart..Len(pipe) /\ k \in Positions
      /\ tailStart \in Nat /\ Len(pipe) \in Nat /\ Started
  BY <1>1, <1>2, StageWellformed, ConstantsAssumption DEF AtStage, Positions
<1>4. /\ Taken(r, k).heap \in [Cells -> Token]
      /\ Taken(r, k).slice.cell \in OwnCells(r) /\ Taken(r, k).slice.cell \in Cells
      /\ \A c \in Cells \ OwnCells(r) : Taken(r, k).heap[c] = heap[c]
  BY <1>3, TakenFacts DEF OwnCells
<1>5. heap' \in [Cells -> Token] /\ \A c \in Cells : c \notin OwnCells(r) => heap'[c] = heap[c]
  BY <1>2, <1>4, ConstantsAssumption DEF Token, Other
<1>6. TypeOK'
  <2>1. calls' \in Seq(Positions)
    <3>1. calls \in Seq(Positions) /\ k \in Positions
      BY <1>2, <1>3 DEF TypeOK
    <3>2. Append(calls, k) \in Seq(Positions)
      BY <3>1
    <3>3. QED
      BY <1>2, <3>1, <3>2
  <2>2. pc' \in [Runs -> PcStates]
    BY <1>2 DEF TypeOK, PcStates
  <2>3. QED
    BY <1>2, <1>5, <2>1, <2>2 DEF TypeOK
<1>7. pc'[r] = "failed" /\ \A q \in Runs \ {r} : pc'[q] = pc[q]
  BY <1>2 DEF TypeOK
<1>8. ASSUME NEW q \in Runs \ {r} PROVE RunInv(q)'
  <2>1. \A c \in Cells : c \in OwnCells(q) \/ c[2] = "out" => heap'[c] = heap[c]
    BY <1>5 DEF OwnCells
  <2>2. QED
    BY <1>2, <1>7, <2>1, RunStable DEF IInv
<1>9. RunInv(r)'
  BY <1>7 DEF RunInv, Live
<1>10. Started' => Started
  BY <1>3
<1>11. KindInv'
  <2>1. CASE r = Exec
    <3>1. \A q \in Replays : pc[q] = "idle"
      BY <1>2, <2>1 DEF IInv, KindInv
    <3>2. \A q \in Replays : pc'[q] = "idle"
      BY <1>7, <2>1, <3>1, ConstantsAssumption DEF Runs
    <3>3. QED
      BY <1>2, <3>2 DEF IInv, KindInv
  <2>2. CASE r # Exec
    BY <1>2, <1>7, <2>2 DEF IInv, KindInv, Runs
  <2>3. QED
    BY <2>1, <2>2
<1>12. PrimedInv'
  <2>1. at[Exec] \in Nat
    BY <1>2 DEF TypeOK, Positions
  <2>2. \A c \in Cells : c[2] \in {"out", "primed"} => heap'[c] = heap[c]
    BY <1>5 DEF OwnCells
  <2>3. Started => PrimedInv'
    BY <1>2, <2>1, <2>2, PrimedStable DEF IInv
  <2>4. QED
    BY <1>3, <2>3
<1>13. CallsInv'
  <2>1. CASE calls' = calls
    BY <1>2, <1>7, <1>10, <2>1 DEF IInv, CallsInv
  <2>2. CASE ~pipe[k].safe /\ calls' = Append(calls, k)
    <3>1. r = Exec /\ \A i \in DOMAIN calls : calls[i] < k
      BY <1>1, <1>2, <1>3, <2>2 DEF Muted, IInv, CallsInv
    <3>2. /\ \A i, j \in DOMAIN calls' : i < j => calls'[i] < calls'[j]
          /\ \A i \in DOMAIN calls' :
                calls'[i] \in tailStart..Len(pipe) /\ ~pipe[calls'[i]].safe
      BY <1>2, <1>3, <2>2, <3>1, CallsAppend DEF IInv
    <3>3. ~Started' /\ pc'[Exec] # "idle"
      BY <1>7, <3>1 DEF Started
    <3>4. QED
      BY <1>2, <3>2, <3>3 DEF CallsInv
  <2>3. QED
    BY <1>2, <2>1, <2>2
<1>14. PlanInv' /\ LookupMissesOnlySwallowed'
  BY <1>2, <1>7, <1>10 DEF IInv, PlanInv, LookupMissesOnlySwallowed, ValidGraph
<1>15. QED
  BY <1>6, <1>8, <1>9, <1>11, <1>12, <1>13, <1>14 DEF IInv

LEMMA StutterInductive == IInv /\ UNCHANGED vars => IInv'
<1> SUFFICES ASSUME IInv, UNCHANGED vars PROVE IInv'
  OBVIOUS
<1>1. UNCHANGED <<pipe, pc, kind, at, rows, outputs, primed, heap, calls>>
  BY DEF vars
<1>2. /\ tailStart' = tailStart /\ Started' = Started
      /\ (\A id : StageNamed(id)' = StageNamed(id))
      /\ \A r : OwnCells(r)' = OwnCells(r) /\ Live(r)' = Live(r)
  BY <1>1 DEF tailStart, Started, StageNamed, OwnCells, Live
<1>3. TypeOK' /\ PlanInv' /\ KindInv' /\ CallsInv' /\ LookupMissesOnlySwallowed'
  BY <1>1, <1>2
  DEF IInv, TypeOK, PlanInv, KindInv, CallsInv, LookupMissesOnlySwallowed, ValidGraph
<1>4. \A r \in Runs : RunInv(r)'
  BY <1>1, RunStable DEF IInv
<1>5. PrimedInv'
  <2>1. at[Exec] \in Nat
    BY DEF IInv, TypeOK, Positions, Runs
  <2>2. Started => PrimedInv'
    BY <1>1, <2>1, PrimedStable DEF IInv
  <2>3. QED
    BY <1>2, <2>2 DEF PrimedInv
<1>6. QED
  BY <1>3, <1>4, <1>5 DEF IInv

LEMMA NextInductive == IInv /\ [Next]_vars => IInv'
<1> SUFFICES ASSUME IInv, [Next]_vars PROVE IInv'
  OBVIOUS
<1>1. CASE Refuse
  BY <1>1, RefuseInductive
<1>2. CASE Begin
  BY <1>2, BeginInductive
<1>3. ASSUME NEW r \in Replays, ReplaySnapshot(r) \/ ReplayDry(r) PROVE IInv'
  BY <1>3, ReplayInductive
<1>4. ASSUME NEW r \in Runs, Step(r) PROVE IInv'
  BY <1>4, MuteInductive, LookupFailsInductive, ApplyInductive, FailInductive,
     FinishInductive DEF Step
<1>5. CASE UNCHANGED vars
  BY <1>5, StutterInductive
<1>6. QED
  BY <1>1, <1>2, <1>3, <1>4, <1>5 DEF Next

-------------------------------------------------------------------------------
(***************************************************************************)
(* The inductive invariant holds throughout.                               *)
(***************************************************************************)
THEOREM Invariance == Spec => []IInv
<1>1. Init => IInv
  BY InitInductive
<1>2. IInv /\ [Next]_vars => IInv'
  BY NextInductive
<1>3. QED
  BY <1>1, <1>2, PTL DEF Spec

(***************************************************************************)
(* Every variable keeps its type: indices stay inside the plan, slices     *)
(* inside the cells the runs allocate.                                     *)
(***************************************************************************)
THEOREM TypeCorrect == Spec => []TypeOK
<1>1. IInv => TypeOK
  BY DEF IInv
<1>2. QED
  BY <1>1, Invariance, PTL

(***************************************************************************)
(* The primed snapshot and the named outputs behind it are never corrupted *)
(* by an in-place operator of the execution or of any replay.              *)
(***************************************************************************)
THEOREM SnapshotIsFaithful == Spec => []SnapshotFaithful
<1>1. IInv => SnapshotFaithful
  <2> SUFFICES ASSUME IInv, Started PROVE
        /\ Read(heap, primed.rows) = primed.at - 1
        /\ \A j \in tailStart..(primed.at - 1) :
              pipe[j].id # NoId =>
                  /\ primed.outputs[pipe[j].id] # NoRows
                  /\ Read(heap, primed.outputs[pipe[j].id]) = j
    BY DEF SnapshotFaithful
  <2>1. /\ PrimedInv /\ TypeOK /\ ValidGraph(pipe) /\ pipe \in Seq(Stage)
        /\ RunInv(Exec) /\ Len(pipe) \in 1..MaxStages
    BY ConstantsAssumption DEF IInv, PlanInv, TypeOK, Runs
  <2>2. tailStart \in 1..(Len(pipe) + 1) /\ primed.at \in tailStart..(Len(pipe) + 1)
    BY <2>1, TailStartFacts, ConstantsAssumption
    DEF PrimedInv, RunInv, Live, Started, tailStart
  <2>3. ASSUME NEW j \in tailStart..(primed.at - 1), pipe[j].id # NoId
        PROVE  /\ primed.outputs[pipe[j].id] # NoRows
               /\ Read(heap, primed.outputs[pipe[j].id]) = j
    <3>1. j \in DOMAIN pipe
      BY <2>1, <2>2, StageFacts
    <3>2. pipe[j].id \in Ids /\ StageNamed(pipe[j].id) = j
      BY <2>1, <2>3, <3>1, StageFacts, NamedFacts DEF Stage
    <3>3. QED
      BY <2>1, <2>3, <3>2 DEF PrimedInv, FaithfulOutputs
  <2>4. QED
    BY <2>1, <2>3 DEF PrimedInv
<1>2. QED
  BY <1>1, Invariance, PTL

(***************************************************************************)
(* Outside services are called once per unsafe stage, in order, whatever   *)
(* is replayed.                                                            *)
(***************************************************************************)
THEOREM EffectsHappenOnce == Spec => []EffectsOnce
<1>1. IInv => EffectsOnce
  <2> SUFFICES ASSUME IInv PROVE EffectsOnce
    OBVIOUS
  <2>1. CallsInv /\ RunInv(Exec) /\ (pc[Exec] = "done" => Started) /\ Len(pipe) \in Nat
    BY ConstantsAssumption DEF IInv, Runs, Started, TypeOK
  <2>2. QED
    BY <2>1 DEF CallsInv, RunInv, EffectsOnce
<1>2. QED
  BY <1>1, Invariance, PTL

(***************************************************************************)
(* A replay from the snapshot answers with the rows of the execution.      *)
(***************************************************************************)
THEOREM ReplaysAgree == Spec => []ReplayAgrees
<1>1. IInv => ReplayAgrees
  <2>1. IInv => Len(pipe) \in Nat
    BY ConstantsAssumption DEF IInv, TypeOK
  <2>2. ASSUME IInv, NEW r \in Runs, pc[r] = "done", kind[r] # "dry"
        PROVE  Read(heap, rows[r]) = Len(pipe)
    <3>1. RunInv(r) /\ Live(r)
      BY <2>2 DEF IInv, Live
    <3>2. Read(heap, rows[r]) = at[r] - 1 /\ at[r] = Len(pipe) + 1
      BY <2>2, <3>1 DEF RunInv
    <3>3. QED
      BY <2>1, <2>2, <3>2
  <2>3. QED
    BY <2>2 DEF ReplayAgrees
<1>2. QED
  BY <1>1, Invariance, PTL

(***************************************************************************)
(* A `from` misses only an aggregate swallowed by a pushed groupBy.        *)
(***************************************************************************)
THEOREM LookupsMissOnlySwallowed == Spec => []LookupMissesOnlySwallowed
<1>1. IInv => LookupMissesOnlySwallowed
  BY DEF IInv
<1>2. QED
  BY <1>1, Invariance, PTL

-------------------------------------------------------------------------------
(***************************************************************************)
(* PipeTail implements LiveReplay.  What a replay has answered is told by  *)
(* its program counter and its kind alone: the rows are the right ones.    *)
(***************************************************************************)
Told(p, k) == CASE p = "idle"    -> "none"
                [] p = "running" -> k
                [] p = "done"    -> IF k = "dry" THEN "preview" ELSE "same rows"
                [] OTHER         -> "failed"

Session == [r \in Replays |-> Told(pc[r], kind[r])]
Shown == [r \in Replays |-> Answer(r)] = Session

LEMMA AnswersTold == IInv => Shown
<1> SUFFICES ASSUME IInv, NEW r \in Replays PROVE Answer(r) = Told(pc[r], kind[r])
  BY DEF Session, Shown
<1>1. ASSUME pc[r] = "done", kind[r] # "dry" PROVE Read(heap, rows[r]) = Read(heap, rows[Exec])
  <2>1. /\ r \in Runs /\ Exec \in Runs /\ Len(pipe) \in Nat
        /\ pc[Exec] = "done" /\ kind[Exec] # "dry"
    BY <1>1, ConstantsAssumption DEF Runs, IInv, KindInv, TypeOK
  <2>2. ASSUME NEW q \in Runs, pc[q] = "done", kind[q] # "dry"
        PROVE  Read(heap, rows[q]) = Len(pipe)
    <3>1. RunInv(q) /\ Live(q)
      BY <2>2 DEF IInv, Live
    <3>2. Read(heap, rows[q]) = at[q] - 1 /\ at[q] = Len(pipe) + 1
      BY <2>2, <3>1 DEF RunInv
    <3>3. QED
      BY <2>1, <3>2
  <2>3. QED
    BY <1>1, <2>1, <2>2
<1>2. QED
  BY <1>1 DEF Answer, Told

(***************************************************************************)
(* The session of a replay follows its program counter.                    *)
(***************************************************************************)
LEMMA SessionMoves ==
    ASSUME NEW r \in Replays, TypeOK,
           \A q \in Replays \ {r} : pc'[q] = pc[q] /\ kind'[q] = kind[q]
    PROVE  Session' = [Session EXCEPT ![r] = Told(pc'[r], kind'[r])]
BY DEF Session

LEMMA SessionStays ==
    ASSUME \A q \in Replays : pc'[q] = pc[q] /\ kind'[q] = kind[q]
    PROVE  Session' = Session
BY DEF Session

(***************************************************************************)
(* A step of the execution begins it or advances it, and calls at most one *)
(* more service, of a later stage.                                         *)
(***************************************************************************)
LEMMA ExecBegins ==
    ASSUME IInv, Refuse \/ Begin
    PROVE  /\ Execution = "none" /\ Execution' \in {"running", "failed"}
           /\ calls' = calls /\ Session' = Session
<1>1. TypeOK /\ Exec \in Runs /\ Exec \notin Replays
  BY ConstantsAssumption DEF IInv, Runs
<1>2. /\ pc[Exec] = "idle" /\ pc'[Exec] \in {"failed", "running"} /\ calls' = calls
      /\ \A q \in Replays : pc'[q] = pc[q] /\ kind'[q] = kind[q]
  BY <1>1 DEF Refuse, Begin, TypeOK, Runs
<1>3. QED
  BY <1>2, SessionStays DEF Execution

LEMMA ExecAdvances ==
    ASSUME IInv, Step(Exec)
    PROVE  /\ Execution = "running" /\ Execution' \in {"running", "answered", "failed"}
           /\ \/ calls' = calls
              \/ \E k \in 1..MaxStages : /\ \A i \in DOMAIN calls : calls[i] < k
                                         /\ calls' = Append(calls, k)
           /\ Session' = Session
<1>1. TypeOK /\ Exec \in Runs /\ Exec \notin Replays
  BY ConstantsAssumption DEF IInv, Runs
<1>2. /\ pc[Exec] = "running" /\ pc'[Exec] \in {"failed", "missing", "running", "done"}
      /\ \A q \in Replays : pc'[q] = pc[q] /\ kind'[q] = kind[q]
  <2>1. ~Mute(Exec)
    BY DEF Mute, Muted
  <2>2. pc[Exec] = "running" /\ kind' = kind
    BY <2>1 DEF Step, LookupFails, Apply, Fail, Finish, AtStage
  <2>3. \E s \in {"failed", "missing", "running", "done"} : pc' = [pc EXCEPT ![Exec] = s]
    <3>1. pc = [pc EXCEPT ![Exec] = "running"]
      BY <1>1, <2>2 DEF TypeOK
    <3>2. QED
      BY <2>1, <3>1 DEF Step, LookupFails, Apply, Fail, Finish
  <2>4. QED
    BY <1>1, <2>2, <2>3 DEF TypeOK, Runs
<1>3. \/ calls' = calls
      \/ calls' = Append(calls, at[Exec]) /\ at[Exec] \in tailStart..Len(pipe)
  BY <1>1 DEF Step, Mute, Muted, LookupFails, Apply, Fail, Finish, AtStage
<1>4. /\ \A i \in DOMAIN calls : calls[i] < at[Exec]
      /\ at[Exec] \in tailStart..Len(pipe) => at[Exec] \in 1..MaxStages
  <2>1. Started /\ Len(pipe) \in 1..MaxStages /\ pipe \in Seq(Stage)
    BY <1>2, ConstantsAssumption DEF Started, IInv, PlanInv, TypeOK
  <2>2. tailStart \in 1..(Len(pipe) + 1)
    BY <2>1, TailStartFacts DEF tailStart
  <2>3. QED
    BY <2>1, <2>2, ConstantsAssumption DEF IInv, CallsInv
<1>5. QED
  BY <1>2, <1>3, <1>4, SessionStays DEF Execution

(***************************************************************************)
(* A step of a replay subscribes it, answers it or shows nothing, and      *)
(* calls no service.                                                       *)
(***************************************************************************)
LEMMA ReplaySubscribes ==
    ASSUME IInv, NEW r \in Replays, ReplaySnapshot(r) \/ ReplayDry(r)
    PROVE  /\ Execution = "answered" /\ Execution' = Execution /\ calls' = calls
           /\ Session[r] = "none"
           /\ \E k \in {"snapshot", "dry"} : Session' = [Session EXCEPT ![r] = k]
<1>1. TypeOK /\ Exec \in Runs /\ r \in Runs /\ Exec # r
  BY ConstantsAssumption DEF IInv, Runs
<1>2. /\ pc[Exec] = "done" /\ pc'[Exec] = pc[Exec] /\ calls' = calls
      /\ pc[r] = "idle" /\ pc'[r] = "running" /\ kind'[r] \in {"snapshot", "dry"}
      /\ \A q \in Replays \ {r} : pc'[q] = pc[q] /\ kind'[q] = kind[q]
  BY <1>1 DEF ReplaySnapshot, ReplayDry, StartReplay, TypeOK, Runs
<1>3. Session' = [Session EXCEPT ![r] = Told(pc'[r], kind'[r])]
  BY <1>1, <1>2, SessionMoves
<1>4. Told(pc'[r], kind'[r]) = kind'[r] /\ Session[r] = "none"
  BY <1>2 DEF Told, Session
<1>5. QED
  BY <1>2, <1>3, <1>4 DEF Execution

LEMMA ReplayMoves ==
    ASSUME IInv, NEW r \in Replays, Step(r)
    PROVE  /\ Execution' = Execution /\ calls' = calls
           /\ \/ Session' = Session
              \/ /\ Session[r] = "snapshot"
                 /\ \E a \in {"same rows", "failed"} : Session' = [Session EXCEPT ![r] = a]
              \/ /\ Session[r] = "dry"
                 /\ \E a \in {"preview", "failed"} : Session' = [Session EXCEPT ![r] = a]
<1>1. TypeOK /\ Exec \in Runs /\ r \in Runs /\ Exec # r
  BY ConstantsAssumption DEF IInv, Runs
<1>2. /\ pc[r] = "running" /\ pc'[r] \in {"running", "done", "failed", "missing"}
      /\ kind' = kind /\ pc'[Exec] = pc[Exec]
      /\ \A q \in Replays \ {r} : pc'[q] = pc[q] /\ kind'[q] = kind[q]
  BY <1>1
  DEF Step, Mute, LookupFails, Apply, Fail, Finish, AtStage, TypeOK, Runs
<1>3. calls' = calls
  BY <1>1 DEF Step, Mute, LookupFails, Apply, Fail, Finish, Muted
<1>4. kind[r] \in {"snapshot", "dry"}
  BY <1>1, <1>2 DEF IInv, KindInv, TypeOK
<1>5. Session' = [Session EXCEPT ![r] = Told(pc'[r], kind[r])]
  BY <1>1, <1>2, SessionMoves
<1>6. Session[r] = kind[r] /\ Session = [Session EXCEPT ![r] = kind[r]]
  BY <1>2 DEF Told, Session
<1>7. Told(pc'[r], kind[r]) \in
        {kind[r], "failed", IF kind[r] = "dry" THEN "preview" ELSE "same rows"}
  BY <1>2 DEF Told
<1>8. QED
  BY <1>2, <1>3, <1>4, <1>5, <1>6, <1>7 DEF Execution

LEMMA StepPromised ==
    ASSUME IInv, [Next]_vars,
           Shown, Shown'
    PROVE  [Promise!Next]_(Promise!vars)
<1>0. /\ [r \in Replays |-> Answer(r)] = Session
      /\ [r \in Replays |-> Answer(r)]' = Session'
  BY DEF Shown
<1>1. CASE Refuse \/ Begin
  <2>1. Promise!Begin
    BY <1>0, <1>1, ExecBegins DEF Promise!Begin
  <2>2. QED
    BY <2>1 DEF Promise!Next
<1>2. CASE Step(Exec)
  <2>1. Promise!Advance
    BY <1>0, <1>2, ExecAdvances DEF Promise!Advance, Promise!CallsAtMostOneLaterStage
  <2>2. QED
    BY <2>1 DEF Promise!Next
<1>3. ASSUME NEW r \in Replays, ReplaySnapshot(r) \/ ReplayDry(r)
      PROVE  [Promise!Next]_(Promise!vars)
  <2>1. Promise!Subscribe(r)
    BY <1>0, <1>3, ReplaySubscribes DEF Promise!Subscribe, Promise!Kinds
  <2>2. QED
    BY <2>1 DEF Promise!Next
<1>4. ASSUME NEW r \in Replays, Step(r) PROVE [Promise!Next]_(Promise!vars)
  <2>1. Promise!AnswerSnapshot(r) \/ Promise!AnswerDry(r) \/ UNCHANGED Promise!vars
    BY <1>0, <1>4, ReplayMoves
    DEF Promise!AnswerSnapshot, Promise!AnswerDry, Promise!vars
  <2>2. QED
    BY <2>1 DEF Promise!Next
<1>5. CASE UNCHANGED vars
  <2>1. Execution' = Execution /\ calls' = calls /\ Session' = Session
    BY <1>5, SessionStays DEF vars, Execution
  <2>2. QED
    BY <1>0, <2>1 DEF Promise!vars
<1>6. QED
  BY <1>1, <1>2, <1>3, <1>4, <1>5 DEF Next, Runs

(***************************************************************************)
(* The executor keeps what LiveReplay promises a subscription: outside     *)
(* services are called once and in stage order, by the execution only, and *)
(* a replay from the snapshot answers with the execution's own rows.       *)
(***************************************************************************)
THEOREM KeepsThePromise == Spec => ImplementsLiveReplay
<1>1. Init => Promise!Init
  <2> SUFFICES ASSUME Init PROVE Promise!Init
    OBVIOUS
  <2>1. Exec \in Runs /\ Replays \subseteq Runs
    BY DEF Runs
  <2>2. Execution = "none" /\ calls = <<>> /\ \A r \in Replays : Answer(r) = "none"
    BY <2>1 DEF Init, Execution, Answer
  <2>3. QED
    BY <2>2 DEF Promise!Init
<1>2. IInv => Shown
  BY AnswersTold
<1>3. IInv' => Shown'
  BY <1>2, PTL
<1>4. IInv /\ IInv' /\ [Next]_vars => [Promise!Next]_(Promise!vars)
  BY <1>2, <1>3, StepPromised
<1>5. QED
  BY <1>1, <1>4, Invariance, PTL DEF Spec, ImplementsLiveReplay, Promise!Spec
===============================================================================
