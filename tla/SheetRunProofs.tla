---------------------------- MODULE SheetRunProofs ----------------------------
(***************************************************************************)
(* Proofs about SheetRun: whatever a sheet declares, a host registers, a   *)
(* delegate answers and the budget is, what one run computes is what its   *)
(* formulas say of the source's rows.                                      *)
(***************************************************************************)
EXTENDS SheetRun, TLAPS, FiniteSetTheorems, SequenceTheorems, WellFoundedInduction,
    NaturalsInduction

(***************************************************************************)
(* The compiler: whatever formulas a sheet declares, the order it accepts  *)
(* is the right one and what it rejects is cyclic.  Its invariant: the     *)
(* in-degrees count the references to formulas that are not sorted; the    *)
(* ready list holds the unsorted formulas that have none.                  *)
(***************************************************************************)
SortedNames == {formulas[i].as : i \in Sorted}
Left(i) == Deps(i) \ SortedNames

Once == \A k, l \in DOMAIN order : order[k] = order[l] => k = l
Degrees == \A i \in Places : inDegree[i] = Cardinality(Left(i))
Ready == ready = {i \in Waiting : Left(i) = {}}
Started == sorter \notin {"declared", "refused"}

DagInv ==
    /\ DagTypeOK
    /\ ~Started => order = <<>>
    /\ Started => Valid(formulas) /\ Once /\ Degrees /\ Ready
    /\ InputsFirst
    /\ EarliestFirst
    /\ sorter \in {"sorted", "cyclic"} => ready = {}
    /\ sorter = "sorted" => Len(order) = Len(formulas)
    /\ sorter = "cyclic" => Len(order) # Len(formulas)

-------------------------------------------------------------------------------
(***************************************************************************)
(* Places are finitely many, and so are the formulas each refers to.       *)
(***************************************************************************)
LEMMA FormulasType ==
    ASSUME formulas \in Declarations
    PROVE  /\ formulas \in Seq(Formula)
           /\ Places = 1..Len(formulas)
           /\ Len(formulas) \in Nat
           /\ \A i \in Places : formulas[i].as \in Names
           /\ \A i \in Places : formulas[i].refs \subseteq Names
  <1>1. formulas \in Seq(Formula)
    BY DeclarationsAssumption
  <1>2. \A i \in 1..Len(formulas) : formulas[i] \in Formula
    BY <1>1
  <1> QED
    BY <1>1, <1>2 DEF Formula, Places

LEMMA DepsFinite ==
    ASSUME formulas \in Declarations, NEW i \in Places
    PROVE  /\ IsFiniteSet(Deps(i))
           /\ IsFiniteSet(Left(i))
           /\ Cardinality(Left(i)) \in Nat
           /\ Cardinality(Left(i)) = 0 <=> Left(i) = {}
  <1>1. Deps(i) \in SUBSET Names /\ Left(i) \in SUBSET Names
    BY FormulasType DEF Deps, Left
  <1>2. IsFiniteSet(Names)
    BY DeclarationsAssumption
  <1>3. IsFiniteSet(Deps(i)) /\ IsFiniteSet(Left(i))
    BY <1>1, <1>2, FS_Subset
  <1> QED
    BY <1>3, FS_CardinalityType, FS_EmptySet

(***************************************************************************)
(* An order without repetitions is as long as the declaration if and only  *)
(* if it sorts every place.                                                *)
(***************************************************************************)
LEMMA WholeWhenAsLong ==
    ASSUME formulas \in Declarations, order \in Seq(Places), Once
    PROVE  Len(order) = Len(formulas) <=> Sorted = Places
  <1> DEFINE I == 1..Len(order)
  <1>1. Len(order) \in Nat /\ I = DOMAIN order /\ order \in [I -> Places]
    OBVIOUS
  <1>2. order \in Injection(I, Places)
    BY <1>1 DEF Injection, IsInjective, Once
  <1>3. /\ IsFiniteSet(I) /\ Cardinality(I) = Len(order)
        /\ IsFiniteSet(Places) /\ Cardinality(Places) = Len(formulas)
    <2>1. IsFiniteSet(I) /\ Cardinality(I) = Len(order)
      BY <1>1, FS_Interval
    <2>2. Places = 1..Len(formulas) /\ Len(formulas) \in Nat
      BY FormulasType
    <2>3. ASSUME NEW n \in Nat
          PROVE  IsFiniteSet(1..n) /\ Cardinality(1..n) = n
      BY FS_Interval
    <2> QED
      BY <2>1, <2>2, <2>3
  <1>4. Cardinality(I) = Cardinality(Places) <=> order \in Surjection(I, Places)
    BY <1>2, <1>3, FS_Injection
  <1>5. order \in Surjection(I, Places) <=> Sorted = Places
    BY <1>1 DEF Surjection, Sorted
  <1> QED
    BY <1>3, <1>4, <1>5

(***************************************************************************)
(* Of a nonempty set of places one comes first.                            *)
(***************************************************************************)
LEMMA FirstOfPlaces ==
    ASSUME formulas \in Declarations, NEW S \in SUBSET Places, S # {}
    PROVE  First(S) \in S /\ \A j \in S : First(S) <= j
  <1>1. S \subseteq Nat
    BY FormulasType
  <1>2. \E i \in S : \A j \in S : ~ (<<j, i>> \in OpToRel(<, Nat))
    BY <1>1, NatLessThanWellFounded, WFMin
  <1>3. OpToRel(<, Nat) = {p \in Nat \X Nat : p[1] < p[2]}
    BY DEF OpToRel
  <1>4. PICK i \in S : \A j \in S : ~ (<<j, i>> \in {p \in Nat \X Nat : p[1] < p[2]})
    BY <1>2, <1>3
  <1>5. \A j \in S : ~ (j < i)
    BY <1>1, <1>4
  <1>6. \A j \in S : i <= j
    BY <1>1, <1>5
  <1> QED
    BY <1>6 DEF First
-------------------------------------------------------------------------------
(***************************************************************************)
(* What sorting one more place i changes.                                  *)
(***************************************************************************)
LEMMA Sorting ==
    ASSUME DagTypeOK, NEW i \in Places,
           formulas' = formulas, order' = Append(order, i)
    PROVE  /\ order' \in Seq(Places)
           /\ Len(order') = Len(order) + 1
           /\ DOMAIN order' = 1..(Len(order) + 1)
           /\ DOMAIN order = 1..Len(order)
           /\ order'[Len(order) + 1] = i
           /\ \A k \in DOMAIN order : order'[k] = order[k]
           /\ Sorted' = Sorted \cup {i}
           /\ SortedNames' = SortedNames \cup {formulas[i].as}
           /\ \A k \in DOMAIN order : Before(k)' = Before(k)
           /\ \A k : k = Len(order) + 1 => Before(k)' = Sorted
  <1>1. order \in Seq(Places) /\ Len(order) \in Nat
    BY DEF DagTypeOK
  <1>2. /\ order' \in Seq(Places)
        /\ Len(order') = Len(order) + 1
        /\ DOMAIN order' = 1..(Len(order) + 1)
        /\ DOMAIN order = 1..Len(order)
        /\ order'[Len(order) + 1] = i
        /\ \A k \in DOMAIN order : order'[k] = order[k]
    BY <1>1
  <1>3. Sorted' = Sorted \cup {i}
    BY <1>1, <1>2 DEF Sorted
  <1>4. SortedNames' = SortedNames \cup {formulas[i].as}
    BY <1>3 DEF SortedNames
  <1>5. \A k \in DOMAIN order : Before(k)' = Before(k)
    BY <1>1, <1>2 DEF Before
  <1>6. ASSUME NEW k, k = Len(order) + 1
        PROVE  Before(k)' = Sorted
    <2>1. k - 1 = Len(order)
      BY <1>1, <1>6
    <2>2. Before(k)' = {order'[l] : l \in 1..Len(order)}
      BY <2>1 DEF Before
    <2>3. {order'[l] : l \in 1..Len(order)} = {order[l] : l \in 1..Len(order)}
      BY <1>2
    <2> QED
      BY <1>2, <2>2, <2>3 DEF Sorted
  <1> QED
    BY <1>2, <1>3, <1>4, <1>5, <1>6

(***************************************************************************)
(* The names of different places differ, so an unsorted place has none of  *)
(* the names sorted.                                                       *)
(***************************************************************************)
LEMMA Fresh ==
    ASSUME Valid(formulas), DagTypeOK, NEW i \in Waiting
    PROVE  i \in Places /\ formulas[i].as \notin SortedNames
  <1>1. Sorted \subseteq Places
    BY DEF DagTypeOK, Sorted
  <1> QED
    BY <1>1 DEF Valid, SortedNames, Waiting, Places

(***************************************************************************)
(* Taking place i lowers the in-degree of its dependents by one, and only  *)
(* theirs, and frees those for which nothing else is left.                 *)
(***************************************************************************)
LEMMA Decrement ==
    ASSUME DagInv, Started, NEW i \in ready, formulas' = formulas,
           order' = Append(order, i), NEW j \in Places
    PROVE  /\ Left(j)' = Left(j) \ {formulas[i].as}
           /\ j \in Dependents(i) <=> formulas[i].as \in Left(j)
           /\ Cardinality(Left(j)') =
                IF j \in Dependents(i) THEN inDegree[j] - 1 ELSE inDegree[j]
           /\ j \in Freed(i) <=> j \in Dependents(i) /\ Left(j)' = {}
  <1>1. /\ formulas \in Declarations /\ Valid(formulas) /\ DagTypeOK
        /\ i \in Waiting /\ i \in Places /\ Left(i) = {}
        /\ inDegree[j] = Cardinality(Left(j))
    BY DEF DagInv, DagTypeOK, Ready, Degrees, Waiting
  <1>2. SortedNames' = SortedNames \cup {formulas[i].as}
    BY <1>1, Sorting
  <1>3. Deps(j)' = Deps(j)
    BY DEF Deps, FormulaNames
  <1>4. Left(j)' = Left(j) \ {formulas[i].as}
    BY <1>2, <1>3 DEF Left
  <1>5. formulas[i].as \in FormulaNames /\ formulas[i].as \notin SortedNames
    BY <1>1, Fresh DEF FormulaNames, NamesIn, Places
  <1>6. j \in Dependents(i) <=> formulas[i].as \in Left(j)
    BY <1>5 DEF Dependents, Left, Deps
  <1>7. /\ IsFiniteSet(Left(j)) /\ Cardinality(Left(j)) \in Nat
        /\ Cardinality(Left(j)') =
             IF formulas[i].as \in Left(j) THEN Cardinality(Left(j)) - 1
             ELSE Cardinality(Left(j))
    BY <1>1, <1>4, DepsFinite, FS_RemoveElement
  <1>8. /\ IsFiniteSet(Left(j)')
        /\ Cardinality(Left(j)') = 0 <=> Left(j)' = {}
    <2>1. IsFiniteSet(Left(j) \ {formulas[i].as})
      BY <1>7, FS_RemoveElement
    <2>2. Cardinality(Left(j) \ {formulas[i].as}) = 0 <=> Left(j) \ {formulas[i].as} = {}
      BY <2>1, FS_EmptySet
    <2> QED
      BY <1>4, <2>1, <2>2
  <1>9. j \in Freed(i) <=> j \in Dependents(i) /\ Left(j)' = {}
    BY <1>1, <1>6, <1>7, <1>8 DEF Freed
  <1> QED
    BY <1>1, <1>4, <1>6, <1>7, <1>9
-------------------------------------------------------------------------------
(***************************************************************************)
(* Every step of the compilation keeps the invariant.                      *)
(***************************************************************************)
LEMMA InitInv ==
    ASSUME DagInit
    PROVE  DagInv
  <1>1. DagTypeOK
    BY DEF DagInit, DagTypeOK
  <1>2. order = <<>> /\ ~Started /\ sorter = "declared" /\ DOMAIN order = {}
    BY DEF DagInit, Started
  <1>3. InputsFirst /\ EarliestFirst
    BY <1>2 DEF InputsFirst, EarliestFirst
  <1> QED
    BY <1>1, <1>2, <1>3 DEF DagInv

LEMMA CountEdgesInv ==
    ASSUME DagInv, CountEdges
    PROVE  DagInv'
  <1>1. /\ formulas' = formulas /\ order' = order /\ order = <<>>
        /\ sorter' = "sorting" /\ Valid(formulas) /\ formulas \in Declarations
        /\ DOMAIN order = {}
        /\ inDegree' = [i \in Places |-> Cardinality(Deps(i))]
        /\ ready' = {i \in Places : Deps(i) = {}}
    BY DEF DagInv, DagTypeOK, CountEdges, Started
  <1>2. Sorted' = {} /\ SortedNames' = {} /\ Places' = Places /\ Waiting' = Places
    BY <1>1 DEF Sorted, SortedNames, Waiting, Places
  <1>3. ASSUME NEW i \in Places
        PROVE  /\ Left(i)' = Deps(i)
               /\ IsFiniteSet(Deps(i)) /\ Cardinality(Deps(i)) \in Nat
    <2>1. Left(i)' = Deps(i)
      BY <1>1, <1>2 DEF Left, Deps, FormulaNames
    <2> QED
      BY <1>1, <2>1, DepsFinite, FS_CardinalityType
  <1>4. DagTypeOK'
    BY <1>1, <1>2, <1>3 DEF DagTypeOK, Places
  <1>5. Once' /\ InputsFirst' /\ EarliestFirst'
    BY <1>1 DEF Once, InputsFirst, EarliestFirst
  <1>6. Degrees' /\ Ready'
    BY <1>1, <1>2, <1>3 DEF Degrees, Ready
  <1> QED
    BY <1>1, <1>4, <1>5, <1>6 DEF DagInv, Started, Valid

LEMMA TakeFirstInv ==
    ASSUME DagInv, sorter = "sorting", NEW i \in ready,
           \A j \in ready : i <= j,
           order' = Append(order, i),
           inDegree' = [j \in Places |-> IF j \in Dependents(i)
                                         THEN inDegree[j] - 1 ELSE inDegree[j]],
           ready' = (ready \ {i}) \cup Freed(i),
           UNCHANGED <<formulas, sorter>>
    PROVE  DagInv'
  <1>1. /\ DagTypeOK /\ Started /\ Valid(formulas) /\ Once /\ Degrees /\ Ready
        /\ InputsFirst /\ EarliestFirst
        /\ formulas \in Declarations /\ formulas' = formulas /\ Places' = Places
        /\ i \in Places /\ i \in Waiting /\ Left(i) = {}
    BY DEF DagInv, DagTypeOK, Started, Ready, Waiting, Places
  <1>2. ASSUME NEW j \in Places
        PROVE  /\ Left(j)' = Left(j) \ {formulas[i].as}
               /\ j \in Dependents(i) <=> formulas[i].as \in Left(j)
               /\ inDegree'[j] = Cardinality(Left(j)')
               /\ j \in Freed(i) <=> j \in Dependents(i) /\ Left(j)' = {}
               /\ Deps(j)' = Deps(j)
    BY <1>1, Decrement DEF Deps, FormulaNames
  <1>3. /\ order' \in Seq(Places)
        /\ Len(order') = Len(order) + 1
        /\ DOMAIN order' = 1..(Len(order) + 1)
        /\ DOMAIN order = 1..Len(order)
        /\ order'[Len(order) + 1] = i
        /\ \A k \in DOMAIN order : order'[k] = order[k]
        /\ Sorted' = Sorted \cup {i}
        /\ SortedNames' = SortedNames \cup {formulas[i].as}
        /\ \A k \in DOMAIN order : Before(k)' = Before(k)
        /\ \A k : k = Len(order) + 1 => Before(k)' = Sorted
    BY <1>1, Sorting
  <1> DEFINE n == Len(order) + 1
  <1>4. /\ \A k \in DOMAIN order' : k \in DOMAIN order \/ k = n
        /\ \A k \in DOMAIN order : order[k] \in Sorted
        /\ i \notin Sorted /\ Sorted \subseteq Places
    BY <1>1, <1>3 DEF Sorted, Waiting, DagTypeOK
  <1>5. DagTypeOK'
    <2>1. ASSUME NEW j \in Places
          PROVE  inDegree'[j] \in Nat
      <3>1. IsFiniteSet(Left(j) \ {formulas[i].as})
        BY <1>1, DepsFinite, FS_RemoveElement
      <3> QED
        BY <1>2, <3>1, FS_CardinalityType
    <2>2. inDegree' \in [Places -> Nat]
      BY <2>1
    <2>3. ready' \subseteq Places
      BY <1>1 DEF DagTypeOK, Freed, Dependents
    <2> QED
      BY <1>1, <1>3, <2>2, <2>3 DEF DagTypeOK
  <1>6. Once'
    BY <1>1, <1>3, <1>4 DEF Once
  <1>7. Degrees'
    BY <1>1, <1>2 DEF Degrees
  <1>8. Ready'
    <2>1. Waiting' = Waiting \ {i}
      BY <1>1, <1>3 DEF Waiting
    <2>2. ASSUME NEW j \in Places
          PROVE  j \in ready' <=> j \in Waiting' /\ Left(j)' = {}
      <3>1. CASE j \in Sorted
        <4>1. Left(j) = {}
          <5>1. PICK k \in DOMAIN order : order[k] = j
            BY <3>1 DEF Sorted
          <5>2. \A m \in Deps(j) : \E l \in Before(k) : formulas[l].as = m
            BY <1>1, <5>1 DEF InputsFirst
          <5>3. Before(k) \subseteq Sorted
            BY <1>3, <5>1 DEF Before, Sorted
          <5> QED
            BY <5>2, <5>3 DEF Left, SortedNames
        <4>2. j \notin Freed(i)
          BY <1>2, <4>1
        <4> QED
          BY <1>1, <2>1, <3>1, <4>2 DEF Ready, Waiting
      <3>2. CASE j = i
        BY <1>1, <1>2, <2>1, <3>2
      <3>3. CASE j \in Waiting /\ j # i
        <4>1. j \in ready <=> Left(j) = {}
          BY <1>1, <3>3 DEF Ready
        <4> QED
          BY <1>2, <2>1, <3>3, <4>1
      <3> QED
        BY <3>1, <3>2, <3>3 DEF Waiting
    <2>3. ready' \subseteq Places /\ Waiting' \subseteq Places
      BY <1>1, <1>5 DEF DagTypeOK, Waiting
    <2> QED
      BY <2>2, <2>3 DEF Ready
  <1>9. InputsFirst'
    <2> SUFFICES ASSUME NEW k \in DOMAIN order'
                 PROVE  /\ order'[k] \notin Before(k)'
                        /\ \A m \in Deps(order[k])' :
                              \E l \in Before(k)' : formulas'[l].as = m
      BY DEF InputsFirst
    <2>1. CASE k \in DOMAIN order
      <3>1. order'[k] = order[k] /\ Before(k)' = Before(k) /\ order[k] \in Places
        BY <1>3, <1>4, <2>1
      <3>2. Deps(order[k])' = Deps(order[k])
        BY <1>1, <3>1 DEF Deps, FormulaNames
      <3> QED
        BY <1>1, <2>1, <3>1, <3>2 DEF InputsFirst
    <2>2. CASE k = n
      <3>1. order'[k] = i /\ Before(k)' = Sorted
        BY <1>3, <2>2
      <3>2. Deps(order[k])' = Deps(i)
        BY <1>1, <3>1 DEF Deps, FormulaNames
      <3>3. \A m \in Deps(i) : \E l \in Sorted : formulas[l].as = m
        BY <1>1 DEF Left, SortedNames
      <3> QED
        BY <1>4, <3>1, <3>2, <3>3
    <2> QED
      BY <1>4, <2>1, <2>2
  <1>10. EarliestFirst'
    <2> SUFFICES ASSUME NEW k \in DOMAIN order', NEW j \in Places,
                        j < order'[k], j \notin Before(k)'
                 PROVE  \E m \in Deps(j) : \A l \in Before(k)' : formulas[l].as # m
      BY <1>1, <1>2 DEF EarliestFirst
    <2>1. CASE k \in DOMAIN order
      BY <1>1, <1>3, <2>1 DEF EarliestFirst
    <2>2. CASE k = n
      <3>1. order'[k] = i /\ Before(k)' = Sorted
        BY <1>3, <2>2
      <3>2. j \notin ready
        BY <1>1, <3>1, FormulasType
      <3>3. j \in Waiting
        BY <3>1 DEF Waiting
      <3>4. PICK m \in Left(j) : TRUE
        BY <1>1, <3>2, <3>3 DEF Ready
      <3> QED
        BY <3>1, <3>4 DEF Left, SortedNames
    <2> QED
      BY <1>4, <2>1, <2>2
  <1> QED
    BY <1>1, <1>5, <1>6, <1>7, <1>8, <1>9, <1>10 DEF DagInv, Started
LEMMA KeptWhenUnchanged ==
    ASSUME UNCHANGED <<formulas, inDegree, ready, order>>
    PROVE  /\ Once => Once'
           /\ Degrees => Degrees'
           /\ Ready => Ready'
           /\ InputsFirst => InputsFirst'
           /\ EarliestFirst => EarliestFirst'
           /\ DagTypeOK /\ sorter' \in {"declared", "sorting", "sorted", "cyclic",
                                        "refused"} => DagTypeOK'
  <1>1. /\ Sorted' = Sorted /\ Places' = Places /\ FormulaNames' = FormulaNames
        /\ \A i : Deps(i)' = Deps(i)
        /\ \A k : Before(k)' = Before(k)
    BY DEF Sorted, Places, FormulaNames, Deps, Before
  <1>2. SortedNames' = SortedNames /\ Waiting' = Waiting /\ \A i : Left(i)' = Left(i)
    BY <1>1 DEF SortedNames, Waiting, Left
  <1> QED
    BY <1>1, <1>2 DEF Once, Degrees, Ready, InputsFirst, EarliestFirst, DagTypeOK

LEMMA StepInv ==
    ASSUME DagInv, [Sort]_dagVars
    PROVE  DagInv'
  <1>1. CASE RefuseFormulas
    <2>1. /\ formulas' = formulas /\ order' = order /\ order = <<>> /\ ready' = ready
          /\ inDegree' = inDegree /\ sorter' = "refused" /\ DagTypeOK
          /\ InputsFirst /\ EarliestFirst
      BY <1>1 DEF DagInv, RefuseFormulas, Started
    <2>2. InputsFirst' /\ EarliestFirst'
      BY <2>1 DEF InputsFirst, EarliestFirst
    <2> QED
      BY <2>1, <2>2 DEF DagInv, DagTypeOK, Started, Places
  <1>2. CASE CountEdges
    BY <1>2, CountEdgesInv
  <1>3. CASE TakeFirst
    <2> DEFINE i == First(ready)
    <2>1. formulas \in Declarations /\ ready \in SUBSET Places /\ ready # {}
      BY <1>3 DEF DagInv, DagTypeOK, TakeFirst
    <2>2. i \in ready /\ \A j \in ready : i <= j
      BY <2>1, FirstOfPlaces
    <2>3. /\ sorter = "sorting"
          /\ order' = Append(order, i)
          /\ inDegree' = [j \in Places |-> IF j \in Dependents(i)
                                           THEN inDegree[j] - 1 ELSE inDegree[j]]
          /\ ready' = (ready \ {i}) \cup Freed(i)
          /\ UNCHANGED <<formulas, sorter>>
      BY <1>3 DEF TakeFirst
    <2> HIDE DEF i
    <2> QED
      BY <2>2, <2>3, TakeFirstInv
  <1>4. CASE Accept \/ ReportCycle
    <2>1. /\ UNCHANGED <<formulas, inDegree, ready, order>>
          /\ sorter = "sorting" /\ ready = {}
          /\ \/ sorter' = "sorted" /\ Len(order) = Len(formulas)
             \/ sorter' = "cyclic" /\ Len(order) # Len(formulas)
      BY <1>4 DEF Accept, ReportCycle
    <2>2. /\ DagTypeOK /\ Valid(formulas) /\ Once /\ Degrees /\ Ready
          /\ InputsFirst /\ EarliestFirst
      BY <2>1 DEF DagInv, Started
    <2>3. Once' /\ Degrees' /\ Ready' /\ InputsFirst' /\ EarliestFirst' /\ DagTypeOK'
      BY <2>1, <2>2, KeptWhenUnchanged
    <2> QED
      BY <2>1, <2>2, <2>3 DEF DagInv, Started, Valid
  <1>5. CASE UNCHANGED dagVars
    <2>1. UNCHANGED <<formulas, sorter, inDegree, ready, order>>
      BY <1>5 DEF dagVars
    <2>2. sorter' \in {"declared", "sorting", "sorted", "cyclic", "refused"} /\ DagTypeOK
      BY <2>1 DEF DagInv, DagTypeOK
    <2>3. /\ Once => Once'
          /\ Degrees => Degrees'
          /\ Ready => Ready'
          /\ InputsFirst => InputsFirst'
          /\ EarliestFirst => EarliestFirst'
          /\ DagTypeOK'
      BY <2>1, <2>2, KeptWhenUnchanged
    <2> QED
      BY <2>1, <2>3 DEF DagInv, Started, Valid
  <1> QED
    BY <1>1, <1>2, <1>3, <1>4, <1>5 DEF Sort

-------------------------------------------------------------------------------
(***************************************************************************)
(* The invariant holds throughout.                                         *)
(***************************************************************************)
THEOREM DagInvariance == DagSpec => []DagInv
  <1>1. DagInit => DagInv
    BY InitInv
  <1>2. DagInv /\ [Sort]_dagVars => DagInv'
    BY StepInv
  <1> QED
    BY <1>1, <1>2, PTL DEF DagSpec
(***************************************************************************)
(* What the invariant says of a sheet that was accepted and of one that    *)
(* was not.                                                                *)
(***************************************************************************)
LEMMA AcceptedOrRejected ==
    ASSUME DagInv
    PROVE  AcceptedWhole /\ RejectedForCycle
  <1>1. DagTypeOK /\ formulas \in Declarations /\ order \in Seq(Places)
    BY DEF DagInv, DagTypeOK
  <1>2. AcceptedWhole
    BY <1>1, WholeWhenAsLong DEF DagInv, Started, AcceptedWhole
  <1>3. ASSUME sorter = "cyclic"
        PROVE  /\ Stuck = Waiting
               /\ Stuck # {}
               /\ \A i \in Stuck : \E j \in Stuck : formulas[j].as \in Deps(i)
    <2>1. /\ Once /\ Degrees /\ Ready /\ InputsFirst
          /\ ready = {} /\ Len(order) # Len(formulas)
      BY <1>3 DEF DagInv, Started
    <2>2. ASSUME NEW i \in Places
          PROVE  i \in Stuck <=> Left(i) # {}
      BY <1>1, <2>1, <2>2, DepsFinite DEF Stuck, Degrees
    <2>3. ASSUME NEW i \in Sorted
          PROVE  Left(i) = {}
      <3>1. PICK k \in DOMAIN order : order[k] = i
        BY <2>3 DEF Sorted
      <3>2. Before(k) \subseteq Sorted
        BY <1>1, <3>1 DEF Before, Sorted
      <3> QED
        BY <2>1, <3>1, <3>2 DEF InputsFirst, Left, SortedNames
    <2>4. \A i \in Waiting : Left(i) # {}
      BY <2>1 DEF Ready
    <2>5. Stuck = Waiting
      BY <2>2, <2>3, <2>4 DEF Stuck, Waiting
    <2>6. Stuck # {}
      BY <1>1, <2>1, <2>5, WholeWhenAsLong DEF Waiting, Sorted
    <2>7. ASSUME NEW i \in Stuck
          PROVE  \E j \in Stuck : formulas[j].as \in Deps(i)
      <3>1. PICK n \in Left(i) : TRUE
        BY <2>4, <2>5
      <3>2. n \in Deps(i) /\ n \in FormulaNames /\ n \notin SortedNames
        BY <3>1 DEF Left, Deps
      <3>3. PICK j \in Places : formulas[j].as = n
        BY <3>2 DEF FormulaNames, NamesIn, Places
      <3>4. j \in Waiting
        BY <3>2, <3>3 DEF SortedNames, Waiting
      <3> QED
        BY <2>5, <3>2, <3>3, <3>4
    <2> QED
      BY <2>5, <2>6, <2>7
  <1> QED
    BY <1>2, <1>3 DEF RejectedForCycle

(***************************************************************************)
(* Every formula is sorted once and behind what it refers to.              *)
(***************************************************************************)
THEOREM OrderIsRight == DagSpec => []InputsFirst
  <1>1. DagInv => InputsFirst
    BY DEF DagInv
  <1> QED
    BY <1>1, DagInvariance, PTL

(***************************************************************************)
(* Among formulas that could come next the earliest declared does.         *)
(***************************************************************************)
THEOREM OrderIsPredictable == DagSpec => []EarliestFirst
  <1>1. DagInv => EarliestFirst
    BY DEF DagInv
  <1> QED
    BY <1>1, DagInvariance, PTL

(***************************************************************************)
(* An accepted sheet has every formula in its order; a sheet rejected for  *)
(* a cycle has one, among the formulas the error tells of.                 *)
(***************************************************************************)
THEOREM VerdictIsRight == DagSpec => []RightVerdict
  <1>1. DagInv => RightVerdict
    BY AcceptedOrRejected DEF RightVerdict
  <1> QED
    BY <1>1, DagInvariance, PTL

-------------------------------------------------------------------------------
(***************************************************************************)
(* The run of a compiled sheet.  Its invariant, in parts.  The rows and    *)
(* the host's kernels:                                                     *)
(***************************************************************************)
SourceKept ==
    \A c \in Names \ FormulaNames : cell[c] = IF c \in Source THEN 0 ELSE Absent

HostsKernels ==
    /\ DOMAIN registry \cap DOMAIN Builtins = {}
    /\ \A name \in DOMAIN registry :
          \E k \in Offers : k.name = name /\ k.push = registry[name]

(***************************************************************************)
(* Every reference is to a formula or to a column of the source.           *)
(***************************************************************************)
Resolved ==
    \A i \in Places : formulas[i].refs \subseteq FormulaNames \cup Source

Answers ==
    /\ DOMAIN answered \subseteq Delegable
    /\ \A i \in DOMAIN answered : answered[i] = PushdownName(i)

(***************************************************************************)
(* The loop has done the formulas before the one it is at: a column is in  *)
(* the rows, a reduce among the scalars, and no kernel was over a scalar.  *)
(***************************************************************************)
OverScalarAt(i) ==
    /\ IsKernel(i)
    /\ \E j \in Places : /\ formulas[j].kind = "reduce"
                         /\ formulas[j].as \in formulas[i].refs
Behind ==
    /\ at \in 1..(Len(order) + 1)
    /\ \A i \in Before(at) :
          /\ formulas[i].kind = "column" => cell[formulas[i].as] = run
          /\ formulas[i].kind = "reduce" => formulas[i].as \in scalars
          /\ ~OverScalarAt(i)
    /\ \A n \in scalars :
          \E i \in Before(at) : formulas[i].kind = "reduce" /\ formulas[i].as = n

(***************************************************************************)
(* A column that no formula still to come will write.                      *)
(***************************************************************************)
Settled(c) == c \in FormulaNames => \E i \in Before(at) : formulas[i].as = c
CacheSettled ==
    /\ \A c \in DOMAIN columns : columns[c] = cell[c] /\ Settled(c)
    /\ \A c \in DOMAIN spill.index : spill.index[c] = cell[c] /\ Settled(c)

(***************************************************************************)
(* What the columns held and the file are in every state.                  *)
(***************************************************************************)
CacheHeld ==
    /\ Written(columns)
    /\ held \in Seq(Names)
    /\ bytes \in Nat
    /\ budget = 0 => held = <<>>
    /\ BudgetKept

FileKept ==
    /\ spill.open \in BOOLEAN
    /\ Written(spill.index)
    /\ spill.open => budget # 0
    /\ pc # "running" => spill = NoFile

RunInv ==
    /\ DagInv
    /\ TypeOK
    /\ pc = "idle" => answered = Nothing
    /\ pc # "idle" => sorter = "sorted"
    /\ SourceKept
    /\ HostsKernels
    /\ Answers
    /\ pc \in {"running", "done"} => Resolved
    /\ pc = "running" => Behind /\ CacheSettled
    /\ ReadsFinal
    /\ CacheHeld
    /\ FileKept
    /\ WholeSheet
    /\ pc = "done" => ~OverScalar
    /\ policy = "null" /\ err = "formula" => OverScalar

-------------------------------------------------------------------------------
(***************************************************************************)
(* Functions put over one another.                                         *)
(***************************************************************************)
LEMMA WithEntry ==
    ASSUME NEW h, NEW c, NEW w
    PROVE  With(h, c, w) = [d \in DOMAIN h \cup {c} |-> IF d = c THEN w ELSE h[d]]
  BY DEF With, Over

(***************************************************************************)
(* Sizes add up: the bytes of two sets of columns that share none, and of  *)
(* one column.                                                             *)
(***************************************************************************)
LEMMA UpTo ==
    ASSUME NEW n \in Nat
    PROVE  IsFiniteSet(1..n) /\ Cardinality(1..n) = n
  BY FS_Interval

LEMMA BytesFinite ==
    ASSUME NEW C \in SUBSET Names
    PROVE  IsFiniteSet(BytesOf(C)) /\ Cardinality(BytesOf(C)) \in Nat
  <1> DEFINE S == {1..Size[c] : c \in C}
             image == [c \in C |-> 1..Size[c]]
  <1>1. IsFiniteSet(C)
    BY DeclarationsAssumption, FS_Subset
  <1>2. image \in Surjection(C, S)
    BY DEF Surjection
  <1>3. IsFiniteSet(S)
    BY <1>1, <1>2, FS_Surjection
  <1>4. \A T \in S : IsFiniteSet(T)
    <2>1. ASSUME NEW c \in C
          PROVE  IsFiniteSet(1..Size[c])
      <3>1. Size[c] \in Nat
        BY RunAssumption
      <3> QED
        BY <3>1, UpTo
    <2> QED
      BY <2>1
  <1>5. IsFiniteSet(UNION S)
    BY <1>3, <1>4, FS_UNION
  <1>6. IsFiniteSet(C \X UNION S)
    BY <1>1, <1>5, FS_Product
  <1>7. BytesOf(C) \subseteq C \X UNION S
    BY DEF BytesOf
  <1>8. IsFiniteSet(BytesOf(C))
    BY <1>6, <1>7, FS_Subset
  <1> QED
    BY <1>8, FS_CardinalityType

LEMMA BytesAdd ==
    ASSUME NEW C \in SUBSET Names, NEW D \in SUBSET Names, C \cap D = {}
    PROVE  Cardinality(BytesOf(C \cup D)) =
               Cardinality(BytesOf(C)) + Cardinality(BytesOf(D))
  <1>1. \A c \in Names : Size[c] \in Nat
    BY RunAssumption
  <1>2. ASSUME NEW B \in SUBSET Names, NEW e
        PROVE  e \in BytesOf(B) <=> e \in Names \X Nat /\ e[1] \in B /\ e[2] \in 1..Size[e[1]]
    BY <1>1 DEF BytesOf
  <1>3. BytesOf(C \cup D) = BytesOf(C) \cup BytesOf(D)
    BY <1>2, Zenon
  <1>4. BytesOf(C) \cap BytesOf(D) = {}
    BY <1>2
  <1>5. /\ IsFiniteSet(BytesOf(C)) /\ Cardinality(BytesOf(C)) \in Nat
        /\ IsFiniteSet(BytesOf(D)) /\ Cardinality(BytesOf(D)) \in Nat
    BY BytesFinite
  <1>6. Cardinality(BytesOf(C) \cup BytesOf(D)) =
            Cardinality(BytesOf(C)) + Cardinality(BytesOf(D))
                - Cardinality(BytesOf(C) \cap BytesOf(D))
    BY <1>5, FS_Union
  <1>7. Cardinality(BytesOf(C) \cap BytesOf(D)) = 0
    BY <1>4, FS_EmptySet
  <1> QED
    BY <1>3, <1>5, <1>6, <1>7

LEMMA BytesOfOne ==
    ASSUME NEW c \in Names
    PROVE  Cardinality(BytesOf({c})) = Size[c] /\ Size[c] \in Nat
  <1>1. Size[c] \in Nat
    BY RunAssumption
  <1>2. BytesOf({c}) = {c} \X (1..Size[c])
    BY <1>1 DEF BytesOf
  <1>3. IsFiniteSet({c}) /\ Cardinality({c}) = 1
    BY FS_Singleton
  <1>4. IsFiniteSet(1..Size[c]) /\ Cardinality(1..Size[c]) = Size[c]
    BY <1>1, UpTo
  <1>5. Cardinality({c} \X (1..Size[c])) = Cardinality({c}) * Cardinality(1..Size[c])
    BY <1>3, <1>4, FS_Product
  <1>6. Cardinality({c} \X (1..Size[c])) = 1 * Size[c]
    BY <1>3, <1>4, <1>5, Zenon
  <1>7. \A n \in Nat : 1 * n = n
    OBVIOUS
  <1> QED
    BY <1>1, <1>2, <1>6, <1>7

-------------------------------------------------------------------------------
(***************************************************************************)
(* The columns in h are each there once.                                   *)
(***************************************************************************)
Distinct(h) == \A k, l \in DOMAIN h : h[k] = h[l] => k = l

LEMMA DistinctCounts ==
    ASSUME NEW h \in Seq(Names)
    PROVE  /\ Range(h) \subseteq Names
           /\ Distinct(h) <=> Cardinality(Range(h)) = Len(h)
  <1> DEFINE I == 1..Len(h)
  <1>1. Len(h) \in Nat /\ I = DOMAIN h /\ \A i \in I : h[i] \in Names
    OBVIOUS
  <1>2. h \in Surjection(I, Range(h))
    BY <1>1 DEF Surjection, Range
  <1>3. IsFiniteSet(I) /\ Cardinality(I) = Len(h)
    BY <1>1, UpTo
  <1>4. Cardinality(Range(h)) = Cardinality(I) <=> h \in Injection(I, Range(h))
    BY <1>2, <1>3, FS_Surjection
  <1>5. h \in Injection(I, Range(h)) <=> Distinct(h)
    BY <1>1, <1>2 DEF Injection, IsInjective, Surjection, Distinct
  <1> QED
    BY <1>1, <1>3, <1>4, <1>5 DEF Range

(***************************************************************************)
(* Touching a resident column only moves it; a new one is added.           *)
(***************************************************************************)
LEMMA TouchedResident ==
    ASSUME NEW h \in Seq(Names), NEW c \in Range(h), Distinct(h)
    PROVE  /\ Touched(h, c) \in Seq(Names)
           /\ Range(Touched(h, c)) = Range(h)
           /\ Len(Touched(h, c)) = Len(h)
           /\ Distinct(Touched(h, c))
  <1>1. PICK i \in DOMAIN h : h[i] = c
    BY DEF Range
  <1>2. /\ Len(h) \in Nat /\ DOMAIN h = 1..Len(h) /\ i \in 1..Len(h)
        /\ \A j \in 1..Len(h) : h[j] \in Names
    BY <1>1
  <1>3. {j \in DOMAIN h : h[j] = c} = {i}
    BY <1>1 DEF Distinct
  <1>4. First({i}) = i
    BY <1>2 DEF First
  <1> DEFINE d == Dropped(h, i)
  <1>5. Touched(h, c) = Append(d, c)
    BY <1>3, <1>4 DEF Touched
  <1>6. /\ d \in Seq(Names) /\ Len(d) = Len(h) - 1
        /\ \A j \in 1..(Len(h) - 1) : d[j] = IF j < i THEN h[j] ELSE h[j + 1]
    BY <1>2 DEF Dropped
  <1> HIDE DEF d
  <1>a. c \in Names /\ Len(d) + 1 = Len(h) /\ \A j \in 1..(Len(h) - 1) : j \in 1..Len(d)
    BY <1>1, <1>2, <1>6
  <1>b. Len(h) \in Nat
    BY <1>2
  <1> DEFINE t == Append(d, c)
  <1>7. /\ t \in Seq(Names) /\ Len(t) = Len(h)
        /\ \A j \in 1..(Len(h) - 1) : t[j] = IF j < i THEN h[j] ELSE h[j + 1]
        /\ t[Len(h)] = c
        /\ DOMAIN t = 1..Len(h)
    <2>1. /\ t \in Seq(Names) /\ Len(t) = Len(d) + 1
          /\ \A j \in 1..Len(d) : t[j] = d[j]
          /\ t[Len(d) + 1] = c
      BY <1>6, <1>a, AppendProperties
    <2>2. Len(t) = Len(h) /\ t[Len(h)] = c
      BY <1>a, <2>1
    <2>3. \A j \in 1..(Len(h) - 1) : t[j] = IF j < i THEN h[j] ELSE h[j + 1]
      BY <1>6, <1>a, <2>1
    <2> QED
      BY <2>1, <2>2, <2>3
  <1> HIDE DEF t
  <1>8. Range(t) = Range(h)
    <2>1. ASSUME NEW j \in 1..Len(h)
          PROVE  t[j] \in Range(h)
      <3>1. CASE j = Len(h)
        BY <1>1, <1>7, <3>1
      <3>2. CASE j # Len(h)
        <4>1. j \in 1..(Len(h) - 1) /\ j + 1 \in 1..Len(h)
          BY <1>b, <3>2
        <4> QED
          BY <1>2, <1>7, <4>1 DEF Range
      <3> QED
        BY <3>1, <3>2
    <2>2. ASSUME NEW j \in 1..Len(h)
          PROVE  h[j] \in Range(t)
      <3>1. CASE j = i
        BY <1>1, <1>2, <1>7, <3>1 DEF Range
      <3>2. CASE j < i
        <4>1. j \in 1..(Len(h) - 1) /\ t[j] = h[j]
          BY <1>2, <1>7, <3>2
        <4> QED
          BY <1>7, <4>1, <2>2 DEF Range
      <3>3. CASE j > i
        <4>1. j - 1 \in 1..(Len(h) - 1) /\ ~(j - 1 < i) /\ (j - 1) + 1 = j /\ j - 1 \in 1..Len(h)
          BY <1>2, <3>3
        <4>2. t[j - 1] = h[j]
          BY <1>7, <4>1
        <4> QED
          BY <1>7, <4>1, <4>2 DEF Range
      <3> QED
        BY <1>2, <3>1, <3>2, <3>3
    <2> QED
      BY <1>2, <1>7, <2>1, <2>2 DEF Range
  <1>9. Distinct(t)
    <2>1. Cardinality(Range(h)) = Len(h)
      BY DistinctCounts
    <2> QED
      BY <1>7, <1>8, <2>1, DistinctCounts
  <1> QED
    BY <1>5, <1>7, <1>8, <1>9 DEF t

LEMMA TouchedNew ==
    ASSUME NEW h \in Seq(Names), NEW c \in Names \ Range(h), Distinct(h)
    PROVE  /\ Touched(h, c) \in Seq(Names)
           /\ Range(Touched(h, c)) = Range(h) \cup {c}
           /\ Len(Touched(h, c)) = Len(h) + 1
           /\ Distinct(Touched(h, c))
           /\ Touched(h, c)[Len(h) + 1] = c
  <1> DEFINE t == Append(h, c)
  <1>1. Touched(h, c) = t
    BY DEF Touched
  <1>2. /\ Len(h) \in Nat /\ DOMAIN h = 1..Len(h)
        /\ t \in Seq(Names) /\ Len(t) = Len(h) + 1 /\ DOMAIN t = 1..(Len(h) + 1)
        /\ \A j \in 1..Len(h) : t[j] = h[j]
        /\ t[Len(h) + 1] = c
    OBVIOUS
  <1> HIDE DEF t
  <1>3. Range(t) = Range(h) \cup {c}
    BY <1>2 DEF Range
  <1>4. ASSUME NEW k \in DOMAIN t, NEW l \in DOMAIN t, t[k] = t[l]
        PROVE  k = l
    <2>1. \A j \in 1..Len(h) : h[j] # c
      BY <1>2 DEF Range
    <2> QED
      BY <1>2, <1>4, <2>1 DEF Distinct
  <1> QED
    BY <1>1, <1>2, <1>3, <1>4 DEF Distinct

(***************************************************************************)
(* The columns held, cut in two.                                           *)
(***************************************************************************)
LEMMA CutHeld ==
    ASSUME NEW h \in Seq(Names), Distinct(h), NEW k \in 0..Len(h)
    PROVE  LET old == SubSeq(h, 1, k)
               new == SubSeq(h, k + 1, Len(h))
           IN  /\ old \in Seq(Names) /\ new \in Seq(Names)
               /\ Len(new) = Len(h) - k
               /\ Distinct(new)
               /\ Range(old) \cap Range(new) = {}
               /\ Range(old) \cup Range(new) = Range(h)
               /\ Bytes(old) \in Nat /\ Bytes(new) \in Nat
               /\ Bytes(h) = Bytes(old) + Bytes(new)
               /\ k < Len(h) => h[Len(h)] \in Range(new)
  <1> DEFINE old == SubSeq(h, 1, k)
             new == SubSeq(h, k + 1, Len(h))
  <1>1. /\ Len(h) \in Nat /\ k \in Nat /\ k <= Len(h) /\ DOMAIN h = 1..Len(h)
        /\ \A i \in 1..Len(h) : h[i] \in Names
    OBVIOUS
  <1>2. /\ old \in Seq(Names) /\ DOMAIN old = 1..k
        /\ \A i \in 1..k : old[i] = h[i]
    <2>1. \A i \in 1..k : h[i] \in Names
      BY <1>1
    <2>2. /\ old \in Seq(Names) /\ Len(old) = IF 1 <= k THEN k - 1 + 1 ELSE 0
          /\ \A i \in 1..(k - 1 + 1) : old[i] = h[1 + i - 1]
      BY <1>1, <2>1, SubSeqProperties
    <2>3. Len(old) = k /\ \A i \in 1..k : old[i] = h[i]
      BY <1>1, <2>2
    <2> QED
      BY <2>2, <2>3
  <1>3. /\ new \in Seq(Names) /\ DOMAIN new = 1..(Len(h) - k) /\ Len(new) = Len(h) - k
        /\ \A i \in 1..(Len(h) - k) : new[i] = h[k + i]
    <2>1. \A i \in (k + 1)..Len(h) : h[i] \in Names
      BY <1>1
    <2>2. /\ new \in Seq(Names)
          /\ Len(new) = IF k + 1 <= Len(h) THEN Len(h) - (k + 1) + 1 ELSE 0
          /\ \A i \in 1..(Len(h) - (k + 1) + 1) : new[i] = h[k + 1 + i - 1]
      BY <1>1, <2>1, SubSeqProperties
    <2>3. Len(h) \in Nat /\ k \in Nat /\ k <= Len(h)
      BY <1>1
    <2>4. Len(new) = Len(h) - k
      BY <2>2, <2>3
    <2>5. ASSUME NEW i \in 1..(Len(h) - k)
          PROVE  new[i] = h[k + i]
      <3>1. i \in 1..(Len(h) - (k + 1) + 1) /\ k + 1 + i - 1 = k + i
        BY <2>3
      <3> QED
        BY <2>2, <3>1
    <2> QED
      BY <2>2, <2>4, <2>5
  <1> HIDE DEF old, new
  <1>4. Range(old) = {h[i] : i \in 1..k}
    BY <1>2 DEF Range
  <1>5. Range(new) = {h[i] : i \in (k + 1)..Len(h)}
    <2>1. ASSUME NEW i \in 1..(Len(h) - k)
          PROVE  k + i \in (k + 1)..Len(h) /\ new[i] = h[k + i]
      BY <1>1, <1>3
    <2>2. ASSUME NEW i \in (k + 1)..Len(h)
          PROVE  \E j \in 1..(Len(h) - k) : new[j] = h[i]
      <3>1. i - k \in 1..(Len(h) - k) /\ k + (i - k) = i
        BY <1>1
      <3> QED
        BY <1>3, <3>1
    <2>3. Range(new) = {new[i] : i \in 1..(Len(h) - k)}
      BY <1>3 DEF Range
    <2>4. Range(new) \subseteq {h[i] : i \in (k + 1)..Len(h)}
      BY <2>1, <2>3
    <2>5. {h[i] : i \in (k + 1)..Len(h)} \subseteq Range(new)
      BY <2>2, <2>3, Zenon
    <2> QED
      BY <2>4, <2>5
  <1>6. Range(h) = {h[i] : i \in 1..Len(h)}
    BY <1>1 DEF Range
  <1>7. Range(old) \cap Range(new) = {}
    <2>1. ASSUME NEW i \in 1..k, NEW j \in (k + 1)..Len(h)
          PROVE  h[i] # h[j]
      <3>1. i \in 1..Len(h) /\ j \in 1..Len(h) /\ i # j
        BY <1>1
      <3> QED
        BY <1>1, <3>1 DEF Distinct
    <2> QED
      BY <1>4, <1>5, <2>1
  <1>8. Range(old) \cup Range(new) = Range(h)
    <2>1. 1..k \cup (k + 1)..Len(h) = 1..Len(h)
      BY <1>1
    <2> QED
      BY <1>4, <1>5, <1>6, <2>1
  <1>9. Range(old) \subseteq Names /\ Range(new) \subseteq Names
    BY <1>2, <1>3, DistinctCounts
  <1>10. Bytes(h) = Bytes(old) + Bytes(new)
    <2>1. Cardinality(BytesOf(Range(old) \cup Range(new))) =
              Cardinality(BytesOf(Range(old))) + Cardinality(BytesOf(Range(new)))
      BY <1>7, <1>9, BytesAdd
    <2> QED
      BY <1>8, <2>1 DEF Bytes
  <1>11. Bytes(old) \in Nat /\ Bytes(new) \in Nat
    BY <1>9, BytesFinite DEF Bytes
  <1>12. Distinct(new)
    <2>1. ASSUME NEW i \in DOMAIN new, NEW j \in DOMAIN new, new[i] = new[j]
          PROVE  i = j
      <3>1. /\ k + i \in 1..Len(h) /\ k + j \in 1..Len(h)
            /\ new[i] = h[k + i] /\ new[j] = h[k + j] /\ i \in Int /\ j \in Int
        <4>1. i \in 1..(Len(h) - k) /\ j \in 1..(Len(h) - k)
          BY <1>3
        <4> QED
          BY <1>1, <1>3, <4>1
      <3>2. k + i = k + j
        BY <1>1, <2>1, <3>1 DEF Distinct
      <3> QED
        BY <1>1, <3>1, <3>2
    <2> QED
      BY <2>1 DEF Distinct
  <1>13. k < Len(h) => h[Len(h)] \in Range(new)
    BY <1>1, <1>5
  <1> QED
    BY <1>2, <1>3, <1>7, <1>8, <1>10, <1>11, <1>12, <1>13 DEF old, new

(***************************************************************************)
(* There is a least number of columns to evict, and it makes the rest fit. *)
(***************************************************************************)
LEMMA EvictsFit ==
    ASSUME NEW h \in Seq(Names), h # <<>>, NEW b
    PROVE  LET k == Evicts(h, b)
           IN  /\ k \in 0..(Len(h) - 1)
               /\ b - Bytes(SubSeq(h, 1, k)) <= budget \/ k = Len(h) - 1
  <1> DEFINE Fits(k) == b - Bytes(SubSeq(h, 1, k)) <= budget
             S == {k \in 0..(Len(h) - 1) : Fits(k) \/ k = Len(h) - 1}
  <1>1. Len(h) \in Nat /\ Len(h) # 0
    OBVIOUS
  <1>a. Len(h) - 1 \in 0..(Len(h) - 1) /\ 0..(Len(h) - 1) \subseteq Nat
    BY <1>1
  <1>2. S \subseteq Nat /\ S # {}
    BY <1>a
  <1>3. \E k \in S : \A j \in S : ~ (<<j, k>> \in OpToRel(<, Nat))
    BY <1>2, NatLessThanWellFounded, WFMin
  <1>4. OpToRel(<, Nat) = {p \in Nat \X Nat : p[1] < p[2]}
    BY DEF OpToRel
  <1>5. PICK k \in S : \A j \in S : ~ (<<j, k>> \in {p \in Nat \X Nat : p[1] < p[2]})
    BY <1>3, <1>4
  <1>6. \A j \in S : ~ (j < k)
    BY <1>2, <1>5
  <1> HIDE DEF Fits
  <1>7. \A j \in 0..(k - 1) : ~ Fits(j)
    BY <1>1, <1>a, <1>5, <1>6
  <1>8. k \in 0..(Len(h) - 1) /\ (Fits(k) \/ k = Len(h) - 1)
    BY <1>5
  <1>9. Evicts(h, b) =
           CHOOSE m \in 0..(Len(h) - 1) :
               /\ Fits(m) \/ m = Len(h) - 1
               /\ \A j \in 0..(m - 1) : ~ Fits(j)
    <2>1. \A m : Fits(m) <=> b - Bytes(SubSeq(h, 1, m)) <= budget
      BY DEF Fits
    <2> QED
      BY <2>1 DEF Evicts
  <1>10. LET m == Evicts(h, b) IN m \in 0..(Len(h) - 1) /\ (Fits(m) \/ m = Len(h) - 1)
    BY <1>7, <1>8, <1>9
  <1> QED
    BY <1>10 DEF Fits

(***************************************************************************)
(* The columns held after column c was admitted, the file among them: what *)
(* is there is c as it was read or was there before.                       *)
(***************************************************************************)
LEMMA SpilledFrom ==
    ASSUME Written(spill.index), spill.open \in BOOLEAN,
           NEW V \in SUBSET Names, NEW cs, NEW s \in Spilled(V, cs)
    PROVE  /\ s.open \in BOOLEAN
           /\ \A c \in DOMAIN s.index :
                 \/ c \in V /\ s.index[c] = cs[c]
                 \/ c \in DOMAIN spill.index /\ s.index[c] = spill.index[c]
  <1>1. PICK K \in SUBSET (V \cap Typed) : s.index = Over(Restrict(cs, K), spill.index)
    BY DEF Spilled
  <1>2. s.open \in BOOLEAN
    BY DEF Spilled
  <1>3. DOMAIN Restrict(cs, K) = K /\ \A c \in K : Restrict(cs, K)[c] = cs[c]
    BY DEF Restrict
  <1>4. ASSUME NEW c \in DOMAIN s.index
        PROVE  \/ c \in V /\ s.index[c] = cs[c]
               \/ c \in DOMAIN spill.index /\ s.index[c] = spill.index[c]
    <2> DEFINE g == Restrict(cs, K)
    <2>1. /\ DOMAIN g = K
          /\ DOMAIN s.index = DOMAIN g \cup DOMAIN spill.index
          /\ \A d \in DOMAIN g : s.index[d] = g[d]
          /\ \A d \in DOMAIN spill.index \ DOMAIN g : s.index[d] = spill.index[d]
      BY <1>1, <1>3 DEF Over
    <2>2. CASE c \in K
      BY <1>1, <1>3, <2>1, <2>2
    <2>3. CASE c \notin K
      BY <1>4, <2>1, <2>3
    <2> QED
      BY <2>2, <2>3
  <1> QED
    BY <1>2, <1>4

LEMMA AdmitKeeps ==
    ASSUME CacheHeld, FileKept, budget \in Nat, UNCHANGED budget,
           NEW c \in Names \ DOMAIN columns, NEW w \in Writer,
           Admit(c, w)
    PROVE  /\ CacheHeld'
           /\ \A d \in DOMAIN columns' :
                 \/ d = c /\ columns'[d] = w
                 \/ d \in DOMAIN columns /\ columns'[d] = columns[d]
           /\ FileKept'
           /\ pc' = "running" =>
                 \A d \in DOMAIN spill'.index :
                    \/ d = c /\ spill'.index[d] = w
                    \/ d \in DOMAIN columns /\ spill'.index[d] = columns[d]
                    \/ d \in DOMAIN spill.index /\ spill'.index[d] = spill.index[d]
  <1> DEFINE cs == With(columns, c, w)
  <1>1. /\ DOMAIN cs = DOMAIN columns \cup {c} /\ cs[c] = w
        /\ \A d \in DOMAIN columns : cs[d] = columns[d]
    <2>1. /\ DOMAIN cs = DOMAIN columns \cup {c} /\ cs[c] = w
          /\ \A d \in DOMAIN columns \ {c} : cs[d] = columns[d]
      BY WithEntry
    <2> QED
      BY <2>1
  <1>2. Written(cs)
    BY <1>1 DEF Written, CacheHeld
  <1> HIDE DEF cs
  <1>n. NoFile.open = FALSE /\ NoFile.index = Nothing /\ DOMAIN Nothing = {}
    BY DEF NoFile, Nothing
  <1>3. CASE budget = 0
    <2>1. columns' = cs /\ UNCHANGED <<held, bytes>> /\ spill' = FileAfter(spill)
      BY <1>3 DEF Admit, cs
    <2>2. CacheHeld'
      BY <1>2, <1>3, <2>1 DEF CacheHeld, BudgetKept, Written
    <2>3. IF pc' = "running" THEN spill' = spill ELSE spill' = NoFile
      BY <2>1 DEF FileAfter
    <2>4. FileKept'
      BY <1>n, <2>3 DEF FileKept, Written
    <2> QED
      BY <1>1, <2>1, <2>2, <2>3, <2>4
  <1>4. CASE budget # 0
    <2> DEFINE h   == Touched(held, c)
               b   == bytes + Size[c]
               k   == Evicts(h, b)
               old == SubSeq(h, 1, k)
               new == SubSeq(h, k + 1, Len(h))
    <2>1. /\ columns' = Restrict(cs, DOMAIN cs \ Range(old))
          /\ held' = new
          /\ bytes' = b - Bytes(old)
          /\ \E s \in Spilled(Range(old), cs) : spill' = FileAfter(s)
      BY <1>4 DEF Admit, cs
    <2>2. /\ held \in Seq(Names) /\ bytes \in Nat /\ Range(held) = DOMAIN columns
          /\ Distinct(held) /\ bytes = Bytes(held)
      BY <1>4, DistinctCounts DEF CacheHeld, BudgetKept
    <2>3. /\ h \in Seq(Names) /\ Range(h) = DOMAIN cs /\ Len(h) = Len(held) + 1
          /\ Distinct(h) /\ Len(held) \in Nat
      BY <1>1, <2>2, TouchedNew
    <2>4. b = Bytes(h) /\ b \in Nat
      <3>1. Cardinality(BytesOf(Range(held) \cup {c})) =
                Cardinality(BytesOf(Range(held))) + Cardinality(BytesOf({c}))
        <4>1. Range(held) \in SUBSET Names /\ {c} \in SUBSET Names /\ Range(held) \cap {c} = {}
          BY <2>2 DEF CacheHeld, Written
        <4> QED
          BY <4>1, BytesAdd
      <3>2. Range(h) = Range(held) \cup {c}
        BY <1>1, <2>2, <2>3
      <3> QED
        BY <2>2, <3>1, <3>2, BytesOfOne DEF Bytes
    <2>5. h # <<>>
      BY <2>3
    <2> HIDE DEF h, b
    <2>6. k \in 0..(Len(h) - 1) /\ (b - Bytes(old) <= budget \/ k = Len(h) - 1)
      BY <2>3, <2>5, EvictsFit
    <2> HIDE DEF k
    <2>7. k \in 0..Len(h) /\ k < Len(h) /\ Len(h) \in Nat
      BY <2>3, <2>6
    <2>8. /\ old \in Seq(Names) /\ new \in Seq(Names)
          /\ Len(new) = Len(h) - k
          /\ Distinct(new)
          /\ Range(old) \cap Range(new) = {}
          /\ Range(old) \cup Range(new) = Range(h)
          /\ Bytes(old) \in Nat /\ Bytes(new) \in Nat
          /\ Bytes(h) = Bytes(old) + Bytes(new)
      BY <2>3, <2>7, CutHeld
    <2> HIDE DEF old, new
    <2>9. /\ DOMAIN columns' = Range(new)
          /\ \A d \in Range(new) : d \in DOMAIN cs /\ columns'[d] = cs[d]
      BY <2>1, <2>3, <2>8 DEF Restrict
    <2>10. Bytes(held') = bytes' /\ bytes' \in Nat
      BY <2>1, <2>4, <2>8
    <2>11. bytes' <= budget \/ Len(held') = 1
      BY <2>1, <2>6, <2>7, <2>8
    <2>12. CacheHeld'
      <3>1. Written(columns')
        BY <1>2, <2>9 DEF Written
      <3>2. Cardinality(Range(held')) = Len(held')
        BY <2>1, <2>8, DistinctCounts
      <3>3. BudgetKept'
        BY <2>1, <2>9, <2>10, <2>11, <3>2 DEF BudgetKept, Bytes
      <3> QED
        BY <1>4, <2>1, <2>8, <2>10, <3>1, <3>3 DEF CacheHeld, Written
    <2>13. PICK s \in Spilled(Range(old), cs) :
              IF pc' = "running" THEN spill' = s ELSE spill' = NoFile
      BY <2>1 DEF FileAfter
    <2>14. /\ s.open \in BOOLEAN
           /\ \A d \in DOMAIN s.index :
                 \/ d \in Range(old) /\ s.index[d] = cs[d]
                 \/ d \in DOMAIN spill.index /\ s.index[d] = spill.index[d]
      <3>1. Range(old) \in SUBSET Names
        BY <2>8, DistinctCounts
      <3> QED
        BY <3>1, SpilledFrom DEF FileKept
    <2>15. Range(old) \subseteq DOMAIN cs
      BY <2>3, <2>8
    <2>16. Written(s.index)
      BY <1>2, <2>14, <2>15 DEF Written, FileKept
    <2>17. FileKept'
      BY <1>4, <1>n, <2>13, <2>14, <2>16 DEF FileKept, Written
    <2> QED
      BY <1>1, <2>9, <2>12, <2>13, <2>14, <2>15, <2>17
  <1> QED
    BY <1>3, <1>4

-------------------------------------------------------------------------------
(***************************************************************************)
(* Compiling and running do not disturb each other: what is compiled and   *)
(* what the host registered stays through a run.                           *)
(***************************************************************************)
Frame ==
    UNCHANGED <<formulas, sorter, inDegree, ready, order, registry, policy,
                budget, run, answered>>

LEMMA FrameKeeps ==
    ASSUME Frame
    PROVE  /\ Places' = Places /\ FormulaNames' = FormulaNames
           /\ \A i : IsKernel(i)' = IsKernel(i)
           /\ \A i : OverScalarAt(i)' = OverScalarAt(i)
           /\ \A k : Before(k)' = Before(k)
           /\ OverScalar' = OverScalar
           /\ HostsKernels' = HostsKernels
           /\ Answers' = Answers
           /\ Resolved' = Resolved
           /\ DagInv => DagInv'
  <1>1. /\ UNCHANGED <<formulas, sorter, inDegree, ready, order, registry, answered>>
    BY DEF Frame
  <1>2. /\ Places' = Places /\ FormulaNames' = FormulaNames /\ Known' = Known
    BY <1>1 DEF Places, FormulaNames, Known
  <1>3. \A i : IsKernel(i)' = IsKernel(i) /\ PushdownName(i)' = PushdownName(i)
    BY <1>1, <1>2 DEF IsKernel, PushdownName
  <1>4. \A i : OverScalarAt(i)' = OverScalarAt(i)
    BY <1>1, <1>2, <1>3 DEF OverScalarAt
  <1>5. OverScalar' = OverScalar
    BY <1>1, <1>2, <1>3 DEF OverScalar
  <1>6. Delegable' = Delegable
    BY <1>1, <1>2, <1>3 DEF Delegable
  <1>7. Answers' = Answers
    BY <1>1, <1>3, <1>6 DEF Answers
  <1>8. \A k : Before(k)' = Before(k)
    BY <1>1 DEF Before
  <1>9. HostsKernels' = HostsKernels /\ Resolved' = Resolved
    BY <1>1, <1>2 DEF HostsKernels, Resolved
  <1>10. DagInv => DagInv'
    BY <1>1, StepInv DEF dagVars
  <1> QED
    BY <1>2, <1>3, <1>4, <1>5, <1>7, <1>8, <1>9, <1>10

(***************************************************************************)
(* The formula the loop is at, whose name no formula behind it has.        *)
(***************************************************************************)
LEMMA AtFormula ==
    ASSUME RunInv, pc = "running", at \in DOMAIN order
    PROVE  /\ order[at] \in Places
           /\ f.as \in FormulaNames /\ f.as \in Names /\ f.refs \subseteq Names
           /\ f.kind \in {"column", "reduce"}
           /\ at \in Nat /\ at + 1 \in 1..(Len(order) + 1)
           /\ Before(at) \subseteq Places
           /\ Before(at + 1) = Before(at) \cup {order[at]}
           /\ \A i \in Before(at) : formulas[i].as # f.as
           /\ \A n \in f.refs \cap FormulaNames : \E i \in Before(at) : formulas[i].as = n
           /\ Valid(formulas)
  <1>1. /\ DagTypeOK /\ InputsFirst /\ Valid(formulas)
        /\ formulas \in Declarations /\ order \in Seq(Places)
    BY DEF RunInv, DagInv, DagTypeOK, Started
  <1>2. order[at] \in Places /\ at \in 1..Len(order) /\ Len(order) \in Nat
    BY <1>1
  <1>3. at \in Nat /\ at + 1 \in 1..(Len(order) + 1)
    BY <1>2
  <1>4. formulas[order[at]] \in Formula
    BY <1>1, <1>2, DeclarationsAssumption DEF Places
  <1>5. Before(at) \subseteq Places
    <2>1. \A l \in 1..(at - 1) : l \in 1..Len(order)
      BY <1>2
    <2> QED
      BY <1>1, <2>1 DEF Before
  <1>6. Before(at + 1) = Before(at) \cup {order[at]}
    <2>1. 1..((at + 1) - 1) = 1..(at - 1) \cup {at}
      BY <1>2
    <2> QED
      BY <2>1 DEF Before
  <1>7. \A i \in Before(at) : formulas[i].as # f.as
    <2>1. order[at] \notin Before(at)
      BY <1>1 DEF InputsFirst
    <2> QED
      BY <1>1, <1>2, <1>5, <2>1 DEF Valid, Places, f
  <1>8. \A n \in f.refs \cap FormulaNames : \E i \in Before(at) : formulas[i].as = n
    BY <1>1 DEF InputsFirst, Deps, f
  <1> QED
    BY <1>1, <1>2, <1>3, <1>4, <1>5, <1>6, <1>7, <1>8
    DEF Formula, Kinds, f, FormulaNames, NamesIn, Places

(***************************************************************************)
(* What it refers to is final: a scalar is of this run, and so is a column *)
(* of the sheet; any other is as the source had it.                        *)
(***************************************************************************)
Final(n) == IF n \in FormulaNames THEN run ELSE 0

LEMMA InputsFinal ==
    ASSUME RunInv, pc = "running", at \in DOMAIN order, NEW n \in f.refs
    PROVE  /\ n \in scalars => Final(n) = run
           /\ n \notin scalars => cell[n] = Final(n) /\ Settled(n)
           /\ n \notin FormulaNames => n \in Source
           /\ n \in scalars <=> \E j \in Places : formulas[j].kind = "reduce"
                                                  /\ formulas[j].as = n
  <1>1. /\ Behind /\ Resolved /\ SourceKept /\ scalars \subseteq FormulaNames
        /\ order[at] \in Places /\ Before(at) \subseteq Places /\ n \in Names
        /\ n \in FormulaNames => \E i \in Before(at) : formulas[i].as = n
        /\ Valid(formulas)
    BY AtFormula DEF RunInv, TypeOK
  <1>2. n \notin FormulaNames => n \in Source
    BY <1>1 DEF Resolved, f
  <1>3. CASE n \notin FormulaNames
    BY <1>1, <1>2, <1>3
    DEF Final, Settled, SourceKept, FormulaNames, NamesIn, Places
  <1>4. CASE n \in FormulaNames
    <2>1. PICK i \in Before(at) : formulas[i].as = n
      BY <1>1, <1>4
    <2>2. \A j \in Places : formulas[j].as = n => j = i
      BY <1>1, <2>1 DEF Valid, Places
    <2>3. formulas[i].kind \in {"column", "reduce"}
      <3>1. formulas \in Seq(Formula)
        BY FormulasType DEF RunInv, DagInv, DagTypeOK
      <3>2. formulas[i] \in Formula
        BY <1>1, <2>1, <3>1 DEF Places
      <3> QED
        BY <3>2 DEF Formula, Kinds
    <2>4. n \in scalars <=> formulas[i].kind = "reduce"
      BY <1>1, <2>1, <2>2 DEF Behind
    <2>5. formulas[i].kind = "column" => cell[n] = run
      BY <1>1, <2>1 DEF Behind
    <2> QED
      BY <1>1, <1>4, <2>1, <2>2, <2>3, <2>4, <2>5 DEF Final, Settled
  <1> QED
    BY <1>3, <1>4

-------------------------------------------------------------------------------
(***************************************************************************)
(* What every step of the loop comes to: it advances past a column that it *)
(* wrote or a reduce whose scalar it has, or fails; it read final values;  *)
(* and what is resident or in the file is what the rows hold, of columns   *)
(* no formula to come will write.                                          *)
(***************************************************************************)
AdvancedColumn ==
    /\ Advance
    /\ f.kind = "column"
    /\ cell' = [cell EXCEPT ![f.as] = run]
    /\ UNCHANGED scalars
AdvancedReduce ==
    /\ Advance
    /\ f.kind = "reduce"
    /\ ~OverScalarAt(order[at])
    /\ UNCHANGED cell
    /\ scalars' = scalars \cup {f.as}
Failed ==
    /\ \E e \in {"formula", "delegate", "context"} :
          Fail(e) /\ (policy = "null" /\ e = "formula" => OverScalar)
    /\ cell' \in {cell, [cell EXCEPT ![f.as] = Partly]}
    /\ UNCHANGED scalars

ReadFinal ==
    \/ UNCHANGED reads
    \/ \E w : /\ Reads(w)
              /\ DOMAIN w \subseteq Names
              /\ \A n \in DOMAIN w : w[n] = Final(n)

CacheFollows ==
    pc' = "running" =>
        /\ \A c \in DOMAIN columns' : columns'[c] = cell[c] /\ Settled(c)
        /\ \A c \in DOMAIN spill'.index : spill'.index[c] = cell[c] /\ Settled(c)

Evaluated ==
    /\ Frame
    /\ pc = "running"
    /\ at \in DOMAIN order
    /\ AdvancedColumn \/ AdvancedReduce \/ Failed
    /\ ReadFinal
    /\ CacheHeld'
    /\ FileKept'
    /\ CacheFollows

LEMMA EvaluatedTypes ==
    ASSUME RunInv, Evaluated
    PROVE  TypeOK'
  <1>1. /\ Frame /\ pc = "running" /\ at \in DOMAIN order
        /\ AdvancedColumn \/ AdvancedReduce \/ Failed
        /\ ReadFinal /\ CacheHeld' /\ FileKept'
        /\ TypeOK
    BY DEF Evaluated, RunInv
  <1>2. /\ Places' = Places /\ FormulaNames' = FormulaNames /\ DagInv'
    BY <1>1, FrameKeeps DEF RunInv
  <1>3. /\ f.as \in FormulaNames /\ f.as \in Names /\ at \in Nat /\ order[at] \in Places
    BY <1>1, AtFormula
  <1>4. run \in Writer /\ Partly \in Writer /\ 0 \in Writer
    <2>1. MaxRuns \in Nat /\ run \in 0..MaxRuns
      BY <1>1, RunAssumption DEF TypeOK
    <2> QED
      BY <2>1 DEF Writer, Partly
  <1>5. /\ pc' \in {"idle", "running", "done", "failed"}
        /\ err' \in {"none", "references", "formula", "delegate", "context"}
        /\ err' # "none" <=> pc' = "failed"
        /\ at' \in Nat
    BY <1>1, <1>3 DEF AdvancedColumn, AdvancedReduce, Failed, Advance, Fail, TypeOK
  <1>6. cell' \in [Names -> Writer]
    BY <1>1, <1>3, <1>4 DEF AdvancedColumn, AdvancedReduce, Failed, TypeOK
  <1>7. scalars' \subseteq FormulaNames
    BY <1>1, <1>3 DEF AdvancedColumn, AdvancedReduce, Failed, TypeOK
  <1>8. DOMAIN reads' = Places /\ \A i \in Places : Written(reads'[i])
    <2>1. CASE UNCHANGED reads
      BY <1>1, <2>1 DEF TypeOK, Written
    <2>2. CASE ~ UNCHANGED reads
      <3>1. PICK w : /\ Reads(w)
                     /\ DOMAIN w \subseteq Names
                     /\ \A n \in DOMAIN w : w[n] = Final(n)
        BY <1>1, <2>2 DEF ReadFinal
      <3>2. Written(w)
        BY <1>4, <3>1 DEF Written, Final
      <3> QED
        BY <1>1, <1>3, <3>1, <3>2 DEF Reads, TypeOK, Written
    <2> QED
      BY <2>1, <2>2
  <1>9. DOMAIN answered' \subseteq Places
    BY <1>1 DEF Frame, TypeOK
  <1>10. policy' \in {"fail", "null"} /\ budget' \in Budgets /\ run' \in 0..MaxRuns
    BY <1>1 DEF Frame, TypeOK
  <1> QED
    BY <1>1, <1>2, <1>5, <1>6, <1>7, <1>8, <1>9, <1>10
    DEF TypeOK, CacheHeld, FileKept, Written, DagInv

LEMMA EvaluatedReads ==
    ASSUME RunInv, Evaluated
    PROVE  ReadsFinal'
  <1>1. Frame /\ ReadFinal /\ ReadsFinal /\ UNCHANGED run /\ order[at] \in Places
        /\ DOMAIN reads = Places
    BY AtFormula DEF Evaluated, RunInv, Frame, TypeOK
  <1>2. Places' = Places /\ FormulaNames' = FormulaNames
    BY <1>1, FrameKeeps
  <1>3. CASE UNCHANGED reads
    BY <1>1, <1>2, <1>3 DEF ReadsFinal
  <1>4. CASE ~ UNCHANGED reads
    <2>1. PICK w : Reads(w) /\ \A n \in DOMAIN w : w[n] = Final(n)
      BY <1>1, <1>4 DEF ReadFinal
    <2>2. ASSUME NEW i \in Places
          PROVE  reads'[i] = IF i = order[at] THEN w ELSE reads[i]
      BY <1>1, <2>1 DEF Reads
    <2> QED
      BY <1>1, <1>2, <2>1, <2>2 DEF ReadsFinal, Final
  <1> QED
    BY <1>3, <1>4

LEMMA EvaluatedLoop ==
    ASSUME RunInv, Evaluated, pc' = "running"
    PROVE  Behind' /\ CacheSettled'
  <1>1. /\ Frame /\ pc = "running" /\ at \in DOMAIN order /\ CacheFollows
        /\ AdvancedColumn \/ AdvancedReduce
        /\ Behind /\ UNCHANGED <<formulas, order, run>>
        /\ cell \in [Names -> Writer]
    BY DEF Evaluated, RunInv, TypeOK, Failed, Fail, Frame
  <1>2. /\ Places' = Places /\ FormulaNames' = FormulaNames
        /\ \A i : OverScalarAt(i)' = OverScalarAt(i)
        /\ \A k : Before(k)' = Before(k)
    BY <1>1, FrameKeeps
  <1>3. /\ order[at] \in Places /\ f.as \in Names /\ at + 1 \in 1..(Len(order) + 1)
        /\ Before(at) \subseteq Places
        /\ Before(at + 1) = Before(at) \cup {order[at]}
        /\ \A i \in Before(at) : formulas[i].as # f.as
        /\ f.kind \in {"column", "reduce"}
    BY <1>1, AtFormula
  <1>4. at' = at + 1
    BY <1>1 DEF AdvancedColumn, AdvancedReduce, Advance
  <1>5. Before(at)' = Before(at) \cup {order[at]}
    BY <1>1, <1>3, <1>4 DEF Before
  <1>6. \A c \in Names : c # f.as => cell'[c] = cell[c]
    BY <1>1 DEF AdvancedColumn, AdvancedReduce
  <1>7. \A i \in Places : formulas[i].as \in Names
    BY FormulasType DEF RunInv, DagInv, DagTypeOK
  <1>8. ~OverScalarAt(order[at])
    BY <1>1 DEF AdvancedColumn, AdvancedReduce, OverScalarAt, IsKernel, f
  <1>9. \A i \in Before(at) \cup {order[at]} :
            /\ formulas[i].kind = "column" => cell'[formulas[i].as] = run
            /\ formulas[i].kind = "reduce" => formulas[i].as \in scalars'
            /\ ~OverScalarAt(i)
    <2>1. ASSUME NEW i \in Before(at)
          PROVE  /\ formulas[i].kind = "column" => cell'[formulas[i].as] = run
                 /\ formulas[i].kind = "reduce" => formulas[i].as \in scalars'
                 /\ ~OverScalarAt(i)
      BY <1>1, <1>3, <1>6, <1>7 DEF Behind, AdvancedColumn, AdvancedReduce
    <2>2. /\ f.kind = "column" => cell'[f.as] = run
          /\ f.kind = "reduce" => f.as \in scalars'
      BY <1>1, <1>3 DEF AdvancedColumn, AdvancedReduce
    <2> QED
      BY <1>8, <2>1, <2>2 DEF f
  <1>10. \A n \in scalars' : \E i \in Before(at) \cup {order[at]} :
              formulas[i].kind = "reduce" /\ formulas[i].as = n
    BY <1>1 DEF Behind, AdvancedColumn, AdvancedReduce, f
  <1>11. Behind'
    BY <1>1, <1>2, <1>3, <1>4, <1>5, <1>9, <1>10 DEF Behind
  <1>12. ASSUME NEW c \in Names, Settled(c)
         PROVE  cell'[c] = cell[c] /\ Settled(c)'
    <2>1. Settled(c)'
      BY <1>1, <1>2, <1>5, <1>12 DEF Settled
    <2>2. c # f.as
      BY <1>1, <1>3, <1>12, AtFormula DEF Settled
    <2> QED
      BY <1>6, <2>1, <2>2
  <1>13. DOMAIN columns' \subseteq Names /\ DOMAIN spill'.index \subseteq Names
    BY DEF Evaluated, CacheHeld, FileKept, Written
  <1>14. CacheSettled'
    <2>1. \A c \in DOMAIN columns' : columns'[c] = cell'[c] /\ Settled(c)'
      BY <1>1, <1>12, <1>13 DEF CacheFollows
    <2>2. \A c \in DOMAIN spill'.index : spill'.index[c] = cell'[c] /\ Settled(c)'
      BY <1>1, <1>12, <1>13 DEF CacheFollows
    <2> QED
      BY <2>1, <2>2 DEF CacheSettled
  <1> QED
    BY <1>11, <1>14

LEMMA EvaluatedInv ==
    ASSUME RunInv, Evaluated
    PROVE  RunInv'
  <1>1. /\ Frame /\ pc = "running" /\ at \in DOMAIN order
        /\ AdvancedColumn \/ AdvancedReduce \/ Failed
        /\ CacheHeld' /\ FileKept'
    BY DEF Evaluated
  <1>2. /\ Places' = Places /\ FormulaNames' = FormulaNames /\ OverScalar' = OverScalar
        /\ HostsKernels' = HostsKernels /\ Answers' = Answers /\ Resolved' = Resolved
        /\ DagInv'
    BY <1>1, FrameKeeps DEF RunInv
  <1>3. TypeOK' /\ ReadsFinal' /\ (pc' = "running" => Behind' /\ CacheSettled')
    BY EvaluatedTypes, EvaluatedReads, EvaluatedLoop
  <1>4. pc' \in {"running", "failed"}
    BY <1>1 DEF AdvancedColumn, AdvancedReduce, Failed, Advance, Fail
  <1>5. SourceKept'
    <2>1. f.as \in FormulaNames /\ SourceKept /\ cell \in [Names -> Writer]
      BY <1>1, AtFormula DEF RunInv, TypeOK
    <2>2. \A c \in Names \ FormulaNames : cell'[c] = cell[c]
      BY <1>1, <2>1 DEF AdvancedColumn, AdvancedReduce, Failed
    <2> QED
      BY <1>2, <2>1, <2>2 DEF SourceKept
  <1>6. policy' = "null" /\ err' = "formula" => OverScalar'
    BY <1>1, <1>2 DEF AdvancedColumn, AdvancedReduce, Failed, Advance, Fail, Frame, RunInv
  <1>7. sorter' = "sorted"
    BY <1>1 DEF Frame, RunInv
  <1> QED
    BY <1>1, <1>2, <1>3, <1>4, <1>5, <1>6, <1>7 DEF RunInv, WholeSheet

-------------------------------------------------------------------------------
(***************************************************************************)
(* Every action of the loop is such a step.                                *)
(***************************************************************************)
LEMMA CacheUntouched ==
    ASSUME RunInv, Frame, pc = "running", UNCHANGED Cache, spill' = FileAfter(spill)
    PROVE  CacheHeld' /\ FileKept' /\ CacheFollows
  <1>1. /\ CacheHeld /\ FileKept /\ CacheSettled
        /\ UNCHANGED <<columns, held, bytes, budget>>
    BY DEF RunInv, Cache, Frame
  <1>2. IF pc' = "running" THEN spill' = spill ELSE spill' = NoFile
    BY DEF FileAfter
  <1>3. NoFile.open = FALSE /\ NoFile.index = Nothing /\ DOMAIN Nothing = {}
    BY DEF NoFile, Nothing
  <1>4. CacheHeld'
    BY <1>1 DEF CacheHeld, Written, BudgetKept
  <1>5. FileKept'
    BY <1>1, <1>2, <1>3 DEF FileKept, Written
  <1>6. CacheFollows
    BY <1>1, <1>2 DEF CacheFollows, CacheSettled
  <1> QED
    BY <1>4, <1>5, <1>6

LEMMA SeenFinal ==
    ASSUME RunInv, pc = "running", at \in DOMAIN order, Reads([n \in f.refs |-> Seen(n)])
    PROVE  ReadFinal
  <1> DEFINE w == [n \in f.refs |-> Seen(n)]
  <1>1. DOMAIN w = f.refs /\ f.refs \subseteq Names
    BY AtFormula
  <1>2. \A n \in f.refs : w[n] = Final(n)
    BY InputsFinal DEF Seen
  <1> QED
    BY <1>1, <1>2 DEF ReadFinal

LEMMA EvaluatingFrame ==
    ASSUME NEW kind, Evaluating(kind)
    PROVE  Frame /\ pc = "running" /\ at \in DOMAIN order /\ f.kind = kind
  BY DEF Evaluating, Frame

LEMMA EvalColumnStep ==
    ASSUME RunInv, EvalColumn
    PROVE  Evaluated
  <1>1. Frame /\ pc = "running" /\ at \in DOMAIN order /\ f.kind = "column"
    BY EvaluatingFrame DEF EvalColumn
  <1>2. AdvancedColumn \/ Failed
    BY <1>1 DEF EvalColumn, AdvancedColumn, Failed
  <1>3. ReadFinal
    BY <1>1, SeenFinal DEF EvalColumn
  <1>4. CacheHeld' /\ FileKept' /\ CacheFollows
    BY <1>1, CacheUntouched DEF EvalColumn
  <1> QED
    BY <1>1, <1>2, <1>3, <1>4 DEF Evaluated

LEMMA ReduceOutcome ==
    ASSUME f.kind = "reduce", Reduce, ~OverScalarAt(order[at])
    PROVE  AdvancedReduce \/ Failed
  BY DEF Reduce, AdvancedReduce, Failed

LEMMA EvalReduceStep ==
    ASSUME RunInv, EvalReduce
    PROVE  Evaluated
  <1>1. Frame /\ pc = "running" /\ at \in DOMAIN order /\ f.kind = "reduce"
    BY EvaluatingFrame DEF EvalReduce
  <1>2. AdvancedReduce \/ Failed
    BY <1>1, ReduceOutcome DEF EvalReduce, OverScalarAt
  <1>3. ReadFinal
    BY <1>1, SeenFinal DEF EvalReduce
  <1>4. CacheHeld' /\ FileKept' /\ CacheFollows
    BY <1>1, CacheUntouched DEF EvalReduce
  <1> QED
    BY <1>1, <1>2, <1>3, <1>4 DEF Evaluated

LEMMA UseDelegatedStep ==
    ASSUME RunInv, UseDelegated
    PROVE  Evaluated
  <1>1. Frame /\ pc = "running" /\ at \in DOMAIN order /\ f.kind = "reduce"
    BY EvaluatingFrame DEF UseDelegated
  <1>2. f.refs \cap FormulaNames = {}
    BY DEF UseDelegated, RunInv, Answers, Delegable, f
  <1>3. ~OverScalarAt(order[at])
    BY <1>2 DEF OverScalarAt, f, FormulaNames, NamesIn, Places
  <1>4. AdvancedReduce \/ Failed
    BY <1>1, <1>3 DEF UseDelegated, AdvancedReduce, Failed
  <1>5. ReadFinal
    <2> DEFINE w == [n \in f.refs |-> IF n \in Source THEN 0 ELSE Absent]
    <2>1. Reads(w) /\ DOMAIN w \subseteq Names
      BY <1>1, AtFormula DEF UseDelegated
    <2>2. \A n \in f.refs : w[n] = Final(n)
      BY <1>1, <1>2, InputsFinal DEF Final
    <2> QED
      BY <2>1, <2>2 DEF ReadFinal
  <1>6. CacheHeld' /\ FileKept' /\ CacheFollows
    BY <1>1, CacheUntouched DEF UseDelegated
  <1> QED
    BY <1>1, <1>4, <1>5, <1>6 DEF Evaluated

(***************************************************************************)
(* A kernel reads one column.  One that is no scalar has its final values, *)
(* and the kernel is over no scalar of the sheet.                          *)
(***************************************************************************)
LEMMA ScanColumn ==
    ASSUME RunInv, Scan
    PROVE  /\ Frame /\ pc = "running" /\ at \in DOMAIN order /\ f.kind = "reduce"
           /\ f.refs = {Column} /\ Column \in Names
           /\ Column \notin scalars => /\ ~OverScalarAt(order[at])
                                       /\ cell[Column] = Final(Column)
                                       /\ Settled(Column)
           /\ Column \in scalars => OverScalar
  <1>1. Frame /\ pc = "running" /\ at \in DOMAIN order /\ f.kind = "reduce"
    BY EvaluatingFrame DEF Scan
  <1>2. IsKernel(order[at]) /\ order[at] \in Places /\ f.refs \subseteq Names
    BY <1>1, AtFormula DEF Scan
  <1>3. IsFiniteSet(f.refs) /\ Cardinality(f.refs) = 1
    BY <1>2, DeclarationsAssumption, FS_Subset DEF IsKernel, f
  <1>4. PICK c : f.refs = {c}
    BY <1>3, FS_Singleton
  <1>5. Column = c
    BY <1>4 DEF Column
  <1>6. Column \in scalars <=> \E j \in Places : formulas[j].kind = "reduce"
                                                 /\ formulas[j].as = Column
    BY <1>1, <1>4, <1>5, InputsFinal
  <1>7. Column \notin scalars => cell[Column] = Final(Column) /\ Settled(Column)
    BY <1>1, <1>4, <1>5, InputsFinal
  <1>8. Column \notin scalars => ~OverScalarAt(order[at])
    BY <1>4, <1>5, <1>6 DEF OverScalarAt, f
  <1>9. Column \in scalars => OverScalar
    BY <1>2, <1>4, <1>5, <1>6 DEF OverScalar, f
  <1> QED
    BY <1>1, <1>2, <1>4, <1>5, <1>7, <1>8, <1>9

LEMMA RefuseScalarStep ==
    ASSUME RunInv, RefuseScalar
    PROVE  Evaluated
  <1>1. /\ Frame /\ pc = "running" /\ at \in DOMAIN order /\ OverScalar
    BY ScanColumn DEF RefuseScalar
  <1>2. Failed /\ ReadFinal
    BY <1>1 DEF RefuseScalar, Failed, ReadFinal
  <1>3. spill' = FileAfter(spill)
    BY DEF RefuseScalar, Fail, FileAfter
  <1>4. CacheHeld' /\ FileKept' /\ CacheFollows
    BY <1>1, <1>3, CacheUntouched DEF RefuseScalar
  <1> QED
    BY <1>1, <1>2, <1>4 DEF Evaluated

LEMMA OneFinal ==
    ASSUME NEW c \in Names, NEW g, g[c] = Final(c), Reads([d \in {c} |-> g[d]])
    PROVE  ReadFinal
  <1> DEFINE w == [d \in {c} |-> g[d]]
  <1>1. DOMAIN w = {c} /\ w[c] = Final(c)
    OBVIOUS
  <1> QED
    BY <1>1 DEF ReadFinal

LEMMA ScanResidentStep ==
    ASSUME RunInv, ScanResident
    PROVE  Evaluated
  <1>1. /\ Frame /\ pc = "running" /\ at \in DOMAIN order /\ f.kind = "reduce"
        /\ Column \in Names /\ ~OverScalarAt(order[at]) /\ cell[Column] = Final(Column)
    BY ScanColumn DEF ScanResident
  <1>2. /\ CacheHeld /\ FileKept /\ CacheSettled /\ Column \in DOMAIN columns
        /\ UNCHANGED <<columns, bytes, budget>> /\ spill' = FileAfter(spill)
        /\ held' = IF Column \in Range(held) THEN Touched(held, Column) ELSE held
    BY <1>1 DEF ScanResident, RunInv, Frame
  <1>3. AdvancedReduce \/ Failed
    BY <1>1, ReduceOutcome DEF ScanResident
  <1>4. ReadFinal
    <2>1. columns[Column] = Final(Column)
      BY <1>1, <1>2 DEF CacheSettled
    <2> QED
      BY <1>1, <2>1, OneFinal DEF ScanResident
  <1>5. IF pc' = "running" THEN spill' = spill ELSE spill' = NoFile
    BY <1>2 DEF FileAfter
  <1>6. NoFile.open = FALSE /\ NoFile.index = Nothing /\ DOMAIN Nothing = {}
    BY DEF NoFile, Nothing
  <1>7. FileKept' /\ CacheFollows
    BY <1>2, <1>5, <1>6 DEF FileKept, Written, CacheFollows, CacheSettled
  <1>8. CacheHeld'
    <2>1. CASE Column \notin Range(held)
      BY <1>2, <2>1 DEF CacheHeld, Written, BudgetKept
    <2>2. CASE Column \in Range(held) /\ budget = 0
      BY <1>2, <2>2 DEF CacheHeld, Range
    <2>3. CASE Column \in Range(held) /\ budget # 0
      <3>1. held \in Seq(Names) /\ Distinct(held) /\ held' = Touched(held, Column)
        BY <1>2, <2>3, DistinctCounts DEF CacheHeld, BudgetKept
      <3>2. /\ held' \in Seq(Names) /\ Range(held') = Range(held)
            /\ Len(held') = Len(held) /\ Distinct(held')
        BY <2>3, <3>1, TouchedResident
      <3> QED
        BY <1>2, <2>3, <3>2 DEF CacheHeld, Written, BudgetKept, Bytes
    <2> QED
      BY <2>1, <2>2, <2>3
  <1> QED
    BY <1>1, <1>3, <1>4, <1>7, <1>8 DEF Evaluated

(***************************************************************************)
(* From the file or built from the rows, the column read becomes resident. *)
(***************************************************************************)
LEMMA AdmittedFollows ==
    ASSUME RunInv, Scan, Column \notin scalars, Column \notin DOMAIN columns,
           Admit(Column, cell[Column])
    PROVE  CacheHeld' /\ FileKept' /\ CacheFollows
  <1>1. /\ Frame /\ pc = "running" /\ Column \in Names /\ Settled(Column)
    BY ScanColumn
  <1>2. /\ CacheHeld /\ FileKept /\ CacheSettled
        /\ budget \in Nat /\ UNCHANGED budget /\ cell[Column] \in Writer
    BY <1>1, RunAssumption DEF RunInv, TypeOK, Frame
  <1> DEFINE c == Column
  <1>3. c \in Names \ DOMAIN columns
    BY <1>1
  <1> HIDE DEF c
  <1>4. /\ CacheHeld'
        /\ \A d \in DOMAIN columns' :
              \/ d = c /\ columns'[d] = cell[c]
              \/ d \in DOMAIN columns /\ columns'[d] = columns[d]
        /\ FileKept'
        /\ pc' = "running" =>
              \A d \in DOMAIN spill'.index :
                 \/ d = c /\ spill'.index[d] = cell[c]
                 \/ d \in DOMAIN columns /\ spill'.index[d] = columns[d]
                 \/ d \in DOMAIN spill.index /\ spill'.index[d] = spill.index[d]
    <2>1. Admit(c, cell[c]) /\ cell[c] \in Writer
      BY <1>2 DEF c
    <2> QED
      BY <1>2, <1>3, <2>1, AdmitKeeps
  <1>5. CacheFollows
    BY <1>1, <1>2, <1>4 DEF CacheFollows, CacheSettled, c
  <1> QED
    BY <1>4, <1>5

LEMMA ScanSpilledStep ==
    ASSUME RunInv, ScanSpilled
    PROVE  Evaluated
  <1>1. /\ Frame /\ pc = "running" /\ at \in DOMAIN order /\ f.kind = "reduce"
        /\ Column \in Names /\ ~OverScalarAt(order[at]) /\ cell[Column] = Final(Column)
    BY ScanColumn DEF ScanSpilled
  <1>2. spill.index[Column] = cell[Column]
    BY <1>1 DEF ScanSpilled, RunInv, CacheSettled
  <1>3. AdvancedReduce \/ Failed
    BY <1>1, ReduceOutcome DEF ScanSpilled
  <1>4. ReadFinal
    BY <1>1, <1>2, OneFinal DEF ScanSpilled
  <1>5. CacheHeld' /\ FileKept' /\ CacheFollows
    BY <1>2, AdmittedFollows DEF ScanSpilled
  <1> QED
    BY <1>1, <1>3, <1>4, <1>5 DEF Evaluated

LEMMA ScanRowsStep ==
    ASSUME RunInv, ScanRows
    PROVE  Evaluated
  <1>1. /\ Frame /\ pc = "running" /\ at \in DOMAIN order /\ f.kind = "reduce"
        /\ Column \in Names /\ ~OverScalarAt(order[at]) /\ cell[Column] = Final(Column)
    BY ScanColumn DEF ScanRows
  <1>2. AdvancedReduce \/ Failed
    BY <1>1, ReduceOutcome DEF ScanRows
  <1>3. ReadFinal
    BY <1>1, OneFinal DEF ScanRows
  <1>4. CacheHeld' /\ FileKept' /\ CacheFollows
    BY AdmittedFollows DEF ScanRows
  <1> QED
    BY <1>1, <1>2, <1>3, <1>4 DEF Evaluated

LEMMA CancelStep ==
    ASSUME RunInv, Cancel
    PROVE  Evaluated
  <1>1. /\ Frame /\ pc = "running" /\ at \in DOMAIN order
    BY DEF Cancel, Frame
  <1>2. Failed /\ ReadFinal
    BY <1>1 DEF Cancel, Failed, ReadFinal
  <1>3. spill' = FileAfter(spill)
    BY DEF Cancel, Fail, FileAfter
  <1>4. CacheHeld' /\ FileKept' /\ CacheFollows
    BY <1>1, <1>3, CacheUntouched DEF Cancel
  <1> QED
    BY <1>1, <1>2, <1>4 DEF Evaluated

-------------------------------------------------------------------------------
(***************************************************************************)
(* The loop is over: every formula is behind it, so the rows have every    *)
(* column and, once sheetOp wrote them, every scalar.                      *)
(***************************************************************************)
LEMMA DoneInv ==
    ASSUME RunInv, Done
    PROVE  RunInv'
  <1>1. /\ Frame /\ pc = "running" /\ pc' = "done" /\ at \notin DOMAIN order
        /\ cell' = [c \in Names |-> IF c \in scalars THEN run ELSE cell[c]]
        /\ spill' = NoFile
        /\ UNCHANGED <<formulas, policy, budget, err, run, at, answered, reads, scalars,
                       columns, held, bytes>>
    BY DEF Done, Frame, Cache
  <1>2. /\ Places' = Places /\ FormulaNames' = FormulaNames /\ OverScalar' = OverScalar
        /\ HostsKernels' = HostsKernels /\ Answers' = Answers /\ Resolved' = Resolved
        /\ DagInv'
    BY <1>1, FrameKeeps DEF RunInv
  <1>3. /\ TypeOK /\ Behind /\ sorter = "sorted" /\ AcceptedWhole /\ SourceKept
        /\ order \in Seq(Places) /\ Resolved
    BY <1>1, AcceptedOrRejected DEF RunInv, DagInv, DagTypeOK
  <1>4. Before(at) = Places
    <2>1. at = Len(order) + 1 /\ Len(order) \in Nat
      BY <1>1, <1>3 DEF Behind
    <2>2. 1..(at - 1) = DOMAIN order
      BY <1>3, <2>1
    <2> QED
      BY <1>3, <2>2 DEF Before, AcceptedWhole, Sorted
  <1>5. \A i \in Places : formulas[i].kind \in {"column", "reduce"} /\ formulas[i].as \in Names
    <2>1. formulas \in Seq(Formula)
      BY FormulasType DEF RunInv, DagInv, DagTypeOK
    <2>2. \A i \in Places : formulas[i] \in Formula
      BY <2>1 DEF Places
    <2> QED
      BY <2>2 DEF Formula, Kinds
  <1>6. \A n \in FormulaNames : cell'[n] = run
    <2>1. ASSUME NEW i \in Places
          PROVE  cell'[formulas[i].as] = run
      <3>1. formulas[i].as \in scalars \/ cell[formulas[i].as] = run
        BY <1>3, <1>4, <1>5 DEF Behind
      <3> QED
        BY <1>1, <1>5, <3>1
    <2> QED
      BY <2>1 DEF FormulaNames, NamesIn, Places
  <1>7. ~OverScalar
    BY <1>3, <1>4 DEF Behind, OverScalar, OverScalarAt
  <1>8. run \in Writer
    <2>1. MaxRuns \in Nat /\ run \in 0..MaxRuns
      BY <1>3, RunAssumption DEF TypeOK
    <2> QED
      BY <2>1 DEF Writer, Partly
  <1>9. NoFile.open = FALSE /\ NoFile.index = Nothing /\ DOMAIN Nothing = {}
    BY DEF NoFile, Nothing
  <1>10. cell' \in [Names -> Writer]
    BY <1>1, <1>3, <1>8 DEF TypeOK
  <1>11. TypeOK'
    BY <1>1, <1>2, <1>3, <1>9, <1>10 DEF TypeOK, DagInv, Written
  <1>12. SourceKept'
    BY <1>1, <1>2, <1>3 DEF SourceKept, TypeOK
  <1>13. CacheHeld'
    BY <1>1 DEF RunInv, CacheHeld, Written, BudgetKept
  <1>14. FileKept'
    BY <1>1, <1>9 DEF FileKept, Written
  <1>15. ReadsFinal'
    BY <1>1, <1>2 DEF ReadsFinal, RunInv
  <1>16. WholeSheet'
    BY <1>1, <1>2, <1>6 DEF WholeSheet
  <1>17. err' = "none"
    BY <1>1, <1>3 DEF TypeOK
  <1>18. sorter' = "sorted"
    BY <1>1, <1>3 DEF Frame
  <1> QED
    BY <1>1, <1>2, <1>3, <1>7, <1>11, <1>12, <1>13, <1>14, <1>15, <1>16, <1>17, <1>18
    DEF RunInv

(***************************************************************************)
(* A run starts with nothing behind it, and only if what its formulas      *)
(* refer to is there.                                                      *)
(***************************************************************************)
LEMMA NothingHeld ==
    /\ DOMAIN Nothing = {}
    /\ Range(<<>>) = {}
    /\ Cardinality({}) = 0
    /\ Bytes(<<>>) = 0
  <1>1. DOMAIN Nothing = {}
    BY DEF Nothing
  <1>2. Range(<<>>) = {}
    BY DEF Range
  <1>3. Cardinality({}) = 0
    BY FS_EmptySet
  <1>4. BytesOf({}) = {}
    BY DEF BytesOf
  <1>5. Bytes(<<>>) = 0
    BY <1>2, <1>3, <1>4 DEF Bytes
  <1> QED
    BY <1>1, <1>2, <1>3, <1>5

LEMMA StartInv ==
    ASSUME RunInv, Start
    PROVE  RunInv'
  <1>1. /\ sorter = "sorted" /\ pc # "running" /\ run < MaxRuns
        /\ run' = run + 1 /\ at' = 1 /\ scalars' = {} /\ columns' = Nothing
        /\ held' = <<>> /\ bytes' = 0 /\ reads' = [i \in Places |-> Nothing]
        /\ UNCHANGED <<formulas, sorter, inDegree, ready, order, registry, policy,
                       budget, cell, spill>>
        /\ pc' \in {"running", "failed"}
        /\ err' \in {"none", "references"} /\ (err' = "none" <=> pc' = "running")
    BY DEF Start
  <1>2. DagInv /\ TypeOK /\ SourceKept /\ HostsKernels /\ spill = NoFile
    BY <1>1 DEF RunInv, FileKept
  <1>3. DagInv'
    BY <1>1, <1>2, StepInv DEF dagVars
  <1>4. Places' = Places /\ FormulaNames' = FormulaNames /\ Known' = Known
    BY <1>1 DEF Places, FormulaNames, Known
  <1>5. \A i : IsKernel(i)' = IsKernel(i) /\ PushdownName(i)' = PushdownName(i)
    BY <1>1, <1>4 DEF IsKernel, PushdownName
  <1>6. Delegable' = Delegable
    BY <1>1, <1>4, <1>5 DEF Delegable
  <1>7. HostsKernels' /\ SourceKept'
    BY <1>1, <1>2, <1>4 DEF HostsKernels, SourceKept
  <1>8. Answers'
    <2>1. answered' = Nothing \/ \E A \in SUBSET Delegable :
                                     answered' = [i \in A |-> PushdownName(i)]
      BY DEF Start
    <2>2. CASE answered' = Nothing
      BY <1>6, <2>2 DEF Answers, Nothing
    <2>3. ASSUME NEW A \in SUBSET Delegable, answered' = [i \in A |-> PushdownName(i)]
          PROVE  Answers'
      BY <1>5, <1>6, <2>3 DEF Answers
    <2> QED
      BY <2>1, <2>2, <2>3
  <1>9. pc' = "running" => Resolved'
    <2>1. pc' = "running" => Unresolved = {}
      BY DEF Start
    <2>2. ASSUME Unresolved = {}
          PROVE  Resolved
      <3>1. ASSUME NEW i \in Places, NEW n \in formulas[i].refs, n \notin FormulaNames
            PROVE  n \in Source
        <4>1. n \in Names
          BY <3>1, FormulasType DEF RunInv, DagInv, DagTypeOK
        <4>2. cell[n] # Absent
          BY <2>2, <3>1 DEF Unresolved
        <4> QED
          BY <1>2, <3>1, <4>1, <4>2 DEF SourceKept
      <3> QED
        BY <3>1 DEF Resolved
    <2>3. Resolved' = Resolved
      BY <1>1, <1>4 DEF Resolved
    <2> QED
      BY <2>1, <2>2, <2>3
  <1>10. Behind'
    <2>1. Before(at)' = {}
      BY <1>1 DEF Before
    <2>2. Len(order) \in Nat
      BY <1>2 DEF TypeOK, DagTypeOK
    <2>3. at' \in 1..(Len(order') + 1)
      BY <1>1, <2>2
    <2> QED
      BY <1>1, <2>1, <2>3 DEF Behind
  <1>11. DOMAIN Nothing = {} /\ NoFile.open = FALSE /\ NoFile.index = Nothing
    BY DEF Nothing, NoFile
  <1>12. CacheSettled'
    BY <1>1, <1>2, <1>11 DEF CacheSettled
  <1>13. ReadsFinal'
    BY <1>1, <1>4, <1>11 DEF ReadsFinal
  <1>14. CacheHeld'
    <2>1. budget' \in Nat
      BY <1>1, <1>2, RunAssumption DEF TypeOK
    <2>2. /\ Range(held') = {} /\ Bytes(held') = 0 /\ Len(held') = 0
          /\ Cardinality({}) = 0 /\ DOMAIN columns' = {} /\ bytes' = 0
      BY <1>1, NothingHeld
    <2>3. BudgetKept'
      BY <2>1, <2>2 DEF BudgetKept
    <2>4. Written(columns') /\ held' \in Seq(Names) /\ held' = <<>>
      BY <1>1, <2>2 DEF Written
    <2> QED
      BY <2>2, <2>3, <2>4 DEF CacheHeld, Written
  <1>15. FileKept'
    BY <1>1, <1>2, <1>11 DEF FileKept, Written
  <1>16. TypeOK'
    <2>1. MaxRuns \in Nat /\ run \in 0..MaxRuns
      BY <1>2, RunAssumption DEF TypeOK
    <2>2. run' \in 0..MaxRuns
      BY <1>1, <2>1
    <2>3. DOMAIN answered' \subseteq Places'
      BY <1>4, <1>6, <1>8 DEF Answers, Delegable
    <2> QED
      BY <1>1, <1>2, <1>3, <1>4, <1>11, <1>14, <1>15, <2>2, <2>3
      DEF TypeOK, DagInv, Written, CacheHeld, FileKept
  <1>17. WholeSheet'
    BY <1>1 DEF WholeSheet
  <1> QED
    BY <1>1, <1>3, <1>7, <1>8, <1>9, <1>10, <1>12, <1>13, <1>14, <1>15, <1>16, <1>17
    DEF RunInv

-------------------------------------------------------------------------------
(***************************************************************************)
(* Before a run: registering a kernel and compiling.  What a run keeps is  *)
(* then as it was at first.                                                *)
(***************************************************************************)
RunVarsKept ==
    UNCHANGED <<policy, budget, pc, err, run, at, cell, scalars, answered, reads,
                columns, held, bytes, spill>>

LEMMA IdleInv ==
    ASSUME RunInv, pc = "idle", RunVarsKept, UNCHANGED formulas, DagInv', HostsKernels'
    PROVE  RunInv'
  <1>1. /\ UNCHANGED <<policy, budget, pc, err, run, at, cell, scalars, answered, reads,
                       columns, held, bytes, spill>>
        /\ TypeOK /\ SourceKept /\ ReadsFinal /\ CacheHeld /\ FileKept
        /\ answered = Nothing /\ err = "none"
    BY DEF RunVarsKept, RunInv, TypeOK
  <1>2. Places' = Places /\ FormulaNames' = FormulaNames
    BY DEF Places, FormulaNames
  <1>3. TypeOK'
    BY <1>1, <1>2 DEF TypeOK, DagInv, Written
  <1>4. SourceKept' /\ ReadsFinal'
    BY <1>1, <1>2 DEF SourceKept, ReadsFinal
  <1>5. Answers'
    BY <1>1 DEF Answers, Nothing
  <1>6. CacheHeld' /\ FileKept'
    BY <1>1 DEF CacheHeld, BudgetKept, FileKept, Written
  <1> QED
    BY <1>1, <1>3, <1>4, <1>5, <1>6 DEF RunInv, WholeSheet

LEMMA RegisterInv ==
    ASSUME RunInv, NEW k \in Offers, RegisterReduce(k)
    PROVE  RunInv'
  <1>1. /\ sorter = "declared" /\ registry' = With(registry, k.name, k.push)
        /\ k.name \notin DOMAIN Builtins /\ k.name \notin DOMAIN registry
        /\ RunVarsKept /\ UNCHANGED <<formulas, sorter, inDegree, ready, order>>
    BY DEF RegisterReduce, Register, RunVarsKept, Cache
  <1>2. pc = "idle"
    BY <1>1 DEF RunInv
  <1>3. DagInv'
    BY <1>1, StepInv DEF RunInv, dagVars
  <1>4. registry' = [d \in DOMAIN registry \cup {k.name} |->
                        IF d = k.name THEN k.push ELSE registry[d]]
    BY <1>1, WithEntry
  <1>5. HostsKernels'
    <2>1. HostsKernels
      BY DEF RunInv
    <2>2. DOMAIN registry' \cap DOMAIN Builtins = {}
      BY <1>1, <1>4, <2>1 DEF HostsKernels
    <2>3. ASSUME NEW name \in DOMAIN registry'
          PROVE  \E o \in Offers : o.name = name /\ o.push = registry'[name]
      BY <1>1, <1>4, <2>1 DEF HostsKernels
    <2> QED
      BY <2>2, <2>3 DEF HostsKernels
  <1> QED
    BY <1>1, <1>2, <1>3, <1>5, IdleInv

LEMMA CompileInv ==
    ASSUME RunInv, Compile
    PROVE  RunInv'
  <1>1. /\ Sort /\ RunVarsKept /\ UNCHANGED registry
    BY DEF Compile, runVars, RunVarsKept
  <1>2. UNCHANGED formulas /\ sorter # "sorted"
    BY <1>1 DEF Sort, RefuseFormulas, CountEdges, TakeFirst, Accept, ReportCycle
  <1>3. pc = "idle" /\ DagInv
    BY <1>2 DEF RunInv
  <1>4. DagInv'
    BY <1>1, <1>3, StepInv
  <1>5. HostsKernels'
    BY <1>1 DEF RunInv, HostsKernels
  <1> QED
    BY <1>1, <1>2, <1>3, <1>4, <1>5, IdleInv

-------------------------------------------------------------------------------
LEMMA RunInit ==
    ASSUME Init
    PROVE  RunInv
  <1>1. /\ DagInit /\ registry = Nothing /\ policy \in {"fail", "null"}
        /\ budget \in Budgets /\ pc = "idle" /\ err = "none" /\ run = 0 /\ at = 0
        /\ cell = [c \in Names |-> IF c \in Source THEN 0 ELSE Absent]
        /\ scalars = {} /\ answered = Nothing /\ reads = [i \in Places |-> Nothing]
        /\ columns = Nothing /\ held = <<>> /\ bytes = 0 /\ spill = NoFile
        /\ sorter = "declared"
    BY DEF Init, DagInit
  <1>2. DagInv
    BY <1>1, InitInv
  <1>3. DOMAIN Nothing = {} /\ NoFile.open = FALSE /\ NoFile.index = Nothing
    BY DEF Nothing, NoFile
  <1>4. CacheHeld
    <2>1. budget \in Nat
      BY <1>1, RunAssumption
    <2>2. /\ Range(held) = {} /\ Bytes(held) = 0 /\ Len(held) = 0
          /\ Cardinality({}) = 0 /\ DOMAIN columns = {} /\ bytes = 0
      BY <1>1, NothingHeld
    <2>3. BudgetKept
      BY <2>1, <2>2 DEF BudgetKept
    <2>4. Written(columns) /\ held \in Seq(Names) /\ held = <<>>
      BY <1>1, <2>2 DEF Written
    <2> QED
      BY <2>2, <2>3, <2>4 DEF CacheHeld
  <1>5. MaxRuns \in Nat
    BY RunAssumption
  <1>6. 0 \in Writer /\ Absent \in Writer /\ run \in 0..MaxRuns
    BY <1>1, <1>5 DEF Writer, Absent, Partly
  <1>7. cell \in [Names -> Writer]
    BY <1>1, <1>6
  <1>8. TypeOK
    <2>1. DagTypeOK
      BY <1>2 DEF DagInv
    <2>2. held \in Seq(Names) /\ scalars \subseteq FormulaNames
      BY <1>1
    <2>3. DOMAIN reads = Places /\ \A i \in Places : Written(reads[i])
      BY <1>1, <1>3 DEF Written
    <2> QED
      BY <1>1, <1>3, <1>6, <1>7, <2>1, <2>2, <2>3 DEF TypeOK, Written
  <1>9. SourceKept /\ HostsKernels /\ Answers /\ ReadsFinal
    BY <1>1, <1>3 DEF SourceKept, HostsKernels, Answers, ReadsFinal
  <1>10. FileKept
    BY <1>1, <1>3 DEF FileKept, Written
  <1> QED
    BY <1>1, <1>2, <1>4, <1>8, <1>9, <1>10 DEF RunInv, WholeSheet

LEMMA RunStep ==
    ASSUME RunInv, [Next]_vars
    PROVE  RunInv'
  <1>1. CASE \E k \in Offers : RegisterReduce(k)
    BY <1>1, RegisterInv
  <1>2. CASE Compile
    BY <1>2, CompileInv
  <1>3. CASE Start
    BY <1>3, StartInv
  <1>4. CASE Evaluate
    BY <1>4, EvalColumnStep, EvalReduceStep, UseDelegatedStep, RefuseScalarStep,
       ScanResidentStep, ScanSpilledStep, ScanRowsStep, EvaluatedInv, DoneInv
    DEF Evaluate
  <1>5. CASE Cancel
    BY <1>5, CancelStep, EvaluatedInv
  <1>6. CASE UNCHANGED vars
    <2>1. Frame /\ UNCHANGED <<pc, err, at, cell, scalars, reads, columns, held, bytes,
                               spill>>
      BY <1>6 DEF vars, Frame
    <2>2. /\ Places' = Places /\ FormulaNames' = FormulaNames /\ OverScalar' = OverScalar
          /\ HostsKernels' = HostsKernels /\ Answers' = Answers /\ Resolved' = Resolved
          /\ \A i : OverScalarAt(i)' = OverScalarAt(i)
          /\ DagInv'
      BY <2>1, FrameKeeps DEF RunInv
    <2>3. UNCHANGED <<formulas, sorter, order, policy, budget, run, answered>>
      BY <2>1 DEF Frame
    <2>4. TypeOK'
      BY <2>1, <2>2, <2>3 DEF RunInv, TypeOK, DagInv, Written
    <2>5. SourceKept' /\ ReadsFinal' /\ WholeSheet'
      BY <2>1, <2>2, <2>3 DEF RunInv, SourceKept, ReadsFinal, WholeSheet
    <2>6. Behind => Behind'
      BY <2>1, <2>2, <2>3 DEF Behind, Before
    <2>7. CacheSettled => CacheSettled'
      BY <2>1, <2>2, <2>3 DEF CacheSettled, Settled, Before
    <2>8. CacheHeld' /\ FileKept'
      BY <2>1, <2>3 DEF RunInv, CacheHeld, BudgetKept, FileKept, Written
    <2> QED
      BY <2>1, <2>2, <2>3, <2>4, <2>5, <2>6, <2>7, <2>8 DEF RunInv
  <1> QED
    BY <1>1, <1>2, <1>3, <1>4, <1>5, <1>6 DEF Next

(***************************************************************************)
(* The invariant holds throughout, of every sheet, host, delegate, policy, *)
(* budget and number of runs.                                              *)
(***************************************************************************)
THEOREM RunInvariance == Spec => []RunInv
  <1>1. Init => RunInv
    BY RunInit
  <1>2. RunInv /\ [Next]_vars => RunInv'
    BY RunStep
  <1> QED
    BY <1>1, <1>2, PTL DEF Spec

(***************************************************************************)
(* Running a sheet leaves its compilation alone: what is said above        *)
(* of the order holds of every sheet that is run.                          *)
(***************************************************************************)
THEOREM RunsCompile == Spec => DagSpec
  <1>1. Init => DagInit
    BY DEF Init
  <1>2. [Next]_vars => [Sort]_dagVars
    <2>1. ASSUME NEW k \in Offers, RegisterReduce(k)
          PROVE  UNCHANGED dagVars
      BY <2>1 DEF RegisterReduce, Register, dagVars
    <2>2. Compile => Sort
      BY DEF Compile
    <2>3. Start \/ Cancel => UNCHANGED dagVars
      BY DEF Start, Cancel, dagVars
    <2>4. Evaluate => UNCHANGED dagVars
      BY DEF Evaluate, EvalColumn, EvalReduce, UseDelegated, RefuseScalar, ScanResident,
             ScanSpilled, ScanRows, Scan, Done, Evaluating, dagVars
    <2>5. UNCHANGED vars => UNCHANGED dagVars
      BY DEF vars, dagVars
    <2> QED
      BY <2>1, <2>2, <2>3, <2>4, <2>5 DEF Next
  <1> QED
    BY <1>1, <1>2, PTL DEF Spec, DagSpec

(***************************************************************************)
(* What a formula reads is final, whatever the cache, the budget, the      *)
(* file, the delegate and earlier runs did.                                *)
(***************************************************************************)
THEOREM ReadsAreFinal == Spec => []ReadsFinal
  <1>1. RunInv => ReadsFinal
    BY DEF RunInv
  <1> QED
    BY <1>1, RunInvariance, PTL

(***************************************************************************)
(* A column kept in memory or in the file is what the rows hold.           *)
(***************************************************************************)
THEOREM CacheIsCoherent == Spec => []CacheCoherent
  <1>1. RunInv => CacheCoherent
    BY DEF RunInv, CacheSettled, CacheCoherent
  <1> QED
    BY <1>1, RunInvariance, PTL

(***************************************************************************)
(* The bytes held are accounted for and fit the budget but for the column  *)
(* in use; no file outlives its run.                                       *)
(***************************************************************************)
THEOREM ResourcesAreKept == Spec => []ResourcesKept
  <1>1. NoFile.open = FALSE
    BY DEF NoFile
  <1>2. RunInv => ResourcesKept
    BY <1>1 DEF RunInv, CacheHeld, FileKept, ResourcesKept, FileDropped
  <1> QED
    BY <1>2, RunInvariance, PTL

(***************************************************************************)
(* A run that ends well has computed every formula.                        *)
(***************************************************************************)
THEOREM RunsAreWhole == Spec => []WholeSheet
  <1>1. RunInv => WholeSheet
    BY DEF RunInv
  <1> QED
    BY <1>1, RunInvariance, PTL

(***************************************************************************)
(* Under PolicyNull the only sheet an evaluation error fails is one that   *)
(* aggregates its own scalar with a kernel, and that one never succeeds.   *)
(***************************************************************************)
THEOREM NullKeepsSheets == Spec => []NullKeepsSheet
  <1>1. RunInv => NullKeepsSheet
    BY DEF RunInv, NullKeepsSheet
  <1> QED
    BY <1>1, RunInvariance, PTL

(***************************************************************************)
(* What a database is asked is a built-in's own aggregate or the one the   *)
(* host registered with the kernel, and never one that no database has.    *)
(***************************************************************************)
THEOREM HostsAgree == Spec => []Portable
  <1>1. ASSUME RunInv
        PROVE  Portable
    <2>1. Answers /\ HostsKernels
      BY <1>1 DEF RunInv
    <2>2. ASSUME NEW i \in DOMAIN answered
          PROVE  LET name == formulas[i].call
                 IN  /\ answered[i] # ""
                     /\ IF name \in DOMAIN Builtins
                        THEN answered[i] = Builtins[name]
                        ELSE \E k \in Offers : k.name = name /\ k.push = answered[i]
      <3> DEFINE name == formulas[i].call
      <3>1. /\ answered[i] = Known[name] /\ name \in DOMAIN Known /\ Known[name] # ""
        BY <2>1 DEF Answers, Delegable, PushdownName, IsKernel
      <3>2. Known = [n \in DOMAIN registry \cup DOMAIN Builtins |->
                         IF n \in DOMAIN registry THEN registry[n] ELSE Builtins[n]]
        BY DEF Known, Over
      <3> QED
        BY <2>1, <3>1, <3>2 DEF HostsKernels
    <2> QED
      BY <2>2 DEF Portable
  <1> QED
    BY <1>1, RunInvariance, PTL
===============================================================================
