-------------------------- MODULE TypedColumnsProofs --------------------------
(***************************************************************************)
(* Proofs about TypedColumns: however many rows there are, in whichever    *)
(* order their types come and whatever the capacity hint, the column reads *)
(* as the rows do.  The invariant says what the builder's slice and bitmap *)
(* hold at every moment, so that a change of backing loses nothing.        *)
(***************************************************************************)
EXTENDS TypedColumns, TLAPS, FiniteSetTheorems, WellFoundedInduction

(***************************************************************************)
(* The bitmap reaches every row and marks the null ones.                   *)
(***************************************************************************)
BitmapInv == nulls.size >= n /\ nulls.set = {i \in 1..n : rows[i] = Null}

(***************************************************************************)
(* Slot i of backing k holds what row i had.                               *)
(***************************************************************************)
Fits(k, s, x) ==
    IF x = Null THEN s = Filler(k)
    ELSE IF k = "any" THEN s \in {x, Held(x)}
    ELSE Backing(x) = k /\ s = Held(x)

SlotsInv ==
    IF kind = "unset" THEN \A i \in 1..n : rows[i] = Null
    ELSE \A i \in 1..n : Fits(kind, slots[i], rows[i])

(***************************************************************************)
(* The column is the builder's, or its block's.                            *)
(***************************************************************************)
ColumnInv ==
    /\ phase = "built" => column = Built
    /\ phase \in {"spilled", "restored"} => kind \notin {"unset", "any"} /\ block = Encode(Built)
    /\ phase = "restored" => column = block

IInv == TypeOK /\ BitmapInv /\ SlotsInv /\ ColumnInv

-------------------------------------------------------------------------------
(***************************************************************************)
(* Widening a number twice is widening it once; no value is null or the    *)
(* filler of a slot.                                                       *)
(***************************************************************************)
LEMMA ValueFacts ==
  ASSUME NEW x \in Value
  PROVE  /\ x.t \in {"int", "float", "string", "bool", "time", "other"}
         /\ x # Null /\ x # Zero
         /\ Held(x) \in Value /\ Held(Held(x)) = Held(x)
         /\ Held(x) # Null /\ Held(x) # Zero
         /\ Backing(x) \in Kinds \ {"unset"}
<1>1. CASE x \in Number
  <2>1. x.v \in Numbers /\ x.t \in {"int", "float"}
    BY <1>1 DEF Number
  <2>2. Held(x) = [t |-> "float", v |-> FloatOf[x.v]]
    BY <2>1 DEF Held, IsNumber, AsFloat
  <2>3. FloatOf[x.v] \in Numbers /\ FloatOf[FloatOf[x.v]] = FloatOf[x.v]
    BY <2>1, ColumnAssumption
  <2>4. Held(Held(x)) = Held(x) /\ Held(x) \in Number
    BY <2>2, <2>3 DEF Held, IsNumber, AsFloat, Number
  <2> QED
    BY <2>1, <2>2, <2>4 DEF Value, Null, Zero, Backing, IsNumber, Kinds
<1>2. CASE x \in Time
  BY <1>2 DEF Time, Value, Null, Zero, Held, Backing, IsNumber, Kinds
<1>3. CASE x \in Plain
  BY <1>3, ColumnAssumption DEF Value, Null, Zero, Held, Backing, IsNumber, Kinds
<1> QED
  BY <1>1, <1>2, <1>3 DEF Value

LEMMA Distinct == Null # Zero /\ Null \in Slot /\ Zero \in Slot /\ Null \notin Value
  BY ValueFacts DEF Null, Zero, Slot

-------------------------------------------------------------------------------
(***************************************************************************)
(* What a built column looks like.                                         *)
(***************************************************************************)
LEMMA BuiltFacts ==
  ASSUME TypeOK, BitmapInv, SlotsInv
  PROVE  /\ Built.kind \in Kinds /\ Built.slots \in Seq(Slot) /\ Built.nulls \subseteq Nat
         /\ DOMAIN Built.slots = 1..n /\ Len(Built.slots) = n
         /\ \A i \in 1..n :
               /\ IsNull(Built, i) <=> rows[i] = Null
               /\ rows[i] # Null => Held(Built.slots[i]) = Held(rows[i])
         /\ kind \notin {"unset", "any"} =>
               /\ Built.kind = kind
               /\ \A i \in 1..n : Built.slots[i] = (IF rows[i] = Null THEN Zero ELSE Held(rows[i]))
<1>0. n \in Nat /\ rows \in [1..n -> Value \cup {Null}]
  BY DEF TypeOK, n
<1>1. CASE kind = "unset"
  <2>1. Built = [kind |-> "any", slots |-> [i \in 1..n |-> Null], nulls |-> {}]
    BY <1>1 DEF Built
  <2>2. [i \in 1..n |-> Null] \in Seq(Slot) /\ Len([i \in 1..n |-> Null]) = n
    BY <1>0, Distinct
  <2> QED
    BY <1>0, <1>1, <2>1, <2>2 DEF SlotsInv, IsNull, Kinds
<1>2. CASE kind = "any"
  <2>1. Built = [kind |-> "any", slots |-> slots, nulls |-> {}]
    BY <1>2 DEF Built
  <2>2. slots \in Seq(Slot) /\ Len(slots) = n
    BY <1>2 DEF TypeOK
  <2>3. \A i \in 1..n : IF rows[i] = Null THEN slots[i] = Null
                        ELSE slots[i] \in {rows[i], Held(rows[i])}
    BY <1>2 DEF SlotsInv, Fits, Filler
  <2>4. \A i \in 1..n : /\ slots[i] = Null <=> rows[i] = Null
                        /\ rows[i] # Null => Held(slots[i]) = Held(rows[i])
    BY <1>0, <2>3, ValueFacts
  <2> QED
    BY <1>0, <1>2, <2>1, <2>2, <2>4 DEF IsNull, Kinds
<1>3. CASE kind \notin {"unset", "any"}
  <2>1. Built = [kind |-> kind, slots |-> slots, nulls |-> nulls.set]
    BY <1>3 DEF Built
  <2>2. slots \in Seq(Slot) /\ Len(slots) = n /\ kind \in Kinds /\ nulls.set \subseteq Nat
    BY <1>3 DEF TypeOK
  <2>3. \A i \in 1..n : slots[i] = IF rows[i] = Null THEN Zero ELSE Held(rows[i])
    BY <1>3 DEF SlotsInv, Fits, Filler
  <2>4. \A i \in 1..n : rows[i] # Null => Held(slots[i]) = Held(rows[i])
    BY <1>0, <2>3, ValueFacts
  <2> QED
    BY <1>0, <1>3, <2>1, <2>2, <2>3, <2>4 DEF IsNull, BitmapInv
<1> QED
  BY <1>1, <1>2, <1>3

(***************************************************************************)
(* A restored column has the slots of the built one, times apart.          *)
(***************************************************************************)
LEMMA TimeFacts ==
  ASSUME NEW x \in Value, Backing(x) = "time"
  PROVE  /\ x \in Time /\ Held(x) = x /\ x.t = "time" /\ x.v \in Times
         /\ [x EXCEPT !.v = NanoOf[@]] \in Time
         /\ x.v \in InRange => [x EXCEPT !.v = NanoOf[@]] = x
<1>1. x.t = "time"
  BY ValueFacts DEF Backing, IsNumber
<1>2. x \in Time
  BY <1>1, ColumnAssumption DEF Value, Number
<1>3. x = [t |-> "time", v |-> x.v] /\ x.v \in Times
  BY <1>2 DEF Time
<1>4. [x EXCEPT !.v = NanoOf[@]] = [t |-> "time", v |-> NanoOf[x.v]]
  BY <1>3
<1>5. NanoOf[x.v] \in Times /\ (x.v \in InRange => NanoOf[x.v] = x.v)
  BY <1>3, ColumnAssumption
<1> QED
  BY <1>1, <1>2, <1>3, <1>4, <1>5 DEF Held, IsNumber, Time

LEMMA BlockFacts ==
  ASSUME TypeOK, BitmapInv, SlotsInv, kind \notin {"unset", "any"}
  PROVE  /\ Encode(Built).kind = kind
         /\ Encode(Built).slots \in Seq(Slot) /\ Len(Encode(Built).slots) = n
         /\ Encode(Built).nulls = {i \in 1..n : rows[i] = Null}
         /\ \A i \in 1..n : rows[i] # Null =>
               LET s == Encode(Built).slots[i]
               IN  /\ s \in Value
                   /\ kind # "time" => s = Held(rows[i])
                   /\ kind = "time" =>
                         /\ rows[i].t = "time" /\ s.t = "time"
                         /\ rows[i].v \in InRange => s = Held(rows[i])
<1> DEFINE B == Built
<1>0. n \in Nat /\ rows \in [1..n -> Value \cup {Null}]
  BY DEF TypeOK, n
<1>1. /\ B.kind = kind /\ DOMAIN B.slots = 1..n
      /\ \A i \in 1..n : B.slots[i] = (IF rows[i] = Null THEN Zero ELSE Held(rows[i]))
      /\ \A i \in 1..n : IsNull(B, i) <=> rows[i] = Null
  BY BuiltFacts
<1> HIDE DEF B
<1>2. /\ Encode(B).kind = kind
      /\ Encode(B).slots = [i \in 1..n |-> Stored(kind, B.slots[i])]
      /\ Encode(B).nulls = {i \in 1..n : rows[i] = Null}
  BY <1>1 DEF Encode
<1>3. \A i \in 1..n : rows[i] # Null => Backing(rows[i]) = kind
  BY DEF SlotsInv, Fits
<1>4. ASSUME NEW i \in 1..n, rows[i] # Null
      PROVE  /\ Stored(kind, B.slots[i]) \in Value
             /\ kind # "time" => Stored(kind, B.slots[i]) = Held(rows[i])
             /\ kind = "time" =>
                   /\ rows[i].t = "time" /\ Stored(kind, B.slots[i]).t = "time"
                   /\ rows[i].v \in InRange => Stored(kind, B.slots[i]) = Held(rows[i])
  <2>1. rows[i] \in Value /\ Backing(rows[i]) = kind /\ B.slots[i] = Held(rows[i])
    BY <1>0, <1>1, <1>3, <1>4
  <2>2. CASE kind # "time"
    BY <2>1, <2>2, ValueFacts DEF Stored
  <2>3. CASE kind = "time"
    <3>1. B.slots[i] = rows[i] /\ rows[i] # Zero
      BY <2>1, <2>3, TimeFacts, ValueFacts
    <3>2. Stored(kind, B.slots[i]) = [rows[i] EXCEPT !.v = NanoOf[@]]
      BY <2>3, <3>1 DEF Stored
    <3>3. [rows[i] EXCEPT !.v = NanoOf[@]].t = "time"
      BY <2>1, <2>3, TimeFacts DEF Time
    <3> QED
      BY <2>1, <2>3, <3>2, <3>3, TimeFacts DEF Value
  <2> QED
    BY <2>2, <2>3
<1>5. ASSUME NEW i \in 1..n, rows[i] = Null PROVE Stored(kind, B.slots[i]) = Zero
  BY <1>1, <1>5 DEF Stored
<1>6. Encode(B).slots \in Seq(Slot) /\ Len(Encode(B).slots) = n
  <2>1. \A i \in 1..n : Stored(kind, B.slots[i]) \in Slot
    BY <1>4, <1>5, Distinct DEF Slot
  <2> QED
    BY <1>0, <1>2, <2>1
<1> QED
  BY <1>2, <1>4, <1>6 DEF B

-------------------------------------------------------------------------------
(***************************************************************************)
(* Appending a row keeps what the builder holds right.                     *)
(***************************************************************************)
LEMMA BitmapStep ==
  ASSUME TypeOK, BitmapInv, NEW x \in Value \cup {Null}, AppendRow(x)
  PROVE  BitmapInv' /\ nulls' \in [size : Nat, set : SUBSET (1..n')]
<1>0. n \in Nat /\ nulls.size \in Nat /\ nulls.set \subseteq 1..n
      /\ MinGrowth \in Nat
  BY ColumnAssumption DEF TypeOK, n
<1>1. rows' = Append(rows, x) /\ rows \in Seq(Value \cup {Null})
  BY DEF AppendRow, TypeOK
<1>2. /\ n' = n + 1 /\ rows'[n + 1] = x
      /\ \A i \in 1..n : rows'[i] = rows[i]
  BY <1>1 DEF n
<1>3. Bigger(n) \in Nat /\ Bigger(n) >= n + 1
  BY <1>0 DEF Bigger
<1>4. /\ Grown \in [size : Nat, set : SUBSET (1..n)]
      /\ Grown.size >= n + 1 /\ Grown.set = nulls.set
  <2>1. nulls \in [size : Nat, set : SUBSET (1..n)]
    BY DEF TypeOK
  <2> QED
    BY <1>0, <1>3, <2>1 DEF Grown
<1>5. nulls' = IF x = Null THEN With(Grown, n + 1) ELSE Grown
  BY DEF AppendRow, AppendNull, AppendValue
<1>6. /\ nulls' \in [size : Nat, set : SUBSET (1..n + 1)]
      /\ nulls'.size = Grown.size
      /\ nulls'.set = IF x = Null THEN nulls.set \cup {n + 1} ELSE nulls.set
  BY <1>0, <1>4, <1>5 DEF With
<1> QED
  BY <1>0, <1>2, <1>4, <1>6 DEF BitmapInv

LEMMA SlotsStep ==
  ASSUME TypeOK, BitmapInv, SlotsInv, NEW x \in Value \cup {Null}, AppendRow(x)
  PROVE  /\ SlotsInv' /\ kind' \in Kinds
         /\ slots' \in Seq(Slot) /\ Len(slots') = (IF kind' = "unset" THEN 0 ELSE n')
<1>0. /\ n \in Nat /\ slots \in Seq(Slot) /\ kind \in Kinds
      /\ Len(slots) = (IF kind = "unset" THEN 0 ELSE n)
      /\ rows \in [1..n -> Value \cup {Null}]
  BY DEF TypeOK, n
<1>1. rows' = Append(rows, x) /\ rows \in Seq(Value \cup {Null})
  BY DEF AppendRow, TypeOK
<1>2. /\ n' = n + 1 /\ rows'[n + 1] = x
      /\ \A i \in 1..n : rows'[i] = rows[i]
  BY <1>1 DEF n
<1>3. ASSUME NEW k \in Kinds, NEW s \in Slot, NEW old,
             old \in Seq(Slot), Len(old) = n, kind' = k, slots' = Append(old, s),
             k # "unset", Fits(k, s, x), \A i \in 1..n : Fits(k, old[i], rows[i])
      PROVE  /\ SlotsInv' /\ kind' \in Kinds
             /\ slots' \in Seq(Slot) /\ Len(slots') = (IF kind' = "unset" THEN 0 ELSE n')
  <2>1. /\ slots' \in Seq(Slot) /\ Len(slots') = n + 1 /\ slots'[n + 1] = s
        /\ \A i \in 1..n : slots'[i] = old[i]
    BY <1>0, <1>3
  <2>2. \A i \in 1..n + 1 : Fits(k, slots'[i], rows'[i])
    BY <1>0, <1>2, <1>3, <2>1
  <2>3. SlotsInv'
    BY <1>2, <1>3, <2>2 DEF SlotsInv, Fits, Filler, Backing, Held, IsNumber, AsFloat
  <2> QED
    BY <1>2, <1>3, <2>1, <2>3
<1>4. CASE x = Null /\ kind = "unset"
  BY <1>0, <1>2, <1>4 DEF AppendRow, AppendNull, SlotsInv
<1>5. CASE x = Null /\ kind # "unset"
  <2>1. kind' = kind /\ slots' = Append(slots, Filler(kind))
    BY <1>5 DEF AppendRow, AppendNull
  <2>2. Filler(kind) \in Slot /\ Fits(kind, Filler(kind), x)
    BY <1>5, Distinct DEF Filler, Fits
  <2>3. \A i \in 1..n : Fits(kind, slots[i], rows[i])
    BY <1>5 DEF SlotsInv
  <2> QED
    BY <1>0, <1>3, <1>5, <2>1, <2>2, <2>3
<1>6. CASE x # Null
  <2>0. /\ x \in Value /\ Held(x) \in Slot /\ x \in Slot
        /\ Backing(x) \in Kinds \ {"unset"}
    BY <1>6, ValueFacts DEF Slot
  <2>1. CASE kind = "unset"
    <3> DEFINE s == IF Backing(x) = "any" THEN x ELSE Held(x)
               old == [i \in 1..n |-> Filler(Backing(x))]
    <3>1. kind' = Backing(x) /\ slots' = Append(old, s)
      BY <1>6, <2>1 DEF AppendRow, AppendValue, Adopt
    <3>2. old \in Seq(Slot) /\ Len(old) = n /\ \A i \in 1..n : old[i] = Filler(Backing(x))
      BY <1>0, Distinct DEF Filler
    <3>3. s \in Slot /\ Fits(Backing(x), s, x)
      BY <1>6, <2>0 DEF Fits
    <3>4. \A i \in 1..n : Fits(Backing(x), old[i], rows[i])
      BY <2>1, <3>2 DEF SlotsInv, Fits
    <3> HIDE DEF s, old
    <3> QED
      BY <1>3, <2>0, <3>1, <3>2, <3>3, <3>4
  <2>2. CASE kind \notin {"unset", "any"} /\ kind = Backing(x)
    <3>1. kind' = kind /\ slots' = Append(slots, Held(x))
      BY <1>6, <2>2 DEF AppendRow, AppendValue
    <3>2. Fits(kind, Held(x), x) /\ \A i \in 1..n : Fits(kind, slots[i], rows[i])
      BY <1>6, <2>2 DEF SlotsInv, Fits
    <3> QED
      BY <1>0, <1>3, <2>0, <2>2, <3>1, <3>2
  <2>3. CASE kind = "any"
    <3>1. kind' = kind /\ slots' = Append(slots, x)
      BY <1>6, <2>3 DEF AppendRow, AppendValue
    <3>2. Fits(kind, x, x) /\ \A i \in 1..n : Fits(kind, slots[i], rows[i])
      BY <1>6, <2>3 DEF SlotsInv, Fits
    <3> QED
      BY <1>0, <1>3, <2>0, <2>3, <3>1, <3>2
  <2>4. CASE kind \notin {"unset", "any"} /\ kind # Backing(x)
    <3> DEFINE old == [i \in 1..n |-> IF i \in nulls.set THEN Null ELSE slots[i]]
    <3>1. kind' = "any" /\ slots' = Append(old, x)
      BY <1>6, <2>4 DEF AppendRow, AppendValue, Demote
    <3>2. old \in Seq(Slot) /\ Len(old) = n
      BY <1>0, <2>4, Distinct
    <3>3. \A i \in 1..n : Fits("any", old[i], rows[i])
      BY <1>0, <2>4 DEF BitmapInv, SlotsInv, Fits, Filler
    <3>4. Fits("any", x, x) /\ "any" \in Kinds
      BY <1>6 DEF Fits, Kinds
    <3> HIDE DEF old
    <3> QED
      BY <1>3, <2>0, <3>1, <3>2, <3>3, <3>4
  <2> QED
    BY <1>0, <2>1, <2>2, <2>3, <2>4
<1> QED
  BY <1>4, <1>5, <1>6

-------------------------------------------------------------------------------
LEMMA InvInit == Init => IInv
<1> SUFFICES ASSUME Init PROVE IInv
  OBVIOUS
<1>1. TypeOK
  BY ColumnAssumption DEF Init, TypeOK, n, Kinds, NoColumn
<1>2. BitmapInv /\ SlotsInv /\ ColumnInv
  BY ColumnAssumption DEF Init, BitmapInv, SlotsInv, ColumnInv, n
<1> QED
  BY <1>1, <1>2 DEF IInv

(***************************************************************************)
(* Once the column is built the builder stands still.                      *)
(***************************************************************************)
LEMMA BuilderStays ==
  ASSUME TypeOK, BitmapInv, SlotsInv, UNCHANGED <<rows, kind, slots, nulls>>
  PROVE  BitmapInv' /\ SlotsInv' /\ Built' = Built /\ Encode(Built)' = Encode(Built)
BY DEF BitmapInv, SlotsInv, Built, Encode, n, Fits, Filler, Backing, Held, IsNumber, AsFloat,
       Stored, IsNull

LEMMA TypeStays ==
  ASSUME TypeOK, UNCHANGED <<rows, kind, slots, nulls>>,
         phase' \in {"building", "built", "spilled", "restored", "gone"},
         \A c \in {column', block'} :
            c.kind \in Kinds /\ c.slots \in Seq(Slot) /\ c.nulls \subseteq Nat
  PROVE  TypeOK'
BY DEF TypeOK, n

LEMMA InvStep == IInv /\ [Next]_vars => IInv'
<1> SUFFICES ASSUME IInv, [Next]_vars PROVE IInv'
  OBVIOUS
<1>0. /\ TypeOK /\ BitmapInv /\ SlotsInv /\ ColumnInv
      /\ \A c \in {column, block, NoColumn} :
            c.kind \in Kinds /\ c.slots \in Seq(Slot) /\ c.nulls \subseteq Nat
  BY DEF IInv, TypeOK, NoColumn, Kinds
<1>1. ASSUME NEW x \in Value \cup {Null}, AppendRow(x) PROVE IInv'
  <2>1. BitmapInv' /\ SlotsInv'
    BY <1>0, <1>1, BitmapStep, SlotsStep
  <2>2. ColumnInv'
    BY <1>1 DEF AppendRow, ColumnInv
  <2>3. TypeOK'
    <3>1. rows' \in Seq(Value \cup {Null}) /\ n' <= MaxLen
      BY <1>0, <1>1, ColumnAssumption DEF AppendRow, TypeOK, n
    <3>2. /\ kind' \in Kinds /\ slots' \in Seq(Slot)
          /\ Len(slots') = (IF kind' = "unset" THEN 0 ELSE n')
          /\ nulls' \in [size : Nat, set : SUBSET (1..n')]
      BY <1>0, <1>1, BitmapStep, SlotsStep
    <3>3. UNCHANGED <<phase, column, block>>
      BY <1>1 DEF AppendRow
    <3> QED
      BY <1>0, <3>1, <3>2, <3>3 DEF TypeOK
  <2> QED
    BY <2>1, <2>2, <2>3 DEF IInv
<1>2. CASE Build
  <2>1. /\ UNCHANGED <<rows, kind, slots, nulls, block>>
        /\ column' = Built /\ phase' = "built"
    BY <1>2 DEF Build
  <2>2. Built.kind \in Kinds /\ Built.slots \in Seq(Slot) /\ Built.nulls \subseteq Nat
    BY <1>0, BuiltFacts
  <2>3. TypeOK'
    BY <1>0, <2>1, <2>2, TypeStays
  <2>4. BitmapInv' /\ SlotsInv' /\ Built' = Built
    BY <1>0, <2>1, BuilderStays
  <2> QED
    BY <2>1, <2>3, <2>4 DEF IInv, ColumnInv
<1>3. CASE Spill
  <2>1. UNCHANGED <<rows, kind, slots, nulls>> /\ column' = NoColumn
    BY <1>3 DEF Spill
  <2>2. column = Built
    BY <1>0, <1>3 DEF Spill, ColumnInv
  <2>3. BitmapInv' /\ SlotsInv' /\ Built' = Built /\ Encode(Built)' = Encode(Built)
    BY <1>0, <2>1, BuilderStays
  <2>4. CASE phase' = "gone" /\ block' = block
    BY <1>0, <2>1, <2>3, <2>4, TypeStays DEF IInv, ColumnInv
  <2>5. CASE column.kind # "any" /\ phase' = "spilled" /\ block' = Encode(column)
    <3>1. phase' = "spilled" /\ block' = Encode(Built)
      BY <2>2, <2>5
    <3>2. kind \notin {"unset", "any"}
      BY <2>2, <2>5 DEF Built
    <3>3. /\ block'.kind \in Kinds /\ block'.slots \in Seq(Slot)
          /\ block'.nulls \subseteq Nat
      <4>1. kind \in Kinds
        BY <1>0 DEF TypeOK
      <4> QED
        BY <1>0, <3>1, <3>2, <4>1, BlockFacts
    <3>4. TypeOK'
      BY <1>0, <2>1, <3>1, <3>3, TypeStays
    <3>5. ColumnInv'
      BY <2>1, <2>3, <3>1, <3>2 DEF ColumnInv
    <3> QED
      BY <2>3, <3>4, <3>5 DEF IInv
  <2> QED
    BY <1>3, <2>4, <2>5 DEF Spill
<1>4. CASE Restore
  <2>1. /\ UNCHANGED <<rows, kind, slots, nulls, block>> /\ phase = "spilled"
        /\ \/ column' = block /\ phase' = "restored"
           \/ column' = column /\ phase' = "gone"
    BY <1>4 DEF Restore
  <2>2. TypeOK'
    BY <1>0, <2>1, TypeStays
  <2>3. BitmapInv' /\ SlotsInv' /\ Encode(Built)' = Encode(Built)
    BY <1>0, <2>1, BuilderStays
  <2>4. ColumnInv'
    BY <1>0, <2>1, <2>3 DEF ColumnInv
  <2> QED
    BY <2>2, <2>3, <2>4 DEF IInv
<1>5. CASE UNCHANGED vars
  <2>1. UNCHANGED <<rows, kind, slots, nulls, phase, column, block>>
    BY <1>5 DEF vars
  <2>2. phase \in {"building", "built", "spilled", "restored", "gone"}
    BY <1>0 DEF TypeOK
  <2>3. TypeOK'
    BY <1>0, <2>1, <2>2, TypeStays
  <2>4. BitmapInv' /\ SlotsInv' /\ Built' = Built /\ Encode(Built)' = Encode(Built)
    BY <1>0, <2>1, BuilderStays
  <2>5. ColumnInv'
    BY <1>0, <2>1, <2>4 DEF ColumnInv
  <2> QED
    BY <2>3, <2>4, <2>5 DEF IInv
<1> QED
  BY <1>1, <1>2, <1>3, <1>4, <1>5 DEF Next

(***************************************************************************)
(* The inductive invariant: the bitmap reaches and marks every null row,   *)
(* every slot fits its row, and the column is the builder's or its block's. *)
(***************************************************************************)
THEOREM Invariance == Spec => []IInv
  BY InvInit, InvStep, PTL DEF Spec

(***************************************************************************)
(* Every variable has its type, whatever the constants.                    *)
(***************************************************************************)
THEOREM TypeCorrect == Spec => []TypeOK
<1>1. IInv => TypeOK
  BY DEF IInv
<1> QED
  BY <1>1, Invariance, PTL

-------------------------------------------------------------------------------
(***************************************************************************)
(* Reading the column tells what the rows had, and is null where they are. *)
(***************************************************************************)
LEMMA ReadsRows ==
  ASSUME IInv, Holding
  PROVE  /\ n \in Nat /\ rows \in [1..n -> Value \cup {Null}]
         /\ DOMAIN column.slots = 1..n /\ Len(column.slots) = n
         /\ \A i \in 1..n : /\ IsNull(column, i) <=> rows[i] = Null
                            /\ Tells(At(column, i), rows[i])
<1>0. /\ TypeOK /\ BitmapInv /\ SlotsInv /\ ColumnInv
      /\ n \in Nat /\ rows \in [1..n -> Value \cup {Null}]
  BY DEF IInv, TypeOK, n
<1>1. CASE phase = "built"
  <2>1. column = Built
    BY <1>0, <1>1 DEF ColumnInv
  <2>2. /\ DOMAIN Built.slots = 1..n /\ Len(Built.slots) = n
        /\ \A i \in 1..n :
              /\ IsNull(Built, i) <=> rows[i] = Null
              /\ rows[i] # Null => Held(Built.slots[i]) = Held(rows[i])
    BY <1>0, BuiltFacts
  <2>3. ASSUME NEW i \in 1..n PROVE Tells(At(Built, i), rows[i])
    <3>1. CASE rows[i] = Null
      BY <2>2, <3>1 DEF At, Tells
    <3>2. CASE rows[i] # Null
      <4>1. At(Built, i) = Built.slots[i] /\ Held(Built.slots[i]) = Held(rows[i])
        BY <2>2, <3>2 DEF At
      <4>2. rows[i] \in Value /\ Held(rows[i]) # Null /\ Held(Null) = Null
        BY <1>0, <3>2, ValueFacts DEF Held, IsNumber, Null
      <4> QED
        BY <3>2, <4>1, <4>2 DEF Tells
    <3> QED
      BY <3>1, <3>2
  <2> QED
    BY <1>0, <2>1, <2>2, <2>3
<1>2. CASE phase = "restored"
  <2>1. column = Encode(Built) /\ kind \notin {"unset", "any"}
    BY <1>0, <1>2 DEF ColumnInv
  <2>2. /\ column.kind = kind /\ column.slots \in Seq(Slot) /\ Len(column.slots) = n
        /\ column.nulls = {i \in 1..n : rows[i] = Null}
        /\ \A i \in 1..n : rows[i] # Null =>
              /\ column.slots[i] \in Value
              /\ kind # "time" => column.slots[i] = Held(rows[i])
              /\ kind = "time" =>
                    /\ rows[i].t = "time" /\ column.slots[i].t = "time"
                    /\ rows[i].v \in InRange => column.slots[i] = Held(rows[i])
    BY <1>0, <2>1, BlockFacts
  <2>3. DOMAIN column.slots = 1..n /\ \A i \in 1..n : IsNull(column, i) <=> rows[i] = Null
    BY <1>0, <2>1, <2>2 DEF IsNull
  <2>4. ASSUME NEW i \in 1..n PROVE Tells(At(column, i), rows[i])
    <3>1. CASE rows[i] = Null
      BY <2>3, <3>1 DEF At, Tells
    <3>2. CASE rows[i] # Null
      <4>1. At(column, i) = column.slots[i] /\ column.slots[i] \in Value
        BY <2>2, <2>3, <3>2 DEF At
      <4>2. rows[i] \in Value /\ column.slots[i] # Null
        BY <1>0, <3>2, <4>1, ValueFacts
      <4>3. \/ Held(column.slots[i]) = Held(rows[i])
            \/ /\ rows[i].t = "time" /\ rows[i].v \notin InRange
               /\ column.slots[i].t = "time"
        BY <2>2, <3>2, <4>2, ValueFacts
      <4> QED
        BY <1>2, <3>2, <4>1, <4>2, <4>3 DEF Tells
    <3> QED
      BY <3>1, <3>2
  <2> QED
    BY <1>0, <2>2, <2>3, <2>4
<1> QED
  BY <1>1, <1>2 DEF Holding

(***************************************************************************)
(* A column of any length reads as the rows do, fresh or restored.         *)
(***************************************************************************)
THEOREM ColumnsAreFaithful == Spec => []ColumnFaithful
<1>1. IInv => ColumnFaithful
  BY ReadsRows DEF ColumnFaithful
<1> QED
  BY <1>1, Invariance, PTL

-------------------------------------------------------------------------------
(***************************************************************************)
(* Induction over numbers and over the subsets of the known rows, for what *)
(* the loops of the kernels and the sum of a set are defined by.           *)
(***************************************************************************)
LEMMA AllNumbers ==
  ASSUME NEW S \in SUBSET Nat, 0 \in S, \A k \in S : k + 1 \in S
  PROVE  S = Nat
<1> SUFFICES ASSUME Nat \ S # {} PROVE FALSE
  OBVIOUS
<1> DEFINE T == Nat \ S
<1>1. \E x \in T : \A y \in T : ~ (<<y, x>> \in OpToRel(<, Nat))
  BY NatLessThanWellFounded, WFMin
<1>2. OpToRel(<, Nat) = {p \in Nat \X Nat : p[1] < p[2]}
  BY DEF OpToRel
<1>3. PICK x \in T : \A y \in T : ~ (<<y, x>> \in {p \in Nat \X Nat : p[1] < p[2]})
  BY <1>1, <1>2
<1>4. x - 1 \in Nat
  OBVIOUS
<1>5. CASE x - 1 \in T
  <2>1. <<x - 1, x>> \in {p \in Nat \X Nat : p[1] < p[2]}
    BY <1>4, <1>5
  <2> QED
    BY <1>3, <1>5, <2>1
<1>6. CASE x - 1 \in S
  <2>1. (x - 1) + 1 \in S
    BY <1>6
  <2> QED
    BY <1>4, <2>1
<1> QED
  BY <1>4, <1>5, <1>6

(***************************************************************************)
(* The sum over a set of known rows is the sum over the rest and any of    *)
(* them, in whatever order it is computed.                                 *)
(***************************************************************************)
LEMMA SumFacts ==
  ASSUME IsFiniteSet(Known), \A i \in Known : FloatAt(i) \in Int
  PROVE  \E f : /\ f[{}] = 0
                /\ \A T \in SUBSET Known : f[T] \in Int
                /\ \A T \in SUBSET Known : \A i \in T : f[T] = FloatAt(i) + f[T \ {i}]
                /\ MapThenSumSet(FloatAt, Known) = f[Known]
<1> DEFINE Any(T) == CHOOSE x \in T : TRUE
           Rec(f, T) == IF T = {} THEN 0 ELSE FloatAt(Any(T)) + f[T \ {Any(T)}]
           Up(k) == {T \in SUBSET Known : Cardinality(T) <= k}
           Good == {k \in Nat : \E f : f = [T \in Up(k) |-> Rec(f, T)]}
           f == CHOOSE g : g = [T \in SUBSET Known |-> Rec(g, T)]
<1>1. \A T \in SUBSET Known : IsFiniteSet(T) /\ Cardinality(T) \in Nat /\ (Cardinality(T) = 0 <=> T = {})
  BY FS_Subset, FS_CardinalityType, FS_EmptySet
<1>2. \A T \in SUBSET Known : \A i \in T :
         T \ {i} \in SUBSET Known /\ Cardinality(T \ {i}) = Cardinality(T) - 1
  BY <1>1, FS_RemoveElement
<1>3. \A T \in SUBSET Known : T # {} => Any(T) \in T
  OBVIOUS
<1>4. 0 \in Good
  <2>1. Up(0) = {{}}
    BY <1>1
  <2>2. [T \in {{}} |-> 0] = [T \in Up(0) |-> Rec([T2 \in {{}} |-> 0], T)]
    BY <2>1
  <2> QED
    BY <2>2
<1>5. \A k \in Good : k + 1 \in Good
  <2> SUFFICES ASSUME NEW k \in Good PROVE k + 1 \in Good
    OBVIOUS
  <2>1. k \in Nat /\ \E g : g = [T \in Up(k) |-> Rec(g, T)]
    OBVIOUS
  <2>2. PICK g : g = [T \in Up(k) |-> Rec(g, T)]
    BY <2>1
  <2> DEFINE h == [T \in Up(k + 1) |-> Rec(g, T)]
  <2>3. \A T \in Up(k) : T \in Up(k + 1) /\ h[T] = g[T]
    <3>1. \A T \in Up(k) : T \in Up(k + 1)
      BY <1>1, <2>1
    <3>2. \A T \in Up(k) : g[T] = Rec(g, T)
      BY <2>2
    <3> HIDE DEF Rec, Up
    <3> QED
      BY <3>1, <3>2
  <2>4. \A T \in Up(k + 1) : T # {} => T \ {Any(T)} \in Up(k)
    <3> SUFFICES ASSUME NEW T \in Up(k + 1), T # {} PROVE T \ {Any(T)} \in Up(k)
      OBVIOUS
    <3>1. Any(T) \in T
      BY <1>3
    <3> HIDE DEF Any
    <3> QED
      BY <1>1, <1>2, <2>1, <3>1
  <2>5. \A T \in Up(k + 1) : Rec(h, T) = Rec(g, T)
    <3> HIDE DEF Any, Up, h
    <3> QED
      BY <2>3, <2>4
  <2>6. h = [T \in Up(k + 1) |-> Rec(h, T)]
    <3>1. h = [T \in Up(k + 1) |-> Rec(g, T)]
      OBVIOUS
    <3> HIDE DEF Rec, Up, h
    <3> QED
      BY <3>1, <2>5
  <2> HIDE DEF h, Rec, Up
  <2> QED
    BY <2>1, <2>6
<1>6. Cardinality(Known) \in Good
  <2> HIDE DEF Rec, Up
  <2>1. Good = Nat
    BY <1>4, <1>5, AllNumbers
  <2> QED
    BY <1>1, <2>1
<1>7. Up(Cardinality(Known)) = SUBSET Known
  BY <1>1, FS_Subset
<1>8. \E g : g = [T \in SUBSET Known |-> Rec(g, T)]
  <2> HIDE DEF Rec, Up
  <2> QED
    BY <1>6, <1>7
<1>9. f = [T \in SUBSET Known |-> Rec(f, T)]
  <2> HIDE DEF Rec
  <2> QED
    BY <1>8, Zenon
<1>10. MapThenSumSet(FloatAt, Known) = f[Known]
  BY DEF MapThenSumSet, MapThenFoldSet
<1> HIDE DEF f
<1>11. \A T \in SUBSET Known : f[T] = Rec(f, T)
  <2> HIDE DEF Rec
  <2> QED
    BY <1>9
<1>12. f[{}] = 0
  BY <1>11
<1>13. \A T \in SUBSET Known : T # {} => f[T] = FloatAt(Any(T)) + f[T \ {Any(T)}]
  <2> HIDE DEF Any
  <2> QED
    BY <1>11
<1> HIDE DEF Any, Rec, Up, Good
<1> DEFINE Right(T) == f[T] \in Int /\ \A i \in T : f[T] = FloatAt(i) + f[T \ {i}]
           Settled == {k \in Nat : \A T \in SUBSET Known : Cardinality(T) <= k => Right(T)}
<1>14. 0 \in Settled
  BY <1>1, <1>12
<1>15. \A k \in Settled : k + 1 \in Settled
  <2> HIDE DEF Right
  <2> SUFFICES ASSUME NEW k \in Settled, NEW T \in SUBSET Known, Cardinality(T) <= k + 1
               PROVE  Right(T)
    OBVIOUS
  <2>1. k \in Nat /\ \A U \in SUBSET Known : Cardinality(U) <= k => Right(U)
    OBVIOUS
  <2> USE DEF Right
  <2>2. CASE T = {}
    BY <1>12, <2>2
  <2>3. CASE T # {}
    <3> DEFINE a == Any(T)
    <3>1. a \in T /\ f[T] = FloatAt(a) + f[T \ {a}]
      BY <1>3, <1>13, <2>3
    <3> HIDE DEF a
    <3>2. \A i \in T : T \ {i} \in SUBSET Known /\ Cardinality(T \ {i}) <= k
      BY <1>1, <1>2
    <3>3. \A i \in T : Right(T \ {i})
      BY <2>1, <3>2
    <3>4. f[T] \in Int
      BY <3>1, <3>3
    <3>5. ASSUME NEW i \in T, i # a PROVE f[T] = FloatAt(i) + f[T \ {i}]
      <4>1. (T \ {a}) \ {i} = (T \ {i}) \ {a}
        OBVIOUS
      <4>2. f[T \ {a}] = FloatAt(i) + f[(T \ {a}) \ {i}] /\ f[T \ {i}] = FloatAt(a) + f[(T \ {i}) \ {a}]
        BY <3>1, <3>3, <3>5
      <4>3. FloatAt(a) \in Int /\ FloatAt(i) \in Int /\ f[(T \ {i}) \ {a}] \in Int
        <5> DEFINE U == T \ {i}
        <5>1. U \in SUBSET Known /\ Cardinality(U) <= k /\ a \in U /\ Cardinality(U) \in Nat
          BY <1>1, <3>1, <3>2, <3>5
        <5> HIDE DEF U
        <5>2. U \ {a} \in SUBSET Known /\ Cardinality(U \ {a}) <= k
          BY <1>2, <2>1, <5>1
        <5>3. f[U \ {a}] \in Int
          BY <2>1, <5>2
        <5> QED
          BY <3>1, <5>3 DEF U
      <4>4. \A x, y, z \in Int : x + (y + z) = y + (x + z)
        OBVIOUS
      <4> DEFINE rest == f[(T \ {i}) \ {a}]
      <4>5. f[T] = FloatAt(a) + (FloatAt(i) + rest) /\ f[T \ {i}] = FloatAt(a) + rest
        BY <3>1, <4>1, <4>2
      <4> HIDE DEF rest
      <4> QED
        BY <4>3, <4>4, <4>5 DEF rest
    <3> QED
      BY <3>1, <3>4, <3>5
  <2> QED
    BY <2>2, <2>3
<1>16. Settled = Nat
  <2> HIDE DEF Right
  <2> QED
    BY <1>14, <1>15, AllNumbers
<1>17. \A T \in SUBSET Known : Right(T)
  BY <1>1, <1>16
<1> QED
  BY <1>10, <1>12, <1>17

(***************************************************************************)
(* A kernel's loop, step by step.                                          *)
(***************************************************************************)
LEMMA LoopFacts ==
  ASSUME NEW c, NEW kernel, Len(c.slots) \in Nat
  PROVE  \E run :
            /\ run[0] = [n |-> 0, acc |-> 0]
            /\ \A i \in 1..Len(c.slots) :
                  run[i] = IF IsNumber(At(c, i))
                           THEN [n |-> run[i - 1].n + 1,
                                 acc |-> Visit(kernel, run[i - 1], FloatOf[At(c, i).v])]
                           ELSE run[i - 1]
            /\ EachFloat(c, kernel) = run[Len(c.slots)]
<1> DEFINE Start == [n |-> 0, acc |-> 0]
           Visited(so, i) == [n |-> so.n + 1, acc |-> Visit(kernel, so, FloatOf[At(c, i).v])]
           Rec(f, i) == IF i = 0 THEN Start ELSE IF IsNumber(At(c, i)) THEN Visited(f[i - 1], i) ELSE f[i - 1]
           Good == {k \in Nat : \E f : f = [i \in 0..k |-> Rec(f, i)]}
           run == CHOOSE f : f = [i \in 0..Len(c.slots) |-> Rec(f, i)]
<1>1. 0 \in Good
  <2>1. [i \in 0..0 |-> Start] = [i \in 0..0 |-> Rec([j \in 0..0 |-> Start], i)]
    OBVIOUS
  <2> QED
    BY <2>1
<1>2. \A k \in Good : k + 1 \in Good
  <2> SUFFICES ASSUME NEW k \in Good PROVE k + 1 \in Good
    OBVIOUS
  <2>1. k \in Nat /\ \E f : f = [i \in 0..k |-> Rec(f, i)]
    OBVIOUS
  <2>2. PICK f : f = [i \in 0..k |-> Rec(f, i)]
    BY <2>1
  <2> DEFINE h == [i \in 0..(k + 1) |-> Rec(f, i)]
  <2>3. \A i \in 0..k : i \in 0..(k + 1) /\ f[i] = Rec(f, i)
    <3>1. \A i \in 0..k : i \in 0..(k + 1)
      BY <2>1
    <3> HIDE DEF Rec
    <3>2. \A i \in 0..k : f[i] = Rec(f, i)
      BY <2>2, Zenon
    <3> QED
      BY <3>1, <3>2
  <2>4. \A i \in 0..k : h[i] = f[i]
    <3> HIDE DEF Rec
    <3> QED
      BY <2>3
  <2> HIDE DEF h
  <2>5. \A i \in 0..(k + 1) : i = 0 \/ i - 1 \in 0..k
    BY <2>1
  <2>6. \A i \in 0..(k + 1) : Rec(h, i) = Rec(f, i)
    <3> HIDE DEF Visited, Start
    <3> QED
      BY <2>4, <2>5
  <2>7. h = [i \in 0..(k + 1) |-> Rec(h, i)]
    <3>1. h = [i \in 0..(k + 1) |-> Rec(f, i)]
      BY DEF h
    <3> HIDE DEF Rec
    <3> QED
      BY <2>6, <3>1
  <2> HIDE DEF Rec
  <2> QED
    BY <2>1, <2>7
<1>3. \E f : f = [i \in 0..Len(c.slots) |-> Rec(f, i)]
  <2> HIDE DEF Rec
  <2>1. Good = Nat
    BY <1>1, <1>2, AllNumbers
  <2> QED
    BY <2>1
<1>4. run = [i \in 0..Len(c.slots) |-> Rec(run, i)]
  <2> HIDE DEF Rec
  <2> QED
    BY <1>3, Zenon
<1>5. EachFloat(c, kernel) = run[Len(c.slots)]
  BY DEF EachFloat
<1> HIDE DEF run
<1>6. \A i \in 0..Len(c.slots) : run[i] = Rec(run, i)
  <2> HIDE DEF Rec
  <2> QED
    BY <1>4
<1>7. run[0] = Start
  <2>1. 0 \in 0..Len(c.slots) /\ Rec(run, 0) = Start
    OBVIOUS
  <2> HIDE DEF Rec, Start
  <2> QED
    BY <1>6, <2>1
<1>8. \A i \in 1..Len(c.slots) : run[i] = IF IsNumber(At(c, i)) THEN Visited(run[i - 1], i) ELSE run[i - 1]
  <2> HIDE DEF Visited, Start
  <2> QED
    BY <1>6
<1> QED
  BY <1>5, <1>7, <1>8

(***************************************************************************)
(* The kernels visit the numbers of the rows, each as its float64.         *)
(***************************************************************************)
LEMMA NumberFacts ==
  ASSUME IInv, Holding
  PROVE  \A i \in 1..n : /\ IsNumber(At(column, i)) <=> IsNumber(rows[i])
                         /\ IsNumber(rows[i]) => /\ FloatAt(i) \in Int
                                                 /\ FloatOf[At(column, i).v] = FloatAt(i)
<1> SUFFICES ASSUME NEW i \in 1..n
             PROVE  /\ IsNumber(At(column, i)) <=> IsNumber(rows[i])
                    /\ IsNumber(rows[i]) => /\ FloatAt(i) \in Int
                                            /\ FloatOf[At(column, i).v] = FloatAt(i)
  OBVIOUS
<1> DEFINE x == At(column, i)
           y == rows[i]
<1>1. y \in Value \cup {Null} /\ Tells(x, y)
  BY ReadsRows
<1> HIDE DEF x, y
<1>2. CASE y = Null
  BY <1>1, <1>2 DEF Tells, IsNumber, Null, x, y
<1>3. CASE y # Null
  <2>1. y \in Value
    BY <1>1, <1>3
  <2>2. CASE IsNumber(y)
    <3>1. y.v \in Numbers /\ Held(y) = [t |-> "float", v |-> FloatOf[y.v]]
      BY <2>1, <2>2, ColumnAssumption DEF Value, Number, Time, Held, AsFloat, IsNumber
    <3>2. Held(x) = Held(y)
      BY <1>1, <2>2 DEF Tells, IsNumber
    <3>3. IsNumber(x)
      BY <3>1, <3>2 DEF Held, IsNumber
    <3>4. Held(x) = [t |-> "float", v |-> FloatOf[x.v]]
      BY <3>3 DEF Held, AsFloat
    <3>5. FloatOf[x.v] = FloatOf[y.v] /\ FloatOf[y.v] \in Int
      <4>1. FloatOf[y.v] \in Int
        BY <3>1, ColumnAssumption
      <4>2. \A v, w : [t |-> "float", v |-> v] = [t |-> "float", v |-> w] => v = w
        OBVIOUS
      <4>3. [t |-> "float", v |-> FloatOf[x.v]] = [t |-> "float", v |-> FloatOf[y.v]]
        BY <3>1, <3>2, <3>4
      <4> QED
        BY <4>1, <4>2, <4>3
    <3> QED
      BY <2>2, <3>3, <3>5 DEF FloatAt, x, y
  <2>3. CASE ~IsNumber(y)
    <3>1. CASE Held(x) = Held(y)
      <4>1. Held(x) = y
        BY <2>3, <3>1 DEF Held
      <4>2. IsNumber(x) => Held(x).t = "float"
        BY DEF Held, AsFloat
      <4> QED
        BY <2>3, <4>1, <4>2 DEF IsNumber, x, y
    <3>2. CASE x.t = "time"
      BY <2>3, <3>2 DEF IsNumber, x, y
    <3> QED
      BY <1>1, <3>1, <3>2 DEF Tells
  <2> QED
    BY <2>2, <2>3
<1> QED
  BY <1>2, <1>3

(***************************************************************************)
(* The known rows in front of the place a loop is at.                      *)
(***************************************************************************)
KnownTo(i) == {j \in 1..i : IsNumber(rows[j])}

LEMMA KnownFacts ==
  ASSUME n \in Nat
  PROVE  /\ IsFiniteSet(Known) /\ KnownTo(0) = {} /\ KnownTo(n) = Known
         /\ \A i \in 0..n : /\ KnownTo(i) \in SUBSET Known /\ IsFiniteSet(KnownTo(i))
                            /\ Cardinality(KnownTo(i)) \in Nat
                            /\ Cardinality(KnownTo(i)) = 0 <=> KnownTo(i) = {}
         /\ \A i \in 1..n :
               IF IsNumber(rows[i])
               THEN /\ i \in KnownTo(i) /\ KnownTo(i) = KnownTo(i - 1) \cup {i}
                    /\ KnownTo(i) \ {i} = KnownTo(i - 1)
                    /\ Cardinality(KnownTo(i)) = Cardinality(KnownTo(i - 1)) + 1
               ELSE KnownTo(i) = KnownTo(i - 1)
<1>1. IsFiniteSet(1..n) /\ Known \in SUBSET (1..n)
  <2>1. 1 \in Int /\ n \in Int
    OBVIOUS
  <2> QED
    BY <2>1, FS_Interval DEF Known
<1>2. IsFiniteSet(Known)
  BY <1>1, FS_Subset
<1>3. KnownTo(0) = {} /\ KnownTo(n) = Known
  BY DEF KnownTo, Known
<1>4. \A i \in 0..n : KnownTo(i) \in SUBSET Known
  BY DEF KnownTo, Known
<1>5. \A i \in 0..n : IsFiniteSet(KnownTo(i))
  BY <1>2, <1>4, FS_Subset
<1>6. \A i \in 0..n : Cardinality(KnownTo(i)) \in Nat /\ (Cardinality(KnownTo(i)) = 0 <=> KnownTo(i) = {})
  BY <1>5, FS_CardinalityType, FS_EmptySet
<1>7. ASSUME NEW i \in 1..n, IsNumber(rows[i])
      PROVE  /\ i \in KnownTo(i) /\ KnownTo(i) = KnownTo(i - 1) \cup {i}
             /\ KnownTo(i) \ {i} = KnownTo(i - 1)
             /\ Cardinality(KnownTo(i)) = Cardinality(KnownTo(i - 1)) + 1
  <2>1. i \in KnownTo(i) /\ KnownTo(i) = KnownTo(i - 1) \cup {i} /\ i \notin KnownTo(i - 1)
    BY <1>7 DEF KnownTo
  <2>2. IsFiniteSet(KnownTo(i - 1))
    BY <1>5
  <2> QED
    BY <2>1, <2>2, FS_AddElement
<1>8. ASSUME NEW i \in 1..n, ~IsNumber(rows[i]) PROVE KnownTo(i) = KnownTo(i - 1)
  BY <1>8 DEF KnownTo
<1> QED
  BY <1>2, <1>3, <1>4, <1>5, <1>6, <1>7, <1>8

LEMMA KnownInts ==
  ASSUME IInv, Holding
  PROVE  n \in Nat /\ IsFiniteSet(Known) /\ \A i \in Known : FloatAt(i) \in Int
<1>1. n \in Nat
  BY ReadsRows
<1>2. \A i \in Known : FloatAt(i) \in Int
  BY NumberFacts DEF Known
<1> QED
  BY <1>1, <1>2, KnownFacts

(***************************************************************************)
(* The loop of a kernel over the column that is held, told by the rows: it *)
(* has counted the known rows behind it.                                   *)
(***************************************************************************)
Ran(kernel, run) ==
  /\ run[0] = [n |-> 0, acc |-> 0]
  /\ \A i \in 1..n : run[i] = IF IsNumber(rows[i])
                               THEN [n |-> run[i - 1].n + 1, acc |-> Visit(kernel, run[i - 1], FloatAt(i))]
                               ELSE run[i - 1]
  /\ \A i \in 0..n : run[i].n = Cardinality(KnownTo(i))
  /\ EachFloat(column, kernel) = run[n]

LEMMA KernelRuns ==
  ASSUME IInv, Holding, NEW kernel
  PROVE  \E run : Ran(kernel, run)
<1>0. n \in Nat /\ Len(column.slots) = n
  BY ReadsRows
<1>1. PICK run : /\ run[0] = [n |-> 0, acc |-> 0]
                 /\ \A i \in 1..n :
                       run[i] = IF IsNumber(At(column, i))
                                THEN [n |-> run[i - 1].n + 1,
                                      acc |-> Visit(kernel, run[i - 1], FloatOf[At(column, i).v])]
                                ELSE run[i - 1]
                 /\ EachFloat(column, kernel) = run[n]
  <2> DEFINE c == column
  <2>1. Len(c.slots) \in Nat
    BY <1>0
  <2> HIDE DEF c
  <2>2. \E run : /\ run[0] = [n |-> 0, acc |-> 0]
                 /\ \A i \in 1..Len(c.slots) :
                       run[i] = IF IsNumber(At(c, i))
                                THEN [n |-> run[i - 1].n + 1,
                                      acc |-> Visit(kernel, run[i - 1], FloatOf[At(c, i).v])]
                                ELSE run[i - 1]
                 /\ EachFloat(c, kernel) = run[Len(c.slots)]
    BY <2>1, LoopFacts
  <2>3. Len(c.slots) = n
    BY <1>0 DEF c
  <2> QED
    BY <2>2, <2>3 DEF c
<1>2. \A i \in 1..n : run[i] = IF IsNumber(rows[i])
                               THEN [n |-> run[i - 1].n + 1, acc |-> Visit(kernel, run[i - 1], FloatAt(i))]
                               ELSE run[i - 1]
  <2> SUFFICES ASSUME NEW i \in 1..n
               PROVE  run[i] = IF IsNumber(rows[i])
                               THEN [n |-> run[i - 1].n + 1, acc |-> Visit(kernel, run[i - 1], FloatAt(i))]
                               ELSE run[i - 1]
    OBVIOUS
  <2>1. IsNumber(At(column, i)) <=> IsNumber(rows[i])
    BY NumberFacts
  <2>2. CASE IsNumber(rows[i])
    <3>1. FloatOf[At(column, i).v] = FloatAt(i)
      BY <2>2, NumberFacts
    <3>2. run[i] = [n |-> run[i - 1].n + 1, acc |-> Visit(kernel, run[i - 1], FloatOf[At(column, i).v])]
      BY <1>1, <2>1, <2>2
    <3> QED
      BY <2>2, <3>1, <3>2
  <2>3. CASE ~IsNumber(rows[i])
    BY <1>1, <2>1, <2>3
  <2> QED
    BY <2>2, <2>3
<1> DEFINE Counted == {k \in Nat : k <= n => run[k].n = Cardinality(KnownTo(k))}
<1>3. 0 \in Counted
  BY <1>0, <1>1, KnownFacts
<1>4. \A k \in Counted : k + 1 \in Counted
  <2> SUFFICES ASSUME NEW k \in Counted, k + 1 <= n PROVE run[k + 1].n = Cardinality(KnownTo(k + 1))
    OBVIOUS
  <2> DEFINE i == k + 1
  <2>1. i \in 1..n /\ i - 1 = k /\ k \in 0..n /\ run[k].n = Cardinality(KnownTo(k))
    BY <1>0
  <2> HIDE DEF i
  <2>2. IF IsNumber(rows[i]) THEN Cardinality(KnownTo(i)) = Cardinality(KnownTo(k)) + 1
        ELSE KnownTo(i) = KnownTo(k)
    BY <1>0, <2>1, KnownFacts
  <2>3. run[i].n = IF IsNumber(rows[i]) THEN run[k].n + 1 ELSE run[k].n
    <3>1. run[i] = IF IsNumber(rows[i])
                   THEN [n |-> run[k].n + 1, acc |-> Visit(kernel, run[k], FloatAt(i))]
                   ELSE run[k]
      BY <1>2, <2>1
    <3> QED
      BY <3>1
  <2>4. run[i].n = Cardinality(KnownTo(i))
    BY <2>1, <2>2, <2>3
  <2> QED
    BY <2>4 DEF i
<1>5. Counted = Nat
  BY <1>3, <1>4, AllNumbers
<1> QED
  BY <1>0, <1>1, <1>2, <1>5 DEF Ran

(***************************************************************************)
(* What the loops have behind place i: the sum of the known rows so far,   *)
(* the least or the greatest of them.                                      *)
(***************************************************************************)
LEMMA SumRuns ==
  ASSUME IInv, Holding
  PROVE  EachFloat(column, "sum") = [n |-> Cardinality(Known), acc |-> MapThenSumSet(FloatAt, Known)]
<1>0. n \in Nat /\ IsFiniteSet(Known) /\ \A i \in Known : FloatAt(i) \in Int
  BY KnownInts
<1>1. PICK run : Ran("sum", run)
  BY KernelRuns
<1>2. PICK f : /\ f[{}] = 0
               /\ \A T \in SUBSET Known : f[T] \in Int
               /\ \A T \in SUBSET Known : \A i \in T : f[T] = FloatAt(i) + f[T \ {i}]
               /\ MapThenSumSet(FloatAt, Known) = f[Known]
  BY <1>0, SumFacts
<1> DEFINE Summed == {k \in Nat : k <= n => run[k] = [n |-> Cardinality(KnownTo(k)), acc |-> f[KnownTo(k)]]}
<1>3. 0 \in Summed
  <2>1. KnownTo(0) = {} /\ Cardinality(KnownTo(0)) = 0
    BY <1>0, KnownFacts
  <2> QED
    BY <1>1, <1>2, <2>1 DEF Ran
<1>4. \A k \in Summed : k + 1 \in Summed
  <2> SUFFICES ASSUME NEW k \in Summed, k + 1 <= n
               PROVE  run[k + 1] = [n |-> Cardinality(KnownTo(k + 1)), acc |-> f[KnownTo(k + 1)]]
    OBVIOUS
  <2> DEFINE i == k + 1
  <2>1. i \in 1..n /\ i - 1 = k /\ k \in 0..n
        /\ run[k] = [n |-> Cardinality(KnownTo(k)), acc |-> f[KnownTo(k)]]
    BY <1>0
  <2> HIDE DEF i
  <2>2. IF IsNumber(rows[i])
        THEN /\ i \in KnownTo(i) /\ KnownTo(i) \ {i} = KnownTo(k) /\ KnownTo(i) \in SUBSET Known
             /\ Cardinality(KnownTo(i)) = Cardinality(KnownTo(k)) + 1
             /\ KnownTo(k) \in SUBSET Known
        ELSE KnownTo(i) = KnownTo(k)
    BY <1>0, <2>1, KnownFacts
  <2>3. run[i] = IF IsNumber(rows[i])
                 THEN [n |-> run[k].n + 1, acc |-> run[k].acc + FloatAt(i)]
                 ELSE run[k]
    BY <1>1, <2>1 DEF Ran, Visit
  <2>4. CASE IsNumber(rows[i])
    <3>1. f[KnownTo(i)] = FloatAt(i) + f[KnownTo(k)] /\ f[KnownTo(k)] \in Int /\ FloatAt(i) \in Int
      BY <1>0, <1>2, <2>2, <2>4
    <3> QED
      BY <2>1, <2>2, <2>3, <2>4, <3>1 DEF i
  <2>5. CASE ~IsNumber(rows[i])
    BY <2>1, <2>2, <2>3, <2>5 DEF i
  <2> QED
    BY <2>4, <2>5
<1>5. Summed = Nat
  BY <1>3, <1>4, AllNumbers
<1>6. run[n] = [n |-> Cardinality(KnownTo(n)), acc |-> f[KnownTo(n)]]
  BY <1>0, <1>5
<1>7. KnownTo(n) = Known /\ EachFloat(column, "sum") = run[n]
  BY <1>0, <1>1, KnownFacts DEF Ran
<1> QED
  BY <1>2, <1>6, <1>7

Below(kernel, x, y) == IF kernel = "min" THEN x <= y ELSE x >= y
Best(kernel, x, T) == (\E i \in T : x = FloatAt(i)) /\ \A i \in T : Below(kernel, x, FloatAt(i))

LEMMA BestRuns ==
  ASSUME IInv, Holding, NEW kernel \in {"min", "max"}, Known # {}
  PROVE  /\ EachFloat(column, kernel).n # 0
         /\ Best(kernel, EachFloat(column, kernel).acc, Known)
<1>0. n \in Nat /\ IsFiniteSet(Known) /\ \A i \in Known : FloatAt(i) \in Int
  BY KnownInts
<1>1. PICK run : Ran(kernel, run)
  BY KernelRuns
<1> DEFINE Chosen == {k \in Nat : k <= n /\ KnownTo(k) # {} => Best(kernel, run[k].acc, KnownTo(k))}
<1>2. 0 \in Chosen
  BY <1>0, KnownFacts
<1>3. \A k \in Chosen : k + 1 \in Chosen
  <2> SUFFICES ASSUME NEW k \in Chosen, k + 1 <= n, KnownTo(k + 1) # {}
               PROVE  Best(kernel, run[k + 1].acc, KnownTo(k + 1))
    OBVIOUS
  <2> DEFINE i == k + 1
  <2>1. i \in 1..n /\ i - 1 = k /\ k \in 0..n
        /\ (KnownTo(k) # {} => Best(kernel, run[k].acc, KnownTo(k)))
    BY <1>0
  <2> HIDE DEF i
  <2>2. IF IsNumber(rows[i])
        THEN /\ KnownTo(i) = KnownTo(k) \cup {i} /\ KnownTo(i) \in SUBSET Known
             /\ KnownTo(k) \in SUBSET Known
        ELSE KnownTo(i) = KnownTo(k)
    BY <1>0, <2>1, KnownFacts
  <2>3. run[i] = IF IsNumber(rows[i])
                 THEN [n |-> run[k].n + 1, acc |-> Visit(kernel, run[k], FloatAt(i))]
                 ELSE run[k]
    BY <1>1, <2>1 DEF Ran
  <2>4. CASE IsNumber(rows[i])
    <3>1. run[k].n = 0 <=> KnownTo(k) = {}
      BY <1>0, <1>1, <2>1, KnownFacts DEF Ran
    <3>2. FloatAt(i) \in Int /\ \A j \in KnownTo(k) : FloatAt(j) \in Int
      BY <1>0, <2>2, <2>4
    <3>3. run[i].acc = Visit(kernel, run[k], FloatAt(i))
      BY <2>3, <2>4
    <3>4. CASE KnownTo(k) = {}
      <4>1. run[i].acc = FloatAt(i) /\ KnownTo(i) = {i}
        BY <2>2, <2>4, <3>1, <3>3, <3>4 DEF Visit
      <4> QED
        BY <3>2, <4>1 DEF Best, Below, i
    <3>5. CASE KnownTo(k) # {}
      <4> DEFINE a == run[k].acc
      <4>1. Best(kernel, a, KnownTo(k)) /\ a \in Int
        BY <2>1, <3>2, <3>5 DEF Best
      <4>2. run[i].acc = IF kernel = "min" THEN IF FloatAt(i) < a THEN FloatAt(i) ELSE a
                         ELSE IF FloatAt(i) > a THEN FloatAt(i) ELSE a
        BY <3>1, <3>3, <3>5 DEF Visit
      <4> HIDE DEF a
      <4>3. Best(kernel, run[i].acc, KnownTo(k) \cup {i})
        BY <3>2, <4>1, <4>2 DEF Best, Below
      <4> QED
        BY <2>2, <2>4, <4>3 DEF i
    <3> QED
      BY <3>4, <3>5
  <2>5. CASE ~IsNumber(rows[i])
    BY <2>1, <2>2, <2>3, <2>5 DEF i
  <2> QED
    BY <2>4, <2>5
<1>4. Chosen = Nat
  BY <1>2, <1>3, AllNumbers
<1>5. KnownTo(n) = Known /\ EachFloat(column, kernel) = run[n] /\ run[n].n # 0
  BY <1>0, <1>1, KnownFacts DEF Ran
<1> QED
  BY <1>0, <1>4, <1>5

(***************************************************************************)
(* The kernels over a column of any length, built or restored, agree with  *)
(* the aggregates over the rows; min and max over values none of which is  *)
(* a number are left open.                                                 *)
(***************************************************************************)
THEOREM KernelsAreAggregates == Spec => []KernelsAgree
<1>1. IInv => KernelsAgree
  <2> SUFFICES ASSUME IInv, Holding PROVE KernelsAgree
    BY DEF KernelsAgree
  <2>0. n \in Nat /\ IsFiniteSet(Known) /\ \A i \in Known : FloatAt(i) \in Int
    BY KnownInts
  <2>1. KCount(column) = Cardinality(Present)
    <3>1. {i \in DOMAIN column.slots : ~IsNull(column, i)} = Present
      BY ReadsRows DEF Present
    <3> QED
      BY <3>1 DEF KCount, Quantify
  <2>2. EachFloat(column, "sum") = [n |-> Cardinality(Known), acc |-> MapThenSumSet(FloatAt, Known)]
    BY SumRuns
  <2>3. Cardinality(Known) = 0 <=> Known = {}
    BY <2>0, FS_EmptySet
  <2>4. CASE Known = {}
    <3>1. \A kernel : EachFloat(column, kernel).n = 0
      <4> TAKE kernel
      <4>1. PICK run : Ran(kernel, run)
        BY KernelRuns
      <4> QED
        BY <2>0, <2>3, <2>4, <4>1, KnownFacts DEF Ran
    <3> QED
      BY <2>1, <2>4, <3>1 DEF KernelsAgree, KSum, KAvg, KMin, KMax, Answer
  <2>5. CASE Known # {}
    <3> DEFINE least == EachFloat(column, "min")
               greatest == EachFloat(column, "max")
    <3>1. least.n # 0 /\ Best("min", least.acc, Known) /\ greatest.n # 0 /\ Best("max", greatest.acc, Known)
      BY <2>5, BestRuns
    <3>2. KMin(column) = least.acc /\ KMax(column) = greatest.acc
      BY <3>1 DEF KMin, KMax, Answer
    <3> HIDE DEF least, greatest
    <3>3. KSum(column) = MapThenSumSet(FloatAt, Known)
      BY <2>2, <2>3, <2>5 DEF KSum, Answer
    <3>4. KAvg(column) = <<MapThenSumSet(FloatAt, Known), Cardinality(Known)>>
      BY <2>2, <2>3, <2>5 DEF KAvg
    <3> DEFINE S == {FloatAt(i) : i \in Known}
    <3>5. /\ least.acc \in S /\ \A y \in S : least.acc <= y
          /\ greatest.acc \in S /\ \A y \in S : greatest.acc >= y
          /\ \A x \in S : x \in Int
      BY <2>0, <3>1 DEF Best, Below
    <3> HIDE DEF S
    <3>6. least.acc = Min(S) /\ greatest.acc = Max(S)
      BY <3>5 DEF Min, Max
    <3>7. Present # {}
      <4>1. PICK i \in 1..n : IsNumber(rows[i])
        BY <2>5 DEF Known
      <4>2. ~IsNumber(Null)
        BY DEF IsNumber, Null
      <4> QED
        BY <4>1, <4>2 DEF Present
    <3> QED
      BY <2>1, <2>5, <3>2, <3>3, <3>4, <3>6, <3>7 DEF KernelsAgree, S
  <2> QED
    BY <2>4, <2>5
<1> QED
  BY <1>1, Invariance, PTL
===============================================================================
