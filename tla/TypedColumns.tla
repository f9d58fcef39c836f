----------------------------- MODULE TypedColumns -----------------------------
(***************************************************************************)
(* The columns a sheet's kernels scan: the builder that guesses a backing  *)
(* type from the first values and changes its mind (sheet/builder.go), the *)
(* column and its null bitmap (sheet/column.go), the block a column is     *)
(* spilled to and restored from (sheet/spill.go) and the built-in kernels  *)
(* (sheet/reduce.go).                                                      *)
(*                                                                         *)
(* A value has a type and a payload.  Numbers become float64, which not    *)
(* every integer survives; times become nanoseconds in a block, which not  *)
(* every time survives.  Slots are counted from one.                       *)
(***************************************************************************)
EXTENDS Integers, Sequences, FiniteSetsExt

CONSTANTS
    Numbers, FloatOf,           \* integers, and the float64 each becomes
    Times, NanoOf, InRange,     \* times, what UnixNano makes of each, and the
                                \* times it represents
    Plain,                      \* values of the other types
    Capacities,                 \* capacity hints NewColumnBuilder is given
    MinGrowth,                  \* minBitmapGrowth
    MaxLen                      \* bounds the rows

Types == {"null", "int", "float", "string", "bool", "time", "other"}

Number == [t : {"int", "float"}, v : Numbers]
Time == [t : {"time"}, v : Times]
Null == [t |-> "null", v |-> 0]
Value == Number \cup Time \cup Plain

ASSUME ColumnAssumption ==
    /\ Numbers \subseteq Int /\ FloatOf \in [Numbers -> Numbers]
    /\ \A x \in Numbers : FloatOf[FloatOf[x]] = FloatOf[x]
    /\ NanoOf \in [Times -> Times]
    /\ InRange \subseteq Times /\ \A x \in InRange : NanoOf[x] = x
    /\ \A p \in Plain : p.t \in {"string", "bool", "other"}
    /\ Capacities \subseteq Nat
    /\ MinGrowth \in Nat \ {0} /\ MaxLen \in Nat

VARIABLES
    rows,       \* the values appended so far: the rows' own
    kind,       \* the builder's backing
    slots,      \* the slice of that backing
    nulls,      \* its bitmap: how many bits it has and which are set
    phase,      \* what became of the column
    column,     \* the column the sheet holds
    block       \* its block in the spill file

vars == <<rows, kind, slots, nulls, phase, column, block>>

Kinds == {"unset", "float", "string", "bool", "time", "any"}

-------------------------------------------------------------------------------
(***************************************************************************)
(* Values and the backings they fit.                                       *)
(***************************************************************************)
IsNumber(x) == x.t \in {"int", "float"}

Backing(x) ==
    IF IsNumber(x) THEN "float"
    ELSE IF x.t \in {"string", "bool", "time"} THEN x.t ELSE "any"

AsFloat(x) == [t |-> "float", v |-> FloatOf[x.v]]
Held(x) == IF IsNumber(x) THEN AsFloat(x) ELSE x

(***************************************************************************)
(* What a slot holds that no value fills: the zero of a typed slice, nil.  *)
(***************************************************************************)
Zero == [t |-> "zero", v |-> 0]
Filler(k) == IF k = "any" THEN Null ELSE Zero

NoColumn == [kind |-> "unset", slots |-> <<>>, nulls |-> {}]

Init ==
    /\ rows = <<>>
    /\ kind = "unset"
    /\ slots = <<>>
    /\ \E c \in Capacities : nulls = [size |-> c, set |-> {}]
    /\ phase = "building"
    /\ column = NoColumn
    /\ block = NoColumn

(***************************************************************************)
(* The bitmap grows when the next slot lies behind it; setting a bit that  *)
(* lies behind it does nothing.                                            *)
(***************************************************************************)
n == Len(rows)

Bigger(s) == IF 2 * s + 1 < MinGrowth THEN MinGrowth ELSE 2 * s + 1

GrownLate == IF n <= nulls.size THEN nulls ELSE [nulls EXCEPT !.size = Bigger(n)]
Grown == IF n < nulls.size THEN nulls ELSE [nulls EXCEPT !.size = Bigger(n)]

With(bits, i) == IF i <= bits.size THEN [bits EXCEPT !.set = @ \cup {i}] ELSE bits

(***************************************************************************)
(* A null takes a slot in whichever backing is active.                     *)
(***************************************************************************)
AppendNull ==
    /\ nulls' = With(Grown, n + 1)
    /\ slots' = IF kind = "unset" THEN slots ELSE Append(slots, Filler(kind))
    /\ UNCHANGED kind

(***************************************************************************)
(* The first value chooses the backing, with a slot for every null before. *)
(***************************************************************************)
Adopt(x) ==
    /\ kind' = Backing(x)
    /\ slots' = Append([i \in 1..n |-> Filler(Backing(x))],
                       IF Backing(x) = "any" THEN x ELSE Held(x))

(***************************************************************************)
(* A value that does not fit demotes the backing: every slot is boxed, a   *)
(* null as nil, and the value is kept as it is.                            *)
(***************************************************************************)
Demote(x) ==
    /\ kind' = "any"
    /\ slots' = Append([i \in 1..n |-> IF i \in nulls.set THEN Null ELSE slots[i]], x)

AppendValue(x) ==
    /\ nulls' = Grown
    /\ \/ kind = "unset" /\ Adopt(x)
       \/ /\ kind \notin {"unset", "any"} /\ kind = Backing(x)
          /\ slots' = Append(slots, Held(x))
          /\ UNCHANGED kind
       \/ /\ kind = "any"
          /\ slots' = Append(slots, x)
          /\ UNCHANGED kind
       \/ /\ kind \notin {"unset", "any"} /\ kind # Backing(x)
          /\ Demote(x)

AppendRow(x) ==
    /\ phase = "building"
    /\ n < MaxLen
    /\ rows' = Append(rows, x)
    /\ IF x = Null THEN AppendNull ELSE AppendValue(x)
    /\ UNCHANGED <<phase, column, block>>

(***************************************************************************)
(* The finished column; only nulls make a boxed one.                       *)
(***************************************************************************)
Built ==
    CASE kind = "unset" -> [kind |-> "any", slots |-> [i \in 1..n |-> Null], nulls |-> {}]
      [] kind = "any"   -> [kind |-> "any", slots |-> slots, nulls |-> {}]
      [] OTHER          -> [kind |-> kind, slots |-> slots, nulls |-> nulls.set]

Build ==
    /\ phase = "building"
    /\ column' = Built
    /\ phase' = "built"
    /\ UNCHANGED <<rows, kind, slots, nulls, block>>

(***************************************************************************)
(* Reading a column.                                                       *)
(***************************************************************************)
IsNull(c, i) == IF c.kind = "any" THEN c.slots[i] = Null ELSE i \in c.nulls
At(c, i) == IF IsNull(c, i) THEN Null ELSE c.slots[i]

(***************************************************************************)
(* The block of an evicted column.  A boxed column has none; it is gone,   *)
(* as any column is when the file cannot be written or read.               *)
(***************************************************************************)
Stored(k, x) == IF k = "time" /\ x # Zero THEN [x EXCEPT !.v = NanoOf[@]] ELSE x

Encode(c) ==
    [kind |-> c.kind, slots |-> [i \in DOMAIN c.slots |-> Stored(c.kind, c.slots[i])],
     nulls |-> {i \in DOMAIN c.slots : IsNull(c, i)}]

Spill ==
    /\ phase = "built"
    /\ \/ phase' = "gone" /\ UNCHANGED block
       \/ column.kind # "any" /\ phase' = "spilled" /\ block' = Encode(column)
    /\ column' = NoColumn
    /\ UNCHANGED <<rows, kind, slots, nulls>>

Restore ==
    /\ phase = "spilled"
    /\ \/ phase' = "gone" /\ UNCHANGED column
       \/ phase' = "restored" /\ column' = block
    /\ UNCHANGED <<rows, kind, slots, nulls, block>>

Next ==
    \/ \E x \in Value \cup {Null} : AppendRow(x)
    \/ Build
    \/ Spill
    \/ Restore

Spec == Init /\ [][Next]_vars

-------------------------------------------------------------------------------
(***************************************************************************)
(* The kernels: a loop over the slots of the column, in order, that visits *)
(* the numbers and knows how many it has visited and what it has so far.   *)
(***************************************************************************)
NoAnswer == "nil"

VisitFromZero(kernel, so, f) ==
    CASE kernel = "sum" -> so.acc + f
      [] kernel = "min" -> IF f < so.acc THEN f ELSE so.acc
      [] kernel = "max" -> IF so.n = 0 \/ f > so.acc THEN f ELSE so.acc
Visit(kernel, so, f) ==
    CASE kernel = "sum" -> so.acc + f
      [] kernel = "min" -> IF so.n = 0 \/ f < so.acc THEN f ELSE so.acc
      [] kernel = "max" -> IF so.n = 0 \/ f > so.acc THEN f ELSE so.acc

EachFloat(c, kernel) ==
    LET run[i \in 0..Len(c.slots)] ==
            IF i = 0 THEN [n |-> 0, acc |-> 0]
            ELSE IF IsNumber(At(c, i))
            THEN [n |-> run[i - 1].n + 1, acc |-> Visit(kernel, run[i - 1], FloatOf[At(c, i).v])]
            ELSE run[i - 1]
    IN  run[Len(c.slots)]

Answer(so) == IF so.n = 0 THEN NoAnswer ELSE so.acc
KSum(c) == Answer(EachFloat(c, "sum"))
KMin(c) == Answer(EachFloat(c, "min"))
KMax(c) == Answer(EachFloat(c, "max"))
KAvg(c) == LET so == EachFloat(c, "sum") IN IF so.n = 0 THEN NoAnswer ELSE <<so.acc, so.n>>
KCount(c) == Quantify(DOMAIN c.slots, LAMBDA i : ~IsNull(c, i))

-------------------------------------------------------------------------------
Slot == Value \cup {Null, Zero}

(***************************************************************************)
(* Every variable has its type; once a backing is chosen it has as many    *)
(* slots as there are rows.                                                *)
(***************************************************************************)
TypeOK ==
    /\ rows \in Seq(Value \cup {Null}) /\ n <= MaxLen
    /\ kind \in Kinds
    /\ slots \in Seq(Slot) /\ Len(slots) = (IF kind = "unset" THEN 0 ELSE n)
    /\ nulls \in [size : Nat, set : SUBSET (1..n)]
    /\ phase \in {"building", "built", "spilled", "restored", "gone"}
    /\ \A c \in {column, block} :
          c.kind \in Kinds /\ c.slots \in Seq(Slot) /\ c.nulls \subseteq Nat

(***************************************************************************)
(* Whatever the rows are and in whichever order they come, reading slot i  *)
(* of the column the sheet holds, fresh or restored, tells what row i had: *)
(* null for null and only for null, the same value, or the float64 of the  *)
(* number.  A time nanoseconds cannot express comes back from the file as  *)
(* another one, but not as null.                                           *)
(***************************************************************************)
Tells(x, y) ==
    /\ (x = Null) <=> (y = Null)
    /\ \/ Held(x) = Held(y)
       \/ phase = "restored" /\ y.t = "time" /\ y.v \notin InRange /\ x.t = "time"

Holding == phase \in {"built", "restored"}

ColumnFaithful ==
    Holding => /\ Len(column.slots) = n
               /\ \A i \in 1..n : Tells(At(column, i), rows[i])

(***************************************************************************)
(* The kernels agree with the aggregates over the rows, as a database      *)
(* takes them (sheet/reduce.go:8): nulls are skipped, and what is no       *)
(* number for all but count; over nothing the answer is nil, and zero for  *)
(* count.  Nothing is said of min and max over values none of which is a   *)
(* number: a database has a least string and a greatest time.              *)
(***************************************************************************)
Present == {i \in 1..n : rows[i] # Null}
Known == {i \in 1..n : IsNumber(rows[i])}
FloatAt(i) == FloatOf[rows[i].v]

KernelsAgree ==
    Holding =>
      /\ KCount(column) = Cardinality(Present)
      /\ Known = {} => KSum(column) = NoAnswer /\ KAvg(column) = NoAnswer
      /\ Present = {} => KMin(column) = NoAnswer /\ KMax(column) = NoAnswer
      /\ Known # {} => /\ KSum(column) = MapThenSumSet(FloatAt, Known)
                       /\ KAvg(column) = <<MapThenSumSet(FloatAt, Known), Cardinality(Known)>>
                       /\ KMin(column) = Min({FloatAt(i) : i \in Known})
                       /\ KMax(column) = Max({FloatAt(i) : i \in Known})
===============================================================================
