------------------------------ MODULE RowAlgebra ------------------------------
(***************************************************************************)
(* Rows and what is done to them, in memory (processor/processor.go and    *)
(* its mirror pipe/helpers.go) and by the database.                        *)
(*                                                                         *)
(* A row is a function from the columns it has to small numbers or Null.   *)
(* Where the database is free to order rows it keeps the order they are    *)
(* stored in, so that two ways to compute an answer can be compared.       *)
(***************************************************************************)
EXTENDS Integers, Sequences, FiniteSets, FiniteSetsExt, Functions

-------------------------------------------------------------------------------
Null == -1
NoLimit == -1
Get(row, c) == IF c \in DOMAIN row THEN row[c] ELSE Null

(***************************************************************************)
(* The places of a set in their order, and the rows at them.               *)
(***************************************************************************)
Nth(S, k) == CHOOSE i \in S : Cardinality({j \in S : j < i}) = k - 1
Kept(rows, S) == [k \in 1..Cardinality(S) |-> rows[Nth(S, k)]]

SumOf(f) == MapThenSumSet(LAMBDA x : f[x], DOMAIN f)

(***************************************************************************)
(* The host's evaluator: an expression is the columns it adds up.          *)
(***************************************************************************)
Eval(e, row) ==
    IF \E c \in e : Get(row, c) = Null THEN Null ELSE SumOf([c \in e |-> Get(row, c)])

-------------------------------------------------------------------------------
(***************************************************************************)
(* WHERE trees: conditions, and compounds of trees less high.              *)
(***************************************************************************)
Types == {"none", "expr", "simple", "and", "or", "not"}
Leaves == {"none", "expr", "simple"}
Layer(h, lower) ==
    {w \in [type : Types, field : STRING, op : STRING, value : Int, expr : SUBSET STRING,
            of : SUBSET lower, height : {h}] : w.type \in Leaves => w.of = {}}
Trees[h \in Nat] ==
    IF h = 0 THEN Layer(0, {}) ELSE Trees[h - 1] \cup Layer(h, Trees[h - 1])

NoWhere == [type |-> "none", field |-> "", op |-> "", value |-> Null,
            expr |-> {}, of |-> {}, height |-> 0]
Compound(type, S) ==
    [NoWhere EXCEPT !.type = type, !.of = S, !.height = 1 + Max({w.height : w \in S} \cup {0})]
And(S) == Compound("and", S)
Or(S) == Compound("or", S)
Not(w) == Compound("not", {w})
Simple(c, op, v) ==
    [NoWhere EXCEPT !.type = "simple", !.field = c, !.op = op, !.value = v]
Expr(e) == [NoWhere EXCEPT !.type = "expr", !.expr = e]

IsTree(w) == w.height \in Nat /\ w \in Trees[w.height]

(***************************************************************************)
(* A tree without a field or operator has empty ones. That a literal is a  *)
(* string is all the provers are not told.                                 *)
(***************************************************************************)
ASSUME EmptyNameAssumption == "" \in STRING

MergeAnd(v, w) ==
    IF v = NoWhere THEN w ELSE IF w = NoWhere THEN v ELSE And({v, w})

(***************************************************************************)
(* A tree is read from its leaves: Step is given what its parts read as.   *)
(***************************************************************************)
Read(Step(_, _), w) ==
    LET read[v \in Trees[w.height]] == Step(v, {read[u] : u \in v.of})
    IN  read[w]

Parts(w) == Read(LAMBDA v, of : {v} \cup UNION of, w)
HasExpr(w) == \E v \in Parts(w) : v.type = "expr"
Fields(w) == UNION {IF v.type = "simple" THEN {v.field} ELSE v.expr : v \in Parts(w)}

Compare(op, v, value) == IF op = "==" THEN v = value ELSE v > value

(***************************************************************************)
(* In memory a null compares as false, and "not" makes it true.            *)
(***************************************************************************)
SimpleHolds(w, row) ==
    LET v == Get(row, w.field)
    IN  IF w.op = "is_null" THEN v = Null ELSE v # Null /\ Compare(w.op, v, w.value)
HoldsIf(w, row, of) ==
    CASE w.type = "none"   -> TRUE
      [] w.type = "expr"   -> Eval(w.expr, row) \notin {Null, 0}
      [] w.type = "simple" -> SimpleHolds(w, row)
      [] w.type = "and"    -> FALSE \notin of
      [] w.type = "or"     -> TRUE \in of
      [] w.type = "not"    -> TRUE \notin of
Holds(w, row) == Read(LAMBDA v, of : HoldsIf(v, row, of), w)

(***************************************************************************)
(* In the database a comparison with null is neither true nor false.  The  *)
(* truth of a condition is 2, of its negation 0.                           *)
(***************************************************************************)
Undecided(w, row) == w.op # "is_null" /\ Get(row, w.field) = Null
SqlTruthIf(w, row, of) ==
    CASE w.type = "none"   -> 2
      [] w.type = "simple" ->
            IF Undecided(w, row) THEN 1 ELSE IF SimpleHolds(w, row) THEN 2 ELSE 0
      [] w.type = "and"    -> Min(of \cup {2})
      [] w.type = "or"     -> Max(of \cup {0})
      [] w.type = "not"    -> 2 - Max(of \cup {0})
SqlHolds(w, row) == Read(LAMBDA v, of : SqlTruthIf(v, row, of), w) = 2

-------------------------------------------------------------------------------
(***************************************************************************)
(* Tables.  What depends on the place, memory or database, is given it.    *)
(* In memory null is the least value, in the database the greatest.        *)
(***************************************************************************)
Memory == "memory"
Database == "database"
Rank(v, place) == IF v = Null /\ place = Database THEN 99 ELSE v

Before(order, place, r, s) ==
    \E n \in DOMAIN order :
        LET key(row) == Rank(Get(row, order[n].field), place)
        IN  /\ \A m \in 1..(n - 1) :
                  Rank(Get(r, order[m].field), place) = Rank(Get(s, order[m].field), place)
            /\ IF order[n].desc THEN key(r) > key(s) ELSE key(r) < key(s)

Sorted(order, place, rows) ==
    LET Precedes(i, j) == \/ Before(order, place, rows[i], rows[j])
                          \/ ~Before(order, place, rows[j], rows[i]) /\ i < j
    IN  [n \in DOMAIN rows |->
            rows[CHOOSE i \in DOMAIN rows :
                    Cardinality({j \in DOMAIN rows : Precedes(j, i)}) = n - 1]]

Page(rows, offset, limit) ==
    IF limit = NoLimit THEN SubSeq(rows, offset + 1, Len(rows))
    ELSE SubSeq(rows, offset + 1, Min({offset + limit, Len(rows)}))

Columns(row, S) == Restrict(row, S \cap DOMAIN row)

(***************************************************************************)
(* The groups of rows that agree on keys, in the order they are first met. *)
(***************************************************************************)
Groups(rows, keys) ==
    LET Key(r) == [c \in Range(keys) |-> Get(r, c)]
        Alike(i) == {j \in DOMAIN rows : Key(rows[j]) = Key(rows[i])}
        firsts == {i \in DOMAIN rows : \A j \in 1..(i - 1) : Key(rows[j]) # Key(rows[i])}
    IN  [n \in 1..Cardinality(firsts) |-> Kept(rows, Alike(Nth(firsts, n)))]

Pushable(a) == a.fn \in {"COUNT", "SUM", "MIN"}
Values(rows, c) == {i \in DOMAIN rows : Get(rows[i], c) # Null}
Total(rows, c) == SumOf([i \in Values(rows, c) |-> Get(rows[i], c)])
Least(rows, c, S) == Min({Get(rows[i], c) : i \in S})

(***************************************************************************)
(* computeAggregate: a null counts as zero, and a function it does not     *)
(* know answers nil.                                                       *)
(***************************************************************************)
ComputeAggregate(a, rows) ==
    CASE a.fn = "COUNT" -> IF a.field = "*" THEN Len(rows)
                           ELSE Cardinality(Values(rows, a.field))
      [] a.fn = "SUM"   -> Total(rows, a.field)
      [] a.fn = "MIN"   ->
            IF rows = <<>> THEN Null
            ELSE IF Values(rows, a.field) = DOMAIN rows
                 THEN Least(rows, a.field, DOMAIN rows)
                 ELSE Min({0} \cup {Get(rows[i], a.field) : i \in Values(rows, a.field)})
      [] OTHER          -> Null

SqlAggregate(a, rows) ==
    IF a.fn = "COUNT" THEN ComputeAggregate(a, rows)
    ELSE IF Values(rows, a.field) = {} THEN Null
    ELSE IF a.fn = "SUM" THEN Total(rows, a.field)
    ELSE Least(rows, a.field, Values(rows, a.field))

Aggregate(a, rows, place) ==
    IF place = Memory THEN ComputeAggregate(a, rows) ELSE SqlAggregate(a, rows)

Folded(rows, keys, aggs, place) ==
    LET Row(g) == [c \in Range(keys) \cup {a.as : a \in aggs} |->
                      IF c \in Range(keys) THEN Get(g[1], c)
                      ELSE Aggregate(CHOOSE a \in aggs : a.as = c, g, place)]
        groups == IF keys = <<>> THEN <<rows>> ELSE Groups(rows, keys)
    IN  [n \in DOMAIN groups |-> Row(groups[n])]
===============================================================================
