----------------------------- MODULE MCQueryEngine -----------------------------
(***************************************************************************)
(* Four small datasets and five more with other metadata, classic queries  *)
(* that combine every clause, queries that join up to two datasets, and    *)
(* every pipe of up to three of the stages below.                          *)
(***************************************************************************)
EXTENDS QueryEngine

Row(a, b, ws) == [c \in {"a", "b", "ws"} |->
                    IF c = "a" THEN a ELSE IF c = "b" THEN b ELSE ws]
VersionOf(row, cur) == [c \in DOMAIN row \cup {"cur"} |-> IF c = "cur" THEN cur ELSE row[c]]
NoRefs == [c \in {} |-> {}]

Dataset(table, raw, columns, data) ==
    [table |-> table, raw |-> raw, columns |-> columns, versioned |-> FALSE,
     refs |-> NoRefs, rows |-> data]
ABW == {"a", "b", "ws"}
Plain == Dataset("t", ABW, ABW, <<Row(1, 2, 1), Row(2, 1, 1), Row(1, 1, 2), Row(1, 0, 1)>>)
History ==
    [Dataset("t", ABW \cup {"cur"}, ABW \cup {"cur"},
             <<VersionOf(Row(2, 2, 1), 0), VersionOf(Row(2, 1, 1), 1),
               VersionOf(Row(1, 1, 1), 1)>>)
     EXCEPT !.versioned = TRUE]
Nulls == Dataset("t", ABW, ABW, <<Row(1, Null, 1), Row(Null, 1, 1), Row(2, 1, 1)>>)
Empty == Dataset("t", ABW, ABW, <<>>)

(***************************************************************************)
(* Without metadata; with references; and without the scope column.        *)
(***************************************************************************)
Undeclared == [Plain EXCEPT !.raw = {}]
Referring ==
    [Dataset("t", ABW \cup {"created_by"}, ABW \cup {"created_by"},
             <<[a |-> 1, b |-> 2, ws |-> 1, created_by |-> 1],
               [a |-> 2, b |-> 0, ws |-> 1, created_by |-> 3],
               [a |-> 1, b |-> 1, ws |-> 2, created_by |-> 2]>>)
     EXCEPT !.refs = [c \in {"a", "b"} |-> IF c = "a" THEN "t" ELSE "@team"]]
System == Dataset("t", {"a", "b"}, {"a", "b"}, <<[a |-> 1, b |-> 2], [a |-> 3, b |-> 1]>>)

(***************************************************************************)
(* The datasets that are joined: within the scope; without a scope column; *)
(* with a column of the first table; versioned; and without metadata.      *)
(***************************************************************************)
Person(id, c, ws) == [id |-> id, c |-> c, ws |-> ws]
IdCW == {"id", "c", "ws"}
People == Dataset("p", IdCW, IdCW,
                  <<Person(1, 2, 1), Person(1, 1, 2), Person(2, 1, 1), Person(3, 2, 2)>>)
Kinds == Dataset("p", {"id", "c"}, {"id", "c"},
                 <<[id |-> 1, c |-> 2], [id |-> 2, c |-> 1], [id |-> 4, c |-> 1]>>)
Pairs == Dataset("p", {"id", "c", "b"}, {"id", "c", "b"},
                 <<[id |-> 1, c |-> 2, b |-> 2], [id |-> 2, c |-> 1, b |-> 1]>>)
Editions == [Dataset("p", {"id", "c", "cur"}, {"id", "c", "cur"},
                     <<[id |-> 1, c |-> 2, cur |-> 0], [id |-> 1, c |-> 1, cur |-> 1]>>)
             EXCEPT !.versioned = TRUE]
Unknown == [People EXCEPT !.raw = {}]

MCQualified ==
    [c \in {"m.c", "m.ws", "t.a"} |->
        CASE c = "m.c"  -> [alias |-> "m", column |-> "c"]
          [] c = "m.ws" -> [alias |-> "m", column |-> "ws"]
          [] c = "t.a"  -> [alias |-> "t", column |-> "a"]]

(***************************************************************************)
(* What embedders wire: a scope that joins too, no scope, an optional      *)
(* column, and one the planner does not hear of.                           *)
(***************************************************************************)
Column(name, required, joins) ==
    [name |-> name, value |-> 1, required |-> required, joins |-> joins]
Host(scope, unbound) ==
    [scope |-> scope, unbound |-> unbound, expander |-> TRUE,
     knows |-> [kind \in {"@user", "@team"} |-> {1, 2}]]
Whole == {Column("ws", TRUE, TRUE)}
Scoped == Host(Whole, Whole)
Unscoped == Host({}, {})
Optional == LET scope == {Column("ws", FALSE, TRUE)} IN Host(scope, scope)
Forgetful == Host(Whole, {})
UsersOnly == [Scoped EXCEPT !.knows = [kind \in {"@user"} |-> {1, 2}]]
NoExpander == [Scoped EXCEPT !.expander = FALSE]

-------------------------------------------------------------------------------
OnA == Simple("a", ">", 1)
OnB == Simple("b", "==", 1)
OnK == Simple("k", ">", 2)
Wheres ==
    {NoWhere, OnA, OnK, Expr({"b"}), And({OnB, Expr({"b"})}), Or({OnA, Expr({"b"})}),
     Or({OnB, OnK}), Not(OnB), Simple("b", "is_null", Null), Simple("cur", "==", 0),
     Not(And({OnA, Expr({"b"})}))}

Agg(fn, c, as) == [fn |-> fn, field |-> c, as |-> as]
Count == Agg("COUNT", "*", "n")
SumB == Agg("SUM", "b", "s")
Aggs == {{Count}, {SumB}, {SumB, Count}, {Agg("COUNT", "b", "n")},
         {Agg("MIN", "b", "s")}, {Agg("MEDIAN", "b", "s")}}

By(c, desc) == <<[field |-> c, desc |-> desc]>>
K == [c \in {"k"} |-> {"a", "b"}]
NoneComputed == [c \in {} |-> {}]

Query(select, computed, where, keys, aggs, having, order, limit, offset) ==
    [AllRows EXCEPT !.select = select, !.computed = computed, !.where = where,
                    !.groupBy = keys, !.aggs = aggs, !.having = having,
                    !.orderBy = order, !.limit = limit, !.offset = offset]
Plainly ==
    {Query(s, k, w, <<>>, {}, NoWhere, o, l, off) :
        s \in {{}, {"a"}, {"a", "k"}, {"a", "b"}}, k \in {NoneComputed, K}, w \in Wheres,
        o \in {<<>>, By("b", FALSE), By("a", TRUE), By("k", TRUE)},
        l \in {NoLimit, 1}, off \in {0, 1}}
Sometimes == {q \in Plainly : Computed(q) = {} /\ q.offset = 0}
Folding_ ==
    {Query({}, k, w, g, a, h, o, l, 0) :
        k \in {NoneComputed, K}, w \in Wheres, g \in {<<>>, <<"a">>, <<"k">>}, a \in Aggs,
        h \in {NoWhere, Simple("n", ">", 1)}, o \in {<<>>, By("a", FALSE), By("n", TRUE)},
        l \in {NoLimit, 1}}
Classic == Plainly \cup Folding_

(***************************************************************************)
(* Queries over metadata that leaves out a column, and clauses out of step.*)
(***************************************************************************)
Partial == [Plain EXCEPT !.raw = {"a", "ws"}]
Unmarked == [History EXCEPT !.raw = ABW]
Cur == [c \in {"cur"} |-> {"a"}]
Uneven ==
    {Query(s, k, w, g, a, h, o, NoLimit, 0) :
        s \in {{}, {"b"}, {"a", "b"}}, k \in {NoneComputed, Cur}, w \in {NoWhere, Expr({"b"})},
        g \in {<<"a">>, <<"k">>}, a \in {{}, {Agg("COUNT", "b", "n")}},
        h \in {NoWhere, Simple("a", ">", 1), Not(Simple("a", ">", 1))}, o \in {<<>>, By("a", FALSE)}}
    \cup {Query(s, k, NoWhere, <<>>, {}, NoWhere, <<>>, NoLimit, 0) :
             s \in {{}, {"a", "b"}}, k \in {NoneComputed, Cur}}

(***************************************************************************)
(* Queries that join.                                                      *)
(***************************************************************************)
Join(d, alias, left, type) ==
    [dataset |-> d, alias |-> alias, left |-> left, right |-> "id", type |-> type]
Joins ==
    {<<Join(d, "m", "a", type)>> : d \in {People, Kinds}, type \in {"inner", "left"}}
    \cup {<<Join(People, "m", "t.a", type)>> : type \in {"right", "full", "cross"}}
    \cup {<<Join(d, "m", "a", "inner")>> : d \in {Pairs, Editions, Unknown}}
    \cup {<<Join(Pairs, "", "a", "left")>>, <<Join(Kinds, "t", "a", "inner")>>,
          <<Join(Kinds, "m", "c", "inner")>>}
    \cup {<<Join(People, "m", "a", type), Join(Kinds, "", left, "left")>> :
             type \in {"inner", "full"}, left \in {"t.a", "m.c"}}
JoinWheres ==
    {NoWhere, OnA, Simple("c", ">", 1), Simple("m.c", ">", 1), Simple("m.ws", "==", 1),
     Simple("b", "is_null", Null), Expr({"c"}), And({OnB, Expr({"m.c"})})}
Joining ==
    {[Query(s, NoneComputed, w, <<>>, {}, NoWhere, o, l, 0) EXCEPT !.join = j] :
        j \in Joins, s \in {{}, {"a"}, {"c"}, {"a", "c"}, {"a", "m.c"}}, w \in JoinWheres,
        o \in {<<>>, By("c", TRUE)}, l \in {NoLimit, 1}}
    \cup {[Query({}, NoneComputed, w, g, {a}, NoWhere, <<>>, NoLimit, 0) EXCEPT !.join = j] :
             j \in Joins, w \in JoinWheres, g \in {<<>>, <<"a">>, <<"c">>, <<"m.c">>},
             a \in {SumB, Agg("COUNT", "m.c", "n")}}

(***************************************************************************)
(* Queries that expand.                                                    *)
(***************************************************************************)
Expand_(all, columns) == [all |-> all, columns |-> columns]
Expanding ==
    {[Query(s, NoneComputed, w, <<>>, {}, NoWhere, o, NoLimit, 0) EXCEPT !.expand = e] :
        s \in {{}, {"a", "b"}, {"b", "created_by"}}, w \in {NoWhere, OnA, Expr({"b"})},
        o \in {<<>>, By("b", FALSE)},
        e \in {Expand_(TRUE, {}), Expand_(FALSE, {"b"}), Expand_(FALSE, {"created_by", "a"}),
               Expand_(FALSE, {"b", "ws"})}}

-------------------------------------------------------------------------------
Stage_ == [op |-> "tap", where |-> NoWhere, cols |-> {}, order |-> <<>>, n |-> 0,
           keys |-> <<>>, aggs |-> {}, expr |-> {}]
Filter(w) == [Stage_ EXCEPT !.op = "filter", !.where = w]
Project_(S) == [Stage_ EXCEPT !.op = "project", !.cols = S]
Sort(o) == [Stage_ EXCEPT !.op = "sort", !.order = o]
Limit(n) == [Stage_ EXCEPT !.op = "limit", !.n = n]
Skip(n) == [Stage_ EXCEPT !.op = "skip", !.n = n]
GroupBy(keys) == [Stage_ EXCEPT !.op = "groupBy", !.keys = keys]
Aggregate_(keys, aggs) == [Stage_ EXCEPT !.op = "aggregate", !.keys = keys, !.aggs = aggs]
Compute == [Stage_ EXCEPT !.op = "compute", !.cols = {"k"}, !.expr = {"a", "b"}]
Distinct_ == [Stage_ EXCEPT !.op = "distinct"]

StageSet ==
    {Filter(OnA), Filter(OnB), Filter(Expr({"b"})), Filter(Simple("cur", "==", 0)),
     Project_({"a"}), Project_({"*"}), Aggregate_(<<>>, {}), Sort(By("b", FALSE)),
     Sort(By("a", TRUE)), Limit(0), Limit(1), Limit(2), Skip(1), GroupBy(<<"a">>),
     Aggregate_(<<>>, {SumB}), Aggregate_(<<>>, {Agg("MEDIAN", "b", "s")}),
     Aggregate_(<<"a">>, {Count}), Compute, Distinct_}
MCPipes == UNION {[1..n -> StageSet] : n \in 1..3}

-------------------------------------------------------------------------------
World(d, h, queries, pipes) ==
    [dataset |-> d, host |-> h, queries |-> queries, pipes |-> pipes]
MCWorlds ==
    {World(d, Scoped, Classic, MCPipes) : d \in {Plain, History, Nulls, Empty}}
    \cup {World(d, Scoped, Joining, {}) : d \in {Plain, History}}
    \cup {World(Plain, h, Joining, {}) : h \in {Unscoped, Forgetful}}
    \cup {World(d, Optional, Joining, {}) : d \in {System, Undeclared}}
    \cup {World(Undeclared, Scoped, Sometimes, {})}
    \cup {World(d, Scoped, Uneven, {}) : d \in {Plain, History, Nulls, Partial, Unmarked}}
    \cup {World(Referring, h, Expanding, {}) : h \in {Scoped, UsersOnly, NoExpander}}

-------------------------------------------------------------------------------
(***************************************************************************)
(* The small inputs of the run that ends in a violation.                   *)
(***************************************************************************)
CutPipes == {<<Limit(1), Aggregate_(<<>>, {SumB})>>}
CutWorlds == {World(Plain, Scoped, {}, CutPipes)}
===============================================================================
