------------------------------ MODULE MCSubPipes ------------------------------
(***************************************************************************)
(* Pipes of one and two stages, and stages of sub-pipes, over small slices *)
(* of rows.  Numbers are in twelfths, so that quotients up to four are     *)
(* exact.                                                                  *)
(***************************************************************************)
EXTENDS SubPipes

MCColumns == <<"a", "b", "count", "g", "k", "l", "m", "n", "o", "v", "x">>
MCAlphabet == <<"<nil>", "a", "b", "count", "false", "g", "k", "l", "m", "n", "o", "v", "x", "y">>
MCNumerals == ("0" :> 0) @@ ("0.5" :> 6) @@ ("1" :> 12) @@ ("1.5" :> 18)
              @@ ("2" :> 24) @@ ("2.5" :> 30) @@ ("3" :> 36)
MCUnit == 12
MCSeeds == {<<0, 1, 0, 1, 2, 0, 6, 1>>, <<0, 0, 2, 3, 4, 1, 0, 7>>}
MCFailed == <<"failed", 0>>

TextOf(t) == IF IsNumber(t) THEN CHOOSE w \in DOMAIN MCNumerals : MCNumerals[w] = t[2] ELSE t[2]
MCColumnOf(prefix, t) == prefix \o TextOf(t)

Flag(b) == IF b THEN Whole(1) ELSE Whole(0)
MCEval(e, row) ==
    CASE e = "v"       -> IF "v" \in DOMAIN row THEN row["v"] ELSE Failed
      [] e = "g is a"  -> Flag(Get(row, "g") = Word("a"))
      [] e = "count>2" -> Flag(Get(row, "count")[1] = "number" /\ row["count"][2] > 2 * MCUnit)
      [] e = "1"       -> Whole(1)

A == Word("a")
B == Word("b")

\* Functions of a row, functions of rows, applications, and datasets.
MCHost(name, args, some) ==
    CASE name = "twice"   -> IF IsNumber(Get(args, "v")) THEN Number(2 * args["v"][2]) ELSE Failed
      [] name = "seen"    -> Object([x |-> Get(args, "v"), g |-> Get(args, "k")])
      [] name = "count"   -> Object([count |-> Whole(Len(some))])
      [] name = "known"   -> ListOf([m \in DOMAIN SelectSeq(some, LAMBDA r : "g" \in DOMAIN r) |->
                                 Object(SelectSeq(some, LAMBDA r : "g" \in DOMAIN r)[m])])
      [] name = "mixed"   -> ListOf(<<Object(args), Whole(1)>>)
      [] name = "right"   -> ListOf(<<Object([g |-> B, x |-> Whole(1)]), Object([g |-> Null])>>)
      [] name = "none"    -> ListOf(<<>>)
      [] name = "down"    -> Failed
      [] name = "summary" -> IF Len(some) = 4 THEN Failed ELSE Null

-------------------------------------------------------------------------------
G(g, v, o) == [g |-> g, v |-> v, o |-> o]
MCInputs ==
    { <<>>,
      <<G(A, Whole(1), Whole(2)), G(A, Whole(3), Whole(2)), G(B, Whole(2), Whole(1)), G(A, Null, Whole(3))>>,
      <<G(A, Null, Whole(1)), G(A, Whole(2), Whole(3)), G(A, Null, Whole(2)), G(B, Null, Whole(1))>>,
      <<G(Whole(1), Whole(1), Null), G(Word("1"), Word("1"), Whole(1)), G(Whole(1), Whole(1), Null)>>,
      <<[g |-> A, v |-> Number(6)], [v |-> Whole(1)], [g |-> B], [g |-> Null, v |-> Word("x")]>>,
      <<[g |-> Word("g"), v |-> Word("2.5")], [g |-> A, v |-> Null, x |-> Null]>>,
      <<[a |-> Whole(1), g |-> A], [b |-> Whole(1), g |-> A], [a |-> Whole(1), g |-> A]>>,
      <<[g |-> A, l |-> ListOf(<<Whole(1), B>>)], [g |-> B, l |-> ListOf(<<>>)], [g |-> A, l |-> Whole(2)]>>,
      <<[g |-> A, m |-> Object([v |-> Whole(2), m |-> Whole(1)])], [g |-> A, m |-> Null], [m |-> A]>> }

None == [op |-> "", fn |-> "", by |-> <<>>, order |-> <<>>, field |-> "", cell |-> "",
         as |-> "", name |-> "", prefix |-> "", n |-> 0, ratio |-> 0, cols |-> <<>>,
         value |-> Null, range |-> NoRow, entries |-> <<>>, expr |-> "", subs |-> <<>>]
Of(op, fn) == [None EXCEPT !.op = op, !.fn = fn]
By(f) == <<[field |-> f, desc |-> FALSE]>>
Down(f) == <<[field |-> f, desc |-> TRUE]>>

Windows ==
    {[Of("window", fn) EXCEPT !.by = by, !.order = order, !.field = "v", !.as = "x", !.n = n] :
        fn \in {"row_number", "rank", "dense_rank", "lag", "lead", "first_value", "last_value"},
        by \in {<<>>, <<"g">>}, order \in {By("o"), Down("v") \o By("o")}, n \in {0, 2}}
Tops == {[Of("topPerGroup", "") EXCEPT !.by = <<"g">>, !.order = order, !.n = n] :
            order \in {By("o"), Down("v")}, n \in 1..2}
Drops == {[Of("dropNulls", fn) EXCEPT !.cols = cols] :
            fn \in {"any", "all"}, cols \in {<<>>, <<"v">>, <<"g", "v">>}}
Fills == {[Of("fillNulls", fn) EXCEPT !.cols = cols, !.value = Whole(2), !.by = <<"g">>, !.order = By("o")] :
            fn \in {"value", "zero", "mean", "lastvalue", "nextvalue"}, cols \in {<<>>, <<"v">>}}
CastTo(f, to, onError) == [field |-> f, to |-> to, onError |-> onError]
Casts == {[Of("cast", "") EXCEPT !.entries = <<CastTo("v", to, onError), CastTo("g", "string", "fail")>>] :
            to \in {"int", "float", "string"}, onError \in {"null", "skip", "fail"}}
Dedupes == {[Of("dedupe", fn) EXCEPT !.by = by, !.order = order] :
            fn \in {"first", "last"}, by \in {<<"g">>, <<"g", "v">>}, order \in {<<>>, Down("o")}}
Distincts == {[Of("distinct", "") EXCEPT !.by = by] : by \in {<<>>, <<"v">>}}
Samples == {[Of("sample", fn) EXCEPT !.n = size[1], !.ratio = size[2]] :
            fn \in {"random", "systematic"}, size \in {<<2, 0>>, <<3, 0>>, <<-1, 0>>, <<0, 1>>, <<0, 3>>}}
Asserts == {[Of("assert", "row") EXCEPT !.expr = "v"], [Of("assert", "overall") EXCEPT !.expr = "count>2"],
            [Of("assert", "rows") EXCEPT !.expr = "1"], [Of("assert", "row") EXCEPT !.expr = "g is a"]}
Pivots == {[Of("pivot", fn) EXCEPT !.by = by, !.field = field, !.cell = "v", !.prefix = p] :
            fn \in Aggregates, by \in {<<>>, <<"g">>}, field \in {"o", "g"}, p \in {"", "k"}}
Unpivots == {[Of("unpivot", "") EXCEPT !.by = by, !.cols = cols, !.name = "n", !.as = "x"] :
            by \in {<<>>, <<"g">>}, cols \in {<<>>, <<"v", "o">>}}
Nests == {[Of("nest", "") EXCEPT !.by = <<"g">>, !.cols = cols, !.as = "l"] : cols \in {<<>>, <<"v">>}}
Flattens == {[Of("flatten", fn) EXCEPT !.field = "l", !.as = as, !.name = name] :
            fn \in {"", "preserveEmpty"}, as \in {"", "x"}, name \in {"", "n"}}
Unnests == {[Of("unnestObject", fn) EXCEPT !.field = "m", !.prefix = p] : fn \in {"", "drop"}, p \in {"", "k"}}
Let(as, expr, from) == [as |-> as, expr |-> expr, from |-> from]
Transforms == {[Of("transform", fn) EXCEPT !.entries = e, !.cols = cols] :
            fn \in {"", "replace"}, cols \in {<<>>, <<"v">>},
            e \in {<<Let("x", "v", "")>>, <<Let("v", "", "g"), Let("x", "v", "")>>}}
Ranges == {NoRow, "min" :> 12, ("min" :> 18) @@ ("max" :> 30), ("min" :> 24) @@ ("max" :> 24)}
Histograms == {[Of("histogram", "") EXCEPT !.field = "v", !.n = n, !.range = r] : n \in {1, 2, 3}, r \in Ranges}

Projects == {[Of("project", "") EXCEPT !.entries = e] :
            e \in {<<Let("x", "", "g"), Let("", "", "v")>>, <<Let("v", "", "g"), Let("v", "", "x"), Let("o", "", "")>>}}
            \cup {[Of(op, "") EXCEPT !.cols = <<"v", "x">>] : op \in {"project", "drop"}} \cup {Of("project", "")}
\* New names only; a swap; a chain; two for one name; a name for itself.
Renames == {[Of("rename", "") EXCEPT !.entries = e] :
            e \in {<<Let("x", "", "g"), Let("o", "", "v")>>, <<Let("v", "", "g"), Let("g", "", "v")>>,
                   <<Let("v", "", "g"), Let("x", "", "v")>>, <<Let("x", "", "g"), Let("x", "", "v")>>,
                   <<Let("v", "", "v")>>}}
Calls == {[Of("callFunction", fn) EXCEPT !.name = name, !.as = as, !.entries = e] :
            fn \in {"perRow", "literal", "batch"}, as \in {"", "x"},
            name \in {"twice", "seen", "count", "known", "mixed"},
            e \in {<<>>, <<Let("k", "", "g"), Let("v", "y", "")>>}}
        \cup {[Of("callApp", fn) EXCEPT !.name = name] :
            fn \in {"perRow", "batch"}, name \in {"known", "mixed", "summary"}}
Crosses == {[Of("crossJoin", "") EXCEPT !.name = name, !.as = as, !.cols = cols] :
            name \in {"right", "none", "down"}, as \in {"", "k"}, cols \in {<<>>, <<"x">>}}

Singles == Windows \cup Tops \cup Drops \cup Fills \cup Casts \cup Dedupes \cup Distincts \cup Samples
           \cup Asserts \cup Pivots \cup Unpivots \cup Nests \cup Flattens \cup Unnests
           \cup Transforms \cup Histograms \cup Projects \cup Renames \cup Calls \cup Crosses

\* Stages that write in place, make rows, drop them or fail.
Number0 == [Of("window", "row_number") EXCEPT !.order = By("o"), !.as = "x"]
Zero == [Of("fillNulls", "zero") EXCEPT !.cols = <<"v">>]
Known == [Of("dropNulls", "any") EXCEPT !.cols = <<"v">>]
Ints == [Of("cast", "") EXCEPT !.entries = <<CastTo("v", "int", "fail")>>]
Copy == [Of("transform", "") EXCEPT !.entries = <<Let("g", "", "v")>>]
Elements == [Of("flatten", "preserveEmpty") EXCEPT !.field = "l"]
Lists == [Of("nest", "") EXCEPT !.by = <<"g">>, !.as = "l"]
Some2 == [Of("sample", "random") EXCEPT !.n = 2]
Once == Of("distinct", "")
Names == [Of("rename", "") EXCEPT !.entries = <<Let("v", "", "o"), Let("n", "", "g")>>]
Count == [Of("callFunction", "batch") EXCEPT !.name = "count", !.as = "v"]
Known2 == [Of("callApp", "perRow") EXCEPT !.name = "known"]
Cross == [Of("crossJoin", "") EXCEPT !.name = "right", !.cols = <<"x">>]
Works == {Number0, Zero, Known, Ints, Copy, Elements, Lists, Some2, Once, Names, Count, Known2, Cross}

Subs(op, by, expr, subs) == [Of(op, "") EXCEPT !.by = by, !.expr = expr, !.subs = subs]
SubLists == {<<<<s>>, <<t>>>> : s \in Works, t \in Works} \cup {<<<<Zero, Number0>>, <<Known>>>>}
Composed ==
    {Subs(op, by, "", subs) : op \in {"merge", "intersect", "except"}, by \in {<<>>, <<"g">>}, subs \in SubLists}
    \cup {Subs("branch", <<>>, e, subs) : e \in {"g is a", "v"}, subs \in SubLists \cup {<<<<Copy>>, <<>>>>}}
    \cup {Subs("merge", <<>>, "", <<<<Zero>>, <<Copy>>, <<Number0>>>>)}

Wrong ==
    {Of("window", "rank"), [Of("topPerGroup", "") EXCEPT !.order = By("")], Of("fillNulls", "median"),
     Of("cast", ""), Of("dedupe", "first"), Of("sample", "random"), Of("assert", "row"), Of("pivot", "sum"),
     Of("unpivot", ""), Of("nest", ""), Of("flatten", ""), Of("transform", ""), Of("histogram", ""),
     Of("rename", ""), Of("drop", ""), Of("callFunction", "batch"), Of("callApp", "batch"), Of("crossJoin", ""),
     [Of("callFunction", "each") EXCEPT !.name = "twice"],
     [Of("project", "") EXCEPT !.cols = <<"v">>, !.entries = <<Let("x", "", "g")>>],
     Subs("merge", <<>>, "", <<>>), Subs("intersect", <<>>, "", <<<<Zero>>>>),
     Subs("except", <<>>, "", <<<<Zero>>, <<>>>>), Subs("branch", <<>>, "", <<<<Zero>>, <<>>>>),
     Subs("merge", <<>>, "", <<<<Of("cast", "")>>>>)}

MCPipes == {<<s>> : s \in Singles \cup Composed \cup Wrong}
           \cup {<<s, t>> : s \in Works, t \in Works}
           \cup {<<Subs("merge", <<>>, "", <<<<Zero>>, <<Copy>>>>), s>> : s \in Works}
===============================================================================
