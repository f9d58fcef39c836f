----------------------------- MODULE MCPipeEditor -----------------------------
(***************************************************************************)
(* Instances of PipeEditor for TLC: one document the user works in and a   *)
(* second, small one; a sentence for every form of every keyword, each     *)
(* with a plain name and with names that are keywords or marks in quotes;  *)
(* the ways a sentence goes wrong; and pipes submitted as documents.       *)
(***************************************************************************)
EXTENDS PipeEditor

MCNumbers == {"1", "1.5", "-3"}
MCAtoi == [n \in {"1", "-3"} |-> IF n = "1" THEN 1 ELSE -3]

(* A name as it is written and as it is meant. *)
Bare(n) == [w |-> <<n>>, v |-> <<n>>]
Quoted(n) == [w |-> <<Quote>> \o n \o <<Quote>>, v |-> n]
Written == {Bare("a"), Quoted(<<"for">>), Quoted(<<"a", Escape, Quote, "|", "(", ",">>)}

b == <<"b">>
Object == <<"{", "k", ":", "1", "}">>
Stage(w, op, config) == [says |-> <<"|">> \o w, means |-> [op |-> op, config |-> config]]

Sentences(n) ==
    {Stage(<<"where">> \o n.w \o <<"==", "1">>, "filter",
           [where |-> [field |-> n.v, op |-> <<"==">>, value |-> <<"1">>]]),
     Stage(<<"where", Tick, "a", "|", "(", Tick>>, "filter", [where |-> [expr |-> <<"a", "|", "(">>]]),
     Stage(<<"select">> \o n.w \o <<"as", "b", ",", "a">>, "project",
           [select |-> <<[field |-> n.v, as |-> b], [field |-> <<"a">>]>>]),
     Stage(<<"compute">> \o n.w \o <<"=", Tick, "b", "|", "1", Tick>>, "compute",
           [as |-> n.v, expr |-> <<"b", "|", "1">>]),
     Stage(<<"sort">> \o n.w \o <<"desc", ",", Newline, "b">>, "sort",
           [by |-> <<[field |-> n.v, dir |-> "desc"], [field |-> b, dir |-> "asc"]>>]),
     Stage(<<"limit", "1">>, "limit", [n |-> 1]),
     Stage(<<"skip", "1">>, "skip", [n |-> 1]),
     Stage(<<"groupBy">> \o n.w \o <<",", "b">>, "groupBy", [keys |-> <<n.v, b>>]),
     Stage(<<"aggregate", "sum", "(">> \o n.w \o <<")", "as", "b", ",", "count", "(", "*", ")", "as", "a">>, "aggregate",
           [aggs |-> <<[fn |-> <<"sum">>, field |-> n.v, as |-> b], [fn |-> <<"count">>, field |-> <<"*">>, as |-> <<"a">>]>>]),
     Stage(<<"distinct">>, "distinct", <<>>),
     Stage(<<"distinct", "by", "b", ",">> \o n.w, "distinct", [by |-> <<b, n.v>>]),
     Stage(<<"flatten">> \o n.w, "flatten", [field |-> n.v]),
     Stage(<<"flatten", "b", "as">> \o n.w, "flatten", [field |-> b, as |-> n.v]),
     Stage(<<"rename">> \o n.w \o <<"->", "b">>, "rename", [map |-> n.v :> b]),
     Stage(<<"drop">> \o n.w, "drop", [columns |-> <<n.v>>]),
     Stage(<<"tap">>, "tap", <<>>),
     Stage(<<"tap">> \o n.w, "tap", [label |-> n.v])}

Calls(n) ==
    {Stage(<<"callFunction">> \o n.w \o <<"mode", "batch", "pure", "args">> \o Object \o <<"as", "b">>, "callFunction",
           [name |-> n.v, mode |-> <<"batch">>, pure |-> TRUE, args |-> Object, as |-> b]),
     Stage(<<"callFunction", "b", "as">> \o n.w, "callFunction", [name |-> b, as |-> n.v]),
     Stage(<<"callApp", "app.method">> \o Object \o <<"as">> \o n.w, "callApp",
           [appId |-> <<"app.method">>, payload |-> Object, as |-> n.v]),
     Stage(<<"callApp", "app", ".", "method", "as">> \o n.w, "callApp",
           [appId |-> <<"app">>, method |-> <<"method">>, as |-> n.v]),
     Stage(<<"pivot", "b", ",">> \o n.w \o <<"for", "a">>, "pivot",
           [columnKey |-> b, valueField |-> n.v, rowKeys |-> <<<<"a">>>>]),
     Stage(<<"pivot", "b", ",", "sum", "(">> \o n.w \o <<")", "for">> \o n.w \o <<",", "a">>, "pivot",
           [columnKey |-> b, aggregate |-> <<"sum">>, valueField |-> n.v, rowKeys |-> <<n.v, <<"a">>>>]),
     Stage(<<"unpivot", "b", ",">> \o n.w \o <<"to", "(">> \o n.w \o <<",", "a", ")">>, "unpivot",
           [valueCols |-> <<b, n.v>>, nameAs |-> n.v, valueAs |-> <<"a">>]),
     Stage(<<"nest", "by", "b", "into">> \o n.w, "nest", [by |-> <<b>>, into |-> n.v]),
     Stage(<<"nest", "by">> \o n.w \o <<"into", "b", "include", "a", ",">> \o n.w, "nest",
           [by |-> <<n.v>>, into |-> b, include |-> <<<<"a">>, n.v>>]),
     Stage(<<"unnestObject">> \o n.w \o <<"prefix", "b", "drop">>, "unnestObject",
           [field |-> n.v, prefix |-> b, drop |-> TRUE])}

Good == UNION {Sentences(n) : n \in Written} \cup UNION {Calls(n) : n \in Written \ {Bare("a")}}

(* Unfinished, mistaken, or taken for something else. *)
Wrong ==
    {<<>>, <<"filter", "a", "==", "1">>, <<"project", "a">>, <<"sheet">>, <<"frobnicate">>, <<"where">>, <<"where", "a">>,
     <<"where", "a", "in", "[", "1", "]">>, <<"where", "a", "==", "1", "and", "b">>,
     <<"where", Quote, "a", "==", "1">>, <<"where", Quote, "a", Escape, Quote>>, <<"compute", "a", "=">>,
     <<"compute", "a", "=", Tick, "b">>, <<"compute", "a", "=", "b">>, <<"select">>, <<"select", ",">>, <<"sort", "a", "d">>,
     <<"sort">>, <<"limit">>, <<"limit", "1.5">>, <<"limit", "-3">>, <<"limit", "a">>, <<"skip">>, <<"groupBy", ",">>,
     <<"aggregate">>, <<"aggregate", "median", "(", "a", ")", "as", "b">>, <<"aggregate", "sum", "(", "a">>,
     <<"aggregate", "sum", "(", "a", ")">>, <<"distinct", "a">>, <<"distinct", "by">>, <<"flatten">>,
     <<"rename", "a">>, <<"rename", "a", "->">>, <<"drop">>, <<"callFunction">>, <<"callFunction", "f", "mode", "x">>,
     <<"callFunction", "f", "args", "{", Quote, "}", Quote, "}">>, <<"callFunction", "f", "once">>, <<"callApp">>,
     <<"callApp", "app", "as">>, <<"pivot", "a", "for", "b">>, <<"pivot", "a", ",", "median", "(", "b", ")", "for", "c">>,
     <<"unpivot", "a", "to", "b">>, <<"nest", "by", "a">>, <<"unnestObject">>, <<"unnestObject", "a", "drop", "b">>,
     <<"merge">>, <<"branch", "a">>, <<"except">>, <<"tap", ")">>, <<"tap", "[", "}">>, <<"whe">>, <<"li">>}

Typed(w) == [says |-> w, means |-> Bad]
Segment(w) == Typed(<<"|">> \o w)
Opened(w, means) == [says |-> w, means |-> means]

Events == [dataset |-> <<"events">>]
WithQuote == Stage(<<"where", Quote, "|", Quote, "==", Quote, "}", Escape, Quote, "|", Quote>>, "filter",
                   [where |-> [field |-> <<"|">>, op |-> <<"==">>, value |-> <<"}", Escape, Quote, "|">>]])

NoStage == <<Bad, Bad>>
Final == <<Bad, Bad, Bad>>
MCOpenings == [d \in Uris |->
    IF d = CHOOSE e \in Uris : TRUE
    THEN {Opened(<<"source", "events", Newline>> \o WithQuote.says \o <<Newline>>, <<Events, WithQuote.means>>),
          Opened(<<"source", Quote, "a", "|", Quote, "|", "drop", "b">>,
                 <<[dataset |-> <<"a", "|">>], [op |-> "drop", config |-> [columns |-> <<b>>]]>>),
          Opened(<<"source", "events", "|", "rename", "a", Newline>>, NoStage), Opened(<<"source", "events">>, Final),
          Opened(<<"#", "x", Newline, "source", "events", "|", "limit", "1">>, Final), Opened(<<"source">>, Final),
          Opened(<<"events">>, Final), Opened(<<"events", "|", "limit", "1">>, Final), Opened(<<>>, Final),
          Opened(<<"version", ":", "1", Newline>>, Final), Opened(<<"{", "}">>, Final)}
    ELSE {Opened(<<"source", "events", "|", "limit">>, Final)}]

MCAdditions == [d \in Uris |->
    Good \cup {Segment(w) : w \in Wrong} \cup {Typed(<<Newline>>), Typed(<<Quote>>), Typed(<<"a">>)}]

MCHosts == {{}, {"eval"}, {"eval", "formula"}, {"functionRegistry"}, Services}
MCColumns == [events |-> {"a", "b"}]
MCCompletes == [li |-> {"limit", "like"}, whe |-> {"where"}, a |-> {"aggregate", "avg", "asc"}]
MCSamples == {t.means : t \in Good}

-------------------------------------------------------------------------------
Of(op, config) == [op |-> op, config |-> config]
On == <<"id">>
Expr == <<"1">>
Filters == Of("filter", [where |-> [expr |-> Expr]])
Drops == Of("drop", [columns |-> <<b>>])
Fields(fields) == [f \in fields |-> b]

MCSubmissions ==
    {<<>>, <<Drops, Of("sheets", <<>>)>>, <<Of("sheet", [formulas |-> Expr]), Drops>>} \cup
    {<<Drops, s>> : s \in
       {Of(op, Fields(RequiredFields(op) \ {f})) :
            op \in {"rename", "drop", "flatten", "groupBy", "unnestObject", "nest", "unpivot"}, f \in {"none", "map", "nameAs", "columns", "keys", "field"}}} \cup
    {<<s>> : s \in
      {Filters, Of("filter", <<>>), Of("project", [select |-> b, drop |-> b]), Of("project", [drop |-> b]),
       Of("compute", [as |-> b, expr |-> Expr]), Of("compute", [expr |-> Expr]), Of("compute", [as |-> b, kind |-> b]),
       Of("compute", [as |-> b, kind |-> b, formula |-> Expr]), Of("limit", [n |-> -1]), Of("skip", [n |-> 0]),
       Of("aggregate", [aggs |-> <<[fn |-> <<"sum">>, as |-> b]>>]), Of("aggregate", [aggs |-> <<[fn |-> <<"sum">>]>>]),
       Of("aggregate", <<>>), Of("window", [as |-> b, fn |-> <<"rank">>]),
       Of("window", [as |-> b, fn |-> <<"rank">>, orderBy |-> b]), Of("window", [as |-> b, fn |-> <<"lag">>, orderBy |-> b]),
       Of("window", [as |-> b, fn |-> <<"last_value">>, field |-> b]), Of("window", [as |-> b]),
       Of("lookup", [dataset |-> b]), Of("lookup", [dataset |-> b, on |-> On]),
       Of("lookup", [dataset |-> b, on |-> On, mode |-> <<"outer">>]), Of("lookup", [dataset |-> b, on |-> On, mode |-> <<"left">>]),
       Of("callFunction", <<>>), Of("callFunction", [name |-> b, mode |-> <<"twice">>]), Of("callApp", <<>>),
       Of("callApp", [appId |-> b]), Of("algo", <<>>), Of("algo", [name |-> <<"rank">>]), Of("algo", [name |-> <<"unknown">>]),
       Of("timeBucket", [field |-> b, interval |-> <<"1h">>]), Of("timeBucket", [field |-> b, interval |-> <<"1h">>, as |-> b]),
       Of("timeBucket", [field |-> b, interval |-> b, as |-> b]), Of("gapfill", [field |-> b]),
       Of("gapfill", [field |-> b, interval |-> <<"5m">>]),
       Of("asofJoin", Fields({"dataset", "leftTime", "rightTime"})), Of("asofJoin", Fields({"dataset", "leftTime"})),
       Of("asofJoin", Fields({"dataset", "leftTime", "rightTime", "direction"})),
       Of("asofJoin", Fields({"dataset", "leftTime", "rightTime", "tolerance"})),
       Of("topPerGroup", [n |-> 1, by |-> b]), Of("topPerGroup", [by |-> b]), Of("pivot", Fields({"columnKey"})),
       Of("pivot", Fields({"columnKey", "valueField", "aggregate"})), Of("dropNulls", <<>>),
       Of("fillNulls", [method |-> <<"zero">>]), Of("fillNulls", [method |-> b]), Of("distinct", <<>>), Of("tap", <<>>),
       Of("transform", [compute |-> <<[as |-> b, expr |-> Expr]>>]), Of("transform", [compute |-> <<[as |-> b]>>]),
       Of("transform", [compute |-> <<[as |-> b, from |-> b]>>]),
       Of("transform", [compute |-> <<[as |-> b, from |-> b, expr |-> Expr]>>]), Of("transform", <<>>),
       Of("cast", [casts |-> <<[field |-> b, to |-> <<"int">>]>>]), Of("cast", [casts |-> <<[field |-> b, to |-> b]>>]),
       Of("dedupe", [by |-> b, keep |-> b]), Of("dedupe", [by |-> b]), Of("sample", [n |-> 1]), Of("sample", [ratio |-> 50]),
       Of("sample", [n |-> 1, ratio |-> 50]), Of("sample", [ratio |-> 101]), Of("sample", <<>>),
       Of("assert", [expr |-> Expr]), Of("assert", <<>>), Of("crossJoin", [dataset |-> b]), Of("crossJoin", <<>>),
       Of("histogram", [field |-> b, bins |-> 4]), Of("histogram", [field |-> b]),
       Of("branch", [when |-> Expr, then |-> <<Drops>>, else |-> <<>>]),
       Of("branch", [when |-> <<>>, then |-> <<Drops>>, else |-> <<>>]),
       Of("branch", [when |-> Expr, then |-> <<Of("drop", <<>>)>>, else |-> <<>>]),
       Of("branch", [when |-> Expr, then |-> <<Drops>>]), Of("branch", [when |-> Expr]), Of("branch", <<>>),
       Of("merge", <<>>), Of("intersect", <<>>), Of("except", [left |-> <<Drops>>]), Of("except", <<>>),
       Of("merge", [sources |-> <<<<Drops>>, <<>>>>]), Of("merge", [sources |-> <<<<Drops>>>>]),
       Of("merge", [sources |-> <<<<Of("sheet", [formulas |-> Expr])>>>>]),
       Of("merge", [sources |-> <<<<Filters, Of("drop", <<>>)>>>>]),
       Of("intersect", [sources |-> <<<<Drops>>>>]), Of("intersect", [sources |-> <<<<Drops>>, <<Drops>>>>]),
       Of("except", [left |-> <<Drops>>, right |-> <<Of("limit", [n |-> -1])>>]), Of("except", [left |-> <<Drops>>, right |-> <<>>])}}
===============================================================================
