----------------------------- MODULE PipeGrammar -----------------------------
(***************************************************************************)
(* The stages of the textual form, pipe/textual.go: a parser per keyword,  *)
(* each from the tokens behind the keyword to the stage's configuration.   *)
(*                                                                         *)
(* A name is the sequence of the lexemes it is written with; Bad stands    *)
(* for every parse error.  A reader is told by a parser only the fields it *)
(* sets: what follows a complete stage is mostly ignored.                  *)
(***************************************************************************)
EXTENDS PipeScan

CONSTANT Atoi    \* the numbers that are integers, with their value

Bad == [error |-> TRUE]

(* Records are built from the last option to the first: a later one wins.  *)
Put(field, value, config) ==
    IF config = Bad THEN Bad ELSE config @@ (field :> value)
Check(ok, config) == IF ok THEN config ELSE Bad

Is(token, word) == token.text = <<word>>
IsAt(tokens, i, word) == i \in DOMAIN tokens /\ Is(tokens[i], word)
(* The number of a token that is one; Atoi's error is ignored. *)
Count(token) == IF token.text[1] \in DOMAIN Atoi THEN Atoi[token.text[1]] ELSE 0

(* A list is its parts that are not empty, a name the first thing in one. *)
List(tokens) == SelectSeq(SplitOnComma(tokens), LAMBDA p : p # <<>>)
Names(tokens) == LET Of(parts) == [i \in DOMAIN parts |-> Value(parts[i][1])] IN Of(List(tokens))
Listed(field, items) == Check(items # <<>>, field :> items)

-------------------------------------------------------------------------------
ParseWhere(t) ==
    CASE t = <<>>           -> Bad
      [] t[1].kind = "raw"  -> [where |-> [expr |-> Value(t[1])]]
      [] Len(t) < 3         -> Bad
      [] OTHER              -> [where |-> [field |-> Value(t[1]), op |-> t[2].text, value |-> Value(t[3])]]

ParseSelect(t) ==
    LET Column(p) == [field |-> Value(p[1])] @@
                     (IF Len(p) = 3 /\ Is(p[2], "as") THEN "as" :> Value(p[3]) ELSE <<>>)
        Of(parts) == [i \in DOMAIN parts |-> Column(parts[i])]
    IN  Check(SplitOnComma(t) # <<>>, [select |-> Of(List(t))])

ParseCompute(t) ==
    Check(Len(t) = 3 /\ Is(t[2], "=") /\ t[3].kind \in {"raw", "string", "number"},
          IF Len(t) # 3 THEN Bad ELSE [as |-> Value(t[1]), expr |-> Value(t[3])])

ParseSort(t) ==
    LET Key(p) == [field |-> Value(p[1]), dir |-> IF IsAt(p, 2, "desc") THEN "desc" ELSE "asc"]
        Of(parts) == [i \in DOMAIN parts |-> Key(parts[i])]
    IN  Listed("by", Of(List(t)))

(* limit and skip *)
ParseCount(t) == IF Len(t) = 1 /\ t[1].kind = "number" THEN [n |-> Count(t[1])] ELSE Bad

(* groupBy and drop *)
ParseNames(field, t) == Listed(field, Names(t))

ParseAggregate(t) ==
    LET Shaped(p) == /\ Len(p) >= 6 /\ Is(p[2], "(") /\ Is(p[4], ")") /\ Is(p[5], "as")
                     /\ p[3].kind \in {"ident", "string"} \/ Is(p[3], "*")
        Agg(p) == [fn |-> p[1].text, field |-> Value(p[3]), as |-> Value(p[6])]
        Aggs(parts) == IF \A i \in DOMAIN parts : Shaped(parts[i])
                       THEN Listed("aggs", [i \in DOMAIN parts |-> Agg(parts[i])]) ELSE Bad
    IN  Aggs(SplitOnComma(t))

ParseDistinct(t) ==
    CASE t = <<>>        -> <<>>
      [] ~Is(t[1], "by") -> Bad
      [] OTHER           -> [by |-> Names(Tail(t))]

ParseFlatten(t) ==
    IF t = <<>> THEN Bad
    ELSE [field |-> Value(t[1])] @@ (IF Len(t) >= 3 /\ Is(t[2], "as") THEN "as" :> Value(t[3]) ELSE <<>>)

ParseRename(t) ==
    LET Renamed(parts) == FoldLeft(LAMBDA map, p : (Value(p[1]) :> Value(p[3])) @@ map, <<>>, parts)
        Map(parts) ==
            IF parts # <<>> /\ \A i \in DOMAIN parts : Len(parts[i]) >= 3 /\ Is(parts[i][2], "->")
            THEN [map |-> Renamed(parts)] ELSE Bad
    IN  Map(SplitOnComma(t))

ParseTap(t) == IF t = <<>> THEN <<>> ELSE [label |-> Value(t[1])]

(* A payload is JSON when the scanner finds it closed where the tokenizer  *)
(* ended it: the two disagree about a brace inside a string.               *)
IsJSON(token) == token.kind = "json" /\ ScanError(token.text) = "none"

ParseCallFunction(t) ==
    LET options[i \in 2..Len(t) + 2] ==
            CASE i > Len(t) -> <<>>
              [] Is(t[i], "pure") -> Put("pure", TRUE, options[i + 1])
              [] Is(t[i], "mode") /\ i < Len(t) -> Put("mode", t[i + 1].text, options[i + 2])
              [] Is(t[i], "as") /\ i < Len(t)   -> Put("as", Value(t[i + 1]), options[i + 2])
              [] Is(t[i], "args") /\ i < Len(t) ->
                    Check(IsJSON(t[i + 1]), Put("args", t[i + 1].text, options[i + 2]))
              [] OTHER -> Bad
    IN  IF t = <<>> THEN Bad ELSE Put("name", Value(t[1]), options[2])

(* The tokenizer keeps ".method" in the word of the app: the method's own  *)
(* branch is reached only when white space stands before the dot.          *)
ParseCallApp(t) ==
    LET method  == IsAt(t, 2, ".") /\ Len(t) >= 3
        next    == IF method THEN 4 ELSE 2
        payload == next \in DOMAIN t /\ t[next].kind = "json"
        last    == IF payload THEN next + 1 ELSE next
        as      == IsAt(t, last, "as")
    IN  IF t = <<>> \/ (payload /\ ~IsJSON(t[next])) \/ (as /\ last = Len(t)) THEN Bad
        ELSE [appId |-> Value(t[1])] @@ (IF method THEN "method" :> Value(t[3]) ELSE <<>>)
             @@ (IF payload THEN "payload" :> t[next].text ELSE <<>>)
             @@ (IF as THEN "as" :> Value(t[last + 1]) ELSE <<>>)

-------------------------------------------------------------------------------
Single(part) == Len(part) = 1

ParsePivot(t) ==
    LET Folded(value) == Len(value) = 4 /\ Is(value[2], "(") /\ Is(value[4], ")")
        Measure(value) ==
            IF Folded(value) THEN [aggregate |-> value[1].text, valueField |-> Value(value[3])]
            ELSE IF Single(value) THEN [valueField |-> Value(value[1])] ELSE Bad
        Head2(head) == IF Len(head) # 2 THEN Bad
                       ELSE IF ~Single(head[1]) THEN Bad
                       ELSE Put("columnKey", Value(head[1][1]), Measure(head[2]))
        Pivot(keys, config) == IF keys = <<>> THEN Bad ELSE Put("rowKeys", keys, config)
        At(for) == IF for = 0 THEN Bad
                   ELSE Pivot(Names(SubSeq(t, for + 1, Len(t))), Head2(SplitOnComma(SubSeq(t, 1, for - 1))))
    IN  At(IndexOfKeyword(t, "for"))

ParseUnpivot(t) ==
    LET Pair(inner) == IF Len(inner) # 2 THEN Bad
                       ELSE IF ~Single(inner[1]) \/ ~Single(inner[2]) THEN Bad
                       ELSE [nameAs |-> Value(inner[1][1]), valueAs |-> Value(inner[2][1])]
        Into(tail) == IF Len(tail) < 5 \/ ~IsAt(tail, 1, "(") \/ ~IsAt(tail, Len(tail), ")") THEN Bad
                      ELSE Pair(SplitOnComma(SubSeq(tail, 2, Len(tail) - 1)))
        Unpivot(cols, config) == IF cols = <<>> THEN Bad ELSE Put("valueCols", cols, config)
        At(to) == IF to = 0 THEN Bad ELSE Unpivot(Names(SubSeq(t, 1, to - 1)), Into(SubSeq(t, to + 1, Len(t))))
    IN  At(IndexOfKeyword(t, "to"))

ParseNest(t) ==
    LET Include(names, config) == IF names = <<>> THEN Bad ELSE config @@ ("include" :> names)
        Into(rest) == CASE rest = <<>>   -> Bad
                        [] Single(rest)  -> [into |-> Value(rest[1])]
                        [] IsAt(rest, 2, "include") ->
                              Include(Names(SubSeq(rest, 3, Len(rest))), [into |-> Value(rest[1])])
                        [] OTHER         -> Bad
        By(names, config) == IF names = <<>> THEN Bad ELSE Put("by", names, config)
        At(into) == IF into = 0 \/ ~IsAt(t, 1, "by") THEN Bad
                    ELSE By(Names(SubSeq(t, 2, into - 1)), Into(SubSeq(t, into + 1, Len(t))))
    IN  At(IndexOfKeyword(t, "into"))

ParseUnnestObject(t) ==
    LET options[i \in 2..Len(t) + 2] ==
            CASE i > Len(t) -> <<>>
              [] Is(t[i], "drop") -> Put("drop", TRUE, options[i + 1])
              [] Is(t[i], "prefix") /\ i < Len(t) -> Put("prefix", Value(t[i + 1]), options[i + 2])
              [] OTHER -> Bad
    IN  IF t = <<>> THEN Bad ELSE Put("field", Value(t[1]), options[2])

-------------------------------------------------------------------------------
OpOf == [where |-> "filter", select |-> "project", compute |-> "compute", sort |-> "sort",
         limit |-> "limit", skip |-> "skip", groupBy |-> "groupBy", aggregate |-> "aggregate",
         distinct |-> "distinct", flatten |-> "flatten", rename |-> "rename", drop |-> "drop",
         tap |-> "tap", callFunction |-> "callFunction", callApp |-> "callApp", pivot |-> "pivot",
         unpivot |-> "unpivot", nest |-> "nest", unnestObject |-> "unnestObject"]

Arguments(op, t) ==
    CASE op = "filter"       -> ParseWhere(t)
      [] op = "project"      -> ParseSelect(t)
      [] op = "compute"      -> ParseCompute(t)
      [] op = "sort"         -> ParseSort(t)
      [] op \in {"limit", "skip"} -> ParseCount(t)
      [] op = "groupBy"      -> ParseNames("keys", t)
      [] op = "drop"         -> ParseNames("columns", t)
      [] op = "aggregate"    -> ParseAggregate(t)
      [] op = "distinct"     -> ParseDistinct(t)
      [] op = "flatten"      -> ParseFlatten(t)
      [] op = "rename"       -> ParseRename(t)
      [] op = "tap"          -> ParseTap(t)
      [] op = "callFunction" -> ParseCallFunction(t)
      [] op = "callApp"      -> ParseCallApp(t)
      [] op = "pivot"        -> ParsePivot(t)
      [] op = "unpivot"      -> ParseUnpivot(t)
      [] op = "nest"         -> ParseNest(t)
      [] op = "unnestObject" -> ParseUnnestObject(t)

(* What the lenient parser tells of a stage it cannot parse: its operator, *)
(* under the name of the catalog, or the word that is none.                *)
KeywordOf(t) ==
    CASE t = <<>> -> ""
      [] OTHER    -> IF t[1].text[1] \in DOMAIN OpOf THEN OpOf[t[1].text[1]] ELSE t[1].text[1]
FirstStageKeyword(segment) == KeywordOf(Tokenize(segment))

ParseStage(segment) ==
    LET Stage(op, config) == IF config = Bad THEN Bad ELSE [op |-> op, config |-> config]
        Of(t) == IF t = <<>> THEN Bad ELSE IF t[1].text[1] \notin DOMAIN OpOf THEN Bad
                 ELSE Stage(KeywordOf(t), Arguments(KeywordOf(t), Tail(t)))
    IN  Of(Tokenize(segment))

ParseSource(segment) ==
    LET Of(t) == IF Len(t) >= 2 /\ IsAt(t, 1, "source") /\ t[2].kind \in {"ident", "string"}
                 THEN [dataset |-> Value(t[2])] ELSE Bad
    IN  Of(Tokenize(segment))

===============================================================================
