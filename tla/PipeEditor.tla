------------------------------ MODULE PipeEditor ------------------------------
(***************************************************************************)
(* The textual front end of a pipe: the strict and the lenient parser, the *)
(* diagnostics and completions of pipe/ and lang/, and the language server *)
(* cmd/dql-lsp between an editor and them.                                 *)
(*                                                                         *)
(* The editor sends notifications and requests in the order of what the    *)
(* user does and does not wait; the server handles them one by one in that *)
(* order (the langserver library's part) and publishes diagnostics, which  *)
(* stay in the editor until others replace them.                           *)
(***************************************************************************)
EXTENDS PipeGrammar, PipeCatalog

CONSTANTS
    Uris,           \* the documents of the editor
    Openings,       \* for a document, the texts it may be opened with: a text
                    \* says lexemes, and means a dataset and stages, or Bad
    Additions,      \* for a document, what may be typed at its end: it says
                    \* lexemes and means one stage, or Bad
    MaxSegments,    \* a bound: the source and the stages of a document
    MaxUnsent,      \* a bound: messages under way to the server
    Hosts,          \* the wirings of services completions are asked for
    Submissions,    \* the pipes a host submits in the form of documents
    Samples,        \* stages a user may write behind a keyword
    Columns,        \* the columns of the datasets that are known
    Completes       \* for a part of a word, the labels it begins

ASSUME EditorAssumption ==
    \A u \in Uris : /\ \A t \in Openings[u] : t.says \in Seq(STRING)
                    /\ \A t \in Additions[u] : t.says \in Seq(STRING)

(* A document that a host submits has been decoded: its pipe is a list of  *)
(* stages, and so is every pipe inside a stage.  A bound: the stages       *)
(* inside a stage hold no further pipes.                                   *)
IsList(s) == s \in Seq(Range(s))
HoldsLists(stage) ==
    LET c == stage.config
        sources == Inner(c, "sources")
    IN  /\ stage.op = "branch" => IsList(Inner(c, "then")) /\ IsList(Inner(c, "else"))
        /\ stage.op \in {"merge", "intersect"} => IsList(sources) /\ \A i \in DOMAIN sources : IsList(sources[i])
        /\ stage.op = "except" => IsList(Inner(c, "left")) /\ IsList(Inner(c, "right"))
OneDeep(stage) ==
    stage.op \in Nesting =>
        \A part \in Range(PartsOf(stage)) : \A s \in Range(part.pipe) : s.op \notin Nesting

ASSUME SubmissionAssumption ==
    \A stages \in Submissions :
        IsList(stages) /\ \A i \in DOMAIN stages : HoldsLists(stages[i]) /\ OneDeep(stages[i])

VARIABLES
    text,       \* the documents open in the editor, with their text
    meant,      \* what the user meant by it: a dataset, then stages
    unsent,     \* the messages under way to the server, in their order
    docs,       \* the server's documents
    gutter,     \* the diagnostics the editor shows for each document
    offered,    \* what the last completion request was answered with
    rejected    \* the stages of the last submission that were reported

vars == <<text, meant, unsent, docs, gutter, offered, rejected>>

-------------------------------------------------------------------------------
(***************************************************************************)
(* The parsers.  A query is its dataset and its stages; the strict parser  *)
(* stops at the first segment at fault, the lenient one goes on and leaves *)
(* an empty stage of the operator where there is one.                      *)
(***************************************************************************)
Failure(at) == [failed |-> at]

(* Both report the same faults in front of the stages. *)
Sourced(t) ==
    LET From(source, segments) == IF source = Bad THEN Failure("source")
                                  ELSE [from |-> source.dataset, segments |-> segments]
        Of(segments) == From(ParseSource(segments[1]), Tail(segments))
    IN  IF ScanError(t) # "none" THEN Failure(ScanError(t)) ELSE Of(SplitTopLevel(t))
Failed(result) == "failed" \in DOMAIN result

ParseText(t) ==
    LET Of(from, stages, first) == IF first = 0 THEN [from |-> from, pipe |-> stages]
                                                ELSE [failed |-> "stage", stage |-> first]
        Whole(from, stages) == Of(from, stages, SelectInSeq(stages, LAMBDA s : s = Bad))
        From(head) == IF Failed(head) THEN head
                      ELSE Whole(head.from, [i \in DOMAIN head.segments |-> ParseStage(head.segments[i])])
    IN  From(Sourced(t))

Told(found, op) ==
    [found EXCEPT !.pipe = IF Known(op) THEN Append(@, [op |-> op, config |-> <<>>]) ELSE @,
                  !.diagnostics = Append(@, [stage |-> found.next, op |-> op,
                                             missing |-> IF Known(op) THEN RequiredFields(op) ELSE {}])]
Lenient(found, segment) ==
    LET With(stage) == IF stage = Bad THEN Told(found, FirstStageKeyword(segment))
                                      ELSE [found EXCEPT !.pipe = Append(@, stage)]
    IN  [With(ParseStage(segment)) EXCEPT !.next = @ + 1]

ParseTextLenient(t) ==
    LET Start(head) == [from |-> head.from, pipe |-> <<>>, next |-> 0, diagnostics |-> <<>>]
        Read(head) ==
            LET found[n \in 0..Len(head.segments)] ==
                    IF n = 0 THEN Start(head) ELSE Lenient(found[n - 1], head.segments[n])
            IN  found[Len(head.segments)]
        From(head) == IF Failed(head) THEN head ELSE Read(head)
    IN  From(Sourced(t))

-------------------------------------------------------------------------------
(* Diagnostics: what kind of fault, and at which line and column. *)
TextualErrorDiagnostic(t, error) ==
    LET at == CASE error.failed = "string"     -> LastOf(t, Quote)
                [] error.failed = "expression" -> LastOf(t, Tick)
                [] error.failed = "brackets"   -> FirstUnbalanced(t)
                [] error.failed = "stage"      -> StageStart(t, error.stage)
                [] OTHER                       -> 1
    IN  [code |-> "textual"] @@ Position(t, at)

DiagnoseStages(t, stages) ==
    {[code |-> "shape"] @@ Position(t, StageStart(t, i + 1)) : i \in ValidateShape(stages)}

DiagnoseText(t) ==
    LET Of(query) == IF Failed(query) THEN {TextualErrorDiagnostic(t, query)} ELSE DiagnoseStages(t, query.pipe)
    IN  Of(ParseText(t))

(* A document form is told by the first line that is neither empty nor a   *)
(* comment: it opens a brace, a bracket, or has a colon before any bar.    *)
LooksTextual(t) ==
    LET breaks == SelectSeq([i \in 1..Len(t) |-> i], LAMBDA i : t[i] = Newline)
        OfLine(line, colon) == /\ line[1] \notin {"{", "["}
                               /\ colon <= 1 \/ \E i \in 1..colon - 1 : line[i] = "|"
        Of(lines) == lines # <<>> /\ OfLine(lines[1], SelectInSeq(lines[1], LAMBDA c : c = ":"))
    IN  Of(SelectSeq(Parts(t, breaks), LAMBDA l : l # <<>> /\ l[1] # "#" /\ ~IsPrefix(<<"/", "/">>, l)))

Published(t) == IF LooksTextual(t) THEN DiagnoseText(t) ELSE {}

-------------------------------------------------------------------------------
(***************************************************************************)
(* Completions at the end of a text.  A text that ends in a word ends in   *)
(* the middle of it: the word is partial.                                  *)
(***************************************************************************)
Word(c) == c # Newline /\ c # Quote /\ c # Tick /\ KindOf(c) \in {"ident", "number"}

Begins(partial, label) ==
    partial = "" \/ label = partial \/ (partial \in DOMAIN Completes /\ label \in Completes[partial])
Items(kind, labels, partial) == [kind : {kind}, label : {l \in labels : Begins(partial, l)}]

TextualStages ==
    {"where", "select", "compute", "sort", "limit", "skip", "groupBy", "aggregate", "distinct",
     "flatten", "rename", "drop", "tap", "callFunction", "callApp"}

(* No wiring known is not the same as nothing wired. *)
Unknown == {"unknown"}
EveryStageItem(services) == TextualStages
TextualStageItems(services) ==
    {w \in TextualStages : services = Unknown \/ Available(OpOf[w], services)}

SourceItems(tokens, partial, datasets) ==
    CASE tokens = <<>>                 -> Items("keyword", {"source"}, "")
      [] ~IsAt(tokens, 1, "source")    -> Items("keyword", {"source"}, tokens[1].text[1])
      [] Len(tokens) = 1               -> Items("dataset", datasets, "")
      [] Len(tokens) = 2 /\ partial # "" -> Items("dataset", datasets, tokens[2].text[1])
      [] OTHER                         -> {}

HasMark(tokens, mark) == \E i \in DOMAIN tokens : Is(tokens[i], mark)
CountOf(tokens, mark) == Cardinality({i \in DOMAIN tokens : Is(tokens[i], mark)})

Operators == {"==", "!=", ">", "<", ">=", "<=", "in", "not_in", "like", "is_null", "is_not_null"}
ArgumentItems(op, t, partial, columns) ==
    LET typing == IF partial = "" THEN 0 ELSE 1
        names  == Items("column", columns, partial)
    IN  CASE op = "where" -> (CASE Len(t) <= typing     -> names
                                [] Len(t) <= 1 + typing -> Items("operator", Operators, partial)
                                [] OTHER                -> {})
          [] op \in {"select", "project", "drop", "groupBy", "flatten"} -> names
          [] op = "compute" -> IF HasMark(t, "=") THEN Items("snippet", {"expression"}, partial) ELSE {}
          [] op = "sort" ->
                IF \E i \in DOMAIN t : t[i].kind = "ident" /\ ~Is(t[i], "asc") /\ ~Is(t[i], "desc")
                THEN Items("keyword", {"asc", "desc"}, "") ELSE names
          [] op = "aggregate" ->
                IF CountOf(t, "(") > CountOf(t, ")") THEN names \cup Items("keyword", {"*"}, "")
                ELSE Items("function", {"count", "sum", "avg", "min", "max"}, partial)
          [] op = "distinct" -> IF HasMark(t, "by") THEN names ELSE Items("keyword", {"by"}, "")
          [] op = "rename" -> IF HasMark(t, "->") THEN {} ELSE names
          [] op = "callFunction" ->
                IF t = <<>> THEN {} ELSE Items("keyword", {"mode", "pure", "args", "as"}, "")
          [] OTHER -> {}

Partial(segment) == IF segment # <<>> /\ Word(Last(segment)) THEN Last(segment) ELSE ""

StageItems(tokens, partial, services, columns) ==
    LET Stages(begun) == Items("stage", TextualStageItems(services), begun)
    IN  IF tokens = <<>> THEN Stages("")
        ELSE IF tokens = <<[kind |-> "ident", text |-> <<partial>>]>> THEN Stages(partial)
        ELSE IF tokens[1].text[1] \in TextualStages \cup {"project"}
             THEN ArgumentItems(tokens[1].text[1], Tail(tokens), partial, columns)
        ELSE Stages(tokens[1].text[1])

CompleteText(t, services, datasets) ==
    LET source == SelectInSeq(t, LAMBDA c : c = "source")
        ColumnsAt(i) == IF i \in DOMAIN t /\ t[i] \in DOMAIN datasets THEN datasets[t[i]] ELSE {}
        After(start, segment) ==
            IF start = 0 \/ source \in {0, Len(t)}
            THEN SourceItems(Tokenize(segment), Partial(segment), DOMAIN datasets)
            ELSE StageItems(Tokenize(segment), Partial(segment), services, ColumnsAt(source + 1))
        At(start) == After(start, SubSeq(t, start + 1, Len(t)))
    IN  At(LastTopLevelPipe(t))

Offer(t, services, datasets) ==
    [of |-> t, services |-> services, items |-> CompleteText(t, services, datasets)]
Nothing == [of |-> <<>>, services |-> Unknown, items |-> {}]

-------------------------------------------------------------------------------
Init ==
    /\ text = <<>> /\ meant = <<>> /\ unsent = <<>>
    /\ docs = <<>> /\ gutter = [u \in Uris |-> {}]
    /\ offered = Nothing /\ rejected = <<>>

Send(message) ==
    /\ Len(unsent) < MaxUnsent
    /\ unsent' = Append(unsent, message)
    /\ offered' = Nothing /\ rejected' = <<>>
    /\ UNCHANGED <<docs, gutter>>

Open(u, t) ==
    /\ u \notin DOMAIN text
    /\ text' = [v \in DOMAIN text \cup {u} |-> IF v = u THEN t.says ELSE text[v]]
    /\ meant' = [v \in DOMAIN meant \cup {u} |-> IF v = u THEN t.means ELSE meant[v]]
    /\ Send([method |-> "didOpen", uri |-> u, text |-> t.says])

(* A change carries the whole text, once for every edit it gathers.        *)
Type(u, added) ==
    /\ u \in DOMAIN text /\ Len(meant[u]) < MaxSegments
    /\ text' = [text EXCEPT ![u] = @ \o added.says]
    /\ meant' = [meant EXCEPT ![u] = Append(@, added.means)]
    /\ \E changes \in {<<text'[u]>>, <<text[u], text'[u]>>} :
          Send([method |-> "didChange", uri |-> u, changes |-> changes])

Touch(u) ==
    /\ u \in DOMAIN text
    /\ Send([method |-> "didChange", uri |-> u, changes |-> <<>>])
    /\ UNCHANGED <<text, meant>>

Close(u) ==
    /\ u \in DOMAIN text
    /\ text' = [v \in DOMAIN text \ {u} |-> text[v]]
    /\ meant' = [v \in DOMAIN meant \ {u} |-> meant[v]]
    /\ Send([method |-> "didClose", uri |-> u])

(* The server knows no wiring and no columns. *)
Ask(u) ==
    /\ Send([method |-> "completion", uri |-> u])
    /\ UNCHANGED <<text, meant>>

(* An endpoint of the host completes the text it is sent with what it has. *)
HostCompletes(u, services) ==
    /\ unsent = <<>> /\ u \in DOMAIN text
    /\ offered' = Offer(text[u], services, Columns)
    /\ UNCHANGED <<text, meant, unsent, docs, gutter, rejected>>

-------------------------------------------------------------------------------
Handle(message) ==
    /\ unsent # <<>> /\ message = Head(unsent)
    /\ unsent' = Tail(unsent)
    /\ UNCHANGED <<text, meant, rejected>>

Set(u, t) ==
    /\ docs' = [v \in DOMAIN docs \cup {u} |-> IF v = u THEN t ELSE docs[v]]
    /\ gutter' = [gutter EXCEPT ![u] = Published(t)]

DidOpen(m) ==
    /\ m.method = "didOpen" /\ Handle(m)
    /\ Set(m.uri, m.text) /\ offered' = Nothing

Oldest(changes) == Head(changes)
Current(changes) == Last(changes)

DidChange(m) ==
    /\ m.method = "didChange" /\ Handle(m)
    /\ IF m.changes = <<>> THEN UNCHANGED <<docs, gutter>> ELSE Set(m.uri, Current(m.changes))
    /\ offered' = Nothing

DidClose(m) ==
    /\ m.method = "didClose" /\ Handle(m)
    /\ docs' = [v \in DOMAIN docs \ {m.uri} |-> docs[v]]
    /\ gutter' = [gutter EXCEPT ![m.uri] = {}]
    /\ offered' = Nothing

(* A document the server was not told of is refused, not taken as empty. *)
Completion(m) ==
    /\ m.method = "completion" /\ Handle(m)
    /\ offered' = IF m.uri \in DOMAIN docs THEN Offer(docs[m.uri], Unknown, <<>>) ELSE Nothing
    /\ UNCHANGED <<docs, gutter>>

Serve == unsent # <<>> /\ LET m == Head(unsent) IN DidOpen(m) \/ DidChange(m) \/ DidClose(m) \/ Completion(m)

(* A host submits a pipe as a document: parser.Parse, up to its verdict. *)
Submit(stages) ==
    /\ text = <<>> /\ unsent = <<>>
    /\ rejected' = <<stages, ValidateShape(stages)>>
    /\ UNCHANGED <<text, meant, unsent, docs, gutter, offered>>

Next ==
    \/ \E u \in Uris :
          \/ \E t \in Openings[u] : Open(u, t)
          \/ \E added \in Additions[u] : Type(u, added)
          \/ Touch(u)
          \/ Close(u)
          \/ Ask(u)
          \/ \E services \in Hosts : HostCompletes(u, services)
    \/ Serve
    \/ \E stages \in Submissions : Submit(stages)

Spec == Init /\ [][Next]_vars

-------------------------------------------------------------------------------
(***************************************************************************)
(* Both parsers read one language: they fail alike in front of the stages, *)
(* the strict one accepts what the lenient one has nothing to say of, and  *)
(* then as the same query; it gives up at the first stage the lenient one  *)
(* tells of, and that is where the diagnostic and the completion look for  *)
(* it, each with a scanner of its own.  No empty stage the lenient parser  *)
(* leaves would be built as if it were complete, but limit and skip, which *)
(* read 0 where n is missing.                                              *)
(***************************************************************************)
Offset(segments, n) ==
    LET start[k \in 0..n] == IF k = 0 THEN 1 ELSE start[k - 1] + Len(segments[k]) + 1
    IN  start[n]

Placed(t) ==
    LET Of(segments) == /\ \A n \in 1..Len(segments) - 1 : StageStart(t, n) = Offset(segments, n)
                        /\ LastTopLevelPipe(t) = Offset(segments, Len(segments) - 1) - 1
    IN  Of(SplitTopLevel(t))

AgreeOn(strict, lenient) ==
    LET Of(told) ==
            /\ strict = IF told = <<>> THEN [from |-> lenient.from, pipe |-> lenient.pipe]
                        ELSE [failed |-> "stage", stage |-> told[1].stage + 1]
            /\ \A i \in DOMAIN told : told[i].missing \cup {"n"} # {"n"} =>
                   Build([op |-> told[i].op, config |-> <<>>], Services) # "built"
    IN  IF Failed(lenient) THEN strict = lenient ELSE Of(lenient.diagnostics)

OneLanguage(t) ==
    /\ AgreeOn(ParseText(t), ParseTextLenient(t))
    /\ ScanError(t) = "none" => Placed(t)

FrontEndsAgree == \A u \in DOMAIN text : OneLanguage(text[u])

(***************************************************************************)
(* Who writes a stage as its comments say, with any name, in quotes if the *)
(* name is also a keyword or a mark, gets that stage, wherever it stands.  *)
(***************************************************************************)
MeansWhatItSays ==
    \A u \in DOMAIN text :
        (\A i \in DOMAIN meant[u] : meant[u][i] # Bad) =>
            ParseText(text[u]) = [from |-> Head(meant[u]).dataset, pipe |-> Tail(meant[u])]

(***************************************************************************)
(* A textual query nothing is said of is one a host with all services      *)
(* would build every stage of, and it has a stage.                         *)
(***************************************************************************)
Runs(t) ==
    LET Of(query) == /\ ~Failed(query) /\ query.pipe # <<>>
                     /\ \A i \in DOMAIN query.pipe : Build(query.pipe[i], Services) = "built"
    IN  Of(ParseText(t))

SilenceMeansRuns ==
    \A u \in DOMAIN text : LooksTextual(text[u]) => (Published(text[u]) = {}) = Runs(text[u])

(***************************************************************************)
(* When the server has handled everything, however the edits were sent, it *)
(* holds the texts the editor holds, and the editor shows what is wrong    *)
(* with them, and nothing for a document that is closed.                   *)
(***************************************************************************)
GutterTruthful ==
    unsent = <<>> =>
        /\ docs = text
        /\ \A u \in Uris : gutter[u] = IF u \in DOMAIN text THEN Published(text[u]) ELSE {}

(***************************************************************************)
(* A stage offered to a host is one the parser knows, and one the host can *)
(* build however its arguments are completed.                              *)
(***************************************************************************)
OffersRun ==
    \A item \in offered.items : item.kind = "stage" =>
        /\ item.label \in DOMAIN OpOf
        /\ offered.services # Unknown =>
              \A s \in Samples : s.op = OpOf[item.label] => Build(s, offered.services) # "not available"

(***************************************************************************)
(* Validation asks no host and is about the shape of a configuration: it   *)
(* reports no stage that a host with all services could build, and leaves  *)
(* out none that such a host could not (pipe/validate.go:24).  Nothing is  *)
(* said of a report about a sheet or a stage that holds one, and of a      *)
(* fault that a factory looks for behind a service: inside a stage of      *)
(* sub-pipes, a tolerance, the name of an algorithm.                       *)
(***************************************************************************)
HoldsSheet(stage) ==
    \E part \in Range(PartsOf(stage)) : \E s \in Range(part.pipe) : s.op = "sheet"
Hides(stage) ==
    \/ stage.op \in Nesting
    \/ stage.op = "asofJoin" /\ ~OneOf(stage.config, "tolerance", Durations)
    \/ stage.op = "algo" /\ ~OneOf(stage.config, "name", KnownAlgorithms)

ShapeJudged ==
    rejected # <<>> =>
        LET stages == rejected[1]
            IsReported(i) == i - 1 \in rejected[2]
            CanRun(s) == Known(s.op) /\ Build(s, Services) = "built"
        IN  \A i \in DOMAIN stages :
              /\ IsReported(i) => ~CanRun(stages[i]) \/ HoldsSheet(stages[i])
              /\ ~IsReported(i) => CanRun(stages[i]) \/ Hides(stages[i])

===============================================================================
