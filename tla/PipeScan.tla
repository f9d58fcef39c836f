------------------------------- MODULE PipeScan -------------------------------
(***************************************************************************)
(* How the textual form of a pipe is cut up: into segments at the bars of  *)
(* the top level (pipe/textual.go, and once more in pipe/diagnostics.go    *)
(* and pipe/completions.go), and a segment into tokens.                    *)
(*                                                                         *)
(* A text is a sequence of lexemes: a word, a number, a mark, a quote, or  *)
(* a newline, which stands for white space.  A keyword is written in one   *)
(* way, as the code ignores its case, any other word of a stage in small   *)
(* letters.                                                                *)
(***************************************************************************)
EXTENDS Integers, SequencesExt, FiniteSetsExt

CONSTANT Numbers    \* the lexemes that begin with a digit

Quote == "quote"
Tick == "tick"
Escape == "backslash"
Newline == "newline"
Opening == [paren |-> "(", bracket |-> "[", brace |-> "{"]
Closing == [paren |-> ")", bracket |-> "]", brace |-> "}"]
Marks == {"|", ",", "->", "*", ".", ":", "#", Escape} \cup Range(Opening) \cup Range(Closing)
Comparisons == {"=", "!", "<", ">", "==", "!=", "<=", ">=", "-"}

-------------------------------------------------------------------------------
(***************************************************************************)
(* The scanner: a string hides everything up to its quote, an expression   *)
(* everything up to its tick, and an open bracket of any kind every bar.   *)
(***************************************************************************)
Outside == [mode |-> "code", escaped |-> FALSE, depth |-> [b \in DOMAIN Opening |-> 0]]

StepForgetsEscape(s, c) ==
    CASE s.mode = "string" -> [s EXCEPT !.mode = IF c = Quote THEN "code" ELSE "string"]
      [] s.mode = "raw"    -> [s EXCEPT !.mode = IF c = Tick THEN "code" ELSE "raw"]
      [] OTHER -> [s EXCEPT !.mode = CASE c = Quote -> "string" [] c = Tick -> "raw" [] OTHER -> "code",
                            !.depth = [b \in DOMAIN Opening |->
                                @[b] + (IF c = Opening[b] THEN 1 ELSE IF c = Closing[b] THEN -1 ELSE 0)]]

Step(s, c) ==
    CASE s.escaped -> [s EXCEPT !.escaped = FALSE]
      [] s.mode = "string" /\ c = Escape -> [s EXCEPT !.escaped = TRUE]
      [] OTHER -> StepForgetsEscape(s, c)

States(text) == FoldLeft(LAMBDA ss, c : Append(ss, Step(Last(ss), c)), <<Outside>>, text)

AtTop(s) == s.mode = "code" /\ \A b \in DOMAIN Opening : s.depth[b] = 0

(* The places of the bars that separate segments, in their order. *)
Ordered(places) ==
    CHOOSE s \in [1..Cardinality(places) -> places] : \A m, n \in DOMAIN s : m < n => s[m] < s[n]
Bars(text) ==
    LET states == States(text)
    IN  Ordered({i \in 1..Len(text) : text[i] = "|" /\ AtTop(states[i])})

ErrorAt(end) ==
    CASE end.mode = "string" -> "string"
      [] end.mode = "raw"    -> "expression"
      [] ~AtTop(end)         -> "brackets"
      [] OTHER               -> "none"
ScanError(text) == ErrorAt(Last(States(text)))

(* The parts of a sequence before, between and behind some of its places. *)
Parts(s, places) ==
    [k \in 1..Len(places) + 1 |->
        SubSeq(s, IF k = 1 THEN 1 ELSE places[k - 1] + 1, IF k > Len(places) THEN Len(s) ELSE places[k] - 1)]

SplitTopLevel(text) == Parts(text, Bars(text))

(* The place of the first lexeme of segment n, the source being segment 0. *)
Behind(bars, n) == IF n \in DOMAIN bars THEN bars[n] + 1 ELSE 1
StageStartFromNought(text, n) == Behind(Bars(text), n + 1)
StageStart(text, n) == Behind(Bars(text), n)

LastTopLevelPipe(text) == Last(<<0>> \o Bars(text))

Balance(open, c) ==
    CASE open.at # 0               -> open
      [] c[2] \in Range(Opening)   -> [open EXCEPT !.stack = Append(@, c)]
      [] c[2] \notin Range(Closing) -> open
      [] open.stack = <<>>         -> [open EXCEPT !.at = c[1]]
      [] OTHER -> IF \E b \in DOMAIN Opening : Last(open.stack)[2] = Opening[b] /\ c[2] = Closing[b]
                  THEN [open EXCEPT !.stack = Front(@)]
                  ELSE [open EXCEPT !.at = Last(open.stack)[1]]

(* Strings are not skipped: a bracket inside one counts. *)
FirstUnbalanced(text) ==
    LET At(end) == CASE end.at # 0        -> end.at
                     [] end.stack # <<>>  -> Head(end.stack)[1]
                     [] OTHER             -> Len(text) + 1
    IN  At(FoldLeft(Balance, [at |-> 0, stack |-> <<>>], [i \in 1..Len(text) |-> <<i, text[i]>>]))

LastOf(text, c) == SelectLastInSeq(text, LAMBDA x : x = c)

Position(text, at) ==
    LET From(lines) == [line |-> Cardinality(lines), column |-> at - Max(lines)]
    IN  From({0} \cup {i \in 1..at - 1 : text[i] = Newline})

-------------------------------------------------------------------------------
(***************************************************************************)
(* The tokenizer.  It has rules of its own for what is between braces: a   *)
(* brace inside a string of an object counts there.                        *)
(***************************************************************************)
KindOf(c) ==
    CASE c \in Numbers     -> "number"
      [] c \in Comparisons -> "op"
      [] c \in Marks       -> "punct"
      [] OTHER             -> "ident"

Emit(s, kind, text) == [s EXCEPT !.out = Append(@, [kind |-> kind, text |-> text]), !.mode = "code", !.text = <<>>]

Lex(s, c) ==
    LET more == Append(s.text, c)
        on   == [s EXCEPT !.text = more]
    IN  CASE s.mode = "string" ->
                 (CASE s.escaped  -> [on EXCEPT !.escaped = FALSE]
                    [] c = Escape -> [on EXCEPT !.escaped = TRUE]
                    [] c = Quote  -> Emit(s, "string", more)
                    [] OTHER      -> on)
          [] s.mode = "raw"  -> IF c = Tick THEN Emit(s, "raw", more) ELSE on
          [] s.mode = "json" ->
                 (CASE c = "{"                  -> [on EXCEPT !.depth = @ + 1]
                    [] c = "}" /\ s.depth = 1   -> Emit(s, "json", more)
                    [] c = "}"                  -> [on EXCEPT !.depth = @ - 1]
                    [] OTHER                    -> on)
          [] c = Newline -> s
          [] c = Quote   -> [on EXCEPT !.mode = "string"]
          [] c = Tick    -> [on EXCEPT !.mode = "raw"]
          [] c = "{"     -> [on EXCEPT !.mode = "json", !.depth = 1]
          [] OTHER       -> Emit(s, KindOf(c), more)

Tokenize(segment) ==
    LET Closed(s) == IF s.mode = "code" THEN s.out ELSE Emit(s, s.mode, s.text).out
    IN  Closed(FoldLeft(Lex, [out |-> <<>>, mode |-> "code", text |-> <<>>, escaped |-> FALSE, depth |-> 0], segment))

Trimmed(text, mark) ==
    LET Between(kept) == IF kept = {} THEN <<>> ELSE SubSeq(text, Min(kept), Max(kept))
    IN  Between({i \in DOMAIN text : text[i] # mark})

Wrapper == [string |-> Quote, raw |-> Tick]
Value(token) ==
    IF token.kind \in DOMAIN Wrapper THEN Trimmed(token.text, Wrapper[token.kind]) ELSE token.text

(* An empty part at the end is dropped, one between two commas is kept. *)
SplitOnComma(tokens) ==
    LET commas == SelectSeq([i \in 1..Len(tokens) |-> i],
                            LAMBDA i : tokens[i].kind = "punct" /\ tokens[i].text = <<",">>)
        Ended(parts) == IF Last(parts) = <<>> THEN Front(parts) ELSE parts
    IN  Ended(Parts(tokens, commas))

IndexOfKeyword(tokens, word) ==
    LET depth(i) == FoldLeft(LAMBDA d, t : CASE t.kind # "punct" -> d
                                             [] t.text = <<"(">> -> d + 1
                                             [] t.text = <<")">> -> Max({d - 1, 0})
                                             [] OTHER            -> d, 0, SubSeq(tokens, 1, i - 1))
    IN  SelectInSeq([i \in 1..Len(tokens) |-> i],
                    LAMBDA i : tokens[i].kind # "punct" /\ tokens[i].text = <<word>> /\ depth(i) = 0)

===============================================================================
