----------------------------- MODULE PrefixStream -----------------------------
(***************************************************************************)
(* How the pushed prefix of a pipe reaches its first sheet: the engine's   *)
(* cursor (exec/stream.go) or its materialised answer (exec/engine.go),    *)
(* the executor's draining loop (pipe/source.go, pipe/executor.go), and    *)
(* the sheet's aggregate, computed from the rows in hand or asked of the   *)
(* database in a second query (sheet/pushdown.go, pipe/pushdown.go), while *)
(* other clients write to the table.                                       *)
(*                                                                         *)
(* A row of a result is the set of table rows it stands for: one table row *)
(* where the prefix only filters, all of them where it aggregates.  What   *)
(* an aggregate answers is told by the set of rows it spans.               *)
(***************************************************************************)
EXTENDS Integers, Sequences, FiniteSets

CONSTANTS
    RowIds,      \* the rows a client may insert
    Rewritten,   \* marks a row whose columns an operator overwrote
    NoLimit,     \* a pipe without a pushed limit
    Queries,     \* the pushed prefixes a pipe may have
    Tables,      \* the contents of the table at first
    MaxRows,     \* ExecutorConfig.MaxRows
    MaxLimit,    \* EngineConfig.MaxLimit
    MaxWrites    \* how often other clients write during one execution

Preludes == {"none", "drop", "rewrite"}

(***************************************************************************)
(* limit and offset of PushedDSL; groups: it groups or aggregates;         *)
(* inMemory: the classic planner leaves work for the processor, or the     *)
(* query expands references; streams: the host hands out cursors; prelude: *)
(* what the stages between the prefix and the sheet do to the rows.        *)
(***************************************************************************)
Query == [limit : Nat \cup {NoLimit}, offset : Nat, groups : BOOLEAN,
          inMemory : BOOLEAN, streams : BOOLEAN, prelude : Preludes]

Row == SUBSET (RowIds \cup {Rewritten})

ASSUME ConstantsAssumption ==
    /\ MaxRows \in Nat \ {0}
    /\ MaxLimit \in Nat \ {0}
    /\ MaxWrites \in Nat
    /\ NoLimit \notin Int
    /\ Rewritten \notin RowIds
    /\ Queries \subseteq Query
    /\ Tables \subseteq Seq(RowIds)

VARIABLES
    query,       \* the prefix and its surroundings
    limit,       \* the cell *PushedDSL.Limit, which engine and caller share
    table,       \* the rows the prefix matches, in the database's order
    writes,      \* how often other clients wrote so far
    pc,          \* where ExecuteDetailed is
    matched,     \* the result of the prefix, before paging, when it was asked
    cursor,      \* the open sqlRowSource
    rows,        \* the rows in hand
    complete,    \* the signal the sheet gets: "yes", "no" or "unknown"
    answer       \* the rows the sheet's aggregate spans, once it is done

vars == <<query, limit, table, writes, pc, matched, cursor, rows, complete, answer>>

-------------------------------------------------------------------------------
Smaller(a, b) == IF a < b THEN a ELSE b

Values(s) == {s[i] : i \in DOMAIN s}

(***************************************************************************)
(* The database: what the prefix matches in table t, and LIMIT l OFFSET o. *)
(***************************************************************************)
Single(t) == [i \in DOMAIN t |-> {t[i]}]
Match(q, t) == IF q.groups THEN <<Values(t)>> ELSE Single(t)

After(s, o) == SubSeq(s, o + 1, Len(s))
Page(s, o, l) == SubSeq(After(s, o), 1, Smaller(l, Len(After(s, o))))

Unopened == [result |-> <<>>, n |-> 0, limit |-> 0, truncated |-> FALSE,
             open |-> FALSE, stop |-> "none"]

Init ==
    /\ query \in Queries
    /\ limit = query.limit
    /\ table \in Tables
    /\ writes = 0
    /\ pc = "idle"
    /\ matched = <<>>
    /\ cursor = Unopened
    /\ rows = <<>>
    /\ complete = "unknown"
    /\ answer = {}

(***************************************************************************)
(* Another client inserts or deletes a row the prefix matches.             *)
(***************************************************************************)
Write ==
    /\ writes < MaxWrites
    /\ pc \notin {"idle", "done", "failed"}
    /\ \/ \E r \in RowIds \ Values(table) : table' = Append(table, r)
       \/ \E i \in DOMAIN table :
             table' = SubSeq(table, 1, i - 1) \o SubSeq(table, i + 1, Len(table))
    /\ writes' = writes + 1
    /\ UNCHANGED <<query, limit, pc, matched, cursor, rows, complete, answer>>

-------------------------------------------------------------------------------
(***************************************************************************)
(* The executor asks for MaxRows when the pipe sets no limit.              *)
(***************************************************************************)
Plan ==
    /\ pc = "idle"
    /\ limit' = IF limit = NoLimit THEN MaxRows ELSE limit
    /\ pc' = "planned"
    /\ UNCHANGED <<query, table, writes, matched, cursor, rows, complete, answer>>

(***************************************************************************)
(* applyDefaults: a limit above MaxLimit is lowered, in place.             *)
(***************************************************************************)
Clamped == Smaller(limit, MaxLimit)

(***************************************************************************)
(* LIMIT n + 1, but a limit of zero is passed on as it is, and the cursor  *)
(* keeps it as "unlimited".                                                *)
(***************************************************************************)
NoProbeRow(n) == n
Probe(n) == IF n > 0 THEN n + 1 ELSE 0

OpenCursor ==
    /\ pc = "planned"
    /\ query.streams
    /\ ~query.inMemory
    /\ limit' = Clamped
    /\ matched' = Match(query, table)
    /\ cursor' = [Unopened EXCEPT
                    !.result = Page(Match(query, table), query.offset, Probe(Clamped)),
                    !.limit = Clamped,
                    !.open = TRUE]
    /\ rows' = <<>>
    /\ pc' = "reading"
    /\ UNCHANGED <<query, table, writes, complete, answer>>

(***************************************************************************)
(* No cursor: the host has none, or declines this query.                   *)
(***************************************************************************)
Decline ==
    /\ pc = "planned"
    /\ query.streams => query.inMemory
    /\ limit' = IF query.streams THEN Clamped ELSE limit
    /\ pc' = "declined"
    /\ UNCHANGED <<query, table, writes, matched, cursor, rows, complete, answer>>

QueryFails ==
    /\ pc \in {"planned", "declined"}
    /\ pc' = "failed"
    /\ UNCHANGED <<query, limit, table, writes, matched, cursor, rows, complete, answer>>

(***************************************************************************)
(* The classic engine's answer, whole; over MaxRows it is refused.         *)
(***************************************************************************)
Materialise ==
    /\ pc = "declined"
    /\ limit' = Clamped
    /\ matched' = Match(query, table)
    /\ LET page == Page(Match(query, table), query.offset, Clamped)
       IN  IF Len(page) > MaxRows
           THEN /\ pc' = "failed"
                /\ UNCHANGED rows
           ELSE /\ pc' = "tail"
                /\ rows' = page
    /\ UNCHANGED <<query, table, writes, cursor, complete, answer>>

-------------------------------------------------------------------------------
(***************************************************************************)
(* The draining loop of streamPrefix, one call of Next at a time.          *)
(***************************************************************************)
AtLimit == cursor.limit > 0 /\ cursor.n >= cursor.limit
HasRow == cursor.n < Len(cursor.result)
AtCap == Len(rows) >= MaxRows

NextRow ==
    /\ pc = "reading"
    /\ ~AtLimit
    /\ HasRow
    /\ ~AtCap
    /\ rows' = Append(rows, cursor.result[cursor.n + 1])
    /\ cursor' = [cursor EXCEPT !.n = @ + 1]
    /\ UNCHANGED <<query, limit, table, writes, pc, matched, complete, answer>>

(***************************************************************************)
(* One more row than MaxRows: it is read and dropped.                      *)
(***************************************************************************)
Capped ==
    /\ pc = "reading"
    /\ ~AtLimit
    /\ HasRow
    /\ AtCap
    /\ cursor' = [cursor EXCEPT !.n = @ + 1, !.stop = "capped"]
    /\ pc' = "drained"
    /\ UNCHANGED <<query, limit, table, writes, matched, rows, complete, answer>>

(***************************************************************************)
(* Next returns false: at the limit, where one row past it means the match *)
(* was cut, or at the end of the result.                                   *)
(***************************************************************************)
Exhausted ==
    /\ pc = "reading"
    /\ AtLimit \/ ~HasRow
    /\ cursor' = [cursor EXCEPT !.truncated = AtLimit /\ HasRow, !.stop = "end"]
    /\ pc' = "drained"
    /\ UNCHANGED <<query, limit, table, writes, matched, rows, complete, answer>>

(***************************************************************************)
(* Next returns false because the driver or the scan failed, or, at the    *)
(* limit, because the probe did.                                           *)
(***************************************************************************)
ReadFails ==
    /\ pc = "reading"
    /\ cursor' = [cursor EXCEPT !.stop = "error"]
    /\ pc' = "drained"
    /\ UNCHANGED <<query, limit, table, writes, matched, rows, complete, answer>>

(***************************************************************************)
(* Behind the loop: Err, then the completeness signal; the deferred Close. *)
(***************************************************************************)
DrainedUnchecked ==
    /\ pc = "drained"
    /\ cursor' = [cursor EXCEPT !.open = FALSE]
    /\ complete' = IF cursor.stop = "capped" \/ cursor.truncated THEN "no" ELSE "yes"
    /\ pc' = "tail"
    /\ UNCHANGED <<query, limit, table, writes, matched, rows, answer>>

DrainedLeftOpen ==
    /\ pc = "drained"
    /\ complete' = IF cursor.stop = "capped" \/ cursor.truncated THEN "no" ELSE "yes"
    /\ pc' = IF cursor.stop = "error" THEN "failed" ELSE "tail"
    /\ UNCHANGED <<query, limit, table, writes, cursor, matched, rows, answer>>

Drained ==
    /\ pc = "drained"
    /\ cursor' = [cursor EXCEPT !.open = FALSE]
    /\ IF cursor.stop = "error"
       THEN /\ pc' = "failed"
            /\ UNCHANGED complete
       ELSE /\ pc' = "tail"
            /\ complete' = IF cursor.stop = "capped" \/ cursor.truncated
                           THEN "no" ELSE "yes"
    /\ UNCHANGED <<query, limit, table, writes, matched, rows, answer>>

-------------------------------------------------------------------------------
(***************************************************************************)
(* The stages before the sheet: none; one that drops rows; one that        *)
(* overwrites a source column.  The signal is passed on as it is.          *)
(***************************************************************************)
Prelude ==
    /\ pc = "tail"
    /\ rows' = CASE query.prelude = "none" -> rows
                 [] query.prelude = "drop" -> After(rows, 1)
                 [] query.prelude = "rewrite" ->
                        [i \in DOMAIN rows |-> rows[i] \cup {Rewritten}]
    /\ pc' = "sheet"
    /\ UNCHANGED <<query, limit, table, writes, matched, cursor, complete, answer>>

(***************************************************************************)
(* The aggregate query keeps the predicate and drops projection, order and *)
(* paging, so it spans every row the table holds when it runs.             *)
(***************************************************************************)
EligibleAnyOffset(q) == ~q.groups
Eligible(q) == q.offset = 0 /\ ~q.groups

Delegate ==
    /\ pc = "sheet"
    /\ complete = "yes"
    /\ Eligible(query)
    /\ answer' = Values(Single(table))
    /\ pc' = "done"
    /\ UNCHANGED <<query, limit, table, writes, matched, cursor, rows, complete>>

(***************************************************************************)
(* Not delegated, or the delegate failed or did not answer.                *)
(***************************************************************************)
Scan ==
    /\ pc = "sheet"
    /\ answer' = Values(rows)
    /\ pc' = "done"
    /\ UNCHANGED <<query, limit, table, writes, matched, cursor, rows, complete>>

Work ==
    \/ OpenCursor \/ Decline \/ QueryFails \/ Materialise
    \/ NextRow \/ Capped \/ Exhausted \/ ReadFails \/ Drained
    \/ Prelude \/ Delegate \/ Scan

Next == Plan \/ Work \/ Write

Spec == Init /\ [][Next]_vars

-------------------------------------------------------------------------------
Cursor == [result : Seq(Row), n : Nat, limit : Nat, truncated : BOOLEAN,
           open : BOOLEAN, stop : {"none", "end", "capped", "error"}]

(***************************************************************************)
(* The type of every variable.                                             *)
(***************************************************************************)
TypeOK ==
    /\ query \in Queries
    /\ limit \in Nat \cup {NoLimit}
    /\ table \in Seq(RowIds)
    /\ writes \in 0..MaxWrites
    /\ pc \in {"idle", "planned", "declined", "reading", "drained", "tail",
               "sheet", "done", "failed"}
    /\ matched \in Seq(Row)
    /\ cursor \in Cursor
    /\ rows \in Seq(Row)
    /\ complete \in {"yes", "no", "unknown"}
    /\ answer \in SUBSET Row

(***************************************************************************)
(* What the tail is given, by cursor or materialised, is exactly a page of *)
(* the match as it was when asked: never a row short because a read        *)
(* failed, never the probe row, never more than MaxRows.                   *)
(***************************************************************************)
PrefixFaithful ==
    pc = "tail" =>
        /\ rows = Page(matched, query.offset, Smaller(limit, MaxRows))
        /\ limit <= MaxLimit

(***************************************************************************)
(* The cursor's signal is exact: it says complete if and only if the rows  *)
(* in hand are all that matched behind the offset; a page that happens to  *)
(* be full is not called clipped.  A pushed limit of zero is the one that  *)
(* is answered wrongly.                                                    *)
(***************************************************************************)
CompleteExactly ==
    pc = "tail" /\ complete # "unknown" /\ query.limit # 0 =>
        (complete = "yes" <=> rows = After(matched, query.offset))

(***************************************************************************)
(* A delegated aggregate and a scanned one span the same rows when the     *)
(* sheet is the first stage of the tail, the limit is not zero and nobody  *)
(* wrote since: delegation is not observable.                              *)
(***************************************************************************)
DelegationAgrees ==
    pc = "done" /\ query.prelude = "none" /\ query.limit # 0 /\ writes = 0 =>
        answer = Values(rows)

(***************************************************************************)
(* The cursor is closed before any stage of the tail runs, and on every    *)
(* path that fails: the aggregate query never waits for a connection its   *)
(* own prefix holds.                                                       *)
(***************************************************************************)
ClosedBeforeTail == cursor.open => pc \in {"reading", "drained"}

(***************************************************************************)
(* What sheet/pushdown.go:19 says without exceptions: the delegate answers *)
(* over the rows the sheet evaluates.                                      *)
(***************************************************************************)
DelegationNeverObservable == pc = "done" => answer = Values(rows)
===============================================================================
