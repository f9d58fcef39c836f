------------------------------ MODULE TimeSeries ------------------------------
(***************************************************************************)
(* The operators over times: timeBucket, gapfill and asofJoin              *)
(* (pipe/time_ops.go), one call of one of them.                            *)
(*                                                                         *)
(* A row is what these operators look at: the text of its partition or     *)
(* join columns and its time, which may not be one.  Rows are named by     *)
(* their place in the input; what a synthetic row is filled with is told   *)
(* by the row it copies.  A time is a number of ticks, an instant in any   *)
(* time zone.                                                              *)
(***************************************************************************)
EXTENDS Integers, Sequences, FiniteSets

CONSTANTS
    Keys,      \* the texts of partition and join columns
    Unparsed,  \* a value that is no time
    Zero,      \* the zero time.Time, which such a value stands for
    Unset,     \* a bound that is not configured
    Second,    \* the ticks of a second
    Day,       \* the ticks of a day
    Longest,   \* the longest time.Duration, 292 years
    Requests,  \* the stages a pipe may have, with the rows they are given
    Rights     \* what the right side of an asofJoin may answer

Row == [key : Keys, time : Int \cup {Unparsed}]
Interval == [n : Int, unit : {"tick", "day"}]

(***************************************************************************)
(* origin is timeBucket's, from and to gapfill's; of an asofJoin interval  *)
(* is the tolerance.                                                       *)
(***************************************************************************)
Call == [op : {"timeBucket", "gapfill", "asofJoin"}, interval : Interval \cup {Unset},
         origin : Int, from : Int \cup {Unset}, to : Int \cup {Unset},
         direction : {"backward", "forward", "nearest"}]

(***************************************************************************)
(* A suffix d or w is read before Go's durations are, and only those are   *)
(* refused when they are not positive.                                     *)
(***************************************************************************)
Parses(iv) == iv.unit = "day" \/ iv.n > 0
Duration(iv) == IF iv.unit = "day" THEN iv.n * Day ELSE iv.n

(***************************************************************************)
(* Only an asofJoin may come without an interval, and no interval is       *)
(* longer than a time.Duration (106,751 days).                             *)
(***************************************************************************)
ASSUME TimesAssumption ==
    /\ Unparsed \notin Int /\ Unset \notin Int /\ Unset \notin Interval
    /\ Zero \in Int /\ {Second, Day, Longest} \subseteq Nat \ {0}
    /\ Requests \subseteq [call : Call, rows : Seq(Row)]
    /\ \A r \in Requests :
          IF r.call.interval = Unset THEN r.call.op = "asofJoin"
          ELSE Duration(r.call.interval) < Longest
    /\ Rights \subseteq Seq(Row)

VARIABLES
    call,     \* the stage
    in,       \* its input
    pc,       \* where the call is
    right,    \* asofJoin: the rows of the right side
    buckets,  \* asofJoin: the rows of each key, by time
    filled,   \* gapfill: the keys whose partition was begun
    idxs,     \* gapfill: the rows of the current partition, by time
    idx,      \* gapfill: the next of them
    cur,      \* gapfill: the time expected next
    last,     \* gapfill: the row emitted last, 0 for none
    starts,   \* timeBucket: the starts written so far
    emitted,  \* gapfill: the rows emitted so far
    pairs     \* asofJoin: the rows joined so far

vars == <<call, in, pc, right, buckets, filled, idxs, idx, cur, last, starts,
          emitted, pairs>>
fillVars == <<filled, idxs, idx, cur, last, emitted>>
joinVars == <<right, buckets, pairs>>

-------------------------------------------------------------------------------
width == IF call.interval = Unset THEN 0 ELSE Duration(call.interval)

(***************************************************************************)
(* gapfill and asofJoin ignore the error of a value that is no time.       *)
(***************************************************************************)
Moment(r) == IF r.time = Unparsed THEN Zero ELSE r.time
Times(rows) == [i \in DOMAIN rows |-> Moment(rows[i])]
Of(rows, k) == {i \in DOMAIN rows : rows[i].key = k}

(***************************************************************************)
(* sort.SliceStable, by time.  There is one such order.                    *)
(***************************************************************************)
Precedes(t, i, j) == t[i] < t[j] \/ (t[i] = t[j] /\ i < j)
Orders(S, t) ==
    {s \in [1..Cardinality(S) -> S] :
        /\ \A i \in S : \E m \in DOMAIN s : s[m] = i
        /\ \A m, n \in DOMAIN s : m < n => Precedes(t, s[m], s[n])}

(***************************************************************************)
(* Go's integer division rounds toward zero.                               *)
(***************************************************************************)
Quotient(a, b) == IF a < 0 THEN -((-a) \div b) ELSE a \div b
Half(d) == Quotient(d, 2)

(***************************************************************************)
(* The difference of two times is a time.Duration: Sub stops at the        *)
(* longest one, a product goes round (a start is before the difference by  *)
(* less than an interval, so that it can only be too small).               *)
(***************************************************************************)
Distance(s, t) == IF s < t THEN t - s ELSE s - t
Apart(s, t) == IF Distance(s, t) > Longest THEN Longest ELSE Distance(s, t)
Sub(s, t) ==
    IF s < t - Longest - 1 THEN -Longest - 1 ELSE IF s > t + Longest THEN Longest ELSE s - t
Wrap(d) == IF d < -Longest - 1 THEN d + 2 * (Longest + 1) ELSE d

(***************************************************************************)
(* A time is written in the format RFC3339, which drops the fraction of    *)
(* its second.                                                             *)
(***************************************************************************)
Written(t) == (t \div Second) * Second

Init ==
    /\ \E r \in Requests : call = r.call /\ in = r.rows
    /\ pc = "built"
    /\ right = <<>> /\ buckets = [k \in Keys |-> <<>>]
    /\ filled = {} /\ idxs = <<>> /\ idx = 1 /\ cur = Zero /\ last = 0
    /\ starts = <<>> /\ emitted = <<>> /\ pairs = <<>>

(***************************************************************************)
(* The factories refuse an interval that does not parse.                   *)
(***************************************************************************)
Build ==
    /\ pc = "built"
    /\ pc' = IF call.interval # Unset /\ ~Parses(call.interval) THEN "refused"
             ELSE CASE call.op = "timeBucket" -> "bucket"
                    [] call.op = "gapfill"    -> "group"
                    [] call.op = "asofJoin"   -> "fetch"
    /\ UNCHANGED <<call, in, starts, fillVars, joinVars>>

-------------------------------------------------------------------------------
(***************************************************************************)
(* timeBucket, row by row.                                                 *)
(***************************************************************************)
StartTruncated(t) ==
    IF width <= 0 THEN t
    ELSE call.origin + Quotient(Sub(t, call.origin), width) * width
BucketStart(t) ==
    IF width <= 0 THEN t
    ELSE LET delta == Sub(t, call.origin)
             n == Quotient(delta, width)
             floor == IF delta < 0 /\ delta # n * width THEN n - 1 ELSE n
         IN  call.origin + Wrap(floor * width)

row == in[Len(starts) + 1]

Bucket ==
    /\ pc = "bucket"
    /\ Len(starts) < Len(in)
    /\ row.time # Unparsed
    /\ starts' = Append(starts, Written(BucketStart(row.time)))
    /\ UNCHANGED <<call, in, pc, fillVars, joinVars>>

BucketFails ==
    /\ pc = "bucket"
    /\ Len(starts) < Len(in)
    /\ row.time = Unparsed
    /\ pc' = "failed"
    /\ UNCHANGED <<call, in, starts, fillVars, joinVars>>

-------------------------------------------------------------------------------
(***************************************************************************)
(* gapfill, partition by partition and time by time.                       *)
(***************************************************************************)
times == Times(in)
key == in[idxs[1]].key
until == IF call.to # Unset THEN call.to ELSE times[idxs[Len(idxs)]]
Walking == pc = "fill" /\ cur <= until
next == idxs[idx]

(***************************************************************************)
(* The next partition in the order their first rows come.                  *)
(***************************************************************************)
BeginGroup ==
    /\ pc = "group"
    /\ \E i \in DOMAIN in :
          /\ in[i].key \notin filled
          /\ \A j \in 1..(i - 1) : in[j].key \in filled
          /\ \E s \in Orders(Of(in, in[i].key), times) :
                /\ idxs' = s
                /\ cur' = IF call.from # Unset THEN call.from ELSE times[s[1]]
          /\ filled' = filled \cup {in[i].key}
    /\ idx' = 1
    /\ last' = 0
    /\ pc' = "fill"
    /\ UNCHANGED <<call, in, starts, emitted, joinVars>>

SkipRowStays ==
    /\ Walking
    /\ idx <= Len(idxs)
    /\ times[next] < cur
    /\ UNCHANGED vars
SkipRow ==
    /\ Walking
    /\ idx <= Len(idxs)
    /\ times[next] < cur
    /\ idx' = idx + 1
    /\ UNCHANGED <<call, in, pc, starts, filled, idxs, cur, last, emitted, joinVars>>

InReachInclusive(t) == t = cur \/ Apart(t, cur) <= Half(width)
InReach(t) == t = cur \/ Apart(t, cur) < Half(width)

(***************************************************************************)
(* What is emitted for the time cur: row i with its own time, or if i is 0 *)
(* a row with the time written.  (`at` is remembered here only.)           *)
(***************************************************************************)
Emission(i) ==
    [key |-> key, at |-> cur, row |-> i, like |-> last,
     time |-> IF i = 0 THEN Written(cur) ELSE in[i].time]
Emit(i) ==
    /\ emitted' = Append(emitted, Emission(i))
    /\ cur' = cur + width
    /\ UNCHANGED <<call, in, pc, starts, filled, idxs, joinVars>>

EmitRow ==
    /\ Walking
    /\ idx <= Len(idxs)
    /\ times[next] >= cur
    /\ InReach(times[next])
    /\ Emit(next)
    /\ idx' = idx + 1
    /\ last' = next

(***************************************************************************)
(* A synthetic row, with the keys of its partition, the carried columns    *)
(* and the fill of the row emitted last, if there is one.                  *)
(***************************************************************************)
EmitSynthetic ==
    /\ Walking
    /\ idx <= Len(idxs) => times[next] >= cur /\ ~InReach(times[next])
    /\ Emit(0)
    /\ UNCHANGED <<idx, last>>

EndGroup ==
    /\ pc = "fill"
    /\ cur > until
    /\ pc' = "group"
    /\ UNCHANGED <<call, in, starts, fillVars, joinVars>>

-------------------------------------------------------------------------------
(***************************************************************************)
(* asofJoin: the right side, its rows by key and time, and one left row    *)
(* after the other.                                                        *)
(***************************************************************************)
Fetch ==
    /\ pc = "fetch"
    /\ right' \in Rights
    /\ buckets' \in {b \in [Keys -> UNION {Orders(Of(right', k), Times(right')) : k \in Keys}] :
                        \A k \in Keys : b[k] \in Orders(Of(right', k), Times(right'))}
    /\ pc' = "join"
    /\ UNCHANGED <<call, in, starts, fillVars, pairs>>

(***************************************************************************)
(* No workspace in the context, or the engine answers with an error.       *)
(***************************************************************************)
FetchFails ==
    /\ pc = "fetch"
    /\ pc' = "failed"
    /\ UNCHANGED <<call, in, starts, fillVars, joinVars>>

rightTimes == Times(right)

(***************************************************************************)
(* sort.Search: how many rows of bucket b come before the first that is    *)
(* later than t.                                                           *)
(***************************************************************************)
Splits(n, b, t) ==
    /\ \A m \in 1..n : rightTimes[b[m]] <= t
    /\ \A m \in (n + 1)..Len(b) : rightTimes[b[m]] > t

(***************************************************************************)
(* findAsofMatch before the tolerance: a row of bucket b, or 0.            *)
(***************************************************************************)
CandidateBefore(n, b, t) ==
    LET before == IF n > 0 THEN b[n] ELSE 0
        after == IF n < Len(b) THEN b[n + 1] ELSE 0
    IN  CASE call.direction = "backward" -> before
          [] call.direction = "forward"  -> after
          [] call.direction = "nearest"  -> IF before = 0 THEN after ELSE before
Candidate(n, b, t) ==
    LET before == IF n > 0 THEN b[n] ELSE 0
        after == IF n < Len(b) THEN b[n + 1] ELSE 0
    IN  CASE call.direction = "backward" -> before
          [] call.direction = "forward"  -> after
          [] call.direction = "nearest"  ->
                IF before = 0 \/ (after # 0 /\
                      Apart(t, rightTimes[before]) > Apart(t, rightTimes[after]))
                THEN after ELSE before

Tolerated(j, t) == width > 0 => Apart(t, rightTimes[j]) <= width

left == in[Len(pairs) + 1]

Join ==
    /\ pc = "join"
    /\ Len(pairs) < Len(in)
    /\ IF left.time = Unparsed THEN pairs' = Append(pairs, 0)
       ELSE \E n \in 0..Len(buckets[left.key]) :
                LET j == Candidate(n, buckets[left.key], left.time)
                IN  /\ Splits(n, buckets[left.key], left.time)
                    /\ pairs' = Append(pairs, IF j # 0 /\ Tolerated(j, left.time)
                                              THEN j ELSE 0)
    /\ UNCHANGED <<call, in, pc, starts, fillVars, right, buckets>>

-------------------------------------------------------------------------------
Finish ==
    /\ \/ pc = "bucket" /\ Len(starts) = Len(in)
       \/ pc = "group" /\ \A i \in DOMAIN in : in[i].key \in filled
       \/ pc = "join" /\ Len(pairs) = Len(in)
    /\ pc' = "done"
    /\ UNCHANGED <<call, in, starts, fillVars, joinVars>>

Next ==
    \/ Build \/ Bucket \/ BucketFails
    \/ BeginGroup \/ SkipRow \/ EmitRow \/ EmitSynthetic \/ EndGroup
    \/ Fetch \/ FetchFails \/ Join
    \/ Finish

(***************************************************************************)
(* Apply is a loop in the goroutine that calls it; only the right side of  *)
(* an asofJoin is waited for.                                              *)
(***************************************************************************)
Spec == Init /\ [][Next]_vars /\ WF_vars(Next)

-------------------------------------------------------------------------------
Emitted == [key : Keys, at : Int, row : Nat, like : Nat, time : Int \cup {Unparsed}]

(***************************************************************************)
(* The type of every variable.                                             *)
(***************************************************************************)
TypeOK ==
    /\ [call |-> call, rows |-> in] \in Requests
    /\ pc \in {"built", "refused", "bucket", "group", "fill", "fetch", "join",
               "done", "failed"}
    /\ right \in Seq(Row) /\ buckets \in [Keys -> Seq(DOMAIN right)]
    /\ filled \subseteq Keys /\ idxs \in Seq(DOMAIN in) /\ idx \in 1..(Len(idxs) + 1)
    /\ cur \in Int /\ last \in {0} \cup DOMAIN in
    /\ starts \in Seq(Int) /\ emitted \in Seq(Emitted)
    /\ pairs \in Seq({0} \cup DOMAIN right)

(***************************************************************************)
(* The start that timeBucket writes is that of the bucket that holds the   *)
(* row's time, before the origin as well as behind it, to the second:      *)
(* exactly the start if origin and interval are whole seconds, and for     *)
(* intervals of a second or more two rows get the same start if and only   *)
(* if they are in one bucket.  (Shorter buckets share their starts.)  Left *)
(* open are intervals that are not positive and times further from the     *)
(* origin than a duration reaches.                                         *)
(***************************************************************************)
Start(t) == t - ((t - call.origin) % width)
Reached(t) == t - call.origin \in (width - Longest)..Longest
WholeSeconds == call.origin % Second = 0 /\ width % Second = 0
InBucket ==
    width > 0 =>
        \A i \in DOMAIN starts :
            LET s == starts[i]
                t == in[i].time
            IN  Reached(t) =>
                  /\ s = Written(Start(t))
                  /\ WholeSeconds => s <= t /\ t < s + width /\ (s - call.origin) % width = 0
                  /\ width >= Second =>
                       \A j \in DOMAIN starts : Reached(in[j].time) =>
                          (s = starts[j] <=> Start(t) = Start(in[j].time))

(***************************************************************************)
(* gapfill answers, for each partition, every time of the grid from the    *)
(* first to the last, once and in order.  What stands there is a synthetic *)
(* row only if the partition has no row close to it, and else the earliest *)
(* of those that are.  Close is less than a second ("sub-second            *)
(* tolerance", time_ops.go:180) and less than half an interval (line 193)  *)
(* behind; a row further away by less than half an interval may be taken   *)
(* or not.  A row keeps its own time; a synthetic one has the time of the  *)
(* grid in whole seconds.  What it copies is the row before it in its      *)
(* partition.                                                              *)
(***************************************************************************)
Within(e, d) ==
    {i \in Of(in, e.key) : times[i] = e.at \/ (times[i] > e.at /\ times[i] - e.at < d)}
Window(e) == Within(e, Half(width))
Close(e) == Within(e, IF Second < Half(width) THEN Second ELSE Half(width))
Taken(e) ==
    /\ e.row = 0 => Close(e) = {}
    /\ e.row # 0 => e.row \in Window(e)
    /\ Close(e) # {} => \A i \in Close(e) : i # e.row => Precedes(times, e.row, i)
Dated(e) ==
    IF e.row # 0 THEN e.time = in[e.row].time
    ELSE e.time % Second = 0 /\ e.time <= e.at /\ e.at < e.time + Second

From(k) == IF call.from # Unset THEN call.from
           ELSE times[CHOOSE i \in Of(in, k) :
                        \A j \in Of(in, k) : times[i] <= times[j]]
To(k) == IF call.to # Unset THEN call.to
         ELSE times[CHOOSE i \in Of(in, k) :
                      \A j \in Of(in, k) : times[j] <= times[i]]
Begins(n) == n = 1 \/ emitted[n - 1].key # emitted[n].key
Ends(n) == n = Len(emitted) \/ emitted[n + 1].key # emitted[n].key
OnGrid(n) ==
    /\ emitted[n].at =
          IF Begins(n) THEN From(emitted[n].key) ELSE emitted[n - 1].at + width
    /\ emitted[n].at <= To(emitted[n].key)
    /\ Ends(n) /\ (n # Len(emitted) \/ pc # "fill") =>
          emitted[n].at + width > To(emitted[n].key)
FilledFrom(n) ==
    emitted[n].like = IF Begins(n) THEN 0
                      ELSE IF emitted[n - 1].row # 0 THEN emitted[n - 1].row
                      ELSE emitted[n - 1].like
Answered(k) == From(k) <= To(k) => \E n \in DOMAIN emitted : emitted[n].key = k

GapsFilled ==
    width > 0 =>
        /\ \A n \in DOMAIN emitted :
              Taken(emitted[n]) /\ Dated(emitted[n]) /\ OnGrid(n) /\ FilledFrom(n)
        /\ \A m, n \in DOMAIN emitted :
              m < n /\ emitted[m].row # 0 => emitted[m].row # emitted[n].row
        /\ pc = "done" /\ call.op = "gapfill" =>
              \A i \in DOMAIN in : Answered(in[i].key)

(***************************************************************************)
(* asofJoin pairs each left row with the nearest right row of its key on   *)
(* the side the direction names and within the tolerance, and with none    *)
(* only if there is none; rows further away than a duration reaches are    *)
(* all alike.  Which row is taken, and whether, is left open where the     *)
(* code does not keep to docs/OPERATORS.md:742-743: a forward join does    *)
(* not find a row of the very time of the left one, and a tolerance that   *)
(* is not positive is none.                                                *)
(***************************************************************************)
OnSide(j, t) ==
    CASE call.direction = "backward" -> rightTimes[j] <= t
      [] call.direction = "forward"  -> rightTimes[j] >= t
      [] call.direction = "nearest"  -> TRUE
Eligible(l) ==
    {j \in Of(right, l.key) :
        /\ OnSide(j, l.time)
        /\ width > 0 => Distance(l.time, rightTimes[j]) <= width}
LeftOpen(l) ==
    \/ call.interval # Unset /\ width <= 0
    \/ call.direction = "forward" /\ \E j \in Of(right, l.key) : rightTimes[j] = l.time
Nearest ==
    \A i \in DOMAIN pairs :
        LET l == in[i]
            j == pairs[i]
        IN  IF l.time = Unparsed THEN j = 0
            ELSE IF j = 0 THEN LeftOpen(l) \/ Eligible(l) = {}
            ELSE /\ j \in Eligible(l)
                 /\ \A m \in Eligible(l) :
                       \/ LeftOpen(l)
                       \/ Distance(l.time, rightTimes[j]) <= Distance(l.time, rightTimes[m])
                       \/ Distance(l.time, rightTimes[m]) >= Longest

(***************************************************************************)
(* Every call ends.  (gapfill does because its interval is positive: one   *)
(* of "0d" is accepted, and it never gets past its first time.)            *)
(***************************************************************************)
CallsEnd == width > 0 \/ call.op # "gapfill" ~> pc \in {"done", "failed", "refused"}
===============================================================================
