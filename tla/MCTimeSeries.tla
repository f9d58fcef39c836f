----------------------------- MODULE MCTimeSeries -----------------------------
(***************************************************************************)
(* Instances of TimeSeries for TLC: up to three rows of two keys on and    *)
(* off the grid, before and behind the origin, with equal times and a      *)
(* value that is none.  A second has two ticks, so that intervals, origins *)
(* and times have fractions, and the longest duration seven, so that some  *)
(* times are out of reach of each other.                                   *)
(***************************************************************************)
EXTENDS TimeSeries

MCZero == -3
At(k, t) == [key |-> k, time |-> t]
Some == {At("x", t) : t \in {-1, 0, 1, 3, 4, 7, Unparsed}} \cup {At("y", t) : t \in {1, 4}}
UpTo(n, S) == UNION {[1..m -> S] : m \in 0..n}
MCRights == UpTo(3, {At("x", 0), At("x", 2), At("x", 4), At("x", 15), At("x", Unparsed),
                     At("y", 1)})

Ticks(n) == [n |-> n, unit |-> "tick"]
Days(n) == [n |-> n, unit |-> "day"]
Plainly == [op |-> "gapfill", interval |-> Ticks(4), origin |-> 0, from |-> Unset,
            to |-> Unset, direction |-> "backward"]
Fills == {[Plainly EXCEPT !.interval = iv, !.from = f, !.to = t] :
             iv \in {Ticks(4), Ticks(1), Days(1)}, f \in {Unset, 0}, t \in {Unset, 6}}
Starts == {[Plainly EXCEPT !.op = "timeBucket", !.interval = iv, !.origin = o] :
             iv \in {Ticks(1), Ticks(3), Ticks(4), Ticks(0), Days(0), Days(1)}, o \in {0, 1}}
Joins == {[Plainly EXCEPT !.op = "asofJoin", !.interval = iv, !.direction = d] :
             iv \in {Unset, Ticks(1), Days(0)}, d \in {"backward", "forward", "nearest"}}
MCRequests ==
    [call : Fills, rows : UpTo(3, Some)] \cup [call : Starts, rows : UpTo(2, Some \cup {At("x", -9), At("x", 9)})]
        \cup [call : Joins, rows : UpTo(1, Some) \cup {<<At("y", 3), At("x", 3)>>}]
===============================================================================
