------------------------------ MODULE MCSheetRun ------------------------------
(***************************************************************************)
(* The sheets checked: every graph of references between three formulas,   *)
(* a few with kernels over more columns than a budget holds, and a few     *)
(* that call built-ins, what a host may add to them, and neither.          *)
(***************************************************************************)
EXTENDS SheetRun

CONSTANTS p, q, r, x, y, u

MCNames == {p, q, r, x, y, u}
MCSource == {x, y}
MCTyped == {p, x, y}
MCSize == [c \in MCNames |-> IF c = y THEN 3 ELSE 2]

MCBuiltins == [sum |-> "sum", count |-> "count"]
Offer(name, push) == [name |-> name, push |-> push]
MCOffers ==
    {Offer("p95", ""), Offer("total", "sum"), Offer("sum", "max"), Offer("", "sum")}

Column_(n, refs) == [as |-> n, refs |-> refs, kind |-> "column", call |-> ""]
Reduce_(n, refs) == [as |-> n, refs |-> refs, kind |-> "reduce", call |-> ""]
Call_(n, name, refs) == [as |-> n, refs |-> refs, kind |-> "reduce", call |-> name]
Kernel_(n, c) == Call_(n, "sum", {c})

Graphs ==
    {<<Column_(p, a), Reduce_(q, b), Column_(r, c)>> :
        a, b, c \in SUBSET {p, q, r}}

Kernels ==
    {<<Kernel_(p, a), Column_(q, {x}), Kernel_(r, b)>> : a, b \in {p, q, r, x, u}}

Evicting ==
    {<<Column_(p, a), Kernel_(q, b), Kernel_(r, c), Kernel_(u, d)>> :
        a \in {{x}, {q}}, b, c, d \in {p, x, y}}

Calling ==
    {<<Call_(p, f1, {a}), Call_(q, f2, b), Column_(r, {p, x})>> :
        f1, f2 \in {"p95", "total", "sum"}, a \in {x, q}, b \in {{x}, {r}, {x, y}}}

MCDeclarations ==
    {<<>>, <<Column_(p, {x}), Column_(p, {y})>>, <<Column_(x, {x})>>}
        \cup Graphs \cup Kernels \cup Evicting \cup Calling
===============================================================================
