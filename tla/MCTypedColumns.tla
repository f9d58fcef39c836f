---------------------------- MODULE MCTypedColumns ----------------------------
(***************************************************************************)
(* An instance of TypedColumns for TLC: an integer a float64 does not      *)
(* represent, a negative number, a time nanoseconds do not reach, and one  *)
(* value of every other type.                                              *)
(***************************************************************************)
EXTENDS TypedColumns

MCNumbers == {-1, 8, 9}
MCFloatOf == [x \in Numbers |-> IF x = 9 THEN 8 ELSE x]
MCNanoOf == [x \in Times |-> IF x = 3000 THEN 1400 ELSE x]
MCPlain == {[t |-> "string", v |-> 1], [t |-> "bool", v |-> 0], [t |-> "other", v |-> 1]}
===============================================================================
