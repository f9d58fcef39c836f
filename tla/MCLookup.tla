------------------------------- MODULE MCLookup -------------------------------
(***************************************************************************)
(* Instances of Lookup for TLC: three calls, a dataset that changes between  *)
(* more rows than the engine returns by default and rows that share a key, *)
(* a missing key that matches a missing key, and a number and a text that  *)
(* print alike.                                                            *)
(***************************************************************************)
EXTENDS Lookup, TLC

Row(k, id) == [key |-> k, id |-> id]

MCKeys == {"1", "one", "missing", "text 1"}
MCTextOf == [k \in MCKeys |-> CASE k = "missing" -> "<nil>"
                                [] k = "text 1" -> "1"
                                [] OTHER -> k]

Wide == <<Row("1", 1), Row("missing", 2), Row("one", 3)>>
Twice == <<Row("1", 4), Row("text 1", 5)>>
MCTables == {Twice, Wide}

MCLefts == {<<Row("one", 7), Row("1", 8), Row("missing", 9)>>}

MCConfigs == {[ttl |-> 0, mode |-> "left", limit |-> 3], [ttl |-> 0, mode |-> "inner", limit |-> NoLimit],
              [ttl |-> 2, mode |-> "left", limit |-> NoLimit], [ttl |-> 2, mode |-> "inner", limit |-> 1]}

Interchangeable == Permutations(Runs)
===============================================================================
