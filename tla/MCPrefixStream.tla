---------------------------- MODULE MCPrefixStream ----------------------------
(***************************************************************************)
(* Instances of PrefixStream for TLC: up to four rows, and limits below,   *)
(* at and above the number of rows, MaxRows and MaxLimit.                  *)
(***************************************************************************)
EXTENDS PrefixStream

MCTables == {<<>>, <<1>>, <<1, 2>>, <<1, 2, 3>>, <<1, 2, 3, 4>>}

(***************************************************************************)
(* Every prefix with the sheet right behind it, and the plain ones with a  *)
(* stage in between.                                                       *)
(***************************************************************************)
First == {q \in [limit : 0..4 \cup {NoLimit}, offset : 0..2, groups : BOOLEAN,
                 inMemory : BOOLEAN, streams : BOOLEAN, prelude : {"none"}] :
            q.groups => q.offset < 2}
Behind == [limit : {2, NoLimit}, offset : {0}, groups : {FALSE},
           inMemory : BOOLEAN, streams : {TRUE}, prelude : {"drop", "rewrite"}]
MCQueries == First \cup Behind

SheetLater == {q \in Behind : ~q.inMemory}
===============================================================================
