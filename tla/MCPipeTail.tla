------------------------------ MODULE MCPipeTail ------------------------------
(***************************************************************************)
(* Instances of PipeTail for TLC: pipes of one to three stages over one    *)
(* id, two replay sessions.                                                *)
(***************************************************************************)
EXTENDS PipeTail

(***************************************************************************)
(* Stages that are folded into the prefix do nothing in the tail, so a     *)
(* foldable stage is live-safe and builds new rows.                        *)
(***************************************************************************)
TailStages ==
    {s \in Stage : /\ s.fold # "break" => s.safe /\ s.mode = "fresh"
                   /\ ~s.safe => s.mode # "alias"}

Plain(fs) == {s \in TailStages : s.id = NoId /\ s.from = NoId /\ s.fold \in fs}
Named(fs) == {s \in TailStages : s.id # NoId /\ s.from = NoId /\ s.fold \in fs}
Reading   == {s \in TailStages : s.from # NoId /\ s.fold = "break"}
ReadsLast == {s \in Reading : s.id = NoId}

(***************************************************************************)
(* A linear pipe; a stage that reads a named one right before it or with   *)
(* one or two stages between; a pushed groupBy with its aggregate; a graph *)
(* the planner refuses.                                                    *)
(***************************************************************************)
Linear  == {<<s, t>> : s \in Plain({"fold", "break"}), t \in Plain({"break"})}
ReadsAt == {<<s, t>> : s \in Named({"fold", "break"}), t \in Reading}
Skips   == {<<s, t, u>> : s \in Named({"fold", "break"}), t \in Plain({"break"}),
                          u \in ReadsLast}
Behind  == {<<s, t, u>> : s \in Plain({"fold"}), t \in Named({"break"}),
                          u \in ReadsLast}
Grouped == {<<g, s, t>> : g \in Plain({"groupBy"}),
                          s \in Named({"aggregate"}) \cup Plain({"aggregate"}),
                          t \in Plain({"break"}) \cup ReadsLast}
Refused == {<<s>> : s \in ReadsLast}

MCPipes == Linear \cup ReadsAt \cup Skips \cup Behind \cup Grouped \cup Refused
===============================================================================
