------------------------------ MODULE LiveReplay ------------------------------
(***************************************************************************)
(* What the pipe executor promises a live subscription, with no mention of *)
(* rows, buffers or stage outputs.  One execution calls each outside       *)
(* service at most once and in stage order.  Once it has answered, any     *)
(* number of replays run; no replay calls a service, and a replay from the *)
(* primed snapshot answers with the execution's own rows.  A dry run (the  *)
(* tail from its first stage with the side effects muted) promises only    *)
(* the first half.                                                         *)
(*                                                                         *)
(* PipeTail implements this specification.                                 *)
(***************************************************************************)
EXTENDS Integers, Sequences

CONSTANTS
    Replays,          \* the replay sessions a host may open
    Stages            \* the positions a stage may have in a pipe, integers

VARIABLES
    execution,        \* "none", "running", "answered" or "failed"
    calls,            \* the stages whose outside service was called, in order
    replay            \* replay[r]: what session r is doing or has answered

vars == <<execution, calls, replay>>

Kinds == {"snapshot", "dry"}
Answers == {"same rows", "preview", "failed"}

Init ==
    /\ execution = "none"
    /\ calls = <<>>
    /\ replay = [r \in Replays |-> "none"]

(***************************************************************************)
(* The calls grow by one later stage, or not at all.                       *)
(***************************************************************************)
CallsAtMostOneLaterStage ==
    \/ UNCHANGED calls
    \/ \E k \in Stages :
          /\ \A i \in DOMAIN calls : calls[i] < k
          /\ calls' = Append(calls, k)

Begin ==
    /\ execution = "none"
    /\ execution' \in {"running", "failed"}
    /\ UNCHANGED <<calls, replay>>

Advance ==
    /\ execution = "running"
    /\ execution' \in {"running", "answered", "failed"}
    /\ CallsAtMostOneLaterStage
    /\ UNCHANGED replay

Subscribe(r) ==
    /\ execution = "answered"
    /\ replay[r] = "none"
    /\ \E kind \in Kinds : replay' = [replay EXCEPT ![r] = kind]
    /\ UNCHANGED <<execution, calls>>

AnswerSnapshot(r) ==
    /\ replay[r] = "snapshot"
    /\ \E a \in {"same rows", "failed"} : replay' = [replay EXCEPT ![r] = a]
    /\ UNCHANGED <<execution, calls>>

AnswerDry(r) ==
    /\ replay[r] = "dry"
    /\ \E a \in {"preview", "failed"} : replay' = [replay EXCEPT ![r] = a]
    /\ UNCHANGED <<execution, calls>>

Next ==
    \/ Begin
    \/ Advance
    \/ \E r \in Replays : Subscribe(r) \/ AnswerSnapshot(r) \/ AnswerDry(r)

Spec == Init /\ [][Next]_vars
===============================================================================
