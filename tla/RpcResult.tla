----------------------------- MODULE RpcResult -----------------------------
(***************************************************************************)
(* What emitQuest() promises to its caller, xic/Engine.h: a twoway quest   *)
(* is completed at most once, with an answer only if a servant has run it, *)
(* and its outcome is final.  How the engine gets there (connections,      *)
(* transaction ids, retries, closing) is not visible here.                 *)
(***************************************************************************)
CONSTANT Quests

VARIABLES
  phase,  \* phase[q] \in {"new", "pending", "answer", "error"}
  ran     \* the quests some servant has begun to run

Init == phase = [q \in Quests |-> "new"] /\ ran = {}

Emit(q) ==
  /\ phase[q] = "new"
  /\ phase' = [phase EXCEPT ![q] = "pending"]
  /\ UNCHANGED ran

\* Also after the caller has been told of a failure, and again after a retry.
Run(q) ==
  /\ phase[q] # "new"
  /\ ran' = ran \cup {q}
  /\ UNCHANGED phase

\* Result::isCompleted() becomes true, with _answer or with _ex.
Complete(q, kind) ==
  /\ phase[q] = "pending"
  /\ kind = "answer" => q \in ran
  /\ phase' = [phase EXCEPT ![q] = kind]
  /\ UNCHANGED ran

Next == \E q \in Quests : \/ Emit(q)
                          \/ Run(q)
                          \/ \E kind \in {"answer", "error"} : Complete(q, kind)

Spec == Init /\ [][Next]_<<phase, ran>>
=============================================================================
