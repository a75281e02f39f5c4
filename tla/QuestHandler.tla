---------------------------- MODULE QuestHandler ----------------------------
(***************************************************************************)
(* The server's side of a quest: do_read's entry, ConnectionI::handle_quest *)
(* and WaiterImp (EngineImp.cpp) for the quests of one connection, and the *)
(* servants of PtAdapter (PtEngineImp.cpp).                                *)
(*                                                                         *)
(* A servant may answer by itself, or call Current::asynchronous() and let *)
(* another thread answer through the Waiter; it may also do both, neither, *)
(* or throw.  A Waiter answers for the last of its holders if nobody has.  *)
(***************************************************************************)
EXTENDS Integers, FiniteSets

CONSTANTS
  Quests,        \* quests read from the connection
  Services,      \* names of services
  Servants, None,
  MaxResponses   \* times the other thread calls response() for one quest

ASSUME QuestHandlerAssumption ==
  /\ None \notin Servants /\ None \notin Services
  /\ IsFiniteSet(Quests) /\ MaxResponses \in Nat

VARIABLES
  srvMap,      \* PtAdapter::_srvMap
  hint,        \* PtAdapter::_hint: a service, or None for end()
  default,     \* PtAdapter::_default
  finished,    \* the adapter is ADAPTER_FINISHED
  pc,          \* quest: where handle_quest is
  twoway,      \* quest: has a txid
  service, servant,
  refs,        \* quest: holders of its Waiter, the Current and the other thread
  waiter,      \* quest: there is a Waiter
  waiting,     \* quest: WaiterImp::_waiting
  calls,       \* quest: calls of response() by the other thread
  replying,    \* quest: calls of replyAnswer() begun
  replies,     \* quest: answers sent
  unsent,      \* quest: answers that replyAnswer() could not send
  processing   \* PtConnection::_processing

adapterVars == <<srvMap, hint, default, finished>>
questVars == <<twoway, service, servant>>
waiterVars == <<refs, waiter, waiting, calls>>
replyVars == <<replying, replies, unsent, processing>>
vars == <<adapterVars, pc, questVars, waiterVars, replyVars>>

Init ==
  /\ srvMap = [s \in {} |-> None] /\ hint = None /\ default = None /\ finished = FALSE
  /\ pc = [q \in Quests |-> "unread"] /\ twoway = [q \in Quests |-> FALSE]
  /\ service \in [Quests -> Services] /\ servant = [q \in Quests |-> None]
  /\ refs = [q \in Quests |-> {}] /\ waiter = [q \in Quests |-> FALSE]
  /\ waiting = [q \in Quests |-> 0] /\ calls = [q \in Quests |-> 0]
  /\ replying = [q \in Quests |-> 0] /\ replies = [q \in Quests |-> 0]
  /\ unsent = [q \in Quests |-> 0] /\ processing = 0

-----------------------------------------------------------------------------
(* PtAdapter. *)

\* Where begin() may point: which of the names is the first does not matter.
Begin(map) == IF DOMAIN map = {} THEN {None} ELSE DOMAIN map

addServant(s, v) ==
  /\ ~finished
  /\ srvMap' = [t \in DOMAIN srvMap \cup {s} |-> IF t = s THEN v ELSE srvMap[t]]
  /\ hint' \in Begin(srvMap')
  /\ UNCHANGED <<default, finished, pc, questVars, waiterVars, replyVars>>

\* Faulty variant: the hint is left alone.
removeServantKeepsHint(s) ==
  /\ s \in DOMAIN srvMap
  /\ srvMap' = [t \in DOMAIN srvMap \ {s} |-> srvMap[t]]
  /\ UNCHANGED <<hint, default, finished, pc, questVars, waiterVars, replyVars>>

removeServant(s) ==
  /\ s \in DOMAIN srvMap
  /\ srvMap' = [t \in DOMAIN srvMap \ {s} |-> srvMap[t]]
  /\ hint' \in Begin(srvMap')
  /\ UNCHANGED <<default, finished, pc, questVars, waiterVars, replyVars>>

setDefaultServant ==
  /\ \E v \in Servants \cup {None} : default' = v   \* None: unsetDefaultServant
  /\ UNCHANGED <<srvMap, hint, finished, pc, questVars, waiterVars, replyVars>>

deactivate ==
  /\ ~finished /\ finished' = TRUE
  /\ srvMap' = [s \in {} |-> None] /\ default' = None /\ hint' = None
  /\ UNCHANGED <<pc, questVars, waiterVars, replyVars>>

-----------------------------------------------------------------------------
(* do_read and handle_quest. *)

\* Faulty variant: _processing is left alone.
readUncounted(q) ==
  /\ pc[q] = "unread"
  /\ pc' = [pc EXCEPT ![q] = "find"]
  /\ \E two \in BOOLEAN : twoway' = [twoway EXCEPT ![q] = two]
  /\ UNCHANGED <<adapterVars, service, servant, waiterVars, replyVars>>

read(q) ==
  /\ pc[q] = "unread"
  /\ pc' = [pc EXCEPT ![q] = "find"]
  /\ \E two \in BOOLEAN :
       /\ twoway' = [twoway EXCEPT ![q] = two]
       /\ processing' = IF two THEN processing + 1 ELSE processing
  /\ UNCHANGED <<adapterVars, service, servant, waiterVars, replying, replies, unsent>>

Throws(q) == pc' = [pc EXCEPT ![q] = "threw"]

findServant(q) ==
  LET s == service[q]
      v == IF hint = s \/ s \in DOMAIN srvMap THEN srvMap[s] ELSE None
  IN /\ pc[q] = "find"
     /\ servant' = [servant EXCEPT ![q] = v]
     /\ hint' = IF s \in DOMAIN srvMap THEN s ELSE hint
     /\ pc' = [pc EXCEPT ![q] = IF v = None THEN "default" ELSE "process"]
     /\ UNCHANGED <<srvMap, default, finished, twoway, service, waiterVars, replyVars>>

getDefaultServant(q) ==
  /\ pc[q] = "default"
  /\ IF default = None
     THEN Throws(q) /\ UNCHANGED servant
     ELSE pc' = [pc EXCEPT ![q] = "process"] /\ servant' = [servant EXCEPT ![q] = default]
  /\ UNCHANGED <<adapterVars, twoway, service, waiterVars, replyVars>>

\* The servant calls Current::asynchronous() and gives the Waiter to another
\* thread or not.  For a oneway quest asynchronous() throws, and process() with it.
asynchronous(q) ==
  /\ pc[q] = "process" /\ ~waiter[q]
  /\ IF twoway[q]
     THEN /\ waiter' = [waiter EXCEPT ![q] = TRUE]
          /\ waiting' = [waiting EXCEPT ![q] = 1]
          /\ \E r \in {{"current"}, {"current", "other"}} : refs' = [refs EXCEPT ![q] = r]
          /\ UNCHANGED pc
     ELSE Throws(q) /\ UNCHANGED <<waiter, waiting, refs>>
  /\ UNCHANGED <<adapterVars, questVars, calls, replyVars>>

\* process() returns an answer, null or ASYNC_ANSWER, or throws.
process(q) ==
  /\ pc[q] = "process"
  /\ \/ pc' = [pc EXCEPT ![q] = "answer"]
     \/ pc' = [pc EXCEPT ![q] = IF twoway[q] /\ ~waiter[q] THEN "threw" ELSE "none"]
     \/ Throws(q)
  /\ UNCHANGED <<adapterVars, questVars, waiterVars, replyVars>>

\* WaiterImp::response(): the first caller sends the answer.
Responds(q, n) == n = 0

response(q) ==
  /\ waiting' = [waiting EXCEPT ![q] = @ - 1]
  /\ replying' = [replying EXCEPT ![q] = IF Responds(q, waiting'[q]) THEN @ + 1 ELSE @]

\* A holder is through with the Waiter; the last one runs ~WaiterImp().
\* Faulty variant: the destructor trusts the servant.
DropSilently(q, holder) ==
  refs' = [refs EXCEPT ![q] = @ \ {holder}] /\ UNCHANGED <<waiting, replying>>

Drop(q, holder) ==
  /\ refs' = [refs EXCEPT ![q] = @ \ {holder}]
  /\ IF refs'[q] = {} /\ waiting[q] > 0
     THEN response(q)
     ELSE UNCHANGED <<waiting, replying>>

\* The rest of handle_quest: an exception of a twoway quest is an answer too.
HasAnswer(q) == pc[q] = "answer" \/ (pc[q] = "threw" /\ twoway[q])

answerItself(q) ==
  /\ pc[q] \in {"answer", "none", "threw"} /\ ~waiter[q]
  /\ pc' = [pc EXCEPT ![q] = "done"]
  /\ replying' = [replying EXCEPT ![q] = IF HasAnswer(q) /\ twoway[q] THEN @ + 1 ELSE @]
  /\ UNCHANGED <<adapterVars, questVars, waiterVars, replies, unsent, processing>>

answerWaiter(q) ==
  /\ pc[q] \in {"answer", "none", "threw"} /\ waiter[q]
  /\ pc' = [pc EXCEPT ![q] = "leave"]
  /\ IF HasAnswer(q) THEN response(q) ELSE UNCHANGED <<waiting, replying>>
  /\ UNCHANGED <<adapterVars, questVars, refs, waiter, calls, replies, unsent, processing>>

\* The Current goes out of scope.
leave(q) ==
  /\ pc[q] = "leave" /\ pc' = [pc EXCEPT ![q] = "done"]
  /\ Drop(q, "current")
  /\ UNCHANGED <<adapterVars, questVars, waiter, calls, replies, unsent, processing>>

\* The other thread.
otherResponds(q) ==
  /\ "other" \in refs[q] /\ calls[q] < MaxResponses
  /\ calls' = [calls EXCEPT ![q] = @ + 1]
  /\ response(q)
  /\ UNCHANGED <<adapterVars, pc, questVars, refs, waiter, replies, unsent, processing>>

otherDrops(q) ==
  /\ "other" \in refs[q] /\ Drop(q, "other")
  /\ UNCHANGED <<adapterVars, pc, questVars, waiter, calls, replies, unsent, processing>>

\* replyAnswer(), under the connection's lock.
replyAnswer(q) ==
  /\ replying[q] > 0
  /\ replying' = [replying EXCEPT ![q] = @ - 1]
  /\ replies' = [replies EXCEPT ![q] = @ + 1]
  /\ processing' = processing - 1
  /\ UNCHANGED <<adapterVars, pc, questVars, waiterVars, unsent>>

\* _send_qmsg() throws, for an answer that is too large or a write that fails, and
\* --_processing is skipped.  The exception goes on into do_read, which ends the
\* connection; into the other thread, where it does not; or out of ~WaiterImp(),
\* where it ends the process.
replyThrows(q) ==
  /\ replying[q] > 0
  /\ replying' = [replying EXCEPT ![q] = @ - 1]
  /\ unsent' = [unsent EXCEPT ![q] = @ + 1]
  /\ UNCHANGED <<adapterVars, pc, questVars, waiterVars, replies, processing>>

-----------------------------------------------------------------------------
Next ==
  \/ \E s \in Services : removeServant(s) \/ \E v \in Servants : addServant(s, v)
  \/ setDefaultServant \/ deactivate
  \/ \E q \in Quests :
       \/ read(q) \/ findServant(q) \/ getDefaultServant(q) \/ asynchronous(q) \/ process(q)
       \/ answerItself(q) \/ answerWaiter(q) \/ leave(q)
       \/ otherResponds(q) \/ otherDrops(q) \/ replyAnswer(q) \/ replyThrows(q)

Spec == Init /\ [][Next]_vars

-----------------------------------------------------------------------------
(* Properties. *)

Places == {"unread", "find", "default", "process", "answer", "none", "threw", "leave", "done"}

QuestTypes ==
  /\ pc \in [Quests -> Places]
  /\ twoway \in [Quests -> BOOLEAN] /\ service \in [Quests -> Services]
  /\ servant \in [Quests -> Servants \cup {None}]
  /\ refs \in [Quests -> SUBSET {"current", "other"}] /\ waiter \in [Quests -> BOOLEAN]
  /\ waiting \in [Quests -> Int] /\ calls \in [Quests -> 0..MaxResponses]
  /\ replying \in [Quests -> Nat] /\ replies \in [Quests -> Nat]
  /\ unsent \in [Quests -> Nat]

AdapterTypes ==
  /\ \E S \in SUBSET Services : srvMap \in [S -> Servants]
  /\ hint \in Services \cup {None} /\ default \in Servants \cup {None} /\ finished \in BOOLEAN

TypeOK == QuestTypes /\ AdapterTypes /\ processing \in Nat

\* handle_quest, its exceptions, the Waiter's holders and its destructor: a
\* twoway quest is given to replyAnswer once and only once, it has been when nobody
\* is left who could answer it, and _processing, on which a graceful close waits,
\* counts those that have no answer: also, for ever, one whose answer could not be
\* sent.  A oneway quest is never answered.
Answers(q) == replies[q] + replying[q] + unsent[q]
Unanswered == {q \in Quests : twoway[q] /\ replies[q] = 0}
AnsweredOnce ==
  /\ \A q \in Quests :
       /\ Answers(q) <= (IF twoway[q] THEN 1 ELSE 0)
       /\ (twoway[q] /\ pc[q] = "done" /\ refs[q] = {}) => Answers(q) = 1
  /\ processing = Cardinality(Unanswered)

\* findServant, addServant, removeServant and deactivate of several threads:
\* the iterator kept in _hint always points into the map or to its end.
HintValid == hint # None => hint \in DOMAIN srvMap
=============================================================================
