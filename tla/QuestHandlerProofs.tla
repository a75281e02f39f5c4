------------------------- MODULE QuestHandlerProofs -------------------------
(***************************************************************************)
(* HintValid and AnsweredOnce of the server's side of a quest, for any     *)
(* number of quests, services, servants and calls of response().           *)
(***************************************************************************)
EXTENDS QuestHandler, FiniteSetTheorems, TLAPS

-----------------------------------------------------------------------------
(* The adapter: types and HintValid. *)

AdapterInv == AdapterTypes /\ HintValid

\* Every step keeps the adapter's hint valid.
LEMMA AdapterStep ==
  ASSUME AdapterInv, service \in [Quests -> Services], [Next]_vars
  PROVE  AdapterInv'
<1> USE QuestHandlerAssumption DEF AdapterInv, AdapterTypes, HintValid
<1> SUFFICES ASSUME Next PROVE AdapterInv'
  BY DEF vars, adapterVars
<1>0. PICK S \in SUBSET Services : srvMap \in [S -> Servants]
  OBVIOUS
<1>1. ASSUME NEW s \in Services, NEW v \in Servants, addServant(s, v) PROVE AdapterInv'
  <2>1. srvMap' \in [S \cup {s} -> Servants] /\ S \cup {s} \in SUBSET Services
    BY <1>0, <1>1 DEF addServant
  <2>2. hint' \in DOMAIN srvMap'
    BY <1>1, <2>1 DEF addServant, Begin
  <2> QED BY <1>1, <2>1, <2>2 DEF addServant
<1>2. ASSUME NEW s \in Services, removeServant(s) PROVE AdapterInv'
  <2>1. srvMap' \in [S \ {s} -> Servants] /\ S \ {s} \in SUBSET Services
    BY <1>0, <1>2 DEF removeServant
  <2>2. hint' = None \/ hint' \in DOMAIN srvMap'
    BY <1>2, <2>1 DEF removeServant, Begin
  <2> QED BY <1>2, <2>1, <2>2 DEF removeServant
<1>3. CASE setDefaultServant
  BY <1>0, <1>3 DEF setDefaultServant
<1>4. CASE deactivate
  <2>1. srvMap' \in [{} -> Servants] /\ {} \in SUBSET Services
    BY <1>4 DEF deactivate
  <2> QED BY <1>4, <2>1 DEF deactivate
<1>5. ASSUME NEW q \in Quests, findServant(q) PROVE AdapterInv'
  BY <1>0, <1>5 DEF findServant
<1>6. CASE UNCHANGED adapterVars
  BY <1>0, <1>6 DEF adapterVars
<1> QED
  BY <1>1, <1>2, <1>3, <1>4, <1>5, <1>6
  DEF Next, read, getDefaultServant, asynchronous, process, answerItself, answerWaiter, leave,
      otherResponds, otherDrops, replyAnswer, replyThrows

-----------------------------------------------------------------------------
(* The quests.  A quest with a Waiter is answered when _waiting has come    *)
(* down to 0, which the last holder sees to; one without is answered by the *)
(* end of handle_quest.                                                     *)

QuestInv(q) ==
  /\ pc[q] = "unread" => ~twoway[q]
  /\ waiter[q] =>
       /\ twoway[q] /\ pc[q] \in {"process", "answer", "none", "threw", "leave", "done"}
       /\ waiting[q] <= 1 /\ (refs[q] = {} => waiting[q] <= 0)
       /\ Answers(q) = (IF waiting[q] <= 0 THEN 1 ELSE 0)
  /\ ~waiter[q] =>
       /\ refs[q] = {} /\ waiting[q] = 0 /\ pc[q] # "leave"
       /\ pc[q] = "none" => ~twoway[q]
       /\ Answers(q) = (IF twoway[q] /\ pc[q] = "done" THEN 1 ELSE 0)

Counted == processing = Cardinality(Unanswered)

HandlerInv == QuestTypes /\ (\A q \in Quests : QuestInv(q)) /\ Counted

\* The step of a quest that leaves another alone.
LEMMA Others ==
  ASSUME NEW q \in Quests, QuestInv(q),
         pc'[q] = pc[q], twoway'[q] = twoway[q], waiter'[q] = waiter[q], refs'[q] = refs[q],
         waiting'[q] = waiting[q], replying'[q] = replying[q], replies'[q] = replies[q],
         unsent'[q] = unsent[q]
  PROVE  QuestInv(q)'
BY DEF QuestInv, Answers

\* _processing while no quest is read and no answer sent.
LEMMA SameCount ==
  ASSUME Counted, UNCHANGED <<twoway, replies, processing>>
  PROVE  Counted'
BY DEF Counted, Unanswered

\* response(), by whoever calls it, for a quest with a Waiter.
LEMMA ResponseStep ==
  ASSUME QuestTypes, NEW q \in Quests, QuestInv(q), waiter[q], response(q),
         UNCHANGED <<replies, unsent>>
  PROVE  /\ waiting' \in [Quests -> Int] /\ replying' \in [Quests -> Nat]
         /\ waiting'[q] <= 0 /\ Answers(q)' = 1
         /\ \A p \in Quests \ {q} : waiting'[p] = waiting[p] /\ replying'[p] = replying[p]
BY DEF QuestTypes, QuestInv, response, Responds, Answers

\* do_read: a twoway quest is counted.
LEMMA ReadStep ==
  ASSUME HandlerInv, NEW q \in Quests, read(q)
  PROVE  HandlerInv'
<1> USE DEF HandlerInv, QuestTypes, Places, waiterVars, adapterVars
<1>1. QuestTypes'
  BY DEF read
<1>2. QuestInv(q)'
  BY DEF read, QuestInv, Answers
<1>3. ASSUME NEW p \in Quests \ {q} PROVE QuestInv(p)'
  BY <1>1, Others DEF read
<1>4. Counted'
  <2>1. ~twoway[q] /\ replies[q] = 0
    BY DEF read, QuestInv, Answers
  <2>2. Unanswered' = Unanswered \cup (IF twoway'[q] THEN {q} ELSE {}) /\ q \notin Unanswered
    BY <2>1 DEF read, Unanswered
  <2>3. IsFiniteSet(Unanswered)
    BY QuestHandlerAssumption, FS_Subset DEF Unanswered
  <2>4. CASE twoway'[q]
    <3>1. Cardinality(Unanswered \cup {q}) = Cardinality(Unanswered) + 1
      BY <2>2, <2>3, FS_AddElement
    <3>2. processing' = processing + 1
      BY <2>4 DEF read
    <3> QED BY <2>2, <2>4, <3>1, <3>2 DEF Counted
  <2>5. CASE ~twoway'[q]
    <3>1. processing' = processing
      BY <2>5 DEF read
    <3>2. Unanswered' = Unanswered
      BY <2>2, <2>5
    <3> QED BY <3>1, <3>2 DEF Counted
  <2> QED BY <2>4, <2>5
<1> QED BY <1>1, <1>2, <1>3, <1>4

\* findServant and getDefaultServant: a quest finds its servant or throws.
LEMMA FindStep ==
  ASSUME HandlerInv, NEW q \in Quests, findServant(q) \/ getDefaultServant(q),
         servant' \in [Quests -> Servants \cup {None}]
  PROVE  HandlerInv'
<1> USE DEF HandlerInv, QuestTypes, Places, waiterVars, adapterVars, replyVars,
            findServant, getDefaultServant, Throws
<1>1. QuestTypes'
  OBVIOUS
<1>2. QuestInv(q)'
  BY DEF QuestInv, Answers
<1>3. ASSUME NEW p \in Quests \ {q} PROVE QuestInv(p)'
  BY <1>1, Others
<1>4. Counted'
  BY SameCount
<1> QED BY <1>1, <1>2, <1>3, <1>4

\* The servant asks for a Waiter; for a oneway quest that throws.
LEMMA AsynchronousStep ==
  ASSUME HandlerInv, NEW q \in Quests, asynchronous(q)
  PROVE  HandlerInv'
<1> USE DEF HandlerInv, QuestTypes, Places, questVars, waiterVars, adapterVars, replyVars
<1>1. CASE twoway[q]
  <2>1. PICK r \in {{"current"}, {"current", "other"}} :
          /\ refs' = [refs EXCEPT ![q] = r] /\ waiter' = [waiter EXCEPT ![q] = TRUE]
          /\ waiting' = [waiting EXCEPT ![q] = 1] /\ pc' = pc
    BY <1>1 DEF asynchronous
  <2>2. UNCHANGED <<twoway, service, servant, calls, replying, replies, unsent, processing>>
    BY DEF asynchronous
  <2>3. r # {} /\ r \in SUBSET {"current", "other"}
    OBVIOUS
  <2>4. QuestTypes'
    BY <2>1, <2>2, <2>3
  <2>5. QuestInv(q)'
    BY <1>1, <2>1, <2>2, <2>3 DEF asynchronous, QuestInv, Answers
  <2>6. ASSUME NEW p \in Quests \ {q} PROVE QuestInv(p)'
    BY <2>1, <2>2, Others
  <2>7. Counted'
    BY <2>2, SameCount
  <2> QED BY <2>4, <2>5, <2>6, <2>7
<1>2. CASE ~twoway[q]
  <2>1. pc' = [pc EXCEPT ![q] = "threw"] /\ UNCHANGED <<questVars, waiterVars, replyVars>>
    BY <1>2 DEF asynchronous, Throws
  <2>2. QuestTypes'
    BY <2>1
  <2>3. QuestInv(q)'
    BY <1>2, <2>1 DEF asynchronous, QuestInv, Answers
  <2>4. ASSUME NEW p \in Quests \ {q} PROVE QuestInv(p)'
    BY <2>1, Others
  <2>5. Counted'
    BY <2>1, SameCount
  <2> QED BY <2>2, <2>3, <2>4, <2>5
<1> QED BY <1>1, <1>2

\* process() returns or throws.
LEMMA ProcessStep ==
  ASSUME HandlerInv, NEW q \in Quests, process(q)
  PROVE  HandlerInv'
<1> USE DEF HandlerInv, QuestTypes, Places, questVars, waiterVars, adapterVars, replyVars
<1>1. PICK x \in {"answer", "threw", "none"} :
        pc' = [pc EXCEPT ![q] = x] /\ (x = "none" => waiter[q] \/ ~twoway[q])
  BY DEF process, Throws
<1>2. UNCHANGED <<questVars, waiterVars, replyVars>>
  BY DEF process
<1>3. QuestTypes'
  BY <1>1, <1>2
<1>4. QuestInv(q)'
  BY <1>1, <1>2 DEF process, QuestInv, Answers
<1>5. ASSUME NEW p \in Quests \ {q} PROVE QuestInv(p)'
  BY <1>1, <1>2, Others
<1>6. Counted'
  BY <1>2, SameCount
<1> QED BY <1>3, <1>4, <1>5, <1>6

\* handle_quest answers a quest that has no Waiter.
LEMMA AnswerItselfStep ==
  ASSUME HandlerInv, NEW q \in Quests, answerItself(q)
  PROVE  HandlerInv'
<1> USE DEF HandlerInv, QuestTypes, Places, questVars, waiterVars, adapterVars,
            answerItself, HasAnswer
<1>1. QuestTypes'
  OBVIOUS
<1>2. QuestInv(q)'
  BY DEF QuestInv, Answers
<1>3. ASSUME NEW p \in Quests \ {q} PROVE QuestInv(p)'
  BY <1>1, Others
<1>4. Counted'
  BY SameCount
<1> QED BY <1>1, <1>2, <1>3, <1>4

\* handle_quest answers through the Waiter.
LEMMA AnswerWaiterStep ==
  ASSUME HandlerInv, NEW q \in Quests, answerWaiter(q)
  PROVE  HandlerInv'
<1> USE DEF HandlerInv, QuestTypes, Places, questVars, waiterVars, adapterVars
<1>1. CASE HasAnswer(q)
  <2>1. response(q) /\ UNCHANGED <<replies, unsent>> /\ waiter[q]
    BY <1>1 DEF answerWaiter
  <2>2. /\ waiting' \in [Quests -> Int] /\ replying' \in [Quests -> Nat]
        /\ waiting'[q] <= 0 /\ Answers(q)' = 1
        /\ \A p \in Quests \ {q} : waiting'[p] = waiting[p] /\ replying'[p] = replying[p]
    BY <2>1, ResponseStep
  <2>3. QuestTypes'
    BY <2>2 DEF answerWaiter
  <2>4. QuestInv(q)'
    <3>1. waiter'[q] /\ twoway'[q] /\ pc'[q] = "leave"
      BY <2>1 DEF answerWaiter, QuestInv
    <3> QED BY <2>2, <3>1 DEF QuestInv
  <2>5. ASSUME NEW p \in Quests \ {q} PROVE QuestInv(p)'
    BY <2>2, Others DEF answerWaiter
  <2>6. Counted'
    BY SameCount DEF answerWaiter
  <2> QED BY <2>3, <2>4, <2>5, <2>6
<1>2. CASE ~HasAnswer(q)
  <2>1. QuestTypes'
    BY <1>2 DEF answerWaiter
  <2>2. QuestInv(q)'
    BY <1>2 DEF answerWaiter, QuestInv, Answers
  <2>3. ASSUME NEW p \in Quests \ {q} PROVE QuestInv(p)'
    BY <1>2, Others DEF answerWaiter
  <2>4. Counted'
    BY SameCount DEF answerWaiter
  <2> QED BY <2>1, <2>2, <2>3, <2>4
<1> QED BY <1>1, <1>2

\* A holder of the Waiter is through with it: handle_quest or the other thread.
LEMMA DropStep ==
  ASSUME HandlerInv, NEW q \in Quests, NEW h \in {"current", "other"}, waiter[q], Drop(q, h),
         UNCHANGED <<adapterVars, questVars, waiter, calls, replies, unsent, processing>>,
         pc' = pc \/ (pc[q] = "leave" /\ pc' = [pc EXCEPT ![q] = "done"])
  PROVE  HandlerInv'
<1> USE DEF HandlerInv, QuestTypes, Places, questVars, waiterVars
<1>1. refs' \in [Quests -> SUBSET {"current", "other"}]
  BY DEF Drop
<1>2. CASE refs'[q] = {} /\ waiting[q] > 0
  <2>1. response(q)
    BY <1>2 DEF Drop
  <2>2. /\ waiting' \in [Quests -> Int] /\ replying' \in [Quests -> Nat]
        /\ waiting'[q] <= 0 /\ Answers(q)' = 1
        /\ \A p \in Quests \ {q} : waiting'[p] = waiting[p] /\ replying'[p] = replying[p]
    BY <2>1, ResponseStep
  <2>3. QuestTypes'
    BY <1>1, <2>2
  <2>4. QuestInv(q)'
    BY <2>2 DEF QuestInv
  <2>5. ASSUME NEW p \in Quests \ {q} PROVE QuestInv(p)'
    BY <2>2, Others DEF Drop
  <2>6. Counted'
    BY SameCount
  <2> QED BY <2>3, <2>4, <2>5, <2>6
<1>3. CASE ~(refs'[q] = {} /\ waiting[q] > 0)
  <2>1. UNCHANGED <<waiting, replying>>
    BY <1>3 DEF Drop
  <2>2. QuestTypes'
    BY <1>1, <2>1
  <2>3. QuestInv(q)'
    BY <1>3, <2>1 DEF QuestInv, Answers
  <2>4. ASSUME NEW p \in Quests \ {q} PROVE QuestInv(p)'
    BY <2>1, Others DEF Drop
  <2>5. Counted'
    BY SameCount
  <2> QED BY <2>2, <2>3, <2>4, <2>5
<1> QED BY <1>2, <1>3

\* The other thread calls response(), perhaps more than once.
LEMMA OtherRespondsStep ==
  ASSUME HandlerInv, NEW q \in Quests, otherResponds(q)
  PROVE  HandlerInv'
<1> USE DEF HandlerInv, QuestTypes, Places, questVars, waiterVars, adapterVars
<1>1. waiter[q] /\ response(q) /\ UNCHANGED <<replies, unsent>>
  BY DEF otherResponds, QuestInv
<1>2. /\ waiting' \in [Quests -> Int] /\ replying' \in [Quests -> Nat]
      /\ waiting'[q] <= 0 /\ Answers(q)' = 1
      /\ \A p \in Quests \ {q} : waiting'[p] = waiting[p] /\ replying'[p] = replying[p]
  BY <1>1, ResponseStep
<1>3. QuestTypes'
  <2>1. calls' \in [Quests -> 0..MaxResponses]
    BY QuestHandlerAssumption DEF otherResponds
  <2> QED BY <1>2, <2>1 DEF otherResponds
<1>4. QuestInv(q)'
  <2>1. UNCHANGED <<waiter, twoway, pc>>
    BY DEF otherResponds
  <2> QED BY <1>1, <1>2, <2>1 DEF QuestInv
<1>5. ASSUME NEW p \in Quests \ {q} PROVE QuestInv(p)'
  BY <1>2, Others DEF otherResponds
<1>6. Counted'
  BY SameCount DEF otherResponds
<1> QED BY <1>3, <1>4, <1>5, <1>6

\* replyAnswer: the quest is not counted any more.
LEMMA ReplyStep ==
  ASSUME HandlerInv, NEW q \in Quests, replyAnswer(q)
  PROVE  HandlerInv'
<1> USE DEF HandlerInv, QuestTypes, Places, questVars, waiterVars, adapterVars
<1>1. QuestTypes'
  BY DEF replyAnswer
<1>2. QuestInv(q)'
  BY DEF replyAnswer, QuestInv, Answers
<1>3. ASSUME NEW p \in Quests \ {q} PROVE QuestInv(p)'
  BY <1>1, Others DEF replyAnswer
<1>4. Counted'
  <2>1. twoway[q] /\ replies[q] = 0
    BY DEF replyAnswer, QuestInv, Answers
  <2>2. Unanswered' = Unanswered \ {q} /\ q \in Unanswered
    BY <2>1 DEF replyAnswer, Unanswered
  <2>3. IsFiniteSet(Unanswered)
    BY QuestHandlerAssumption, FS_Subset DEF Unanswered
  <2>4. Cardinality(Unanswered \ {q}) = Cardinality(Unanswered) - 1
    BY <2>2, <2>3, FS_RemoveElement
  <2>5. processing' = processing - 1
    BY DEF replyAnswer
  <2> QED BY <2>2, <2>4, <2>5 DEF Counted
<1> QED BY <1>1, <1>2, <1>3, <1>4

\* replyAnswer throws: the quest stays counted.
LEMMA ReplyThrowsStep ==
  ASSUME HandlerInv, NEW q \in Quests, replyThrows(q)
  PROVE  HandlerInv'
<1> USE DEF HandlerInv, QuestTypes, Places, questVars, waiterVars, adapterVars
<1>1. QuestTypes'
  BY DEF replyThrows
<1>2. QuestInv(q)'
  BY DEF replyThrows, QuestInv, Answers
<1>3. ASSUME NEW p \in Quests \ {q} PROVE QuestInv(p)'
  BY <1>1, Others DEF replyThrows
<1>4. Counted'
  BY SameCount DEF replyThrows
<1> QED BY <1>1, <1>2, <1>3, <1>4

-----------------------------------------------------------------------------
(* The specification. *)

Inv == AdapterInv /\ HandlerInv

LEMMA InitInv == Init => Inv
<1> SUFFICES ASSUME Init PROVE Inv
  OBVIOUS
<1> USE QuestHandlerAssumption DEF Init
<1>1. AdapterInv
  <2>1. srvMap \in [{} -> Servants] /\ {} \in SUBSET Services
    OBVIOUS
  <2> QED BY <2>1 DEF AdapterInv, AdapterTypes, HintValid
<1>2. QuestTypes
  BY DEF QuestTypes, Places
<1>3. \A q \in Quests : QuestInv(q)
  BY DEF QuestInv, Answers
<1>4. Counted
  <2>1. Unanswered = {}
    BY DEF Unanswered
  <2> QED BY <2>1, FS_EmptySet DEF Counted
<1> QED BY <1>1, <1>2, <1>3, <1>4 DEF Inv, HandlerInv

LEMMA StepInv == Inv /\ [Next]_vars => Inv'
<1> SUFFICES ASSUME Inv, [Next]_vars PROVE Inv'
  OBVIOUS
<1>0. HandlerInv /\ AdapterInv
  BY DEF Inv
<1>1. AdapterInv'
  BY <1>0, AdapterStep DEF HandlerInv, QuestTypes
<1>2. HandlerInv'
  <2>1. CASE UNCHANGED <<pc, questVars, waiterVars, replyVars>>
    <3>1. QuestTypes'
      BY <1>0, <2>1 DEF HandlerInv, QuestTypes, questVars, waiterVars, replyVars
    <3>2. ASSUME NEW p \in Quests PROVE QuestInv(p)'
      BY <1>0, <2>1, Others DEF HandlerInv, questVars, waiterVars, replyVars
    <3>3. Counted'
      BY <1>0, <2>1, SameCount DEF HandlerInv, questVars, replyVars
    <3> QED BY <3>1, <3>2, <3>3 DEF HandlerInv
  <2>2. ASSUME NEW q \in Quests, findServant(q) \/ getDefaultServant(q) PROVE HandlerInv'
    <3>1. PICK S \in SUBSET Services : srvMap \in [S -> Servants]
      BY <1>0 DEF AdapterInv, AdapterTypes
    <3>2. CASE findServant(q)
      <4>1. service[q] \in Services /\ service[q] # None
        BY <1>0, QuestHandlerAssumption DEF HandlerInv, QuestTypes
      <4>2. hint = service[q] \/ service[q] \in DOMAIN srvMap => srvMap[service[q]] \in Servants
        BY <1>0, <3>1, <4>1 DEF AdapterInv, HintValid
      <4>3. servant' \in [Quests -> Servants \cup {None}]
        BY <1>0, <3>2, <4>2 DEF HandlerInv, QuestTypes, findServant
      <4> QED BY <1>0, <3>2, <4>3, FindStep
    <3>3. CASE getDefaultServant(q)
      <4>1. servant' \in [Quests -> Servants \cup {None}]
        BY <1>0, <3>3 DEF HandlerInv, QuestTypes, AdapterInv, AdapterTypes, getDefaultServant
      <4> QED BY <1>0, <3>3, <4>1, FindStep
    <3> QED BY <2>2, <3>2, <3>3
  <2>3. ASSUME NEW q \in Quests, leave(q) PROVE HandlerInv'
    <3>1. waiter[q]
      BY <1>0, <2>3 DEF leave, HandlerInv, QuestInv, QuestTypes
    <3> QED BY <1>0, <2>3, <3>1, DropStep DEF leave
  <2>4. ASSUME NEW q \in Quests, otherDrops(q) PROVE HandlerInv'
    <3>1. waiter[q]
      BY <1>0, <2>4 DEF otherDrops, HandlerInv, QuestInv, QuestTypes
    <3> QED BY <1>0, <2>4, <3>1, DropStep DEF otherDrops
  <2>5. ASSUME NEW s \in Services, NEW v \in Servants, addServant(s, v) PROVE HandlerInv'
    BY <2>1, <2>5 DEF addServant
  <2>6. ASSUME NEW s \in Services, removeServant(s) PROVE HandlerInv'
    BY <2>1, <2>6 DEF removeServant
  <2>7. CASE setDefaultServant \/ deactivate
    BY <2>1, <2>7 DEF setDefaultServant, deactivate
  <2>8. CASE UNCHANGED vars
    BY <2>1, <2>8 DEF vars
  <2> QED
    BY <1>0, <2>2, <2>3, <2>4, <2>5, <2>6, <2>7, <2>8, ReadStep, AsynchronousStep, ProcessStep,
       AnswerItselfStep, AnswerWaiterStep, OtherRespondsStep, ReplyStep, ReplyThrowsStep
       DEF Next
<1> QED BY <1>1, <1>2 DEF Inv

\* The types of the server's side of a quest; in particular _processing never
\* falls below zero.
THEOREM QuestTypeCorrect == Spec => []TypeOK
<1>1. Inv => TypeOK
  <2> SUFFICES ASSUME Inv PROVE TypeOK
    OBVIOUS
  <2>1. IsFiniteSet(Unanswered)
    BY QuestHandlerAssumption, FS_Subset DEF Unanswered
  <2>2. Cardinality(Unanswered) \in Nat
    BY <2>1, FS_CardinalityType
  <2> QED BY <2>2 DEF Inv, HandlerInv, AdapterInv, Counted, TypeOK
<1> QED BY <1>1, InitInv, StepInv, PTL DEF Spec

\* The iterator that PtAdapter keeps in _hint is never left pointing at a
\* servant that has been removed.
THEOREM QuestHintValid == Spec => []HintValid
<1>1. Inv => HintValid
  BY DEF Inv, AdapterInv
<1> QED BY <1>1, InitInv, StepInv, PTL DEF Spec

\* A twoway quest is given to replyAnswer once and only once, and _processing
\* counts those that have no answer, also when it cannot be sent, whatever the
\* servant, the threads that hold the Waiter and its destructor do.
THEOREM QuestAnsweredOnce == Spec => []AnsweredOnce
<1>1. Inv => AnsweredOnce
  BY DEF Inv, HandlerInv, QuestTypes, QuestInv, Counted, AnsweredOnce
<1> QED BY <1>1, InitInv, StepInv, PTL DEF Spec
=============================================================================
