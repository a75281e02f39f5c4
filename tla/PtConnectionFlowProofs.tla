----------------------- MODULE PtConnectionFlowProofs -----------------------
(***************************************************************************)
(* Where the messages of a connection are, and what follows from it: an    *)
(* answer completes the quest it answers, Bye comes after everything that  *)
(* has to be drained, a graceful close gives back only quests that no      *)
(* servant ran, and the engine implements RpcResult.                       *)
(***************************************************************************)
EXTENDS PtConnectionProofs, FiniteSetTheorems

(* The places a quest goes through on a connection, with its transaction   *)
(* id: the client's queue, the socket, the server's reader, its servant,   *)
(* the server's queue, the socket, and the do_read() that carries the      *)
(* answer.                                                                 *)
QuestsIn(s) == {m \in InSeq(s) : m.type = "Q"}
AnswersIn(s) == {m \in InSeq(s) : m.type = "A"}
HeldBy(c) == {r \in Readers : reader[r] # None /\ reader[r][1] = c}
QueuedTrace(c) == {<<"queued", None, m.id, m.q>> : m \in QuestsIn(conn[c].wq)}
SentTrace(c) == {<<"sent", None, m.id, m.q>> : m \in QuestsIn(c2s[c])}
ReadTrace(c) == {<<"read", None, m.id, m.q>> : m \in sread[c]}
RunningTrace(c) == {<<"running", None, e[1], e[2]>> : e \in executing[c]}
AnsweredTrace(c) == {<<"answered", None, m.id, m.q>> : m \in AnswersIn(srv[c].wq)}
ReturnedTrace(c) == {<<"returned", None, m.id, m.q>> : m \in AnswersIn(s2c[c])}
HeldTrace(c) == {<<"held", r, reader[r][2].id, reader[r][2].q>> : r \in HeldBy(c)}
Trace(c) == UNION {QueuedTrace(c), SentTrace(c), ReadTrace(c), RunningTrace(c),
                   AnsweredTrace(c), ReturnedTrace(c), HeldTrace(c)}
Seen(c) == {<<t[3], t[4]>> : t \in Trace(c)}

\* No message of the type is twice in s.
Once(s, ty) ==
  \A i, j \in DOMAIN s : s[i] = s[j] /\ s[i].type = ty => i = j

(* A connection that has not been made is untouched, and nobody knows it.  *)
MadeFirst ==
  /\ \A c \in Conns \ made : conn[c] = FreshConn
  /\ \A c \in Conns \ made : disc[c] = "no" /\ \A w \in Writers : writing[c][w] = None
  /\ cur \in made \cup {None}
  /\ firing \in made \cup {None}
  /\ \A q \in Quests : at[q] \in {"start", "send"} => con[q] \in made
  /\ \A p \in failing : p[1] \in made
  /\ \A r \in Readers : reader[r] # None => reader[r][1] \in made

(* Transaction ids are used once, and a quest is at one place.             *)
IdsGiven(c) ==
  /\ \A x \in Seen(c) \cup conn[c].map : x[1] < conn[c].next
  /\ \A p1, p2 \in conn[c].map : p1[1] = p2[1] => p1 = p2
AllOnce(c) ==
  /\ Once(conn[c].wq, "Q") /\ Once(c2s[c], "Q")
  /\ Once(srv[c].wq, "A") /\ Once(s2c[c], "A")
OnePlace(c) ==
  /\ AllOnce(c)
  /\ \A t, u \in Trace(c) : t[3] = u[3] => t = u

(* What is on its way belongs to the result in the map, if there is one;   *)
(* as long as the connection is not closed there is.                       *)
Matching(c) ==
  \A x \in Seen(c), p \in conn[c].map : x[1] = p[1] \/ x[2] = p[2] => x = p
SeenInMap(c) == conn[c].st < ST_CLOSED => Seen(c) \subseteq conn[c].map

(* The sender in the catch clause holds a result that is nowhere else, or  *)
(* the connection is in ST_ERROR or ST_CLOSED.                             *)
FailingQuest(c) ==
  \A q \in Quests : <<c, q>> \in failing /\ conn[c].st < ST_CLOSED =>
    "huge" \in Env /\ <<txid[q], q>> \in conn[c].map \ Seen(c)

FlowAt(c) == IdsGiven(c) /\ OnePlace(c) /\ Matching(c) /\ SeenInMap(c)
FlowInv == \A c \in Conns : FlowAt(c) /\ FailingQuest(c)

(* Answers come from servants.                                             *)
Served(t) == t[1] \in {"running", "answered", "returned", "held"}
ServedAt(c) == \A t \in Trace(c) : Served(t) => t[4] \in executed[c]
NewNotSeen(c) ==
  \A q \in Quests : at[q] = "new" => q \notin executed[c] /\ \A x \in Seen(c) : x[2] # q
AnswersServed ==
  \A q \in Quests : <<q, "answer">> \in giving \/ outcome[q] = "answer"
                       => \E c \in Conns : q \in executed[c]

(* The server's end.                                                       *)
SrvShape(c) ==
  /\ srv[c].up /\ ~srv[c].fd => srv[c].st >= ST_CLOSED
  /\ srv[c].st >= ST_CLOSED => srv[c].wq = <<>>
  /\ ~srv[c].up => /\ srv[c].st = ST_WAITING_HELLO /\ ~srv[c].fd /\ ~srv[c].started
                   /\ sread[c] = {} /\ executing[c] = {} /\ ~srv[c].rt
  /\ ~srv[c].started => /\ executing[c] = {}
                        /\ srv[c].st = ST_WAITING_HELLO \/ (srv[c].st >= ST_CLOSED /\ ~srv[c].fd)
Processing(c) ==
  /\ IsFiniteSet(executing[c])
  /\ srv[c].st < ST_CLOSED => srv[c].processing = Cardinality(executing[c])
SrvCloseWaits(c) == srv[c].st = ST_CLOSE => executing[c] # {}

\* No quest comes before Bye, and no answer after it.
BehindBye(s) == \A j \in DOMAIN s : s[j].type = "Q" => \E i \in 1 .. j - 1 : s[i] = Bye
AheadOfBye(s) == \A i, j \in DOMAIN s : s[i] = Bye /\ s[j].type = "A" => j < i

(* When the client's Bye is on its way nothing is at the server, and no    *)
(* quest will get there before the Bye does.                               *)
ByeDrainedC(c) ==
  Bye \in InSeq(conn[c].wq) \cup InSeq(c2s[c]) /\ ~broken[c] /\ ~(srv[c].up /\ ~srv[c].fd) =>
    /\ BehindBye(c2s[c])
    /\ Bye \in InSeq(c2s[c]) \/ BehindBye(conn[c].wq)
    /\ sread[c] = {} /\ executing[c] = {}
    /\ AnswersIn(srv[c].wq) = {} /\ AnswersIn(s2c[c]) = {}
ByeDrainedS(c) ==
  /\ Bye \in InSeq(srv[c].wq) \cup InSeq(s2c[c]) =>
       executing[c] = {} /\ srv[c].st >= ST_CLOSING /\ srv[c].started
  /\ AheadOfBye(srv[c].wq) /\ AheadOfBye(s2c[c])
  /\ Bye \in InSeq(s2c[c]) => AnswersIn(srv[c].wq) = {}

(* After a graceful close the server runs nothing that this connection     *)
(* carries.                                                                *)
Shut(c) ==
  conn[c].graceful =>
    \/ srv[c].st >= ST_CLOSING
    \/ /\ sread[c] = {}
       /\ BehindBye(c2s[c])
       /\ \/ Bye \in InSeq(c2s[c])
          \/ broken[c]
          \/ /\ BehindBye(conn[c].wq)
             /\ Bye \in InSeq(conn[c].wq) \/ conn[c].st >= ST_CLOSED

(* As long as nothing is lost, a result in the map whose quest was run has *)
(* its answer on the way.                                                  *)
Lossless(c) ==
  \/ ~broken[c] /\ conn[c].fd /\ srv[c].st < ST_CLOSED
  \/ Bye \in InSeq(s2c[c])
AnswerOnItsWay(c) ==
  Lossless(c) => \A p \in conn[c].map : p[2] \in executed[c] =>
    \E t \in Trace(c) : Served(t) /\ t[3] = p[1]
TakenClosed(c) == taken[c] # {} => conn[c].st >= ST_CLOSED
NotRunTwice(c) ==
  conn[c].graceful => (QuestsOf(conn[c].map) \cup taken[c]) \cap executed[c] = {}

(* A quest once run on a connection that is not closed has its result in   *)
(* the map, or completed.                                                  *)
RunOrOver(c) ==
  \A q \in Quests : q \in executed[c] /\ conn[c].st < ST_CLOSED =>
    InMap(q, c) \/ Given(q) \/ Done(q)

CloseWaitsC == \A c \in Conns : conn[c].st = ST_CLOSE => conn[c].map # {}

ServerAt(c) == SrvShape(c) /\ Processing(c) /\ SrvCloseWaits(c)
ByeAt(c) == ByeDrainedC(c) /\ ByeDrainedS(c) /\ Shut(c)
RetryAt(c) == AnswerOnItsWay(c) /\ TakenClosed(c) /\ NotRunTwice(c)

-----------------------------------------------------------------------------
(* What Append and Tail do to the messages of a sequence.                  *)
LEMMA AppendIndex ==
  ASSUME NEW s \in Seq(MsgSet), NEW m \in MsgSet
  PROVE  /\ DOMAIN s = 1 .. Len(s) /\ DOMAIN Append(s, m) = 1 .. Len(s) + 1
         /\ Len(s) \in Nat /\ Append(s, m)[Len(s) + 1] = m
         /\ \A i \in 1 .. Len(s) : Append(s, m)[i] = s[i]
OBVIOUS

LEMMA InAppend ==
  ASSUME NEW s \in Seq(MsgSet), NEW m \in MsgSet
  PROVE  /\ InSeq(Append(s, m)) = InSeq(s) \cup {m}
         /\ Append(s, m) \in Seq(MsgSet)
<1>1. ASSUME NEW x \in InSeq(Append(s, m)) PROVE x \in InSeq(s) \cup {m}
  BY <1>1, AppendIndex DEF InSeq
<1>2. ASSUME NEW x \in InSeq(s) PROVE x \in InSeq(Append(s, m))
  BY <1>2, AppendIndex DEF InSeq
<1>3. m \in InSeq(Append(s, m))
  BY AppendIndex DEF InSeq
<1> QED BY <1>1, <1>2, <1>3

LEMMA InEmpty == InSeq(<<>>) = {} /\ <<>> \in Seq(MsgSet)
BY DEF InSeq

LEMMA InTail ==
  ASSUME NEW s \in Seq(MsgSet), s # <<>>
  PROVE  /\ InSeq(s) = {Head(s)} \cup InSeq(Tail(s))
         /\ Head(s) \in MsgSet /\ Tail(s) \in Seq(MsgSet)
<1>1. Tail(s) \in Seq(MsgSet) /\ Len(Tail(s)) = Len(s) - 1 /\ Len(s) > 0 /\ Head(s) = s[1]
  OBVIOUS
<1>2. \A i \in 1 .. Len(s) - 1 : Tail(s)[i] = s[i + 1] OBVIOUS
<1>3. DOMAIN s = 1 .. Len(s) /\ DOMAIN Tail(s) = 1 .. Len(s) - 1 BY <1>1
<1>4. ASSUME NEW m \in InSeq(s) PROVE m \in {Head(s)} \cup InSeq(Tail(s))
  <2>1. PICK i \in 1 .. Len(s) : m = s[i] BY <1>3, <1>4 DEF InSeq
  <2>2. CASE i = 1 BY <1>1, <2>1, <2>2
  <2>3. CASE i # 1
    <3>1. i - 1 \in 1 .. Len(s) - 1 /\ Tail(s)[i - 1] = m BY <1>1, <1>2, <2>1, <2>3
    <3> QED BY <1>3, <3>1 DEF InSeq
  <2> QED BY <2>2, <2>3
<1>5. ASSUME NEW m \in {Head(s)} \cup InSeq(Tail(s)) PROVE m \in InSeq(s)
  <2>1. CASE m = Head(s) BY <1>1, <1>3, <2>1 DEF InSeq
  <2>2. CASE m \in InSeq(Tail(s))
    <3>1. PICK i \in 1 .. Len(s) - 1 : m = Tail(s)[i] BY <1>3, <2>2 DEF InSeq
    <3>2. i + 1 \in 1 .. Len(s) /\ s[i + 1] = m BY <1>1, <1>2, <3>1
    <3> QED BY <1>3, <3>2 DEF InSeq
  <2> QED BY <1>5, <2>1, <2>2
<1> QED BY <1>1, <1>4, <1>5

LEMMA TailIndex ==
  ASSUME NEW s \in Seq(MsgSet), s # <<>>
  PROVE  /\ DOMAIN s = 1 .. Len(s) /\ DOMAIN Tail(s) = 1 .. Len(s) - 1
         /\ Len(s) \in Nat \ {0} /\ Head(s) = s[1]
         /\ \A i \in 1 .. Len(s) - 1 : Tail(s)[i] = s[i + 1]
OBVIOUS

LEMMA OnceSeq ==
  ASSUME NEW s \in Seq(MsgSet), NEW ty, Once(s, ty)
  PROVE  /\ \A m \in MsgSet : m \notin InSeq(s) \/ m.type # ty => Once(Append(s, m), ty)
         /\ s # <<>> => /\ Once(Tail(s), ty)
                        /\ Head(s).type = ty => Head(s) \notin InSeq(Tail(s))
<1>1. ASSUME NEW m \in MsgSet, m \notin InSeq(s) \/ m.type # ty
      PROVE  Once(Append(s, m), ty)
  BY <1>1, AppendIndex DEF Once, InSeq
<1>2. ASSUME s # <<>> PROVE Once(Tail(s), ty)
  <2> SUFFICES ASSUME NEW i \in DOMAIN Tail(s), NEW j \in DOMAIN Tail(s),
                      Tail(s)[i] = Tail(s)[j], Tail(s)[i].type = ty
               PROVE  i = j
    BY DEF Once
  <2>1. /\ i + 1 \in DOMAIN s /\ j + 1 \in DOMAIN s
        /\ s[i + 1] = Tail(s)[i] /\ s[j + 1] = Tail(s)[j] /\ i \in Int /\ j \in Int
    BY <1>2, TailIndex
  <2>2. i + 1 = j + 1 BY <2>1 DEF Once
  <2> QED BY <2>1, <2>2
<1>3. ASSUME s # <<>>, Head(s).type = ty, Head(s) \in InSeq(Tail(s)) PROVE FALSE
  <2>1. PICK i \in DOMAIN Tail(s) : Tail(s)[i] = Head(s) BY <1>3 DEF InSeq
  <2>2. i + 1 \in DOMAIN s /\ 1 \in DOMAIN s /\ s[i + 1] = s[1] /\ s[1] = Head(s) /\ i >= 1 /\ i \in Int
    BY <1>3, <2>1, TailIndex
  <2>3. i + 1 = 1 BY <1>3, <2>2 DEF Once
  <2> QED BY <2>2, <2>3
<1> QED BY <1>1, <1>2, <1>3

LEMMA BehindByeSeq ==
  ASSUME NEW s \in Seq(MsgSet)
  PROVE  /\ BehindBye(s) => \A m \in MsgSet : m.type # "Q" \/ Bye \in InSeq(s)
                                                => BehindBye(Append(s, m))
         /\ BehindBye(s) /\ s # <<>> => Head(s).type # "Q"
         /\ BehindBye(s) /\ s # <<>> /\ Head(s) # Bye => BehindBye(Tail(s))
         /\ BehindBye(s) /\ Bye \notin InSeq(s) => QuestsIn(s) = {}
         /\ QuestsIn(s) = {} => BehindBye(s)
<1>1. ASSUME BehindBye(s), NEW m \in MsgSet, m.type # "Q" \/ Bye \in InSeq(s)
      PROVE  BehindBye(Append(s, m))
  <2> SUFFICES ASSUME NEW j \in DOMAIN Append(s, m), Append(s, m)[j].type = "Q"
               PROVE  \E i \in 1 .. j - 1 : Append(s, m)[i] = Bye
    BY DEF BehindBye
  <2>1. CASE j \in 1 .. Len(s)
    <3>1. PICK i \in 1 .. j - 1 : s[i] = Bye BY <1>1, <2>1, AppendIndex DEF BehindBye
    <3>2. i \in 1 .. Len(s) BY <2>1, <3>1, AppendIndex
    <3> QED BY <3>1, <3>2, AppendIndex
  <2>2. CASE j = Len(s) + 1
    <3>1. PICK i \in 1 .. Len(s) : s[i] = Bye BY <1>1, <2>2, AppendIndex DEF InSeq
    <3> QED BY <2>2, <3>1, AppendIndex
  <2> QED BY <2>1, <2>2, AppendIndex
<1>2. ASSUME BehindBye(s), s # <<>> PROVE Head(s).type # "Q"
  BY <1>2, TailIndex DEF BehindBye
<1>3. ASSUME BehindBye(s), s # <<>>, Head(s) # Bye PROVE BehindBye(Tail(s))
  <2> SUFFICES ASSUME NEW j \in DOMAIN Tail(s), Tail(s)[j].type = "Q"
               PROVE  \E i \in 1 .. j - 1 : Tail(s)[i] = Bye
    BY DEF BehindBye
  <2>1. j + 1 \in DOMAIN s /\ s[j + 1] = Tail(s)[j] /\ j \in 1 .. Len(s) - 1 BY <1>3, TailIndex
  <2>2. PICK i \in 1 .. j : s[i] = Bye BY <1>3, <2>1 DEF BehindBye
  <2>3. i # 1 BY <1>3, <2>2, TailIndex
  <2>4. i - 1 \in 1 .. j - 1 /\ i - 1 \in 1 .. Len(s) - 1 BY <2>1, <2>2, <2>3, TailIndex
  <2>5. Tail(s)[i - 1] = s[(i - 1) + 1] BY <1>3, <2>4, TailIndex
  <2> QED BY <2>2, <2>4, <2>5
<1>4. ASSUME BehindBye(s), Bye \notin InSeq(s) PROVE QuestsIn(s) = {}
  BY <1>4 DEF BehindBye, InSeq, QuestsIn
<1>5. ASSUME QuestsIn(s) = {} PROVE BehindBye(s)
  BY <1>5 DEF BehindBye, InSeq, QuestsIn
<1> QED BY <1>1, <1>2, <1>3, <1>4, <1>5

LEMMA AheadOfByeSeq ==
  ASSUME NEW s \in Seq(MsgSet), AheadOfBye(s)
  PROVE  /\ \A m \in MsgSet : m.type # "A" \/ Bye \notin InSeq(s) => AheadOfBye(Append(s, m))
         /\ s # <<>> => AheadOfBye(Tail(s))
         /\ s # <<>> /\ Head(s) = Bye => AnswersIn(s) = {}
<1>1. ASSUME NEW m \in MsgSet, m.type # "A" \/ Bye \notin InSeq(s) PROVE AheadOfBye(Append(s, m))
  <2> SUFFICES ASSUME NEW i \in DOMAIN Append(s, m), NEW j \in DOMAIN Append(s, m),
                      Append(s, m)[i] = Bye, Append(s, m)[j].type = "A"
               PROVE  j < i
    BY DEF AheadOfBye
  <2>1. i \in 1 .. Len(s) + 1 /\ j \in 1 .. Len(s) + 1 BY AppendIndex
  <2>2. CASE i \in 1 .. Len(s) /\ j \in 1 .. Len(s) BY <2>2, AppendIndex DEF AheadOfBye
  <2>3. CASE i = Len(s) + 1 /\ j \in 1 .. Len(s) BY <2>3, AppendIndex
  <2>4. CASE j = Len(s) + 1
    <3>1. m.type = "A" BY <2>4, AppendIndex
    <3>2. i # Len(s) + 1 BY <2>4, <3>1, AppendIndex DEF Bye, Msg
    <3> QED BY <1>1, <2>1, <3>1, <3>2, AppendIndex DEF InSeq
  <2> QED BY <2>1, <2>2, <2>3, <2>4, AppendIndex
<1>2. ASSUME s # <<>> PROVE AheadOfBye(Tail(s))
  <2> SUFFICES ASSUME NEW i \in DOMAIN Tail(s), NEW j \in DOMAIN Tail(s),
                      Tail(s)[i] = Bye, Tail(s)[j].type = "A"
               PROVE  j < i
    BY DEF AheadOfBye
  <2>1. /\ i + 1 \in DOMAIN s /\ j + 1 \in DOMAIN s /\ i \in Int /\ j \in Int
        /\ s[i + 1] = Tail(s)[i] /\ s[j + 1] = Tail(s)[j]
    BY <1>2, TailIndex
  <2>2. j + 1 < i + 1 BY <2>1 DEF AheadOfBye
  <2> QED BY <2>1, <2>2
<1>3. ASSUME s # <<>>, Head(s) = Bye PROVE AnswersIn(s) = {}
  BY <1>3, TailIndex DEF AheadOfBye, AnswersIn, InSeq
<1> QED BY <1>1, <1>2, <1>3

LEMMA PartsOf ==
  ASSUME NEW s \in Seq(MsgSet)
  PROVE  /\ \A m \in MsgSet :
              /\ QuestsIn(Append(s, m)) = QuestsIn(s) \cup {x \in {m} : x.type = "Q"}
              /\ AnswersIn(Append(s, m)) = AnswersIn(s) \cup {x \in {m} : x.type = "A"}
         /\ s # <<>> =>
              /\ QuestsIn(s) = QuestsIn(Tail(s)) \cup {x \in {Head(s)} : x.type = "Q"}
              /\ AnswersIn(s) = AnswersIn(Tail(s)) \cup {x \in {Head(s)} : x.type = "A"}
         /\ QuestsIn(s) \subseteq [type : {"Q"}, id : Nat, q : Quests]
         /\ AnswersIn(s) \subseteq [type : {"A"}, id : Nat, q : Quests]
<1>1. ASSUME NEW m \in MsgSet
      PROVE  /\ QuestsIn(Append(s, m)) = QuestsIn(s) \cup {x \in {m} : x.type = "Q"}
             /\ AnswersIn(Append(s, m)) = AnswersIn(s) \cup {x \in {m} : x.type = "A"}
  BY InAppend DEF QuestsIn, AnswersIn
<1>2. ASSUME s # <<>>
      PROVE  /\ QuestsIn(s) = QuestsIn(Tail(s)) \cup {x \in {Head(s)} : x.type = "Q"}
             /\ AnswersIn(s) = AnswersIn(Tail(s)) \cup {x \in {Head(s)} : x.type = "A"}
  BY <1>2, InTail DEF QuestsIn, AnswersIn
<1>3. InSeq(s) \subseteq MsgSet BY DEF InSeq
<1>4. /\ QuestsIn(s) \subseteq [type : {"Q"}, id : Nat, q : Quests]
      /\ AnswersIn(s) \subseteq [type : {"A"}, id : Nat, q : Quests]
  BY <1>3 DEF QuestsIn, AnswersIn, MsgSet, Hello, Bye, Msg
<1> QED BY <1>1, <1>2, <1>4

LEMMA EmptyParts == QuestsIn(<<>>) = {} /\ AnswersIn(<<>>) = {} /\ BehindBye(<<>>)
                    /\ AheadOfBye(<<>>) /\ \A ty : Once(<<>>, ty)
BY InEmpty DEF QuestsIn, AnswersIn, Once, BehindBye, AheadOfBye

-----------------------------------------------------------------------------
(* How a step changes the trace of a connection: it loses places, moves    *)
(* one quest on, or lets one enter.                                        *)
MovesOn(c, t, u) ==
  /\ t \in Trace(c) /\ u \in Trace(c)'
  /\ u[3] = t[3] /\ u[4] = t[4]
  /\ Served(u) => Served(t) \/ u[4] \in executed'[c]
  /\ Trace(c)' \subseteq (Trace(c) \ {t}) \cup {u}
Moved(c) == Trace(c)' \subseteq Trace(c) \/ \E t, u : MovesOn(c, t, u)

(* The places are kept when what is stored there shrinks.                  *)
LEMMA StageKept ==
  ASSUME NEW c
  PROVE  /\ QuestsIn(conn'[c].wq) \subseteq QuestsIn(conn[c].wq) => QueuedTrace(c)' \subseteq QueuedTrace(c)
         /\ QuestsIn(c2s'[c]) \subseteq QuestsIn(c2s[c]) => SentTrace(c)' \subseteq SentTrace(c)
         /\ sread'[c] \subseteq sread[c] => ReadTrace(c)' \subseteq ReadTrace(c)
         /\ executing'[c] \subseteq executing[c] => RunningTrace(c)' \subseteq RunningTrace(c)
         /\ AnswersIn(srv'[c].wq) \subseteq AnswersIn(srv[c].wq)
              => AnsweredTrace(c)' \subseteq AnsweredTrace(c)
         /\ AnswersIn(s2c'[c]) \subseteq AnswersIn(s2c[c]) => ReturnedTrace(c)' \subseteq ReturnedTrace(c)
         /\ (\A r \in Readers : reader'[r] = reader[r] \/ reader'[r] = None)
              => HeldTrace(c)' \subseteq HeldTrace(c)
<1>1. /\ QuestsIn(conn'[c].wq) \subseteq QuestsIn(conn[c].wq) => QueuedTrace(c)' \subseteq QueuedTrace(c)
      /\ QuestsIn(c2s'[c]) \subseteq QuestsIn(c2s[c]) => SentTrace(c)' \subseteq SentTrace(c)
      /\ sread'[c] \subseteq sread[c] => ReadTrace(c)' \subseteq ReadTrace(c)
  BY DEF QueuedTrace, SentTrace, ReadTrace
<1>2. /\ executing'[c] \subseteq executing[c] => RunningTrace(c)' \subseteq RunningTrace(c)
      /\ AnswersIn(srv'[c].wq) \subseteq AnswersIn(srv[c].wq)
              => AnsweredTrace(c)' \subseteq AnsweredTrace(c)
      /\ AnswersIn(s2c'[c]) \subseteq AnswersIn(s2c[c]) => ReturnedTrace(c)' \subseteq ReturnedTrace(c)
  BY DEF RunningTrace, AnsweredTrace, ReturnedTrace
<1>3. (\A r \in Readers : reader'[r] = reader[r] \/ reader'[r] = None)
        => HeldTrace(c)' \subseteq HeldTrace(c)
  BY DEF HeldTrace, HeldBy
<1> QED BY <1>1, <1>2, <1>3

-----------------------------------------------------------------------------
(* What the steps do to a connection, field by field.                      *)
SameServer(c) ==
  /\ srv'[c] = srv[c] /\ sread'[c] = sread[c] /\ broken'[c] = broken[c]
  /\ executing'[c] = executing[c] /\ executed'[c] = executed[c]
SameHeld(c) == HeldTrace(c)' = HeldTrace(c)
SameResults(c) == conn'[c].map = conn[c].map /\ conn'[c].next = conn[c].next
SameState(c) == conn'[c].st = conn[c].st /\ conn'[c].graceful = conn[c].graceful
SameSockets(c) == c2s'[c] = c2s[c] /\ s2c'[c] = s2c[c]
SameQueue(c) == conn'[c].wq = conn[c].wq /\ SameSockets(c)

\* _write_q wrote the first message of z, or nothing.
Written(c, z) ==
  \/ conn'[c].wq = z /\ c2s'[c] = c2s[c]
  \/ /\ z # <<>> /\ srv[c].up /\ ~broken[c]
     /\ conn'[c].wq = Tail(z)
     /\ c2s'[c] = IF srv[c].fd THEN Append(c2s[c], Head(z)) ELSE c2s[c]

Quiet(c) ==
  /\ SameServer(c) /\ SameHeld(c) /\ SameResults(c) /\ SameState(c) /\ SameQueue(c)
  /\ conn'[c].fd = conn[c].fd /\ taken'[c] = taken[c]
Writes(c) ==
  /\ SameServer(c) /\ SameHeld(c) /\ SameResults(c)
  /\ conn'[c].fd = conn[c].fd /\ taken'[c] = taken[c]
  /\ conn'[c].graceful = conn[c].graceful
  /\ Written(c, conn[c].wq)
  /\ \/ s2c'[c] = s2c[c]
     \/ s2c[c] # <<>> /\ Head(s2c[c]).type = "H" /\ s2c'[c] = Tail(s2c[c])
  /\ conn'[c].st < ST_CLOSED => conn[c].st < ST_CLOSED
  /\ conn'[c].st = ST_CLOSE => conn[c].st = ST_CLOSE \/ conn[c].map # {}
GetsBye(c) ==
  /\ SameServer(c) /\ SameHeld(c) /\ SameResults(c)
  /\ conn'[c].fd = conn[c].fd /\ taken'[c] = taken[c] /\ conn[c].fd
  /\ conn'[c].wq = conn[c].wq /\ c2s'[c] = c2s[c]
  /\ s2c[c] # <<>> /\ Head(s2c[c]).type = "B" /\ s2c'[c] = Tail(s2c[c])
  /\ conn[c].st < ST_CLOSED /\ conn'[c].st = ST_CLOSED /\ conn'[c].graceful
  /\ \E r \in Readers : reader[r] = None
GetsAnswer(c, r) ==
  /\ SameServer(c) /\ SameResults(c) /\ SameState(c)
  /\ conn'[c].fd = conn[c].fd /\ taken'[c] = taken[c]
  /\ conn'[c].wq = conn[c].wq /\ c2s'[c] = c2s[c]
  /\ s2c[c] # <<>> /\ Head(s2c[c]).type = "A" /\ s2c'[c] = Tail(s2c[c])
  /\ HeldTrace(c)' = HeldTrace(c) \cup {<<"held", r, Head(s2c[c]).id, Head(s2c[c]).q>>}
Drops(c, id) ==
  /\ SameServer(c) /\ SameHeld(c) /\ SameState(c) /\ SameQueue(c)
  /\ conn'[c].fd = conn[c].fd /\ taken'[c] = taken[c]
  /\ conn'[c].map = conn[c].map \ EntriesOf(conn[c], id)
  /\ conn'[c].next = conn[c].next
  /\ conn[c].st >= ST_CLOSED \/ \A x \in Seen(c) : x[1] # id
Adds(c, q) ==
  /\ SameServer(c) /\ SameHeld(c)
  /\ conn'[c].fd = conn[c].fd /\ taken'[c] = taken[c] /\ s2c'[c] = s2c[c]
  /\ conn'[c].map = conn[c].map \cup {<<conn[c].next, q>>}
  /\ conn'[c].next = conn[c].next + 1
  /\ conn'[c].graceful = conn[c].graceful
  /\ conn[c].st < ST_CLOSED /\ at[q] = "send"
  /\ conn'[c].st = conn[c].st \/ conn'[c].st = ST_ERROR
  /\ \/ SameQueue(c)
     \/ /\ Written(c, Append(conn[c].wq, Msg("Q", conn[c].next, q)))
        /\ conn'[c].wq # Append(conn[c].wq, Msg("Q", conn[c].next, q)) => conn[c].wq = <<>>
\* Bye is queued once the map is empty, by close() or with the last answer.
SaysBye(c) ==
  /\ SameServer(c)
  /\ conn'[c].fd = conn[c].fd /\ taken'[c] = taken[c] /\ s2c'[c] = s2c[c]
  /\ conn'[c].map = {} /\ conn'[c].next = conn[c].next
  /\ conn[c].st < ST_CLOSED /\ conn'[c].st \in {ST_CLOSING, ST_ERROR} /\ conn'[c].graceful
  /\ Written(c, Append(conn[c].wq, Bye))
Reads(c, r, x) ==
  /\ <<"held", r, x[1], x[2]>> \in HeldTrace(c)
  /\ HeldTrace(c)' = HeldTrace(c) \ {<<"held", r, x[1], x[2]>>}
  /\ conn'[c].map = conn[c].map \ EntriesOf(conn[c], x[1])
KeepsOpen(c) ==
  /\ SameServer(c) /\ SameQueue(c)
  /\ conn'[c].fd = conn[c].fd /\ taken'[c] = taken[c]
  /\ conn'[c].next = conn[c].next /\ conn'[c].graceful = conn[c].graceful
  /\ conn'[c].st = conn[c].st \/ conn'[c].st = ST_ERROR
  /\ conn'[c].st = ST_CLOSE => conn'[c].map # {}
Takes(c) ==
  /\ SameServer(c) /\ SameHeld(c)
  /\ conn'[c].map = {} /\ conn'[c].next = conn[c].next /\ ~conn'[c].fd
  /\ conn'[c].wq = <<>> /\ c2s'[c] = c2s[c] /\ s2c'[c] = <<>>
  /\ conn'[c].st \in {ST_CLOSED, ST_ERROR} /\ conn'[c].graceful = conn[c].graceful
  /\ taken'[c] = taken[c] \cup QuestsOf(conn[c].map)
Handles(c) ==
  /\ SameServer(c) /\ SameHeld(c) /\ SameResults(c) /\ SameState(c) /\ SameQueue(c)
  /\ conn'[c].fd = conn[c].fd /\ taken'[c] \subseteq taken[c]
Made(c) ==
  /\ SameServer(c) /\ SameHeld(c) /\ SameResults(c) /\ SameState(c) /\ SameQueue(c)
  /\ taken'[c] = taken[c] /\ conn[c].map = {}

LEMMA WriteFlow ==
  ASSUME TypeOK, NEW c \in Conns, NEW w, NEW k \in ConnSet, WriteOK(c, w, k)
  PROVE  /\ conn'[c].st = k.st /\ conn'[c].graceful = k.graceful /\ conn'[c].map = k.map
         /\ conn'[c].next = k.next /\ conn'[c].fd = k.fd /\ conn'[c].rt = k.rt
         /\ Written(c, k.wq)
         /\ \A d \in Conns \ {c} : conn'[d] = conn[d] /\ c2s'[d] = c2s[d]
<1> USE DEF TypeOK
<1>0. ASSUME NEW x \in ConnSet
      PROVE  /\ Paused(x).st = x.st /\ Paused(x).graceful = x.graceful /\ Paused(x).map = x.map
             /\ Paused(x).next = x.next /\ Paused(x).fd = x.fd /\ Paused(x).wq = x.wq
             /\ Paused(x).rt = x.rt
  BY DEF Paused, ConnSet
<1>1. CASE /\ conn' = [conn EXCEPT ![c] = Paused(k)]
           /\ UNCHANGED c2s
  BY <1>0, <1>1 DEF Written
<1>2. CASE /\ k.wq # <<>> /\ k.fd /\ srv[c].up /\ ~broken[c]
           /\ c2s' = [c2s EXCEPT ![c] = IF srv[c].fd THEN Append(@, Head(k.wq)) ELSE @]
           /\ IF Head(k.wq).type = "Q"
              THEN conn' = [conn EXCEPT ![c] = [k EXCEPT !.wq = Tail(@)]]
              ELSE conn' = [conn EXCEPT ![c] = Paused([k EXCEPT !.wq = Tail(@)])]
  <2> DEFINE k1 == [k EXCEPT !.wq = Tail(@)]
  <2>1. k1 \in ConnSet BY <1>2, RecordTypes
  <2>2. /\ k1.st = k.st /\ k1.graceful = k.graceful /\ k1.map = k.map /\ k1.next = k.next
        /\ k1.fd = k.fd /\ k1.wq = Tail(k.wq) /\ k1.rt = k.rt
    BY DEF ConnSet
  <2>3. conn' = [conn EXCEPT ![c] = k1] \/ conn' = [conn EXCEPT ![c] = Paused(k1)]
    BY <1>2
  <2> HIDE DEF k1
  <2>4. conn'[c] = k1 \/ conn'[c] = Paused(k1) BY <2>3
  <2>5. /\ conn'[c].st = k.st /\ conn'[c].graceful = k.graceful /\ conn'[c].map = k.map
        /\ conn'[c].next = k.next /\ conn'[c].fd = k.fd /\ conn'[c].wq = Tail(k.wq)
        /\ conn'[c].rt = k.rt
    BY <1>0, <2>1, <2>2, <2>4
  <2>6. c2s'[c] = IF srv[c].fd THEN Append(c2s[c], Head(k.wq)) ELSE c2s[c] BY <1>2
  <2>7. \A d \in Conns \ {c} : conn'[d] = conn[d] /\ c2s'[d] = c2s[d] BY <1>2, <2>3
  <2> QED BY <1>2, <2>5, <2>6, <2>7 DEF Written
<1> QED BY <1>1, <1>2 DEF WriteOK

LEMMA RecordFields ==
  ASSUME NEW k \in ConnSet
  PROVE  /\ \A m \in MsgSet :
              /\ Queued(k, m).st = k.st /\ Queued(k, m).graceful = k.graceful
              /\ Queued(k, m).map = k.map /\ Queued(k, m).next = k.next
              /\ Queued(k, m).fd = k.fd /\ Queued(k, m).wq = Append(k.wq, m)
              /\ Queued(k, m).rt = k.rt
         /\ FailedWrite(k).st = ST_ERROR /\ FailedWrite(k).graceful = k.graceful
         /\ FailedWrite(k).map = k.map /\ FailedWrite(k).next = k.next
         /\ FailedWrite(k).fd = k.fd /\ FailedWrite(k).wq = k.wq
         /\ FailedWrite(k).rt = k.rt
         /\ SetException(k).st = ST_ERROR /\ SetException(k).graceful = k.graceful
         /\ SetException(k).map = k.map /\ SetException(k).next = k.next
         /\ SetException(k).fd = k.fd /\ SetException(k).wq = k.wq
         /\ SetException(k).rt = k.rt
BY DEF Queued, FailedWrite, SetException, ConnSet

\* _send_qmsg, with the state that a failed write leaves.
Sends(c, w, k, m) ==
  \/ SendOK(c, w, k, m)
  \/ SendFails(c, w, k, m) /\ conn' = [conn EXCEPT ![c] = FailedWrite(Queued(k, m))]

LEMMA SendFlow ==
  ASSUME TypeOK, NEW c \in Conns, NEW w, NEW k \in ConnSet, NEW m \in MsgSet,
         Sends(c, w, k, m)
  PROVE  /\ conn'[c].st = k.st \/ conn'[c].st = ST_ERROR
         /\ conn'[c].graceful = k.graceful /\ conn'[c].map = k.map
         /\ conn'[c].next = k.next /\ conn'[c].fd = k.fd
         /\ conn'[c].rt = k.rt
         /\ Written(c, Append(k.wq, m))
         /\ conn'[c].wq # Append(k.wq, m) => k.wq = <<>>
         /\ \A d \in Conns \ {c} : conn'[d] = conn[d] /\ c2s'[d] = c2s[d]
<1>1. Queued(k, m) \in ConnSet BY RecordTypes
<1>2. CASE MustWrite(k) /\ WriteOK(c, w, Queued(k, m))
  BY <1>1, <1>2, WriteFlow, RecordFields DEF MustWrite
<1>3. CASE conn' = [conn EXCEPT ![c] = Queued(k, m)] /\ UNCHANGED <<writing, c2s>>
  BY <1>1, <1>3, RecordFields DEF TypeOK, Written
<1>4. CASE SendFails(c, w, k, m) /\ conn' = [conn EXCEPT ![c] = FailedWrite(Queued(k, m))]
  <2>1. conn'[c] = FailedWrite(Queued(k, m)) /\ \A d \in Conns \ {c} : conn'[d] = conn[d]
    BY <1>4 DEF TypeOK
  <2>2. UNCHANGED c2s BY <1>4 DEF SendFails, WriteFails
  <2> QED BY <1>1, <2>1, <2>2, RecordFields DEF Written
<1> QED BY <1>2, <1>3, <1>4 DEF Sends, SendOK

LEMMA ClientFrame ==
  ASSUME UNCHANGED <<srvVars, broken, taken>>
  PROVE  /\ \A d \in Conns : SameServer(d) /\ taken'[d] = taken[d]
         /\ reader' = reader => \A d \in Conns : SameHeld(d)
BY DEF srvVars, SameServer, SameHeld, HeldTrace, HeldBy

LEMMA OthersQuiet ==
  ASSUME NEW c \in Conns, UNCHANGED <<srvVars, broken, taken>>,
         \A d \in Conns \ {c} : /\ conn'[d] = conn[d] /\ c2s'[d] = c2s[d] /\ s2c'[d] = s2c[d]
                                /\ SameHeld(d)
  PROVE  \A d \in Conns \ {c} : Quiet(d)
BY ClientFrame DEF Quiet, SameResults, SameState, SameQueue, SameSockets

(* Steps that touch no connection, or only its timers.                     *)
LEMMA AllQuiet ==
  ASSUME UNCHANGED <<conn, netVars, srvVars, taken, reader>> PROVE \A d \in Conns : Quiet(d)
BY ClientFrame DEF netVars, Quiet, SameResults, SameState, SameQueue, SameSockets

LEMMA TimersQuiet ==
  ASSUME OwnerInv, NEW c \in Conns, NEW k1, NEW b, NEW e,
         \/ k1 = [conn[c] EXCEPT !.wt = b] \/ k1 = [conn[c] EXCEPT !.rt = b]
         \/ k1 = [[conn[c] EXCEPT !.rt = b] EXCEPT !.wt = e],
         conn' = [conn EXCEPT ![c] = k1],
         UNCHANGED <<netVars, srvVars, taken, reader>>
  PROVE  \A d \in Conns : Quiet(d)
<1>1. conn[c] \in ConnSet BY DEF OwnerInv, TypeOK
<1>2. /\ k1.st = conn[c].st /\ k1.graceful = conn[c].graceful /\ k1.map = conn[c].map
      /\ k1.next = conn[c].next /\ k1.fd = conn[c].fd /\ k1.wq = conn[c].wq
  BY <1>1 DEF ConnSet
<1>3. conn'[c] = k1 /\ \A d \in Conns \ {c} : conn'[d] = conn[d] BY DEF OwnerInv, TypeOK
<1>4. \A d \in Conns : SameServer(d) /\ SameHeld(d) /\ taken'[d] = taken[d]
  BY ClientFrame DEF netVars
<1> QED BY <1>2, <1>3, <1>4 DEF netVars, Quiet, SameResults, SameState, SameQueue, SameSockets

LEMMA StartTimerFlow ==
  ASSUME OwnerInv, NEW q \in Quests, StartTimer(q) PROVE \A d \in Conns : Quiet(d)
<1>1. con[q] \in Conns BY DEF OwnerInv, SendsOnConnection, StartTimer
<1> DEFINE k1 == [conn[con[q]] EXCEPT !.wt = conn[con[q]].fd]
<1>2. conn' = [conn EXCEPT ![con[q]] = k1] BY DEF StartTimer
<1>3. UNCHANGED <<netVars, srvVars, taken, reader>> BY DEF StartTimer, thrVars
<1> QED BY <1>1, <1>2, <1>3, TimersQuiet

LEMMA TimeoutFlow ==
  ASSUME OwnerInv, NEW c \in Conns, Timeout(c) PROVE \A d \in Conns : Quiet(d)
<1>1. PICK k1 : /\ conn' = [conn EXCEPT ![c] = k1]
                /\ k1 = [conn[c] EXCEPT !.wt = FALSE] \/ k1 = [conn[c] EXCEPT !.rt = FALSE]
  BY DEF Timeout
<1>2. UNCHANGED <<netVars, srvVars, taken, reader>> BY DEF Timeout
<1> QED BY <1>1, <1>2, TimersQuiet

LEMMA DisconnectBeginFlow ==
  ASSUME OwnerInv, NEW c \in Conns, DisconnectBegin(c) PROVE \A d \in Conns : Quiet(d)
<1> DEFINE k1 == [[conn[c] EXCEPT !.rt = FALSE] EXCEPT !.wt = FALSE]
<1>1. conn' = [conn EXCEPT ![c] = k1] BY DEF DisconnectBegin, OwnerInv, TypeOK
<1>2. UNCHANGED <<netVars, srvVars, taken, reader>> BY DEF DisconnectBegin
<1> QED BY <1>1, <1>2, TimersQuiet

LEMMA QuietSteps ==
  ASSUME \/ \E q \in Quests : PickExisting(q) \/ PickThrows(q)
         \/ \E q \in Quests, kind \in {"answer", "error"} : Give(q, kind)
         \/ \E c \in Conns, w \in Writers : QuestSent(c, w)
         \/ \E c \in Conns : CloseForce(c)
  PROVE  \A d \in Conns : Quiet(d)
BY AllQuiet DEF PickExisting, PickThrows, Give, QuestSent, CloseForce, connVars, thrVars

LEMMA PickNewFlow ==
  ASSUME OwnerInv, MadeFirst, NEW q \in Quests, NEW c \in Conns, PickNew(q, c)
  PROVE  Made(c) /\ \A d \in Conns \ {c} : Quiet(d)
<1>1. conn[c] = FreshConn BY DEF MadeFirst, PickNew
<1>2. conn'[c] = [FreshConn EXCEPT !.fd = TRUE] /\ \A d \in Conns \ {c} : conn'[d] = conn[d]
  BY DEF PickNew, OwnerInv, TypeOK
<1>3. UNCHANGED <<srvVars, netVars, taken, reader>> BY DEF PickNew, thrVars
<1>4. /\ \A d \in Conns : SameServer(d) /\ SameHeld(d) /\ taken'[d] = taken[d]
      /\ UNCHANGED <<c2s, s2c, broken>>
  BY <1>3, ClientFrame DEF netVars
<1>5. Made(c)
  BY <1>1, <1>2, <1>4 DEF Made, SameResults, SameState, SameQueue, SameSockets, FreshConn
<1> QED BY <1>2, <1>3, <1>4, <1>5, OthersQuiet

-----------------------------------------------------------------------------
(* _write_q, the readers of the socket, the timer.                         *)
LEMMA WritesFlow ==
  ASSUME OwnerInv, NEW c \in Conns, NEW w, NEW k \in ConnSet,
         \/ WriteOK(c, w, k)
         \/ WriteFails(c, w, k) /\ conn' = [conn EXCEPT ![c] = FailedWrite(k)]
         \/ conn' = [conn EXCEPT ![c] = k] /\ UNCHANGED c2s,
         k.wq = conn[c].wq, k.map = conn[c].map, k.next = conn[c].next, k.fd = conn[c].fd,
         k.graceful = conn[c].graceful,
         k.st < ST_CLOSED => conn[c].st < ST_CLOSED,
         k.st = ST_CLOSE => conn[c].st = ST_CLOSE \/ conn[c].map # {},
         \/ UNCHANGED s2c
         \/ /\ s2c[c] # <<>> /\ Head(s2c[c]).type = "H"
            /\ s2c' = [s2c EXCEPT ![c] = Tail(@)],
         UNCHANGED <<srvVars, broken, taken, reader>>
  PROVE  Writes(c) /\ \A d \in Conns \ {c} : Quiet(d)
<1>0. k.st \in Int /\ conn[c].st \in Int
  <2>1. conn[c] \in ConnSet BY DEF OwnerInv, TypeOK
  <2> QED BY <2>1 DEF ConnSet, ST_INIT, ST_ERROR
<1>1. /\ conn'[c].st = k.st \/ conn'[c].st = ST_ERROR
      /\ conn'[c].graceful = k.graceful /\ conn'[c].map = k.map
      /\ conn'[c].next = k.next /\ conn'[c].fd = k.fd
      /\ Written(c, k.wq)
      /\ \A d \in Conns \ {c} : conn'[d] = conn[d] /\ c2s'[d] = c2s[d]
  <2>1. CASE WriteOK(c, w, k) BY <2>1, WriteFlow DEF OwnerInv
  <2>2. CASE WriteFails(c, w, k) /\ conn' = [conn EXCEPT ![c] = FailedWrite(k)]
    BY <2>2, RecordFields DEF OwnerInv, TypeOK, WriteFails, Written
  <2>3. CASE conn' = [conn EXCEPT ![c] = k] /\ UNCHANGED c2s
    BY <2>3 DEF OwnerInv, TypeOK, Written
  <2> QED BY <2>1, <2>2, <2>3
<1>2. \A d \in Conns : SameServer(d) /\ SameHeld(d) /\ taken'[d] = taken[d] BY ClientFrame
<1>3. /\ \/ s2c'[c] = s2c[c]
         \/ s2c[c] # <<>> /\ Head(s2c[c]).type = "H" /\ s2c'[c] = Tail(s2c[c])
      /\ \A d \in Conns \ {c} : s2c'[d] = s2c[d]
  BY DEF OwnerInv, TypeOK
<1>4. Writes(c)
  BY <1>0, <1>1, <1>2, <1>3 DEF Writes, SameResults, ST_CLOSED, ST_CLOSE, ST_ERROR
<1> QED BY <1>1, <1>2, <1>3, <1>4, OthersQuiet

LEMMA WriteAgainFlow ==
  ASSUME OwnerInv, NEW c \in Conns, NEW w \in Writers, WriteAgain(c, w)
  PROVE  Writes(c) /\ \A d \in Conns \ {c} : Quiet(d)
<1>1. conn[c] \in ConnSet BY DEF OwnerInv, TypeOK
<1> QED BY <1>1, WritesFlow DEF WriteAgain

LEMMA DoWriteFlow ==
  ASSUME OwnerInv, NEW c \in Conns, NEW r \in Readers, DoWrite(c, r)
  PROVE  Writes(c) /\ \A d \in Conns \ {c} : Quiet(d)
<1> DEFINE k == conn[c]
           k1 == IF k.st < ST_WAITING_HELLO
                 THEN [k EXCEPT !.st = ST_WAITING_HELLO, !.wt = FALSE] ELSE k
<1>1. k \in ConnSet BY DEF OwnerInv, TypeOK
<1>2. /\ k1 \in ConnSet /\ k1.wq = k.wq /\ k1.map = k.map /\ k1.next = k.next /\ k1.fd = k.fd
      /\ k1.graceful = k.graceful
      /\ k1.st < ST_CLOSED => k.st < ST_CLOSED
      /\ k1.st = ST_CLOSE => k.st = ST_CLOSE
  <2>1. CASE k.st < ST_WAITING_HELLO
    <3> DEFINE k2 == [k EXCEPT !.st = ST_WAITING_HELLO, !.wt = FALSE]
    <3>1. k1 = k2 BY <2>1
    <3>2. /\ k2.wq = k.wq /\ k2.map = k.map /\ k2.next = k.next /\ k2.fd = k.fd
          /\ k2.graceful = k.graceful /\ k2.st = ST_WAITING_HELLO
      BY <1>1 DEF ConnSet
    <3>3. k2 \in ConnSet BY <1>1, States DEF ConnSet
    <3>4. k.st \in Int BY <1>1 DEF ConnSet, ST_INIT, ST_ERROR
    <3> HIDE DEF k2, k1
    <3> QED BY <2>1, <3>1, <3>2, <3>3, <3>4 DEF ST_WAITING_HELLO, ST_CLOSED, ST_CLOSE
  <2>2. CASE ~(k.st < ST_WAITING_HELLO) BY <1>1, <2>2
  <2> QED BY <2>1, <2>2
<1>3. /\ \/ WriteOK(c, r, k1)
         \/ WriteFails(c, r, k1) /\ conn' = [conn EXCEPT ![c] = FailedWrite(k1)]
      /\ UNCHANGED <<srvVars, broken, taken, reader, s2c>>
  BY DEF DoWrite
<1> HIDE DEF k1
<1> QED BY <1>2, <1>3, WritesFlow

LEMMA RecvHelloFlow ==
  ASSUME OwnerInv, NEW c \in Conns, NEW r \in Readers, RecvHello(c, r)
  PROVE  Writes(c) /\ \A d \in Conns \ {c} : Quiet(d)
<1> DEFINE k == conn[c]
           k1 == [k EXCEPT !.st = ST_ACTIVE, !.rt = IF k.map = {} THEN FALSE ELSE @]
<1>1. k \in ConnSet BY DEF OwnerInv, TypeOK
<1>2. /\ k1 \in ConnSet /\ k1.wq = k.wq /\ k1.map = k.map /\ k1.next = k.next /\ k1.fd = k.fd
      /\ k1.graceful = k.graceful /\ k1.st = ST_ACTIVE
  <2>1. /\ k1.wq = k.wq /\ k1.map = k.map /\ k1.next = k.next /\ k1.fd = k.fd
        /\ k1.graceful = k.graceful /\ k1.st = ST_ACTIVE
    BY <1>1 DEF ConnSet
  <2>2. (IF k.map = {} THEN FALSE ELSE k.rt) \in BOOLEAN BY <1>1 DEF ConnSet
  <2>3. k1 \in ConnSet BY <1>1, <2>2, States DEF ConnSet
  <2> QED BY <2>1, <2>3
<1>3. /\ s2c[c] # <<>> /\ Head(s2c[c]).type = "H" /\ s2c' = [s2c EXCEPT ![c] = Tail(@)]
      /\ UNCHANGED <<srvVars, broken, taken, reader>>
  BY DEF RecvHello
<1>4. CASE UNCHANGED <<conn, writing, c2s, disc>>
  <2>1. conn' = [conn EXCEPT ![c] = k] BY <1>4 DEF OwnerInv, TypeOK
  <2> QED BY <1>1, <1>3, <1>4, <2>1, WritesFlow
<1>5. CASE /\ k.st < ST_ACTIVE
           /\ \/ WriteOK(c, r, k1)
              \/ WriteFails(c, r, k1) /\ conn' = [conn EXCEPT ![c] = FailedWrite(k1)]
  <2>1. k.st < ST_CLOSED /\ ST_ACTIVE # ST_CLOSE
    BY <1>1, <1>5, FieldTypes DEF ST_ACTIVE, ST_CLOSED, ST_CLOSE, ST_INIT, ST_ERROR
  <2> HIDE DEF k1
  <2> QED BY <1>2, <1>3, <1>5, <2>1, WritesFlow
<1> QED BY <1>4, <1>5 DEF RecvHello

LEMMA RecvFailsFlow ==
  ASSUME OwnerInv, NEW c \in Conns, NEW r \in Readers, RecvFails(c, r)
  PROVE  Writes(c) /\ \A d \in Conns \ {c} : Quiet(d)
<1> DEFINE k == IF conn[c].st >= ST_CLOSING /\ ~broken[c] THEN conn[c]
                ELSE SetException(conn[c])
<1>1. conn[c] \in ConnSet BY DEF OwnerInv, TypeOK
<1>2. /\ k \in ConnSet /\ k.wq = conn[c].wq /\ k.map = conn[c].map /\ k.next = conn[c].next
      /\ k.fd = conn[c].fd /\ k.graceful = conn[c].graceful
      /\ k.st < ST_CLOSED => conn[c].st < ST_CLOSED
      /\ k.st = ST_CLOSE => conn[c].st = ST_CLOSE
  <2> DEFINE e == SetException(conn[c])
  <2>1. /\ e \in ConnSet /\ e.wq = conn[c].wq /\ e.map = conn[c].map /\ e.next = conn[c].next
        /\ e.fd = conn[c].fd /\ e.graceful = conn[c].graceful /\ e.st = ST_ERROR
    BY <1>1, RecordTypes, RecordFields
  <2> HIDE DEF e
  <2> QED BY <1>1, <2>1 DEF e, ST_CLOSED, ST_CLOSE, ST_ERROR
<1>3. conn' = [conn EXCEPT ![c] = k] /\ UNCHANGED <<srvVars, netVars, taken, reader>>
  BY DEF RecvFails
<1> HIDE DEF k
<1> QED BY <1>2, <1>3, WritesFlow DEF netVars

LEMMA DoTimeoutFlow ==
  ASSUME OwnerInv, NEW c \in Conns, DoTimeout(c)
  PROVE  Writes(c) /\ \A d \in Conns \ {c} : Quiet(d)
<1> DEFINE k == SetException(conn[c])
<1>1. conn[c] \in ConnSet BY DEF OwnerInv, TypeOK
<1>2. /\ k \in ConnSet /\ k.wq = conn[c].wq /\ k.map = conn[c].map /\ k.next = conn[c].next
      /\ k.fd = conn[c].fd /\ k.graceful = conn[c].graceful
      /\ k.st < ST_CLOSED => conn[c].st < ST_CLOSED
      /\ k.st = ST_CLOSE => conn[c].st = ST_CLOSE
  <2> DEFINE e == SetException(conn[c])
  <2>1. /\ e \in ConnSet /\ e.wq = conn[c].wq /\ e.map = conn[c].map /\ e.next = conn[c].next
        /\ e.fd = conn[c].fd /\ e.graceful = conn[c].graceful /\ e.st = ST_ERROR
    BY <1>1, RecordTypes, RecordFields
  <2> HIDE DEF e
  <2> QED BY <1>1, <2>1 DEF e, ST_CLOSED, ST_CLOSE, ST_ERROR
<1>3. conn' = [conn EXCEPT ![c] = k] /\ UNCHANGED <<srvVars, netVars, taken, reader>>
  BY DEF DoTimeout
<1> HIDE DEF k
<1> QED BY <1>2, <1>3, WritesFlow DEF netVars

LEMMA RecvByeFlow ==
  ASSUME OwnerInv, NEW c \in Conns, NEW r \in Readers, RecvBye(c, r)
  PROVE  GetsBye(c) /\ \A d \in Conns \ {c} : Quiet(d)
<1>1. conn[c] \in ConnSet BY DEF OwnerInv, TypeOK
<1>2. conn'[c] = [[conn[c] EXCEPT !.st = ST_CLOSED] EXCEPT !.graceful = TRUE]
      /\ \A d \in Conns \ {c} : conn'[d] = conn[d]
  BY DEF RecvBye, OwnerInv, TypeOK
<1>3. /\ conn'[c].st = ST_CLOSED /\ conn'[c].graceful /\ conn'[c].map = conn[c].map
      /\ conn'[c].next = conn[c].next /\ conn'[c].fd = conn[c].fd /\ conn'[c].wq = conn[c].wq
  BY <1>1, <1>2 DEF ConnSet
<1>4. conn[c].fd /\ conn[c].st < ST_CLOSED
  BY <1>1, FieldTypes DEF RecvBye, Readable, ST_WAITING_HELLO, ST_CLOSING, ST_CLOSED
<1>5. /\ s2c[c] # <<>> /\ Head(s2c[c]).type = "B" /\ s2c'[c] = Tail(s2c[c])
      /\ \A d \in Conns \ {c} : s2c'[d] = s2c[d]
      /\ UNCHANGED <<srvVars, broken, taken, reader, c2s>>
  BY DEF RecvBye, OwnerInv, TypeOK
<1>6. \A d \in Conns : SameServer(d) /\ SameHeld(d) /\ taken'[d] = taken[d]
  BY <1>5, ClientFrame
<1>7. reader[r] = None BY DEF RecvBye, Readable, IdleReader
<1>8. GetsBye(c) BY <1>3, <1>4, <1>5, <1>6, <1>7 DEF GetsBye, SameResults
<1> QED BY <1>2, <1>5, <1>6, <1>8, OthersQuiet

LEMMA RecvAnswerFlow ==
  ASSUME OwnerInv, NEW c \in Conns, NEW r \in Readers, RecvAnswer(c, r)
  PROVE  GetsAnswer(c, r) /\ \A d \in Conns \ {c} : Quiet(d)
<1>1. /\ s2c[c] # <<>> /\ Head(s2c[c]).type = "A" /\ s2c'[c] = Tail(s2c[c])
      /\ \A d \in Conns \ {c} : s2c'[d] = s2c[d]
      /\ UNCHANGED <<srvVars, broken, taken, c2s, conn>>
  BY DEF RecvAnswer, OwnerInv, TypeOK, connVars
<1>2. /\ reader[r] = None /\ reader'[r] = <<c, Head(s2c[c])>>
      /\ \A x \in Readers \ {r} : reader'[x] = reader[x]
  BY DEF RecvAnswer, Readable, IdleReader, OwnerInv, TypeOK
<1>3. reader'[r] # None
  <2>1. Head(s2c[c]) \in MsgSet BY <1>1 DEF OwnerInv, TypeOK
  <2>2. Head(s2c[c]) \in [type : {"A"}, id : Nat, q : Quests]
    BY <1>1, <2>1 DEF MsgSet, Hello, Bye, Msg
  <2> QED BY <1>2, <2>2, ConstantsAssumption
<1>4. HeldBy(c)' = HeldBy(c) \cup {r} /\ r \notin HeldBy(c)
  BY <1>2, <1>3 DEF HeldBy
<1>5. HeldTrace(c)' = HeldTrace(c) \cup {<<"held", r, Head(s2c[c]).id, Head(s2c[c]).q>>}
  <2>1. \A x \in HeldBy(c) : reader'[x] = reader[x] BY <1>2, <1>4 DEF HeldBy
  <2>2. reader'[r][2] = Head(s2c[c]) BY <1>2
  <2> QED BY <1>4, <2>1, <2>2 DEF HeldTrace
<1>6. ASSUME NEW d \in Conns \ {c} PROVE SameHeld(d)
  <2>1. HeldBy(d)' = HeldBy(d) BY <1>2, <1>3, <1>6 DEF HeldBy
  <2>2. \A x \in HeldBy(d) : reader'[x] = reader[x] BY <1>2 DEF HeldBy
  <2> QED BY <2>1, <2>2 DEF SameHeld, HeldTrace
<1>7. GetsAnswer(c, r)
  BY <1>1, <1>5, ClientFrame DEF GetsAnswer, SameResults, SameState
<1> QED BY <1>1, <1>6, <1>7, OthersQuiet

-----------------------------------------------------------------------------
(* sendQuest, do_read, close and disconnect.                               *)
LEMMA DropsFlow ==
  ASSUME OwnerInv, NEW c \in Conns, NEW id \in Nat,
         conn' = [conn EXCEPT ![c] = Dropped(conn[c], id)],
         conn[c].st >= ST_CLOSED \/ \A x \in Seen(c) : x[1] # id,
         UNCHANGED <<srvVars, netVars, taken, reader>>
  PROVE  Drops(c, id) /\ \A d \in Conns \ {c} : Quiet(d)
<1> DEFINE k == Dropped(conn[c], id)
<1>1. conn[c] \in ConnSet BY DEF OwnerInv, TypeOK
<1>2. /\ k.st = conn[c].st /\ k.graceful = conn[c].graceful /\ k.next = conn[c].next
      /\ k.fd = conn[c].fd /\ k.wq = conn[c].wq
      /\ k.map = conn[c].map \ EntriesOf(conn[c], id)
  BY <1>1 DEF Dropped, ConnSet
<1>3. conn'[c] = k /\ \A d \in Conns \ {c} : conn'[d] = conn[d] BY DEF OwnerInv, TypeOK
<1> HIDE DEF k
<1>4. \A d \in Conns : SameServer(d) /\ SameHeld(d) /\ taken'[d] = taken[d]
  BY ClientFrame DEF netVars
<1>5. Drops(c, id)
  BY <1>2, <1>3, <1>4 DEF Drops, SameState, SameQueue, SameSockets, netVars
<1> QED BY <1>3, <1>4, <1>5, OthersQuiet DEF netVars

\* Who drops the results of a transaction id gives them the error.
GivesErrors(c, id) ==
  giving' = giving \cup {<<x, "error">> : x \in QuestsOf(EntriesOf(conn[c], id))}

LEMMA SendQuestClosedFlow ==
  ASSUME OwnerInv, NEW q \in Quests, SendQuestClosed(q)
  PROVE  \E c \in Conns : /\ c = con[q] /\ conn[c].st >= ST_CLOSED
                          /\ Quiet(c) \/ \E id \in Nat : Drops(c, id) /\ GivesErrors(c, id)
                          /\ \A d \in Conns \ {c} : Quiet(d)
<1>1. PICK c \in Conns : c = con[q] BY DEF OwnerInv, SendsOnConnection, SendQuestClosed
<1>2. PICK id \in Nat : id = txid[q] BY DEF OwnerInv, TypeOK
<1>3. /\ conn[c].st >= ST_CLOSED
      /\ UNCHANGED <<srvVars, netVars, taken, reader>>
  BY <1>1 DEF SendQuestClosed, thrVars
<1>4. CASE id > 0
  <2>1. conn' = [conn EXCEPT ![c] = Dropped(conn[c], id)]
    BY <1>1, <1>2, <1>4 DEF SendQuestClosed, Dropped
  <2>2. GivesErrors(c, id) BY <1>1, <1>2, <1>4 DEF SendQuestClosed, GivesErrors
  <2> QED BY <1>1, <1>3, <2>1, <2>2, DropsFlow
<1>5. CASE ~(id > 0)
  <2>1. conn' = conn BY <1>2, <1>5 DEF SendQuestClosed
  <2> QED BY <1>1, <1>3, <2>1, AllQuiet
<1> QED BY <1>4, <1>5

LEMMA SendQuestCatchFlow ==
  ASSUME OwnerInv, FlowInv, NEW c \in Conns, NEW q \in Quests, SendQuestCatch(c, q)
  PROVE  /\ \E id \in Nat : id = txid[q] /\ Drops(c, id)
         /\ \A d \in Conns \ {c} : Quiet(d)
<1>1. PICK id \in Nat : id = txid[q] BY DEF OwnerInv, TypeOK
<1>2. conn[c].st \in Int
  <2>1. conn[c] \in ConnSet BY DEF OwnerInv, TypeOK
  <2> QED BY <2>1 DEF ConnSet, ST_INIT, ST_ERROR
<1>3. ASSUME conn[c].st < ST_CLOSED, NEW x \in Seen(c), x[1] = id PROVE FALSE
  <2>1. <<id, q>> \in conn[c].map \ Seen(c)
    BY <1>1, <1>3 DEF FlowInv, FailingQuest, SendQuestCatch
  <2>2. x = <<id, q>> BY <1>3, <2>1 DEF FlowInv, FlowAt, Matching
  <2> QED BY <1>3, <2>1, <2>2
<1>4. conn[c].st >= ST_CLOSED \/ \A x \in Seen(c) : x[1] # id
  BY <1>2, <1>3 DEF ST_CLOSED
<1>5. conn' = [conn EXCEPT ![c] = Dropped(conn[c], id)] BY <1>1 DEF SendQuestCatch
<1>6. UNCHANGED <<srvVars, netVars, taken, reader>> BY DEF SendQuestCatch
<1> QED BY <1>1, <1>4, <1>5, <1>6, DropsFlow

LEMMA AddedFields ==
  ASSUME NEW k \in ConnSet, NEW q \in Quests
  PROVE  /\ Added(k, q).st = k.st /\ Added(k, q).graceful = k.graceful
         /\ Added(k, q).next = k.next + 1 /\ Added(k, q).fd = k.fd /\ Added(k, q).wq = k.wq
         /\ Added(k, q).map = k.map \cup {<<k.next, q>>}
         /\ Added(k, q).rt = (k.rt \/ (MsgTimeout /\ k.map = {}))
BY ConstantsAssumption DEF Added, ConnSet

LEMMA SendQuestFlow ==
  ASSUME OwnerInv, NEW q \in Quests, SendQuest(q)
  PROVE  \E c \in Conns : c = con[q] /\ Adds(c, q) /\ \A d \in Conns \ {c} : Quiet(d)
<1>1. PICK c \in Conns : c = con[q]
  BY DEF OwnerInv, SendsOnConnection, SendQuest
<1> DEFINE k == conn[c]
           k1 == Added(k, q)
           quest == Msg("Q", k.next, q)
<1>2. k \in ConnSet /\ k.next \in Nat /\ k1 \in ConnSet /\ quest \in MsgSet
  BY RecordTypes, FieldTypes, MessageTypes DEF OwnerInv, TypeOK
<1>3. /\ k1.st = k.st /\ k1.graceful = k.graceful /\ k1.next = k.next + 1 /\ k1.fd = k.fd
      /\ k1.wq = k.wq /\ k1.map = k.map \cup {<<k.next, q>>}
  BY <1>2, AddedFields
<1>4. /\ k.st < ST_CLOSED /\ at[q] = "send"
      /\ UNCHANGED <<srvVars, broken, taken, reader, s2c>>
  BY <1>1 DEF SendQuest
<1>5. Sends(c, q, k1, quest) BY <1>1 DEF SendQuest, Sends
<1>0. TypeOK BY DEF OwnerInv
<1> HIDE DEF k1, quest
<1>6. /\ conn'[c].st = k1.st \/ conn'[c].st = ST_ERROR
      /\ conn'[c].graceful = k1.graceful /\ conn'[c].map = k1.map
      /\ conn'[c].next = k1.next /\ conn'[c].fd = k1.fd
      /\ Written(c, Append(k1.wq, quest))
      /\ conn'[c].wq # Append(k1.wq, quest) => k1.wq = <<>>
      /\ \A d \in Conns \ {c} : conn'[d] = conn[d] /\ c2s'[d] = c2s[d]
  BY <1>0, <1>2, <1>5, SendFlow
<1>7. \A d \in Conns : SameServer(d) /\ SameHeld(d) /\ taken'[d] = taken[d] BY <1>4, ClientFrame
<1>8. Adds(c, q)
  BY <1>3, <1>4, <1>6, <1>7 DEF Adds, ST_ERROR, ST_CLOSED, quest
<1> QED BY <1>1, <1>4, <1>6, <1>7, <1>8, OthersQuiet

LEMMA SendQuestHugeFlow ==
  ASSUME OwnerInv, NEW q \in Quests, SendQuestHuge(q)
  PROVE  \E c \in Conns : /\ c = con[q] /\ Adds(c, q) /\ SameQueue(c)
                          /\ \A d \in Conns \ {c} : Quiet(d)
<1>1. PICK c \in Conns : c = con[q]
  BY DEF OwnerInv, SendsOnConnection, SendQuestHuge
<1>2. conn[c] \in ConnSet BY DEF OwnerInv, TypeOK
<1>3. conn'[c] = Added(conn[c], q) /\ \A d \in Conns \ {c} : conn'[d] = conn[d]
  <2>1. conn' = [conn EXCEPT ![c] = Added(conn[c], q)] BY <1>1 DEF SendQuestHuge
  <2> QED BY <2>1 DEF OwnerInv, TypeOK
<1>4. conn[c].st < ST_CLOSED /\ at[q] = "send" /\ UNCHANGED <<srvVars, netVars, taken, reader>>
  BY <1>1 DEF SendQuestHuge
<1>5. \A d \in Conns : SameServer(d) /\ SameHeld(d) /\ taken'[d] = taken[d]
  BY <1>4, ClientFrame DEF netVars
<1>6. Adds(c, q) /\ SameQueue(c)
  BY <1>2, <1>3, <1>4, <1>5, AddedFields DEF Adds, SameQueue, SameSockets, netVars
<1> QED BY <1>1, <1>3, <1>4, <1>5, <1>6, OthersQuiet DEF netVars

(* A thread that holds an answer is at one connection, and one place.      *)
LEMMA HeldPlace ==
  ASSUME OwnerInv, NEW r \in Readers, reader[r] # None,
         NEW c, c = reader[r][1], NEW m, m = reader[r][2],
         reader' = [reader EXCEPT ![r] = None]
  PROVE  /\ <<"held", r, m.id, m.q>> \in HeldTrace(c)
         /\ HeldTrace(c)' = HeldTrace(c) \ {<<"held", r, m.id, m.q>>}
         /\ \A d \in Conns \ {c} : SameHeld(d)
<1> DEFINE t == <<"held", r, m.id, m.q>>
<1>1. reader'[r] = None /\ \A x \in Readers \ {r} : reader'[x] = reader[x]
  BY DEF OwnerInv, TypeOK
<1>2. HeldBy(c)' = HeldBy(c) \ {r} /\ r \in HeldBy(c) BY <1>1 DEF HeldBy
<1>3. t \in HeldTrace(c) BY <1>2 DEF HeldTrace
<1>4. HeldTrace(c)' = HeldTrace(c) \ {t}
  <2>1. ASSUME NEW u \in HeldTrace(c)' PROVE u \in HeldTrace(c) \ {t}
    <3>1. PICK x \in HeldBy(c)' : u = <<"held", x, reader'[x][2].id, reader'[x][2].q>>
      BY <2>1 DEF HeldTrace
    <3>2. x # r /\ x \in HeldBy(c) /\ reader'[x] = reader[x] BY <1>1, <1>2, <3>1 DEF HeldBy
    <3> QED BY <3>1, <3>2 DEF HeldTrace
  <2>2. ASSUME NEW u \in HeldTrace(c) \ {t} PROVE u \in HeldTrace(c)'
    <3>0. u \in HeldTrace(c) /\ u # t BY <2>2
    <3>1. PICK x \in HeldBy(c) : u = <<"held", x, reader[x][2].id, reader[x][2].q>>
      BY <3>0 DEF HeldTrace
    <3>2. x # r BY <3>0, <3>1
    <3>3. x \in HeldBy(c)' /\ reader'[x] = reader[x] BY <1>1, <1>2, <3>2 DEF HeldBy
    <3> QED BY <3>1, <3>3 DEF HeldTrace
  <2> QED BY <2>1, <2>2
<1>5. ASSUME NEW d \in Conns \ {c} PROVE SameHeld(d)
  <2>1. HeldBy(d)' = HeldBy(d) BY <1>1, <1>5 DEF HeldBy
  <2>2. \A x \in HeldBy(d) : reader'[x] = reader[x] BY <1>1, <1>5 DEF HeldBy
  <2> QED BY <2>1, <2>2 DEF SameHeld, HeldTrace
<1> QED BY <1>3, <1>4, <1>5

LEMMA ReadAnswerFlow ==
  ASSUME OwnerInv, NEW r \in Readers, ReadAnswer(r)
  PROVE  \E c \in Conns, x \in Nat \X Quests :
           /\ c = reader[r][1]
           /\ Reads(c, r, x)
           /\ KeepsOpen(c) \/ SaysBye(c)
           /\ \/ giving' = giving /\ conn'[c].st = ST_ERROR
              \/ giving' = giving \cup {<<y, "answer">> : y \in QuestsOf(EntriesOf(conn[c], x[1]))}
           /\ \A d \in Conns \ {c} : Quiet(d)
<1>0. reader[r] \in Conns \X [type : {"A"}, id : Nat, q : Quests]
  BY DEF OwnerInv, TypeOK, ReadAnswer
<1>1. PICK c \in Conns, id \in Nat, q \in Quests :
        c = reader[r][1] /\ id = reader[r][2].id /\ q = reader[r][2].q
  BY <1>0
<1> DEFINE k == conn[c]
           found == EntriesOf(k, id)
           left == Dropped(k, id)
           timed == [left EXCEPT !.rt = IF MsgTimeout THEN left.map # {} ELSE @]
           closing == [left EXCEPT !.st = ST_CLOSING, !.graceful = TRUE]
           armed == [closing EXCEPT !.rt = TRUE]
           Gives == giving' = giving \cup {<<y, "answer">> : y \in QuestsOf(found)}
           x == <<id, q>>
<1>2. x \in Nat \X Quests /\ x[1] = id /\ x[2] = q OBVIOUS
<1>3. k \in ConnSet /\ left \in ConnSet
  BY RecordTypes DEF OwnerInv, TypeOK
<1>4. /\ left.st = k.st /\ left.graceful = k.graceful /\ left.next = k.next /\ left.fd = k.fd
      /\ left.wq = k.wq /\ left.map = k.map \ found
  BY <1>3 DEF ConnSet, Dropped
<1>5. /\ reader[r] # None /\ reader' = [reader EXCEPT ![r] = None]
      /\ UNCHANGED <<taken, srvVars, s2c, broken>>
  BY DEF ReadAnswer
<1>6. /\ <<"held", r, id, q>> \in HeldTrace(c)
      /\ HeldTrace(c)' = HeldTrace(c) \ {<<"held", r, id, q>>}
      /\ \A d \in Conns \ {c} : SameHeld(d)
  <2>1. PICK m : m = reader[r][2] OBVIOUS
  <2>2. /\ <<"held", r, m.id, m.q>> \in HeldTrace(c)
        /\ HeldTrace(c)' = HeldTrace(c) \ {<<"held", r, m.id, m.q>>}
        /\ \A d \in Conns \ {c} : SameHeld(d)
    BY <1>1, <1>5, <2>1, HeldPlace
  <2>3. m.id = id /\ m.q = q BY <1>1, <2>1
  <2> QED BY <2>2, <2>3
<1>7. \A d \in Conns : SameServer(d) /\ taken'[d] = taken[d] BY <1>5, ClientFrame
<1>8. \/ /\ ~(left.map = {} /\ k.st = ST_CLOSE) /\ conn' = [conn EXCEPT ![c] = timed]
         /\ Gives /\ UNCHANGED c2s
      \/ /\ ~(left.map = {} /\ k.st = ST_CLOSE)
         /\ conn' = [conn EXCEPT ![c] = SetException(timed)] /\ UNCHANGED <<c2s, giving>>
      \/ /\ left.map = {} /\ k.st = ST_CLOSE
         /\ SendOK(c, r, armed, Bye) /\ Gives
      \/ /\ left.map = {} /\ k.st = ST_CLOSE
         /\ SendFails(c, r, closing, Bye) /\ conn' = [conn EXCEPT ![c] = FailedWrite(Queued(closing, Bye))]
         /\ UNCHANGED giving
  BY <1>1 DEF ReadAnswer, Dropped
<1> HIDE DEF left, k
<1>11. timed \in ConnSet /\ timed.map = left.map /\ timed.st = left.st /\ timed.graceful = left.graceful
       /\ timed.next = left.next /\ timed.fd = left.fd /\ timed.wq = left.wq
  <2>1. PICK b \in BOOLEAN : b = IF MsgTimeout THEN left.map # {} ELSE left.rt
    BY <1>3 DEF ConnSet
  <2>2. timed = [left EXCEPT !.rt = b] BY <2>1
  <2> HIDE DEF timed
  <2> QED BY <1>3, <2>2 DEF ConnSet
<1>12. closing \in ConnSet /\ closing.map = left.map /\ closing.st = ST_CLOSING /\ closing.graceful = TRUE
       /\ closing.next = left.next /\ closing.fd = left.fd /\ closing.wq = left.wq
  BY <1>3, States DEF ConnSet
<1>13. armed \in ConnSet /\ armed.map = left.map /\ armed.st = ST_CLOSING /\ armed.graceful = TRUE
       /\ armed.next = left.next /\ armed.fd = left.fd /\ armed.wq = left.wq
  BY <1>12 DEF ConnSet
<1> HIDE DEF timed, closing, armed
<1>14. CASE conn' = [conn EXCEPT ![c] = timed] /\ Gives /\ UNCHANGED c2s
            /\ ~(left.map = {} /\ k.st = ST_CLOSE)
  <2>1. conn'[c] = timed /\ \A d \in Conns \ {c} : conn'[d] = conn[d] BY <1>14 DEF OwnerInv, TypeOK
  <2>3. Reads(c, r, x) BY <1>2, <1>4, <1>6, <1>11, <2>1 DEF Reads, k
  <2>4. KeepsOpen(c)
    BY <1>4, <1>5, <1>7, <1>11, <1>14, <2>1 DEF KeepsOpen, SameQueue, SameSockets, k
  <2> QED BY <1>1, <1>2, <1>5, <1>6, <1>14, <2>1, <2>3, <2>4, OthersQuiet DEF k
<1>15. CASE conn' = [conn EXCEPT ![c] = SetException(timed)] /\ UNCHANGED <<c2s, giving>>
  <2>1. conn'[c] = SetException(timed) /\ \A d \in Conns \ {c} : conn'[d] = conn[d]
    BY <1>15 DEF OwnerInv, TypeOK
  <2>2. conn'[c].st = ST_ERROR BY <1>11, <2>1, RecordFields
  <2>3. Reads(c, r, x) BY <1>2, <1>4, <1>6, <1>11, <2>1, RecordFields DEF Reads, k
  <2>4. KeepsOpen(c)
    BY <1>4, <1>5, <1>7, <1>11, <1>15, <2>1, RecordFields
    DEF KeepsOpen, SameQueue, SameSockets, k, ST_ERROR, ST_CLOSED, ST_CLOSE
  <2> QED BY <1>1, <1>2, <1>5, <1>6, <1>15, <2>1, <2>2, <2>3, <2>4, OthersQuiet
          DEF k, ST_ERROR, ST_CLOSED
<1>16. ASSUME NEW z \in ConnSet, z.map = left.map, z.st = ST_CLOSING, z.graceful = TRUE,
              z.next = left.next, z.fd = left.fd, z.wq = left.wq, Sends(c, r, z, Bye),
              left.map = {}, k.st = ST_CLOSE
       PROVE  Reads(c, r, x) /\ SaysBye(c) /\ \A d \in Conns \ {c} : Quiet(d)
  <2>1. /\ conn'[c].st = ST_CLOSING \/ conn'[c].st = ST_ERROR
        /\ conn'[c].graceful = TRUE /\ conn'[c].map = {}
        /\ conn'[c].next = k.next /\ conn'[c].fd = k.fd
        /\ Written(c, Append(k.wq, Bye))
        /\ \A d \in Conns \ {c} : conn'[d] = conn[d] /\ c2s'[d] = c2s[d]
    <3>1. TypeOK BY DEF OwnerInv
    <3>2. /\ conn'[c].st = z.st \/ conn'[c].st = ST_ERROR
          /\ conn'[c].graceful = z.graceful /\ conn'[c].map = z.map
          /\ conn'[c].next = z.next /\ conn'[c].fd = z.fd
          /\ Written(c, Append(z.wq, Bye))
          /\ \A d \in Conns \ {c} : conn'[d] = conn[d] /\ c2s'[d] = c2s[d]
      BY <1>16, <3>1, SendFlow, MessageTypes
    <3> QED BY <1>4, <1>16, <3>2
  <2>2. Reads(c, r, x) BY <1>2, <1>4, <1>6, <1>16, <2>1 DEF Reads, k
  <2>3. SaysBye(c)
    BY <1>5, <1>7, <1>16, <2>1 DEF SaysBye, k, ST_CLOSE, ST_CLOSED, ST_CLOSING, ST_ERROR
  <2> QED BY <1>5, <1>6, <2>1, <2>2, <2>3, OthersQuiet
<1>17. CASE left.map = {} /\ k.st = ST_CLOSE /\ SendOK(c, r, armed, Bye) /\ Gives
  <2>1. Reads(c, r, x) /\ SaysBye(c) /\ \A d \in Conns \ {c} : Quiet(d)
    BY <1>13, <1>16, <1>17 DEF Sends
  <2> QED BY <1>1, <1>2, <1>17, <2>1 DEF k
<1>18. CASE /\ left.map = {} /\ k.st = ST_CLOSE /\ SendFails(c, r, closing, Bye)
            /\ conn' = [conn EXCEPT ![c] = FailedWrite(Queued(closing, Bye))]
            /\ UNCHANGED giving
  <2>1. Reads(c, r, x) /\ SaysBye(c) /\ \A d \in Conns \ {c} : Quiet(d)
    BY <1>12, <1>16, <1>18 DEF Sends
  <2>2. conn'[c].st = ST_ERROR
    <3>1. Queued(closing, Bye) \in ConnSet BY <1>12, RecordTypes, MessageTypes
    <3> QED BY <1>18, <3>1, RecordFields DEF OwnerInv, TypeOK
  <2> QED BY <1>1, <1>2, <1>18, <2>1, <2>2 DEF k, ST_ERROR, ST_CLOSED
<1> QED BY <1>8, <1>14, <1>15, <1>17, <1>18

LEMMA CloseFlow ==
  ASSUME OwnerInv, NEW c \in Conns, Close(c)
  PROVE  /\ Writes(c) \/ (SaysBye(c) /\ SameHeld(c) /\ conn[c].map = {})
         /\ \A d \in Conns \ {c} : Quiet(d)
<1> DEFINE k == conn[c]
           closing == [k EXCEPT !.st = ST_CLOSING, !.graceful = TRUE, !.rt = TRUE]
           waiting == [k EXCEPT !.st = ST_CLOSE]
<1>1. k \in ConnSet /\ k.st \in Int
  <2>1. k \in ConnSet BY DEF OwnerInv, TypeOK
  <2> QED BY <2>1 DEF ConnSet, ST_INIT, ST_ERROR
<1>2. /\ closing \in ConnSet /\ closing.map = k.map /\ closing.st = ST_CLOSING
      /\ closing.graceful = TRUE /\ closing.next = k.next /\ closing.fd = k.fd /\ closing.wq = k.wq
  BY <1>1, States DEF ConnSet
<1>3. /\ waiting \in ConnSet /\ waiting.map = k.map /\ waiting.st = ST_CLOSE
      /\ waiting.graceful = k.graceful /\ waiting.next = k.next /\ waiting.fd = k.fd
      /\ waiting.wq = k.wq
  BY <1>1, States DEF ConnSet
<1>4. k.st < ST_CLOSE /\ UNCHANGED <<srvVars, s2c, broken, taken, reader>> BY DEF Close
<1>5. \/ k.map # {} /\ conn' = [conn EXCEPT ![c] = waiting] /\ UNCHANGED c2s
      \/ k.map = {} /\ Sends(c, "grace", closing, Bye)
  BY DEF Close, Sends
<1>6. k.st < ST_CLOSED BY <1>1, <1>4 DEF ST_CLOSE, ST_CLOSED
<1> HIDE DEF closing, waiting
<1>7. CASE k.map # {} /\ conn' = [conn EXCEPT ![c] = waiting] /\ UNCHANGED c2s
  BY <1>3, <1>4, <1>6, <1>7, WritesFlow
<1>8. CASE k.map = {} /\ Sends(c, "grace", closing, Bye)
  <2>1. /\ conn'[c].st = ST_CLOSING \/ conn'[c].st = ST_ERROR
        /\ conn'[c].graceful = TRUE /\ conn'[c].map = {}
        /\ conn'[c].next = k.next /\ conn'[c].fd = k.fd
        /\ Written(c, Append(k.wq, Bye))
        /\ \A d \in Conns \ {c} : conn'[d] = conn[d] /\ c2s'[d] = c2s[d]
    <3>1. TypeOK BY DEF OwnerInv
    <3> QED BY <1>2, <1>8, <3>1, SendFlow, MessageTypes
  <2>2. \A d \in Conns : SameServer(d) /\ SameHeld(d) /\ taken'[d] = taken[d] BY <1>4, ClientFrame
  <2>3. SaysBye(c)
    BY <1>4, <1>6, <2>1, <2>2 DEF SaysBye, ST_CLOSE, ST_CLOSED, ST_CLOSING, ST_ERROR
  <2> QED BY <1>4, <1>8, <2>1, <2>2, <2>3, OthersQuiet
<1> QED BY <1>5, <1>7, <1>8

LEMMA DisconnectTakeFlow ==
  ASSUME OwnerInv, NEW c \in Conns, DisconnectTake(c)
  PROVE  Takes(c) /\ \A d \in Conns \ {c} : Quiet(d)
<1> DEFINE k == conn[c]
           k1 == [k EXCEPT !.st = IF @ < ST_CLOSED THEN ST_CLOSED ELSE @,
                           !.fd = FALSE, !.wq = <<>>, !.map = {}]
<1>1. k \in ConnSet /\ k.st \in Int
  <2>1. k \in ConnSet BY DEF OwnerInv, TypeOK
  <2> QED BY <2>1 DEF ConnSet, ST_INIT, ST_ERROR
<1>2. /\ k1.map = {} /\ k1.next = k.next /\ k1.fd = FALSE /\ k1.wq = <<>>
      /\ k1.graceful = k.graceful /\ k1.st = IF k.st < ST_CLOSED THEN ST_CLOSED ELSE k.st
  BY <1>1 DEF ConnSet
<1>3. k1.st \in {ST_CLOSED, ST_ERROR}
  <2>1. k.st \in ST_INIT .. ST_ERROR BY <1>1, FieldTypes
  <2> QED BY <1>2, <2>1 DEF ST_CLOSED, ST_INIT, ST_ERROR
<1>4. /\ conn'[c] = k1 /\ \A d \in Conns \ {c} : conn'[d] = conn[d]
      /\ s2c'[c] = <<>> /\ \A d \in Conns \ {c} : s2c'[d] = s2c[d]
      /\ taken'[c] = taken[c] \cup QuestsOf(k.map) /\ \A d \in Conns \ {c} : taken'[d] = taken[d]
      /\ UNCHANGED <<srvVars, broken, reader, c2s>>
  BY DEF DisconnectTake, OwnerInv, TypeOK
<1> HIDE DEF k1
<1>5. \A d \in Conns : SameServer(d) /\ SameHeld(d)
  BY <1>4 DEF srvVars, SameServer, SameHeld, HeldTrace, HeldBy
<1>6. Takes(c) BY <1>2, <1>3, <1>4, <1>5 DEF Takes
<1>7. \A d \in Conns \ {c} : Quiet(d)
  BY <1>4, <1>5 DEF Quiet, SameResults, SameState, SameQueue, SameSockets
<1> QED BY <1>6, <1>7

LEMMA DisconnectResultFlow ==
  ASSUME OwnerInv, NEW c \in Conns, NEW q \in Quests, DisconnectResult(c, q)
  PROVE  Handles(c) /\ \A d \in Conns \ {c} : Quiet(d)
<1>1. /\ taken'[c] \subseteq taken[c] /\ \A d \in Conns \ {c} : taken'[d] = taken[d]
      /\ UNCHANGED <<conn, srvVars, netVars, reader>>
  BY DEF DisconnectResult, OwnerInv, TypeOK, connVars
<1>2. \A d \in Conns : SameServer(d) /\ SameHeld(d) /\ conn'[d] = conn[d] /\ SameSockets(d)
  BY <1>1 DEF srvVars, netVars, SameServer, SameHeld, HeldTrace, HeldBy, SameSockets
<1> QED BY <1>1, <1>2 DEF Handles, Quiet, SameResults, SameState, SameQueue

-----------------------------------------------------------------------------
(* How the trace changes.                                                  *)
LEMMA TypesOf ==
  ASSUME OwnerInv, NEW c \in Conns
  PROVE  /\ conn[c] \in ConnSet /\ conn[c].st \in Int /\ conn[c].wq \in Seq(MsgSet)
         /\ conn[c].next \in Nat /\ conn[c].map \in SUBSET (Nat \X Quests)
         /\ conn[c].fd \in BOOLEAN /\ conn[c].graceful \in BOOLEAN
         /\ srv[c] \in SrvSet /\ srv[c].st \in Int /\ srv[c].wq \in Seq(MsgSet)
         /\ srv[c].fd \in BOOLEAN /\ srv[c].up \in BOOLEAN /\ srv[c].started \in BOOLEAN
         /\ c2s[c] \in Seq(MsgSet) /\ s2c[c] \in Seq(MsgSet) /\ broken[c] \in BOOLEAN
         /\ sread[c] \in SUBSET [type : {"Q"}, id : Nat, q : Quests]
         /\ executing[c] \in SUBSET (Nat \X Quests) /\ executed[c] \in SUBSET Quests
         /\ taken[c] \in SUBSET Quests
<1>1. conn[c] \in ConnSet /\ srv[c] \in SrvSet BY DEF OwnerInv, TypeOK
<1>2. /\ conn[c].st \in Int /\ conn[c].wq \in Seq(MsgSet)
      /\ conn[c].next \in Nat /\ conn[c].map \in SUBSET (Nat \X Quests)
      /\ conn[c].fd \in BOOLEAN /\ conn[c].graceful \in BOOLEAN
  BY <1>1 DEF ConnSet, ST_INIT, ST_ERROR
<1>3. /\ srv[c].st \in Int /\ srv[c].wq \in Seq(MsgSet)
      /\ srv[c].fd \in BOOLEAN /\ srv[c].up \in BOOLEAN /\ srv[c].started \in BOOLEAN
  BY <1>1 DEF SrvSet, ST_INIT, ST_ERROR
<1>4. /\ c2s[c] \in Seq(MsgSet) /\ s2c[c] \in Seq(MsgSet) /\ broken[c] \in BOOLEAN
      /\ sread[c] \in SUBSET [type : {"Q"}, id : Nat, q : Quests]
      /\ executing[c] \in SUBSET (Nat \X Quests) /\ executed[c] \in SUBSET Quests
      /\ taken[c] \in SUBSET Quests
  BY DEF OwnerInv, TypeOK
<1> QED BY <1>1, <1>2, <1>3, <1>4

LEMMA Tags ==
  ASSUME NEW c, NEW t \in Trace(c)
  PROVE  /\ t[1] = "queued" => t \in QueuedTrace(c)
         /\ t[1] = "sent" => t \in SentTrace(c)
         /\ t[1] = "read" => t \in ReadTrace(c)
         /\ t[1] = "running" => t \in RunningTrace(c)
         /\ t[1] = "answered" => t \in AnsweredTrace(c)
         /\ t[1] = "returned" => t \in ReturnedTrace(c)
         /\ t[1] = "held" => t \in HeldTrace(c)
         /\ t[1] \in {"queued", "sent", "read", "running", "answered", "returned", "held"}
<1>1. /\ \A u \in QueuedTrace(c) : u[1] = "queued"
      /\ \A u \in SentTrace(c) : u[1] = "sent"
      /\ \A u \in ReadTrace(c) : u[1] = "read"
      /\ \A u \in RunningTrace(c) : u[1] = "running"
  BY DEF QueuedTrace, SentTrace, ReadTrace, RunningTrace
<1>2. /\ \A u \in AnsweredTrace(c) : u[1] = "answered"
      /\ \A u \in ReturnedTrace(c) : u[1] = "returned"
      /\ \A u \in HeldTrace(c) : u[1] = "held"
  BY DEF AnsweredTrace, ReturnedTrace, HeldTrace
<1> QED BY <1>1, <1>2 DEF Trace

LEMMA TagsNext ==
  ASSUME NEW c, NEW t \in Trace(c)'
  PROVE  /\ t[1] = "queued" => t \in QueuedTrace(c)'
         /\ t[1] = "sent" => t \in SentTrace(c)'
         /\ t[1] = "read" => t \in ReadTrace(c)'
         /\ t[1] = "running" => t \in RunningTrace(c)'
         /\ t[1] = "answered" => t \in AnsweredTrace(c)'
         /\ t[1] = "returned" => t \in ReturnedTrace(c)'
<1>1. /\ \A u \in QueuedTrace(c)' : u[1] = "queued"
      /\ \A u \in SentTrace(c)' : u[1] = "sent"
      /\ \A u \in ReadTrace(c)' : u[1] = "read"
      /\ \A u \in RunningTrace(c)' : u[1] = "running"
  BY DEF QueuedTrace, SentTrace, ReadTrace, RunningTrace
<1>2. /\ \A u \in AnsweredTrace(c)' : u[1] = "answered"
      /\ \A u \in ReturnedTrace(c)' : u[1] = "returned"
      /\ \A u \in HeldTrace(c)' : u[1] = "held"
  BY DEF AnsweredTrace, ReturnedTrace, HeldTrace
<1> QED BY <1>1, <1>2 DEF Trace

LEMMA InTrace ==
  ASSUME NEW c
  PROVE  UNION {QueuedTrace(c), SentTrace(c), ReadTrace(c), RunningTrace(c)} \subseteq Trace(c)
         /\ UNION {AnsweredTrace(c), ReturnedTrace(c), HeldTrace(c)} \subseteq Trace(c)
BY DEF Trace

LEMMA Shrunk ==
  ASSUME NEW c, QuestsIn(conn'[c].wq) \subseteq QuestsIn(conn[c].wq),
         QuestsIn(c2s'[c]) \subseteq QuestsIn(c2s[c]), sread'[c] \subseteq sread[c],
         executing'[c] \subseteq executing[c],
         AnswersIn(srv'[c].wq) \subseteq AnswersIn(srv[c].wq),
         AnswersIn(s2c'[c]) \subseteq AnswersIn(s2c[c]), HeldTrace(c)' \subseteq HeldTrace(c)
  PROVE  Trace(c)' \subseteq Trace(c)
<1>1. /\ QueuedTrace(c)' \subseteq QueuedTrace(c) /\ SentTrace(c)' \subseteq SentTrace(c)
      /\ ReadTrace(c)' \subseteq ReadTrace(c) /\ RunningTrace(c)' \subseteq RunningTrace(c)
      /\ AnsweredTrace(c)' \subseteq AnsweredTrace(c) /\ ReturnedTrace(c)' \subseteq ReturnedTrace(c)
  BY StageKept
<1> QED BY <1>1 DEF Trace

LEMMA Moving ==
  ASSUME NEW c, NEW t \in Trace(c), NEW u, u[3] = t[3], u[4] = t[4], u \in Trace(c)',
         Served(u) => Served(t) \/ u[4] \in executed'[c],
         t \notin Trace(c)',
         QueuedTrace(c)' \subseteq QueuedTrace(c) \cup {u}, SentTrace(c)' \subseteq SentTrace(c) \cup {u},
         ReadTrace(c)' \subseteq ReadTrace(c) \cup {u}, RunningTrace(c)' \subseteq RunningTrace(c) \cup {u},
         AnsweredTrace(c)' \subseteq AnsweredTrace(c) \cup {u},
         ReturnedTrace(c)' \subseteq ReturnedTrace(c) \cup {u},
         HeldTrace(c)' \subseteq HeldTrace(c) \cup {u}
  PROVE  MovesOn(c, t, u)
<1>1. Trace(c)' \subseteq Trace(c) \cup {u} BY DEF Trace
<1> QED BY <1>1 DEF MovesOn

\* The first message of its kind is not found again.
LEMMA FirstOnce ==
  ASSUME NEW s \in Seq(MsgSet), s # <<>>, NEW ty \in {"Q", "A"}, Once(s, ty), Head(s).type = ty
  PROVE  \A x \in InSeq(Tail(s)) : x.type = ty => ~(x.id = Head(s).id /\ x.q = Head(s).q)
<1>1. Head(s) \notin InSeq(Tail(s)) /\ Head(s) \in MsgSet /\ Tail(s) \in Seq(MsgSet)
  BY OnceSeq, InTail
<1> SUFFICES ASSUME NEW x \in InSeq(Tail(s)), x.type = ty, x.id = Head(s).id, x.q = Head(s).q
             PROVE  FALSE
  OBVIOUS
<1>2. x \in MsgSet BY <1>1 DEF InSeq
<1>3. x \in [type : {"Q", "A"}, id : Nat, q : Quests] BY <1>2 DEF MsgSet, Hello, Bye, Msg
<1>4. Head(s) \in [type : {"Q", "A"}, id : Nat, q : Quests] BY <1>1 DEF MsgSet, Hello, Bye, Msg
<1>5. x = Head(s) BY <1>3, <1>4
<1> QED BY <1>1, <1>5

LEMMA QueuedToSent ==
  ASSUME OwnerInv, NEW c \in Conns, OnePlace(c), conn[c].wq # <<>>, NEW m, m = Head(conn[c].wq),
         m.type = "Q", conn'[c].wq = Tail(conn[c].wq), c2s'[c] = Append(c2s[c], m),
         SameServer(c), SameHeld(c), AnswersIn(s2c'[c]) \subseteq AnswersIn(s2c[c])
  PROVE  /\ MovesOn(c, <<"queued", None, m.id, m.q>>, <<"sent", None, m.id, m.q>>)
         /\ m \notin InSeq(c2s[c])
<1> DEFINE t == <<"queued", None, m.id, m.q>>
           u == <<"sent", None, m.id, m.q>>
<1>1. m \in QuestsIn(conn[c].wq) /\ m \in MsgSet BY TypesOf, InTail DEF QuestsIn
<1>2. t \in QueuedTrace(c) /\ t \in Trace(c) BY <1>1, InTrace DEF QueuedTrace
<1>3. QuestsIn(c2s'[c]) = QuestsIn(c2s[c]) \cup {m} BY <1>1, TypesOf, PartsOf
<1>4. SentTrace(c)' = SentTrace(c) \cup {u} BY <1>3 DEF SentTrace
<1>5. u \in Trace(c)' BY <1>4 DEF Trace
<1>6. m \notin InSeq(c2s[c])
  <2> SUFFICES ASSUME m \in InSeq(c2s[c]) PROVE FALSE OBVIOUS
  <2>1. u \in SentTrace(c) BY DEF SentTrace, QuestsIn
  <2>2. u \in Trace(c) /\ u[3] = t[3] /\ u[1] # t[1] BY <2>1, InTrace
  <2> QED BY <1>2, <2>2 DEF OnePlace
<1>7. t \notin Trace(c)'
  <2> SUFFICES ASSUME t \in Trace(c)' PROVE FALSE OBVIOUS
  <2>1. t \in QueuedTrace(c)' BY TagsNext
  <2>2. PICK y \in QuestsIn(Tail(conn[c].wq)) : y.id = m.id /\ y.q = m.q BY <2>1 DEF QueuedTrace
  <2> QED BY <2>2, TypesOf, FirstOnce DEF QuestsIn, OnePlace, AllOnce
<1>8. /\ QueuedTrace(c)' \subseteq QueuedTrace(c) /\ ReadTrace(c)' \subseteq ReadTrace(c)
      /\ RunningTrace(c)' \subseteq RunningTrace(c)
      /\ AnsweredTrace(c)' \subseteq AnsweredTrace(c) /\ ReturnedTrace(c)' \subseteq ReturnedTrace(c)
  <2>1. QuestsIn(conn'[c].wq) \subseteq QuestsIn(conn[c].wq) BY TypesOf, PartsOf
  <2> QED BY <2>1, StageKept DEF SameServer
<1>9. HeldTrace(c)' = HeldTrace(c) BY DEF SameHeld
<1>10. ~Served(u) /\ u[3] = t[3] /\ u[4] = t[4] BY DEF Served
<1> HIDE DEF t, u
<1>11. MovesOn(c, t, u) BY <1>2, <1>4, <1>5, <1>7, <1>8, <1>9, <1>10, Moving
<1> QED BY <1>6, <1>11 DEF t, u

LEMMA SentToRead ==
  ASSUME OwnerInv, NEW c \in Conns, OnePlace(c), c2s[c] # <<>>, NEW m, m = Head(c2s[c]),
         m.type = "Q", c2s'[c] = Tail(c2s[c]), sread'[c] = sread[c] \cup {m},
         conn'[c] = conn[c], srv'[c] = srv[c], executing'[c] = executing[c], s2c'[c] = s2c[c],
         SameHeld(c)
  PROVE  MovesOn(c, <<"sent", None, m.id, m.q>>, <<"read", None, m.id, m.q>>)
<1> DEFINE t == <<"sent", None, m.id, m.q>>
           u == <<"read", None, m.id, m.q>>
<1>1. m \in QuestsIn(c2s[c]) /\ m \in MsgSet BY TypesOf, InTail DEF QuestsIn
<1>2. t \in SentTrace(c) /\ t \in Trace(c) BY <1>1, InTrace DEF SentTrace
<1>4. ReadTrace(c)' = ReadTrace(c) \cup {u} BY DEF ReadTrace
<1>5. u \in Trace(c)' BY <1>4 DEF Trace
<1>7. t \notin Trace(c)'
  <2> SUFFICES ASSUME t \in Trace(c)' PROVE FALSE OBVIOUS
  <2>1. t \in SentTrace(c)' BY TagsNext
  <2>2. PICK y \in QuestsIn(Tail(c2s[c])) : y.id = m.id /\ y.q = m.q BY <2>1 DEF SentTrace
  <2> QED BY <2>2, TypesOf, FirstOnce DEF QuestsIn, OnePlace, AllOnce
<1>8. /\ QueuedTrace(c)' \subseteq QueuedTrace(c) /\ SentTrace(c)' \subseteq SentTrace(c)
      /\ RunningTrace(c)' \subseteq RunningTrace(c)
      /\ AnsweredTrace(c)' \subseteq AnsweredTrace(c) /\ ReturnedTrace(c)' \subseteq ReturnedTrace(c)
  <2>1. QuestsIn(c2s'[c]) \subseteq QuestsIn(c2s[c]) BY TypesOf, PartsOf
  <2> QED BY <2>1, StageKept
<1>9. HeldTrace(c)' = HeldTrace(c) BY DEF SameHeld
<1>10. ~Served(u) /\ u[3] = t[3] /\ u[4] = t[4] BY DEF Served
<1> HIDE DEF t, u
<1>11. MovesOn(c, t, u) BY <1>2, <1>4, <1>5, <1>7, <1>8, <1>9, <1>10, Moving
<1> QED BY <1>11 DEF t, u

LEMMA ReadToRunning ==
  ASSUME OwnerInv, NEW c \in Conns, OnePlace(c), NEW m \in sread[c],
         sread'[c] = sread[c] \ {m}, executing'[c] = executing[c] \cup {<<m.id, m.q>>},
         executed'[c] = executed[c] \cup {m.q},
         conn'[c] = conn[c], srv'[c].wq = srv[c].wq, c2s'[c] = c2s[c], s2c'[c] = s2c[c],
         SameHeld(c)
  PROVE  /\ MovesOn(c, <<"read", None, m.id, m.q>>, <<"running", None, m.id, m.q>>)
         /\ <<m.id, m.q>> \notin executing[c]
<1> DEFINE t == <<"read", None, m.id, m.q>>
           u == <<"running", None, m.id, m.q>>
<1>1. m \in [type : {"Q"}, id : Nat, q : Quests] BY TypesOf
<1>2. t \in ReadTrace(c) /\ t \in Trace(c) BY InTrace DEF ReadTrace
<1>4. RunningTrace(c)' = RunningTrace(c) \cup {u}
  <2>1. u = <<"running", None, <<m.id, m.q>>[1], <<m.id, m.q>>[2]>> OBVIOUS
  <2> QED BY <2>1 DEF RunningTrace
<1>5. u \in Trace(c)' BY <1>4 DEF Trace
<1>6. <<m.id, m.q>> \notin executing[c]
  <2> SUFFICES ASSUME <<m.id, m.q>> \in executing[c] PROVE FALSE OBVIOUS
  <2>1. u \in RunningTrace(c) BY DEF RunningTrace
  <2>2. u \in Trace(c) /\ u[3] = t[3] /\ u[1] # t[1] BY <2>1, InTrace
  <2> QED BY <1>2, <2>2 DEF OnePlace
<1>7. t \notin Trace(c)'
  <2> SUFFICES ASSUME t \in Trace(c)' PROVE FALSE OBVIOUS
  <2>1. t \in ReadTrace(c)' BY TagsNext
  <2>2. PICK y \in sread[c] \ {m} : y.id = m.id /\ y.q = m.q BY <2>1 DEF ReadTrace
  <2>3. y \in [type : {"Q"}, id : Nat, q : Quests] BY TypesOf
  <2>4. y = m BY <1>1, <2>2, <2>3
  <2> QED BY <2>2, <2>4
<1>8. /\ QueuedTrace(c)' \subseteq QueuedTrace(c) /\ SentTrace(c)' \subseteq SentTrace(c)
      /\ ReadTrace(c)' \subseteq ReadTrace(c)
      /\ AnsweredTrace(c)' \subseteq AnsweredTrace(c) /\ ReturnedTrace(c)' \subseteq ReturnedTrace(c)
  BY StageKept
<1>9. HeldTrace(c)' = HeldTrace(c) BY DEF SameHeld
<1>10. u[4] \in executed'[c] /\ u[3] = t[3] /\ u[4] = t[4] OBVIOUS
<1> HIDE DEF t, u
<1>11. MovesOn(c, t, u) BY <1>2, <1>4, <1>5, <1>7, <1>8, <1>9, <1>10, Moving
<1> QED BY <1>6, <1>11 DEF t, u

LEMMA RunningToAnswered ==
  ASSUME OwnerInv, NEW c \in Conns, OnePlace(c), NEW e \in executing[c],
         NEW z \in Seq(MsgSet), AnswersIn(z) = AnswersIn(srv[c].wq) \cup {Msg("A", e[1], e[2])},
         executing'[c] = executing[c] \ {e}, srv'[c].wq = z,
         conn'[c] = conn[c], sread'[c] = sread[c], c2s'[c] = c2s[c], s2c'[c] = s2c[c],
         SameHeld(c)
  PROVE  /\ MovesOn(c, <<"running", None, e[1], e[2]>>, <<"answered", None, e[1], e[2]>>)
         /\ Msg("A", e[1], e[2]) \notin InSeq(srv[c].wq)
<1> DEFINE t == <<"running", None, e[1], e[2]>>
           u == <<"answered", None, e[1], e[2]>>
           m == Msg("A", e[1], e[2])
<1>1. e \in Nat \X Quests /\ m.id = e[1] /\ m.q = e[2] /\ m.type = "A" BY TypesOf DEF Msg
<1>2. t \in RunningTrace(c) /\ t \in Trace(c) BY InTrace DEF RunningTrace
<1> HIDE DEF m
<1>4. AnsweredTrace(c)' = AnsweredTrace(c) \cup {u}
  <2>1. AnswersIn(srv'[c].wq) = AnswersIn(srv[c].wq) \cup {m} BY DEF m
  <2>2. u = <<"answered", None, m.id, m.q>> BY <1>1
  <2> QED BY <2>1, <2>2 DEF AnsweredTrace
<1>5. u \in Trace(c)' BY <1>4 DEF Trace
<1>6. m \notin InSeq(srv[c].wq)
  <2> SUFFICES ASSUME m \in InSeq(srv[c].wq) PROVE FALSE OBVIOUS
  <2>1. u \in AnsweredTrace(c) BY <1>1 DEF AnsweredTrace, AnswersIn
  <2>2. u \in Trace(c) /\ u[3] = t[3] /\ u[1] # t[1] BY <2>1, InTrace
  <2> QED BY <1>2, <2>2 DEF OnePlace
<1>7. t \notin Trace(c)'
  <2> SUFFICES ASSUME t \in Trace(c)' PROVE FALSE OBVIOUS
  <2>1. t \in RunningTrace(c)' BY TagsNext
  <2>2. PICK y \in executing[c] \ {e} : y[1] = e[1] /\ y[2] = e[2] BY <2>1 DEF RunningTrace
  <2>3. y \in Nat \X Quests BY TypesOf
  <2>4. y = e BY <1>1, <2>2, <2>3
  <2> QED BY <2>2, <2>4
<1>8. /\ QueuedTrace(c)' \subseteq QueuedTrace(c) /\ SentTrace(c)' \subseteq SentTrace(c)
      /\ ReadTrace(c)' \subseteq ReadTrace(c) /\ RunningTrace(c)' \subseteq RunningTrace(c)
      /\ ReturnedTrace(c)' \subseteq ReturnedTrace(c)
  BY StageKept
<1>9. HeldTrace(c)' = HeldTrace(c) BY DEF SameHeld
<1>10. Served(t) /\ u[3] = t[3] /\ u[4] = t[4] BY DEF Served
<1> HIDE DEF t, u
<1>11. MovesOn(c, t, u) BY <1>2, <1>4, <1>5, <1>7, <1>8, <1>9, <1>10, Moving
<1> QED BY <1>6, <1>11 DEF t, u, m

LEMMA AnsweredToReturned ==
  ASSUME OwnerInv, NEW c \in Conns, OnePlace(c), srv[c].wq # <<>>, NEW m, m = Head(srv[c].wq),
         m.type = "A", srv'[c].wq = Tail(srv[c].wq), s2c'[c] = Append(s2c[c], m),
         conn'[c] = conn[c], sread'[c] = sread[c], executing'[c] = executing[c], c2s'[c] = c2s[c],
         SameHeld(c)
  PROVE  /\ MovesOn(c, <<"answered", None, m.id, m.q>>, <<"returned", None, m.id, m.q>>)
         /\ m \notin InSeq(s2c[c])
<1> DEFINE t == <<"answered", None, m.id, m.q>>
           u == <<"returned", None, m.id, m.q>>
<1>1. m \in AnswersIn(srv[c].wq) /\ m \in MsgSet BY TypesOf, InTail DEF AnswersIn
<1>2. t \in AnsweredTrace(c) /\ t \in Trace(c) BY <1>1, InTrace DEF AnsweredTrace
<1>3. AnswersIn(s2c'[c]) = AnswersIn(s2c[c]) \cup {m} BY <1>1, TypesOf, PartsOf
<1>4. ReturnedTrace(c)' = ReturnedTrace(c) \cup {u} BY <1>3 DEF ReturnedTrace
<1>5. u \in Trace(c)' BY <1>4 DEF Trace
<1>6. m \notin InSeq(s2c[c])
  <2> SUFFICES ASSUME m \in InSeq(s2c[c]) PROVE FALSE OBVIOUS
  <2>1. u \in ReturnedTrace(c) BY DEF ReturnedTrace, AnswersIn
  <2>2. u \in Trace(c) /\ u[3] = t[3] /\ u[1] # t[1] BY <2>1, InTrace
  <2> QED BY <1>2, <2>2 DEF OnePlace
<1>7. t \notin Trace(c)'
  <2> SUFFICES ASSUME t \in Trace(c)' PROVE FALSE OBVIOUS
  <2>1. t \in AnsweredTrace(c)' BY TagsNext
  <2>2. PICK y \in AnswersIn(Tail(srv[c].wq)) : y.id = m.id /\ y.q = m.q BY <2>1 DEF AnsweredTrace
  <2> QED BY <2>2, TypesOf, FirstOnce DEF AnswersIn, OnePlace, AllOnce
<1>8. /\ QueuedTrace(c)' \subseteq QueuedTrace(c) /\ SentTrace(c)' \subseteq SentTrace(c)
      /\ ReadTrace(c)' \subseteq ReadTrace(c) /\ RunningTrace(c)' \subseteq RunningTrace(c)
      /\ AnsweredTrace(c)' \subseteq AnsweredTrace(c)
  <2>1. AnswersIn(srv'[c].wq) \subseteq AnswersIn(srv[c].wq) BY TypesOf, PartsOf
  <2> QED BY <2>1, StageKept
<1>9. HeldTrace(c)' = HeldTrace(c) BY DEF SameHeld
<1>10. Served(t) /\ u[3] = t[3] /\ u[4] = t[4] BY DEF Served
<1> HIDE DEF t, u
<1>11. MovesOn(c, t, u) BY <1>2, <1>4, <1>5, <1>7, <1>8, <1>9, <1>10, Moving
<1> QED BY <1>6, <1>11 DEF t, u

LEMMA ReturnedToHeld ==
  ASSUME OwnerInv, NEW c \in Conns, OnePlace(c), NEW r, GetsAnswer(c, r), NEW m, m = Head(s2c[c])
  PROVE  MovesOn(c, <<"returned", None, m.id, m.q>>, <<"held", r, m.id, m.q>>)
<1> DEFINE t == <<"returned", None, m.id, m.q>>
           u == <<"held", r, m.id, m.q>>
<1>0. /\ SameServer(c) /\ conn'[c].wq = conn[c].wq /\ c2s'[c] = c2s[c]
      /\ s2c[c] # <<>> /\ m.type = "A" /\ s2c'[c] = Tail(s2c[c])
      /\ HeldTrace(c)' = HeldTrace(c) \cup {u}
  BY DEF GetsAnswer
<1>1. m \in AnswersIn(s2c[c]) /\ m \in MsgSet BY <1>0, TypesOf, InTail DEF AnswersIn
<1>2. t \in ReturnedTrace(c) /\ t \in Trace(c) BY <1>1, InTrace DEF ReturnedTrace
<1>5. u \in Trace(c)' BY <1>0 DEF Trace
<1>7. t \notin Trace(c)'
  <2> SUFFICES ASSUME t \in Trace(c)' PROVE FALSE OBVIOUS
  <2>1. t \in ReturnedTrace(c)' BY TagsNext
  <2>2. PICK y \in AnswersIn(Tail(s2c[c])) : y.id = m.id /\ y.q = m.q BY <1>0, <2>1 DEF ReturnedTrace
  <2> QED BY <1>0, <2>2, TypesOf, FirstOnce DEF AnswersIn, OnePlace, AllOnce
<1>8. /\ QueuedTrace(c)' \subseteq QueuedTrace(c) /\ SentTrace(c)' \subseteq SentTrace(c)
      /\ ReadTrace(c)' \subseteq ReadTrace(c) /\ RunningTrace(c)' \subseteq RunningTrace(c)
      /\ AnsweredTrace(c)' \subseteq AnsweredTrace(c) /\ ReturnedTrace(c)' \subseteq ReturnedTrace(c)
  <2>1. AnswersIn(s2c'[c]) \subseteq AnswersIn(s2c[c]) BY <1>0, TypesOf, PartsOf
  <2> QED BY <1>0, <2>1, StageKept DEF SameServer
<1>10. Served(t) /\ u[3] = t[3] /\ u[4] = t[4] BY DEF Served
<1>11. HeldTrace(c)' \subseteq HeldTrace(c) \cup {u} BY <1>0
<1> HIDE DEF t, u
<1>12. MovesOn(c, t, u) BY <1>2, <1>5, <1>7, <1>8, <1>10, <1>11, Moving
<1> QED BY <1>12 DEF t, u

-----------------------------------------------------------------------------
(* Sequences that get no new message of a type.                            *)
NoNew(s, z, ty) ==
  \/ z = s
  \/ s # <<>> /\ z = Tail(s)
  \/ z = <<>>
  \/ \E m \in MsgSet : m.type # ty /\ z = Append(s, m)

LEMMA NoNewSeq ==
  ASSUME NEW s \in Seq(MsgSet), NEW z, NEW ty, NoNew(s, z, ty)
  PROVE  /\ Once(s, ty) => Once(z, ty)
         /\ ty = "Q" => QuestsIn(z) \subseteq QuestsIn(s)
         /\ ty = "A" => AnswersIn(z) \subseteq AnswersIn(s)
<1>1. CASE z = s BY <1>1
<1>2. CASE s # <<>> /\ z = Tail(s) BY <1>2, OnceSeq, PartsOf
<1>3. CASE z = <<>> BY <1>3, EmptyParts
<1>4. CASE \E m \in MsgSet : m.type # ty /\ z = Append(s, m) BY <1>4, OnceSeq, PartsOf
<1> QED BY <1>1, <1>2, <1>3, <1>4 DEF NoNew

LEMMA NoNewFlow ==
  ASSUME OwnerInv, NEW c \in Conns, AllOnce(c),
         NoNew(conn[c].wq, conn'[c].wq, "Q"), NoNew(c2s[c], c2s'[c], "Q"),
         NoNew(srv[c].wq, srv'[c].wq, "A"), NoNew(s2c[c], s2c'[c], "A"),
         sread'[c] \subseteq sread[c], executing'[c] \subseteq executing[c],
         HeldTrace(c)' \subseteq HeldTrace(c)
  PROVE  Trace(c)' \subseteq Trace(c) /\ AllOnce(c)'
<1>1. /\ Once(conn'[c].wq, "Q") /\ QuestsIn(conn'[c].wq) \subseteq QuestsIn(conn[c].wq)
      /\ Once(c2s'[c], "Q") /\ QuestsIn(c2s'[c]) \subseteq QuestsIn(c2s[c])
  BY TypesOf, NoNewSeq DEF AllOnce
<1>2. /\ Once(srv'[c].wq, "A") /\ AnswersIn(srv'[c].wq) \subseteq AnswersIn(srv[c].wq)
      /\ Once(s2c'[c], "A") /\ AnswersIn(s2c'[c]) \subseteq AnswersIn(s2c[c])
  BY TypesOf, NoNewSeq DEF AllOnce
<1>3. Trace(c)' \subseteq Trace(c) BY <1>1, <1>2, Shrunk
<1> QED BY <1>1, <1>2, <1>3 DEF AllOnce

LEMMA SeenMoved ==
  ASSUME NEW c, Moved(c) PROVE Seen(c)' \subseteq Seen(c)
<1> SUFFICES ASSUME NEW x \in Seen(c)' PROVE x \in Seen(c) OBVIOUS
<1>1. PICK v \in Trace(c)' : x = <<v[3], v[4]>> BY DEF Seen
<1>2. CASE v \in Trace(c) BY <1>1, <1>2 DEF Seen
<1>3. CASE v \notin Trace(c)
  <2>1. PICK t, u : MovesOn(c, t, u) BY <1>1, <1>3 DEF Moved
  <2>2. v = u /\ t \in Trace(c) /\ u[3] = t[3] /\ u[4] = t[4] BY <1>1, <1>3, <2>1 DEF MovesOn
  <2> QED BY <1>1, <2>2 DEF Seen
<1> QED BY <1>2, <1>3

(* What a step that lets nothing enter preserves.                          *)
LEMMA FlowKept ==
  ASSUME OwnerInv, NEW c \in Conns, FlowAt(c), Moved(c), AllOnce(c)',
         conn'[c].map \subseteq conn[c].map, conn'[c].next = conn[c].next,
         conn'[c].st < ST_CLOSED =>
           conn[c].st < ST_CLOSED /\ (conn'[c].map = conn[c].map \/ Seen(c)' \subseteq conn'[c].map)
  PROVE  FlowAt(c)'
<1>1. Seen(c)' \subseteq Seen(c) BY SeenMoved
<1>2. IdsGiven(c)' BY <1>1 DEF FlowAt, IdsGiven
<1>3. Matching(c)' BY <1>1 DEF FlowAt, Matching
<1>4. SeenInMap(c)' BY <1>1 DEF FlowAt, SeenInMap
<1>5. ASSUME NEW v \in Trace(c)', NEW w \in Trace(c)', v[3] = w[3] PROVE v = w
  <2>1. CASE Trace(c)' \subseteq Trace(c) BY <1>5, <2>1 DEF FlowAt, OnePlace
  <2>2. CASE \E t, u : MovesOn(c, t, u)
    <3>1. PICK t, u : MovesOn(c, t, u) BY <2>2
    <3>2. /\ t \in Trace(c) /\ u[3] = t[3]
          /\ v = u \/ (v \in Trace(c) /\ v # t)
          /\ w = u \/ (w \in Trace(c) /\ w # t)
      BY <1>5, <3>1 DEF MovesOn
    <3> QED BY <1>5, <3>2 DEF FlowAt, OnePlace
  <2> QED BY <2>1, <2>2 DEF Moved
<1>6. OnePlace(c)' BY <1>5 DEF OnePlace
<1> QED BY <1>2, <1>3, <1>4, <1>6 DEF FlowAt

LEMMA ServedKept ==
  ASSUME NEW c \in Conns, ServedAt(c), Moved(c), executed[c] \subseteq executed'[c]
  PROVE  ServedAt(c)'
<1> SUFFICES ASSUME NEW v \in Trace(c)', Served(v) PROVE v[4] \in executed'[c] BY DEF ServedAt, Served
<1>1. CASE v \in Trace(c) BY <1>1 DEF ServedAt
<1>2. CASE v \notin Trace(c)
  <2>1. PICK t, u : MovesOn(c, t, u) BY <1>2 DEF Moved
  <2>2. v = u /\ t \in Trace(c) /\ u[4] = t[4] /\ (Served(t) \/ u[4] \in executed'[c])
    BY <1>2, <2>1 DEF MovesOn
  <2> QED BY <2>2 DEF ServedAt
<1> QED BY <1>1, <1>2

(* When Bye is queued the connection is empty.                             *)
LEMMA EmptyAtBye ==
  ASSUME OwnerInv, NEW c \in Conns, FlowAt(c), SaysBye(c),
         \/ SameHeld(c) /\ conn[c].map = {}
         \/ \E r \in Readers, x \in Nat \X Quests : Reads(c, r, x)
  PROVE  /\ QuestsIn(conn[c].wq) = {} /\ QuestsIn(c2s[c]) = {} /\ sread[c] = {}
         /\ executing[c] = {} /\ AnswersIn(srv[c].wq) = {} /\ AnswersIn(s2c[c]) = {}
         /\ HeldTrace(c)' = {}
<1>1. Seen(c) \subseteq conn[c].map BY DEF SaysBye, FlowAt, SeenInMap
<1>2. /\ HeldTrace(c)' = {}
      /\ \A t \in Trace(c) : t[1] = "held"
  <2>1. CASE SameHeld(c) /\ conn[c].map = {}
    <3>1. Trace(c) = {} BY <1>1, <2>1 DEF Seen
    <3> QED BY <2>1, <3>1, InTrace DEF SameHeld
  <2>2. CASE \E r \in Readers, x \in Nat \X Quests : Reads(c, r, x)
    <3>1. PICK r \in Readers, x \in Nat \X Quests : Reads(c, r, x) BY <2>2
    <3> DEFINE h == <<"held", r, x[1], x[2]>>
    <3>2. /\ h \in HeldTrace(c) /\ HeldTrace(c)' = HeldTrace(c) \ {h}
          /\ conn'[c].map = conn[c].map \ EntriesOf(conn[c], x[1])
      BY <3>1 DEF Reads
    <3>3. h \in Trace(c) /\ h[3] = x[1] /\ h[1] = "held" BY <3>2, InTrace
    <3> HIDE DEF h
    <3>4. \A p \in conn[c].map : p[1] = x[1] BY <3>2 DEF SaysBye, EntriesOf
    <3>5. ASSUME NEW t \in Trace(c) PROVE t = h
      <4>1. <<t[3], t[4]>> \in conn[c].map BY <1>1 DEF Seen
      <4>2. t[3] = x[1] BY <3>4, <4>1
      <4> QED BY <3>3, <4>2 DEF FlowAt, OnePlace
    <3>6. HeldTrace(c) \subseteq {h} BY <3>5, InTrace
    <3> QED BY <3>2, <3>3, <3>5, <3>6
  <2> QED BY <2>1, <2>2
<1>3. QuestsIn(conn[c].wq) = {}
  <2> SUFFICES ASSUME NEW m \in QuestsIn(conn[c].wq) PROVE FALSE OBVIOUS
  <2>1. <<"queued", None, m.id, m.q>> \in QueuedTrace(c) BY DEF QueuedTrace
  <2> QED BY <1>2, <2>1, InTrace
<1>4. QuestsIn(c2s[c]) = {}
  <2> SUFFICES ASSUME NEW m \in QuestsIn(c2s[c]) PROVE FALSE OBVIOUS
  <2>1. <<"sent", None, m.id, m.q>> \in SentTrace(c) BY DEF SentTrace
  <2> QED BY <1>2, <2>1, InTrace
<1>5. sread[c] = {}
  <2> SUFFICES ASSUME NEW m \in sread[c] PROVE FALSE OBVIOUS
  <2>1. <<"read", None, m.id, m.q>> \in ReadTrace(c) BY DEF ReadTrace
  <2> QED BY <1>2, <2>1, InTrace
<1>6. executing[c] = {}
  <2> SUFFICES ASSUME NEW e \in executing[c] PROVE FALSE OBVIOUS
  <2>1. <<"running", None, e[1], e[2]>> \in RunningTrace(c) BY DEF RunningTrace
  <2> QED BY <1>2, <2>1, InTrace
<1>7. AnswersIn(srv[c].wq) = {}
  <2> SUFFICES ASSUME NEW m \in AnswersIn(srv[c].wq) PROVE FALSE OBVIOUS
  <2>1. <<"answered", None, m.id, m.q>> \in AnsweredTrace(c) BY DEF AnsweredTrace
  <2> QED BY <1>2, <2>1, InTrace
<1>8. AnswersIn(s2c[c]) = {}
  <2> SUFFICES ASSUME NEW m \in AnswersIn(s2c[c]) PROVE FALSE OBVIOUS
  <2>1. <<"returned", None, m.id, m.q>> \in ReturnedTrace(c) BY DEF ReturnedTrace
  <2> QED BY <1>2, <2>1, InTrace
<1> QED BY <1>2, <1>3, <1>4, <1>5, <1>6, <1>7, <1>8

-----------------------------------------------------------------------------
(* The flow of a connection under the steps of the client.                 *)
LEMMA QuietKept ==
  ASSUME OwnerInv, NEW c \in Conns, FlowAt(c), Quiet(c) \/ Handles(c) \/ Made(c) \/ GetsBye(c)
  PROVE  FlowAt(c)' /\ Moved(c)
<1>1. /\ SameServer(c) /\ SameHeld(c) /\ SameResults(c) /\ conn'[c].wq = conn[c].wq
      /\ c2s'[c] = c2s[c]
      /\ s2c'[c] = s2c[c] \/ (s2c[c] # <<>> /\ s2c'[c] = Tail(s2c[c]))
      /\ conn'[c].st < ST_CLOSED => conn[c].st < ST_CLOSED
  BY TypesOf DEF Quiet, Handles, Made, GetsBye, SameState, SameQueue, SameSockets
<1>2. Trace(c)' \subseteq Trace(c) /\ AllOnce(c)'
  BY <1>1, NoNewFlow DEF FlowAt, OnePlace, SameServer, SameHeld, NoNew
<1>3. Moved(c) BY <1>2 DEF Moved
<1> QED BY <1>1, <1>2, <1>3, FlowKept DEF SameResults

LEMMA DropsKept ==
  ASSUME OwnerInv, NEW c \in Conns, FlowAt(c), NEW id, Drops(c, id)
  PROVE  FlowAt(c)' /\ Moved(c)
<1>1. /\ SameServer(c) /\ SameHeld(c) /\ SameState(c) /\ SameQueue(c)
      /\ conn'[c].map = conn[c].map \ EntriesOf(conn[c], id)
      /\ conn'[c].next = conn[c].next
      /\ conn[c].st >= ST_CLOSED \/ \A x \in Seen(c) : x[1] # id
  BY DEF Drops
<1>2. Trace(c)' \subseteq Trace(c) /\ AllOnce(c)'
  BY <1>1, NoNewFlow DEF FlowAt, OnePlace, SameServer, SameHeld, SameQueue, SameSockets, NoNew
<1>3. Moved(c) BY <1>2 DEF Moved
<1>4. ASSUME conn'[c].st < ST_CLOSED PROVE conn[c].st < ST_CLOSED /\ Seen(c)' \subseteq conn'[c].map
  <2>1. conn[c].st < ST_CLOSED /\ conn[c].st \in Int BY <1>1, <1>4, TypesOf DEF SameState
  <2>2. \A x \in Seen(c) : x[1] # id BY <1>1, <2>1 DEF ST_CLOSED
  <2>3. Seen(c) \subseteq conn[c].map /\ Seen(c)' \subseteq Seen(c)
    BY <1>3, <2>1, SeenMoved DEF FlowAt, SeenInMap
  <2> QED BY <1>1, <2>1, <2>2, <2>3 DEF EntriesOf
<1> QED BY <1>1, <1>2, <1>3, <1>4, FlowKept

LEMMA TakesKept ==
  ASSUME OwnerInv, NEW c \in Conns, FlowAt(c), Takes(c)
  PROVE  FlowAt(c)' /\ Moved(c)
<1>1. Trace(c)' \subseteq Trace(c) /\ AllOnce(c)'
  BY NoNewFlow DEF Takes, FlowAt, OnePlace, SameServer, SameHeld, NoNew
<1>2. Moved(c) BY <1>1 DEF Moved
<1>3. ~(conn'[c].st < ST_CLOSED)
  BY DEF Takes, ST_CLOSED, ST_ERROR
<1> QED BY <1>1, <1>2, <1>3, FlowKept DEF Takes

LEMMA ReadsKept ==
  ASSUME OwnerInv, NEW c \in Conns, FlowAt(c), NEW r, NEW x, Reads(c, r, x), KeepsOpen(c)
  PROVE  FlowAt(c)' /\ Moved(c)
<1> DEFINE h == <<"held", r, x[1], x[2]>>
<1>1. /\ h \in HeldTrace(c) /\ HeldTrace(c)' = HeldTrace(c) \ {h}
      /\ conn'[c].map = conn[c].map \ EntriesOf(conn[c], x[1])
      /\ conn'[c].next = conn[c].next
      /\ SameServer(c) /\ SameQueue(c)
  BY DEF Reads, KeepsOpen
<1>2. Trace(c)' \subseteq Trace(c) /\ AllOnce(c)'
  BY <1>1, NoNewFlow DEF FlowAt, OnePlace, SameServer, SameQueue, SameSockets, NoNew
<1>3. Moved(c) BY <1>2 DEF Moved
<1>4. h \in Trace(c) /\ h[3] = x[1] /\ h[1] = "held" BY <1>1, InTrace
<1>5. h \notin Trace(c)'
  <2>1. /\ \A u \in QueuedTrace(c)' : u[1] = "queued"
        /\ \A u \in SentTrace(c)' : u[1] = "sent"
        /\ \A u \in ReadTrace(c)' : u[1] = "read"
        /\ \A u \in RunningTrace(c)' : u[1] = "running"
    BY DEF QueuedTrace, SentTrace, ReadTrace, RunningTrace
  <2>2. /\ \A u \in AnsweredTrace(c)' : u[1] = "answered"
        /\ \A u \in ReturnedTrace(c)' : u[1] = "returned"
        /\ h \notin HeldTrace(c)'
    BY <1>1 DEF AnsweredTrace, ReturnedTrace
  <2> QED BY <1>4, <2>1, <2>2 DEF Trace
<1> HIDE DEF h
<1>6. \A y \in Seen(c)' : y[1] # x[1]
  <2> SUFFICES ASSUME NEW t \in Trace(c)', t[3] = x[1] PROVE FALSE BY DEF Seen
  <2>1. t \in Trace(c) /\ t # h BY <1>2, <1>5
  <2> QED BY <1>4, <2>1 DEF FlowAt, OnePlace
<1>7. ASSUME conn'[c].st < ST_CLOSED PROVE conn[c].st < ST_CLOSED /\ Seen(c)' \subseteq conn'[c].map
  <2>1. conn'[c].st = conn[c].st BY <1>7 DEF KeepsOpen, ST_CLOSED, ST_ERROR
  <2>2. Seen(c) \subseteq conn[c].map /\ Seen(c)' \subseteq Seen(c)
    BY <1>3, <1>7, <2>1, SeenMoved DEF FlowAt, SeenInMap
  <2> QED BY <1>1, <1>6, <1>7, <2>1, <2>2 DEF EntriesOf
<1> QED BY <1>1, <1>2, <1>3, <1>7, FlowKept

LEMMA GetsAnswerKept ==
  ASSUME OwnerInv, NEW c \in Conns, FlowAt(c), NEW r, GetsAnswer(c, r)
  PROVE  FlowAt(c)' /\ Moved(c)
<1>1. OnePlace(c) BY DEF FlowAt
<1>2. \E t, u : MovesOn(c, t, u) BY <1>1, ReturnedToHeld
<1>3. AllOnce(c)'
  BY <1>1, TypesOf, OnceSeq DEF GetsAnswer, AllOnce, OnePlace, SameServer
<1>4. Moved(c) BY <1>2 DEF Moved
<1> QED BY <1>3, <1>4, FlowKept DEF GetsAnswer, SameResults, SameState

LEMMA WritesKept ==
  ASSUME OwnerInv, NEW c \in Conns, FlowAt(c), Writes(c)
  PROVE  FlowAt(c)' /\ Moved(c)
<1> DEFINE z == conn[c].wq
<1>0. OnePlace(c) /\ AllOnce(c) BY DEF FlowAt, OnePlace
<1>1. SameServer(c) /\ SameHeld(c) /\ NoNew(s2c[c], s2c'[c], "A") BY DEF Writes, NoNew
<1>2. Moved(c) /\ AllOnce(c)'
  <2>1. CASE conn'[c].wq = z /\ c2s'[c] = c2s[c]
    <3>1. Trace(c)' \subseteq Trace(c) /\ AllOnce(c)'
      BY <1>0, <1>1, <2>1, NoNewFlow DEF SameServer, SameHeld, NoNew
    <3> QED BY <3>1 DEF Moved
  <2>2. CASE z # <<>> /\ conn'[c].wq = Tail(z) /\ c2s'[c] = Append(c2s[c], Head(z))
             /\ Head(z).type = "Q"
    <3>1. AnswersIn(s2c'[c]) \subseteq AnswersIn(s2c[c]) /\ Once(s2c'[c], "A")
      BY <1>0, <1>1, TypesOf, NoNewSeq DEF AllOnce
    <3>2. PICK m : m = Head(z) OBVIOUS
    <3>3. /\ MovesOn(c, <<"queued", None, m.id, m.q>>, <<"sent", None, m.id, m.q>>)
          /\ m \notin InSeq(c2s[c])
      BY <1>0, <1>1, <2>2, <3>1, <3>2, QueuedToSent
    <3>4. m \in MsgSet BY <2>2, <3>2, TypesOf, InTail
    <3>5. Once(conn'[c].wq, "Q") /\ Once(c2s'[c], "Q")
      BY <1>0, <2>2, <3>2, <3>3, <3>4, TypesOf, OnceSeq DEF AllOnce
    <3>6. AllOnce(c)' BY <1>0, <1>1, <3>1, <3>5 DEF AllOnce, SameServer
    <3> QED BY <3>3, <3>6 DEF Moved
  <2>3. CASE z # <<>> /\ conn'[c].wq = Tail(z) /\ c2s'[c] = Append(c2s[c], Head(z))
             /\ Head(z).type # "Q"
    <3>1. NoNew(c2s[c], c2s'[c], "Q") /\ NoNew(z, conn'[c].wq, "Q")
      BY <2>3, TypesOf, InTail DEF NoNew
    <3>2. Trace(c)' \subseteq Trace(c) /\ AllOnce(c)'
      BY <1>0, <1>1, <3>1, NoNewFlow DEF SameServer, SameHeld, NoNew
    <3> QED BY <3>2 DEF Moved
  <2>4. CASE z # <<>> /\ conn'[c].wq = Tail(z) /\ c2s'[c] = c2s[c]
    <3>1. Trace(c)' \subseteq Trace(c) /\ AllOnce(c)'
      BY <1>0, <1>1, <2>4, NoNewFlow DEF SameServer, SameHeld, NoNew
    <3> QED BY <3>1 DEF Moved
  <2> QED BY <2>1, <2>2, <2>3, <2>4 DEF Writes, Written
<1> QED BY <1>2, FlowKept DEF Writes, SameResults

LEMMA SaysByeKept ==
  ASSUME OwnerInv, NEW c \in Conns, FlowAt(c), SaysBye(c),
         \/ SameHeld(c) /\ conn[c].map = {}
         \/ \E r \in Readers, x \in Nat \X Quests : Reads(c, r, x)
  PROVE  /\ FlowAt(c)' /\ Moved(c) /\ Trace(c)' = {}
         /\ QuestsIn(conn'[c].wq) = {} /\ QuestsIn(c2s'[c]) = {}
<1> DEFINE z == Append(conn[c].wq, Bye)
<1>1. /\ QuestsIn(conn[c].wq) = {} /\ QuestsIn(c2s[c]) = {} /\ sread[c] = {}
      /\ executing[c] = {} /\ AnswersIn(srv[c].wq) = {} /\ AnswersIn(s2c[c]) = {}
      /\ HeldTrace(c)' = {}
  BY EmptyAtBye
<1>2. z \in Seq(MsgSet) /\ QuestsIn(z) = {}
  <2>1. conn[c].wq \in Seq(MsgSet) /\ Bye \in MsgSet BY TypesOf, MessageTypes
  <2>2. Bye.type # "Q" BY DEF Bye, Msg
  <2>3. QuestsIn(z) = QuestsIn(conn[c].wq) \cup {x \in {Bye} : x.type = "Q"} BY <2>1, PartsOf
  <2> QED BY <1>1, <2>1, <2>2, <2>3, InAppend
<1> HIDE DEF z
<1>3. QuestsIn(conn'[c].wq) = {} /\ QuestsIn(c2s'[c]) = {}
  <2>1. CASE conn'[c].wq = z /\ c2s'[c] = c2s[c] BY <1>1, <1>2, <2>1
  <2>2. CASE z # <<>> /\ conn'[c].wq = Tail(z)
             /\ (c2s'[c] = c2s[c] \/ c2s'[c] = Append(c2s[c], Head(z)))
    <3>1. Head(z) \in MsgSet /\ Head(z).type # "Q" /\ QuestsIn(Tail(z)) = {}
      BY <1>2, <2>2, InTail, PartsOf
    <3>2. QuestsIn(Append(c2s[c], Head(z))) = QuestsIn(c2s[c]) \cup {x \in {Head(z)} : x.type = "Q"}
      BY <3>1, TypesOf, PartsOf
    <3> QED BY <1>1, <2>2, <3>1, <3>2
  <2> QED BY <2>1, <2>2 DEF SaysBye, Written, z
<1>4. Trace(c)' = {}
  <2>1. SameServer(c) /\ s2c'[c] = s2c[c] BY DEF SaysBye
  <2>2. /\ QueuedTrace(c)' = {} /\ SentTrace(c)' = {} /\ ReadTrace(c)' = {}
        /\ RunningTrace(c)' = {} /\ AnsweredTrace(c)' = {} /\ ReturnedTrace(c)' = {}
    BY <1>1, <1>3, <2>1 DEF SameServer, QueuedTrace, SentTrace, ReadTrace, RunningTrace,
                            AnsweredTrace, ReturnedTrace
  <2> QED BY <1>1, <2>2 DEF Trace
<1>5. Moved(c) BY <1>4 DEF Moved
<1>6. AllOnce(c)'
  <2>1. ASSUME NEW s, QuestsIn(s) = {} PROVE Once(s, "Q") BY <2>1 DEF QuestsIn, InSeq, Once
  <2>2. Once(conn'[c].wq, "Q") /\ Once(c2s'[c], "Q") BY <1>3, <2>1
  <2> QED BY <2>2 DEF FlowAt, OnePlace, AllOnce, SaysBye, SameServer
<1>7. Seen(c)' = {} BY <1>4 DEF Seen
<1> QED BY <1>3, <1>4, <1>5, <1>6, <1>7, FlowKept DEF SaysBye

LEMMA AddsTrace ==
  ASSUME OwnerInv, NEW c \in Conns, NEW q \in Quests, FlowAt(c), Adds(c, q)
  PROVE  /\ AllOnce(c)'
         /\ \E u : /\ u[3] = conn[c].next /\ u[4] = q /\ ~Served(u)
                   /\ Trace(c)' \subseteq Trace(c) \cup {u}
<1> DEFINE n == conn[c].next
           m == Msg("Q", n, q)
           z == Append(conn[c].wq, m)
           uq == <<"queued", None, n, q>>
           us == <<"sent", None, n, q>>
<1>1. /\ SameServer(c) /\ SameHeld(c) /\ s2c'[c] = s2c[c] /\ AllOnce(c)
  BY DEF Adds, FlowAt, OnePlace
<1>2. m \in MsgSet /\ n \in Nat /\ m.type = "Q" /\ m.id = n /\ m.q = q
  BY TypesOf, MessageTypes DEF Msg
<1>3. /\ uq[3] = n /\ uq[4] = q /\ ~Served(uq) /\ us[3] = n /\ us[4] = q /\ ~Served(us)
  BY DEF Served
<1>4. uq \notin Trace(c) /\ us \notin Trace(c)
  <2>1. ASSUME NEW t \in Trace(c) PROVE t[3] < n
    <3>1. <<t[3], t[4]>> \in Seen(c) BY DEF Seen
    <3> QED BY <3>1 DEF FlowAt, IdsGiven
  <2> QED BY <1>2, <1>3, <2>1
<1>5. m \notin InSeq(conn[c].wq) /\ m \notin InSeq(c2s[c])
  <2>1. ASSUME m \in InSeq(conn[c].wq) PROVE FALSE
    <3>1. uq \in QueuedTrace(c) BY <1>2, <2>1 DEF QueuedTrace, QuestsIn
    <3> QED BY <1>4, <3>1, InTrace
  <2>2. ASSUME m \in InSeq(c2s[c]) PROVE FALSE
    <3>1. us \in SentTrace(c) BY <1>2, <2>2 DEF SentTrace, QuestsIn
    <3> QED BY <1>4, <3>1, InTrace
  <2> QED BY <2>1, <2>2
<1>6. HeldTrace(c)' = HeldTrace(c) BY <1>1 DEF SameHeld
<1>7. /\ ReadTrace(c)' \subseteq ReadTrace(c) /\ RunningTrace(c)' \subseteq RunningTrace(c)
      /\ AnsweredTrace(c)' \subseteq AnsweredTrace(c) /\ ReturnedTrace(c)' \subseteq ReturnedTrace(c)
  BY <1>1, StageKept DEF SameServer
<1> HIDE DEF m, uq, us
<1>8. CASE conn'[c].wq = conn[c].wq /\ c2s'[c] = c2s[c]
  <2>1. Trace(c)' \subseteq Trace(c) /\ AllOnce(c)'
    BY <1>1, <1>8, NoNewFlow DEF SameServer, SameHeld, NoNew
  <2> QED BY <1>3, <2>1
<1>9. CASE conn'[c].wq = z /\ c2s'[c] = c2s[c]
  <2>1. QuestsIn(z) = QuestsIn(conn[c].wq) \cup {m} BY <1>2, TypesOf, PartsOf
  <2>2. QueuedTrace(c)' = QueuedTrace(c) \cup {uq}
    BY <1>2, <1>9, <2>1 DEF QueuedTrace, uq
  <2>3. SentTrace(c)' \subseteq SentTrace(c) BY <1>9, StageKept
  <2>4. Trace(c)' \subseteq Trace(c) \cup {uq} BY <1>6, <1>7, <2>2, <2>3 DEF Trace
  <2>5. Once(z, "Q") BY <1>1, <1>2, <1>5, TypesOf, OnceSeq DEF AllOnce
  <2>6. AllOnce(c)' BY <1>1, <1>9, <2>5 DEF AllOnce, SameServer
  <2> QED BY <1>3, <2>4, <2>6
<1>10. CASE conn[c].wq = <<>> /\ conn'[c].wq = Tail(z) /\ c2s'[c] = c2s[c]
  <2>1. conn'[c].wq = conn[c].wq BY <1>10
  <2>2. Trace(c)' \subseteq Trace(c) /\ AllOnce(c)'
    BY <1>1, <1>10, <2>1, NoNewFlow DEF SameServer, SameHeld, NoNew
  <2> QED BY <1>3, <2>2
<1>11. CASE conn[c].wq = <<>> /\ conn'[c].wq = Tail(z) /\ c2s'[c] = Append(c2s[c], Head(z))
  <2>1. conn'[c].wq = conn[c].wq /\ c2s'[c] = Append(c2s[c], m) BY <1>11
  <2>2. QuestsIn(c2s'[c]) = QuestsIn(c2s[c]) \cup {m} BY <1>2, <2>1, TypesOf, PartsOf
  <2>3. SentTrace(c)' = SentTrace(c) \cup {us}
    BY <1>2, <2>2 DEF SentTrace, us
  <2>4. QueuedTrace(c)' \subseteq QueuedTrace(c) BY <2>1, StageKept
  <2>5. Trace(c)' \subseteq Trace(c) \cup {us} BY <1>6, <1>7, <2>3, <2>4 DEF Trace
  <2>6. Once(c2s'[c], "Q") BY <1>1, <1>2, <1>5, <2>1, TypesOf, OnceSeq DEF AllOnce
  <2>7. AllOnce(c)' BY <1>1, <2>1, <2>6 DEF AllOnce, SameServer
  <2> QED BY <1>3, <2>5, <2>7
<1>12. Tail(z) # z
  <2>1. z \in Seq(MsgSet) /\ Len(z) = Len(conn[c].wq) + 1 /\ Len(conn[c].wq) \in Nat
    BY <1>2, TypesOf
  <2> HIDE DEF z
  <2>2. Len(Tail(z)) = Len(z) - 1 /\ Len(z) \in Nat BY <2>1
  <2>3. Len(Tail(z)) # Len(z) BY <2>2
  <2> QED BY <2>3
<1> QED BY <1>8, <1>9, <1>10, <1>11, <1>12 DEF Adds, SameQueue, SameSockets, Written, m

LEMMA AddsKept ==
  ASSUME OwnerInv, NEW c \in Conns, NEW q \in Quests, FlowAt(c), Adds(c, q)
  PROVE  /\ FlowAt(c)'
         /\ Seen(c)' \subseteq Seen(c) \cup {<<conn[c].next, q>>}
         /\ ServedAt(c) => ServedAt(c)'
         /\ ~InMap(q, c)
<1> DEFINE n == conn[c].next
           x == <<n, q>>
<1>1. PICK u : /\ u[3] = n /\ u[4] = q /\ ~Served(u)
               /\ Trace(c)' \subseteq Trace(c) \cup {u}
  BY AddsTrace
<1>2. Seen(c)' \subseteq Seen(c) \cup {x}
  <2> SUFFICES ASSUME NEW t \in Trace(c)' PROVE <<t[3], t[4]>> \in Seen(c) \cup {x} BY DEF Seen
  <2> QED BY <1>1 DEF Seen
<1>3. /\ conn[c].st < ST_CLOSED /\ conn'[c].map = conn[c].map \cup {x} /\ conn'[c].next = n + 1
      /\ conn'[c].st = conn[c].st \/ conn'[c].st = ST_ERROR
  BY DEF Adds
<1>4. n \in Nat /\ Seen(c) \subseteq conn[c].map /\ conn[c].map \in SUBSET (Nat \X Quests)
  BY <1>3, TypesOf DEF FlowAt, SeenInMap
<1>5. ~InMap(q, c) BY DEF Adds, OwnerInv, OneOwner, OwnedOnce, Sending
<1>6. \A p \in conn[c].map : p[2] # q BY <1>5 DEF InMap
<1>7. \A p \in conn[c].map : p[1] < n /\ p[1] \in Nat BY <1>4 DEF FlowAt, IdsGiven
<1>8. x[1] = n /\ x[2] = q OBVIOUS
<1> HIDE DEF x, n
<1>9. IdsGiven(c)'
  <2>1. ASSUME NEW y \in Seen(c)' \cup conn'[c].map PROVE y[1] < conn'[c].next
    <3>1. y \in conn[c].map \/ y = x BY <1>2, <1>3, <1>4
    <3> QED BY <1>3, <1>4, <1>7, <1>8, <3>1
  <2>2. ASSUME NEW p1 \in conn'[c].map, NEW p2 \in conn'[c].map, p1[1] = p2[1] PROVE p1 = p2
    <3>1. p1 \in conn[c].map \/ p1 = x BY <1>3
    <3>2. p2 \in conn[c].map \/ p2 = x BY <1>3
    <3>3. CASE p1 \in conn[c].map /\ p2 \in conn[c].map BY <2>2, <3>3 DEF FlowAt, IdsGiven
    <3> QED BY <1>4, <1>7, <1>8, <2>2, <3>1, <3>2, <3>3
  <2> QED BY <2>1, <2>2 DEF IdsGiven
<1>10. OnePlace(c)'
  <2>1. AllOnce(c)' BY AddsTrace
  <2>2. \A t \in Trace(c) : t[3] < n /\ t[3] \in Nat
    <3> SUFFICES ASSUME NEW t \in Trace(c) PROVE t[3] < n /\ t[3] \in Nat OBVIOUS
    <3>1. <<t[3], t[4]>> \in conn[c].map BY <1>4 DEF Seen
    <3> QED BY <1>7, <3>1
  <2>3. ASSUME NEW t \in Trace(c)', NEW v \in Trace(c)', t[3] = v[3] PROVE t = v
    <3>1. (t \in Trace(c) \/ t = u) /\ (v \in Trace(c) \/ v = u) BY <1>1
    <3>2. CASE t \in Trace(c) /\ v \in Trace(c) BY <2>3, <3>2 DEF FlowAt, OnePlace
    <3> QED BY <1>1, <1>4, <2>2, <2>3, <3>1, <3>2
  <2> QED BY <2>1, <2>3 DEF OnePlace
<1>11. Matching(c)'
  <2> SUFFICES ASSUME NEW y \in Seen(c)', NEW p \in conn'[c].map, y[1] = p[1] \/ y[2] = p[2]
               PROVE  y = p
    BY DEF Matching
  <2>1. (y \in Seen(c) \/ y = x) /\ (p \in conn[c].map \/ p = x) BY <1>2, <1>3
  <2>2. CASE y \in Seen(c) /\ p \in conn[c].map BY <2>2 DEF FlowAt, Matching
  <2>3. CASE y \in Seen(c) /\ p = x
    <3>1. y \in conn[c].map BY <1>4, <2>3
    <3> QED BY <1>4, <1>6, <1>7, <1>8, <2>3, <3>1
  <2>4. CASE y = x /\ p \in conn[c].map BY <1>4, <1>6, <1>7, <1>8, <2>4
  <2> QED BY <2>1, <2>2, <2>3, <2>4
<1>12. SeenInMap(c)' BY <1>2, <1>3, <1>4 DEF SeenInMap
<1>13. ASSUME ServedAt(c) PROVE ServedAt(c)'
  <2> SUFFICES ASSUME NEW t \in Trace(c)', Served(t) PROVE t[4] \in executed'[c]
    BY DEF ServedAt, Served
  <2>1. t \in Trace(c) BY <1>1
  <2>2. executed'[c] = executed[c] BY DEF Adds, SameServer
  <2> QED BY <1>13, <2>1, <2>2 DEF ServedAt
<1> QED BY <1>2, <1>5, <1>9, <1>10, <1>11, <1>12, <1>13 DEF FlowAt, x, n

(* What a step of the client does to a connection.                         *)
Unsends(c, id) ==
  /\ GivesErrors(c, id)
  /\ \/ conn[c].st >= ST_CLOSED
     \/ \E q \in Quests : <<c, q>> \in failing /\ <<c, q>> \notin failing' /\ id = txid[q]
GivesAnswer(c, id) ==
  \/ conn'[c].st = ST_ERROR
  \/ giving' = giving \cup {<<x, "answer">> : x \in QuestsOf(EntriesOf(conn[c], id))}
Effect(c) ==
  \/ Quiet(c) \/ Handles(c) \/ Made(c) \/ Writes(c) \/ GetsBye(c) \/ Takes(c)
  \/ \E r \in Readers : GetsAnswer(c, r)
  \/ \E id \in Nat : Drops(c, id) /\ Unsends(c, id)
  \/ \E q \in Quests : Adds(c, q)
  \/ SaysBye(c) /\ SameHeld(c) /\ conn[c].map = {}
  \/ \E r \in Readers, x \in Nat \X Quests :
       Reads(c, r, x) /\ GivesAnswer(c, x[1]) /\ (KeepsOpen(c) \/ SaysBye(c))

LEMMA EffectServer == ASSUME NEW c, Effect(c) PROVE SameServer(c)
BY DEF Effect, Quiet, Handles, Made, Writes, GetsBye, Takes, GetsAnswer, Drops, Adds, SaysBye,
       Reads, KeepsOpen

LEMMA EffectFlow ==
  ASSUME OwnerInv, NEW c \in Conns, FlowAt(c), ServedAt(c), Effect(c)
  PROVE  /\ FlowAt(c)' /\ ServedAt(c)'
         /\ \/ Seen(c)' \subseteq Seen(c)
            \/ \E q \in Quests : Adds(c, q) /\ Seen(c)' \subseteq Seen(c) \cup {<<conn[c].next, q>>}
<1>1. CASE \E q \in Quests : Adds(c, q) BY <1>1, AddsKept
<1>2. ASSUME ~\E q \in Quests : Adds(c, q) PROVE FlowAt(c)' /\ Moved(c)
  <2>1. CASE Quiet(c) \/ Handles(c) \/ Made(c) \/ GetsBye(c) BY <2>1, QuietKept
  <2>2. CASE Writes(c) BY <2>2, WritesKept
  <2>3. CASE Takes(c) BY <2>3, TakesKept
  <2>4. CASE \E r \in Readers : GetsAnswer(c, r) BY <2>4, GetsAnswerKept
  <2>5. CASE \E id \in Nat : Drops(c, id) BY <2>5, DropsKept
  <2>6. CASE SaysBye(c) /\ SameHeld(c) /\ conn[c].map = {} BY <2>6, SaysByeKept
  <2>7. CASE \E r \in Readers, x \in Nat \X Quests : Reads(c, r, x) /\ KeepsOpen(c)
    BY <2>7, ReadsKept
  <2>8. CASE \E r \in Readers, x \in Nat \X Quests : Reads(c, r, x) /\ SaysBye(c)
    BY <2>8, SaysByeKept
  <2> QED BY <1>2, <2>1, <2>2, <2>3, <2>4, <2>5, <2>6, <2>7, <2>8 DEF Effect
<1>3. ASSUME ~\E q \in Quests : Adds(c, q) PROVE ServedAt(c)' /\ Seen(c)' \subseteq Seen(c)
  <2>1. executed'[c] = executed[c] BY EffectServer DEF SameServer
  <2> QED BY <1>2, <1>3, <2>1, ServedKept, SeenMoved
<1> QED BY <1>1, <1>2, <1>3

-----------------------------------------------------------------------------
(* The steps, as those of the client and those of the server.              *)
QuestAction ==
  \/ \E q \in Quests : PickExisting(q) \/ PickThrows(q) \/ StartTimer(q)
  \/ \E q \in Quests : SendQuestClosed(q) \/ SendQuest(q) \/ SendQuestHuge(q)
  \/ \E q \in Quests, c \in Conns : PickNew(q, c) \/ SendQuestCatch(c, q) \/ DisconnectResult(c, q)
  \/ \E q \in Quests, kind \in {"answer", "error"} : Give(q, kind)
ConnAction ==
  \/ \E r \in Readers : ReadAnswer(r)
  \/ \E c \in Conns, w \in Writers : QuestSent(c, w) \/ WriteAgain(c, w)
  \/ \E c \in Conns, r \in Readers : \/ DoWrite(c, r) \/ RecvHello(c, r) \/ RecvBye(c, r)
                                     \/ RecvAnswer(c, r) \/ RecvFails(c, r)
  \/ \E c \in Conns : Timeout(c) \/ DoTimeout(c) \/ DisconnectBegin(c) \/ DisconnectTake(c)
  \/ \E c \in Conns : Close(c) \/ CloseForce(c)
ServerAction ==
  \E c \in Conns :
    \/ SAccept(c) \/ SHello(c) \/ SWrite(c) \/ SRecvQuest(c) \/ SClose(c) \/ Reset(c)
    \/ SRecvBye(c) \/ SRecvFails(c) \/ STimeout(c) \/ SCloseForce(c)
    \/ \E m \in sread[c] : SDispatch(c, m)
    \/ \E e \in executing[c] : SReply(c, e) \/ SReplyFails(c, e)
ClientAction == QuestAction \/ ConnAction

LEMMA NextActions == ASSUME Next PROVE ClientAction \/ ServerAction
<1>1. CASE ClientStep
  <2>1. CASE \E q \in Quests :
               \/ at[q] = "pick" /\ (PickExisting(q) \/ PickThrows(q))
               \/ at[q] = "pick" /\ \E c \in Conns : PickNew(q, c)
               \/ StartTimer(q)
               \/ SendQuestClosed(q) \/ SendQuest(q) \/ SendQuestHuge(q)
               \/ \E kind \in {"answer", "error"} : Give(q, kind)
    BY <2>1 DEF ClientAction, QuestAction
  <2>2. CASE \E r \in Readers : ReadAnswer(r) BY <2>2 DEF ClientAction, ConnAction
  <2>3. CASE \E c \in Conns :
               \/ \E w \in Writers : QuestSent(c, w) \/ WriteAgain(c, w)
               \/ \E r \in Readers :
                    \/ DoWrite(c, r) \/ RecvHello(c, r) \/ RecvBye(c, r)
                    \/ RecvAnswer(c, r) \/ RecvFails(c, r)
               \/ Timeout(c) \/ DoTimeout(c) \/ DisconnectBegin(c) \/ DisconnectTake(c)
    BY <2>3 DEF ClientAction, ConnAction
  <2>4. CASE \E c \in Conns, q \in Quests : SendQuestCatch(c, q) \/ DisconnectResult(c, q)
    BY <2>4 DEF ClientAction, QuestAction
  <2> QED BY <1>1, <2>1, <2>2, <2>3, <2>4 DEF ClientStep
<1>2. CASE ServerStep BY <1>2 DEF ServerStep, ServerAction
<1>3. CASE EnvStep
  <2>1. CASE \E q \in Quests : PickExisting(q) \/ PickThrows(q) \/ \E c \in Conns : PickNew(q, c)
    BY <2>1 DEF ClientAction, QuestAction
  <2>2. CASE \E c \in Conns : Close(c) \/ CloseForce(c) \/ SClose(c) \/ SCloseForce(c) \/ Reset(c)
    BY <2>2 DEF ClientAction, ConnAction, ServerAction
  <2> QED BY <1>3, <2>1, <2>2 DEF EnvStep
<1> QED BY <1>1, <1>2, <1>3 DEF Next

LEMMA EffectCases ==
  ASSUME NEW c \in Conns
  PROVE  /\ (\A d \in Conns : Quiet(d)) => \A d \in Conns : Effect(d)
         /\ Effect(c) /\ (\A d \in Conns \ {c} : Quiet(d)) => \A d \in Conns : Effect(d)
         /\ Handles(c) \/ Made(c) \/ Writes(c) \/ GetsBye(c) \/ Takes(c) => Effect(c)
BY DEF Effect

LEMMA ClientEffect ==
  ASSUME OwnerInv, MadeFirst, FlowInv, ClientAction
  PROVE  \A c \in Conns : Effect(c)
<1>1. CASE QuestAction
  <2>1. ASSUME NEW q \in Quests, PickExisting(q) \/ PickThrows(q) \/ StartTimer(q)
        PROVE  \A c \in Conns : Quiet(c)
    BY <2>1, QuietSteps, StartTimerFlow
  <2>2. ASSUME NEW q \in Quests, SendQuestClosed(q) PROVE \A c \in Conns : Effect(c)
    <3>1. PICK c \in Conns : /\ conn[c].st >= ST_CLOSED
                             /\ Quiet(c) \/ \E id \in Nat : Drops(c, id) /\ GivesErrors(c, id)
                             /\ \A d \in Conns \ {c} : Quiet(d)
      BY <2>2, SendQuestClosedFlow
    <3>2. Effect(c) BY <3>1 DEF Effect, Unsends
    <3> QED BY <3>1, <3>2, EffectCases
  <2>3. ASSUME NEW q \in Quests, SendQuest(q) \/ SendQuestHuge(q) PROVE \A c \in Conns : Effect(c)
    <3>1. PICK c \in Conns : Adds(c, q) /\ \A d \in Conns \ {c} : Quiet(d)
      BY <2>3, SendQuestFlow, SendQuestHugeFlow
    <3>2. Effect(c) BY <3>1 DEF Effect
    <3> QED BY <3>1, <3>2, EffectCases
  <2>4. ASSUME NEW q \in Quests, NEW c \in Conns, PickNew(q, c) \/ DisconnectResult(c, q)
        PROVE \A d \in Conns : Effect(d)
    BY <2>4, PickNewFlow, DisconnectResultFlow, EffectCases
  <2>5. ASSUME NEW q \in Quests, NEW c \in Conns, SendQuestCatch(c, q)
        PROVE \A d \in Conns : Effect(d)
    <3>1. /\ \E id \in Nat : id = txid[q] /\ Drops(c, id)
          /\ \A d \in Conns \ {c} : Quiet(d)
      BY <2>5, SendQuestCatchFlow
    <3>2. <<c, q>> \in failing /\ <<c, q>> \notin failing' BY <2>5 DEF SendQuestCatch
    <3>3. giving' = giving \cup {<<x, "error">> : x \in QuestsOf(EntriesOf(conn[c], txid[q]))}
      BY <2>5 DEF SendQuestCatch
    <3>4. PICK id \in Nat : id = txid[q] /\ Drops(c, id) BY <3>1
    <3>5. Unsends(c, id) BY <3>2, <3>3, <3>4 DEF Unsends, GivesErrors
    <3>6. Effect(c) BY <3>4, <3>5 DEF Effect
    <3> QED BY <3>1, <3>6, EffectCases
  <2>6. ASSUME NEW q \in Quests, NEW kind \in {"answer", "error"}, Give(q, kind)
        PROVE \A c \in Conns : Quiet(c)
    BY <2>6, QuietSteps
  <2> QED BY <1>1, <2>1, <2>2, <2>3, <2>4, <2>5, <2>6, EffectCases DEF QuestAction, Effect
<1>2. CASE ConnAction
  <2>1. ASSUME NEW r \in Readers, ReadAnswer(r) PROVE \A c \in Conns : Effect(c)
    <3>1. PICK c \in Conns, x \in Nat \X Quests :
             /\ Reads(c, r, x) /\ (KeepsOpen(c) \/ SaysBye(c)) /\ GivesAnswer(c, x[1])
             /\ \A d \in Conns \ {c} : Quiet(d)
      BY <2>1, ReadAnswerFlow DEF GivesAnswer
    <3>2. Effect(c) BY <3>1 DEF Effect
    <3> QED BY <3>1, <3>2, EffectCases
  <2>2. ASSUME NEW c \in Conns, NEW w \in Writers, QuestSent(c, w) \/ WriteAgain(c, w)
        PROVE  \A d \in Conns : Effect(d)
    BY <2>2, QuietSteps, WriteAgainFlow, EffectCases
  <2>3. ASSUME NEW c \in Conns, NEW r \in Readers,
               DoWrite(c, r) \/ RecvHello(c, r) \/ RecvBye(c, r) \/ RecvFails(c, r)
        PROVE  \A d \in Conns : Effect(d)
    BY <2>3, DoWriteFlow, RecvHelloFlow, RecvByeFlow, RecvFailsFlow, EffectCases
  <2>4. ASSUME NEW c \in Conns, NEW r \in Readers, RecvAnswer(c, r)
        PROVE  \A d \in Conns : Effect(d)
    <3>1. GetsAnswer(c, r) /\ \A d \in Conns \ {c} : Quiet(d) BY <2>4, RecvAnswerFlow
    <3>2. Effect(c) BY <3>1 DEF Effect
    <3> QED BY <3>1, <3>2, EffectCases
  <2>5. ASSUME NEW c \in Conns,
               \/ Timeout(c) \/ DoTimeout(c) \/ DisconnectBegin(c) \/ DisconnectTake(c)
               \/ CloseForce(c)
        PROVE  \A d \in Conns : Effect(d)
    BY <2>5, TimeoutFlow, DoTimeoutFlow, DisconnectBeginFlow, DisconnectTakeFlow, QuietSteps,
       EffectCases
  <2>6. ASSUME NEW c \in Conns, Close(c) PROVE \A d \in Conns : Effect(d)
    <3>1. /\ Writes(c) \/ (SaysBye(c) /\ SameHeld(c) /\ conn[c].map = {})
          /\ \A d \in Conns \ {c} : Quiet(d)
      BY <2>6, CloseFlow
    <3>2. Effect(c) BY <3>1 DEF Effect
    <3> QED BY <3>1, <3>2, EffectCases
  <2> QED BY <1>2, <2>1, <2>2, <2>3, <2>4, <2>5, <2>6 DEF ConnAction
<1> QED BY <1>1, <1>2 DEF ClientAction

-----------------------------------------------------------------------------
(* What a step of the server does to a connection.                         *)
Client(c) == conn'[c] = conn[c] /\ taken'[c] = taken[c] /\ SameHeld(c)
SameEnds(c) ==
  /\ srv'[c].fd = srv[c].fd /\ srv'[c].up = srv[c].up /\ srv'[c].started = srv[c].started
SameWork(c) == sread'[c] = sread[c] /\ executing'[c] = executing[c] /\ executed'[c] = executed[c]
SameNet(c) == SameSockets(c) /\ broken'[c] = broken[c]
SameSrv(c) ==
  /\ srv'[c].st = srv[c].st /\ srv'[c].wq = srv[c].wq /\ srv'[c].processing = srv[c].processing

SAccepts(c) ==
  /\ Client(c) /\ SameSrv(c) /\ SameWork(c) /\ SameNet(c)
  /\ ~srv[c].up /\ srv'[c].up /\ srv'[c].fd /\ srv'[c].started = srv[c].started
SHellos(c) ==
  /\ Client(c) /\ SameWork(c) /\ SameNet(c)
  /\ srv[c].up /\ srv'[c].up /\ ~srv[c].started /\ srv'[c].started /\ srv'[c].fd = srv[c].fd
  /\ srv'[c].processing = srv[c].processing
  /\ \/ srv[c].fd /\ srv'[c].st = ST_ACTIVE /\ srv'[c].wq = Append(srv[c].wq, Hello)
     \/ ~srv[c].fd /\ srv'[c].st = ST_ERROR /\ srv'[c].wq = srv[c].wq
SWrites(c) ==
  /\ Client(c) /\ SameEnds(c) /\ SameWork(c)
  /\ srv[c].fd /\ srv[c].wq # <<>> /\ ~broken[c] /\ broken'[c] = broken[c]
  /\ srv'[c].st = srv[c].st /\ srv'[c].processing = srv[c].processing
  /\ srv'[c].wq = Tail(srv[c].wq) /\ c2s'[c] = c2s[c]
  /\ s2c'[c] = IF conn[c].fd THEN Append(s2c[c], Head(srv[c].wq)) ELSE s2c[c]
SReads(c) ==
  /\ Client(c) /\ srv'[c] = srv[c] /\ srv[c].fd /\ srv[c].st < ST_CLOSED
  /\ executing'[c] = executing[c] /\ executed'[c] = executed[c]
  /\ broken'[c] = broken[c] /\ s2c'[c] = s2c[c]
  /\ c2s[c] # <<>> /\ Head(c2s[c]).type = "Q" /\ c2s'[c] = Tail(c2s[c])
  /\ sread'[c] = sread[c] \cup {Head(c2s[c])}
SStops(c) ==
  /\ Client(c) /\ srv[c].up /\ srv'[c].up /\ ~srv'[c].fd /\ srv'[c].started = srv[c].started
  /\ srv'[c].st \in {ST_CLOSED, ST_ERROR} /\ srv'[c].wq = <<>>
  /\ sread'[c] \subseteq sread[c] /\ executing'[c] \subseteq executing[c]
  /\ executed'[c] = executed[c] /\ broken'[c] = broken[c]
  /\ c2s'[c] = <<>> /\ s2c'[c] = s2c[c]
SDiscards(c) ==
  /\ Client(c) /\ srv'[c] = srv[c] /\ srv[c].st >= ST_CLOSE /\ SameNet(c)
  /\ sread'[c] \subseteq sread[c] /\ executing'[c] = executing[c] /\ executed'[c] = executed[c]
SRuns(c, m) ==
  /\ Client(c) /\ SameEnds(c) /\ SameNet(c)
  /\ srv[c].st = ST_ACTIVE /\ srv'[c].st = srv[c].st /\ srv'[c].wq = srv[c].wq
  /\ srv'[c].processing = srv[c].processing + 1 /\ srv'[c].rt = srv[c].rt
  /\ sread'[c] = sread[c] \ {m}
  /\ executing'[c] = executing[c] \cup {<<m.id, m.q>>}
  /\ executed'[c] = executed[c] \cup {m.q}
SReplies(c, e) ==
  /\ Client(c) /\ SameEnds(c) /\ SameNet(c) /\ srv[c].up
  /\ sread'[c] = sread[c] /\ executed'[c] = executed[c]
  /\ executing'[c] = executing[c] \ {e}
  /\ srv'[c].processing = srv[c].processing - 1
  /\ \/ srv[c].st >= ST_CLOSED /\ srv'[c].st = srv[c].st /\ srv'[c].wq = srv[c].wq
     \/ /\ srv[c].st < ST_CLOSED /\ ~(srv[c].st = ST_CLOSE /\ srv[c].processing = 1)
        /\ srv'[c].st = srv[c].st /\ srv'[c].wq = Append(srv[c].wq, Msg("A", e[1], e[2]))
     \/ /\ srv[c].st = ST_CLOSE /\ srv[c].processing = 1 /\ srv'[c].st = ST_CLOSING
        /\ srv'[c].wq = Append(Append(srv[c].wq, Msg("A", e[1], e[2])), Bye)
SFails(c, e) ==
  /\ Client(c) /\ SameEnds(c) /\ SameNet(c) /\ srv[c].up
  /\ sread'[c] = sread[c] /\ executed'[c] = executed[c]
  /\ executing'[c] = executing[c] \ {e}
  /\ srv[c].st < ST_CLOSED /\ srv[c].wq = <<>> /\ (broken[c] \/ ~conn[c].fd)
  /\ srv'[c].st = ST_ERROR /\ srv'[c].wq = <<>>
SCloses(c) ==
  /\ Client(c) /\ SameEnds(c) /\ SameWork(c) /\ SameNet(c) /\ srv[c].up
  /\ srv[c].st = ST_ACTIVE /\ srv'[c].processing = srv[c].processing
  /\ \/ srv[c].processing = 0 /\ srv'[c].st = ST_CLOSING /\ srv'[c].wq = Append(srv[c].wq, Bye)
     \/ srv[c].processing # 0 /\ srv'[c].st = ST_CLOSE /\ srv'[c].wq = srv[c].wq
Resets(c) ==
  /\ Client(c) /\ srv'[c] = srv[c] /\ SameWork(c)
  /\ broken'[c] /\ c2s'[c] = <<>> /\ s2c'[c] = <<>>
SEffect(c) ==
  /\ srv'[c].rt => srv'[c].up
  /\ \/ Client(c) /\ SameServer(c) /\ SameSockets(c)
     \/ SAccepts(c) \/ SHellos(c) \/ SWrites(c) \/ SReads(c) \/ SStops(c) \/ SDiscards(c)
     \/ \E m \in sread[c] : SRuns(c, m)
     \/ \E e \in executing[c] : SReplies(c, e) \/ SFails(c, e)
     \/ SCloses(c) \/ Resets(c)

LEMMA SrvFields ==
  ASSUME NEW k \in SrvSet, NEW v
  PROVE  /\ \A m : /\ Queued(k, m).st = k.st /\ Queued(k, m).processing = k.processing
                   /\ Queued(k, m).fd = k.fd /\ Queued(k, m).up = k.up /\ Queued(k, m).rt = k.rt
                   /\ Queued(k, m).started = k.started /\ Queued(k, m).wq = Append(k.wq, m)
         /\ SetException(k).st = ST_ERROR /\ SetException(k).processing = k.processing
         /\ SetException(k).fd = k.fd /\ SetException(k).up = k.up /\ SetException(k).rt = k.rt
         /\ SetException(k).started = k.started /\ SetException(k).wq = k.wq
BY DEF SrvSet, Queued, SetException

LEMMA SrvClosing ==
  ASSUME NEW k \in SrvSet PROVE [k EXCEPT !.st = ST_CLOSING, !.rt = TRUE] \in SrvSet
<1> DEFINE a == [k EXCEPT !.st = ST_CLOSING]
<1>1. a \in SrvSet BY SrvTypes, States
<1> HIDE DEF a
<1>2. [a EXCEPT !.rt = TRUE] \in SrvSet BY <1>1, SrvTypes
<1> QED BY <1>2 DEF a

\* Everything but one connection's server end is as it was.
LEMMA Elsewhere ==
  ASSUME OwnerInv, NEW c \in Conns, UNCHANGED <<connVars, thrVars, resVars>>,
         \A d \in Conns \ {c} : SameServer(d) /\ SameSockets(d),
         \A d \in Conns : SrvShape(d), SEffect(c)
  PROVE  \A d \in Conns : SEffect(d)
<1>1. \A d \in Conns : Client(d)
  BY DEF connVars, thrVars, Client, SameHeld, HeldTrace, HeldBy
<1>2. \A d \in Conns \ {c} : srv'[d].rt => srv'[d].up BY TypesOf DEF SameServer, SrvShape
<1> QED BY <1>1, <1>2 DEF SEffect

LEMMA ClientStill ==
  ASSUME UNCHANGED <<connVars, thrVars, resVars>> PROVE \A d \in Conns : Client(d)
BY DEF connVars, thrVars, Client, SameHeld, HeldTrace, HeldBy

LEMMA SDisconnectFields ==
  ASSUME OwnerInv, NEW c \in Conns, NEW k \in SrvSet, SDisconnect(c, k)
  PROVE  /\ srv'[c].st \in {ST_CLOSED, ST_ERROR} /\ ~srv'[c].fd /\ srv'[c].wq = <<>>
         /\ ~srv'[c].rt /\ srv'[c].up = k.up /\ srv'[c].started = k.started
         /\ c2s'[c] = <<>>
         /\ \A d \in Conns \ {c} : srv'[d] = srv[d] /\ c2s'[d] = c2s[d]
<1> DEFINE a == [k EXCEPT !.st = IF @ < ST_CLOSED THEN ST_CLOSED ELSE @,
                          !.fd = FALSE, !.wq = <<>>, !.rt = FALSE]
<1>1. srv' = [srv EXCEPT ![c] = a] /\ c2s' = [c2s EXCEPT ![c] = <<>>] BY DEF SDisconnect
<1>2. /\ a.st = (IF k.st < ST_CLOSED THEN ST_CLOSED ELSE k.st) /\ a.fd = FALSE /\ a.wq = <<>>
      /\ a.rt = FALSE /\ a.up = k.up /\ a.started = k.started
  BY DEF SrvSet
<1>3. k.st \in ST_INIT .. ST_ERROR BY SrvTypes
<1>4. a.st \in {ST_CLOSED, ST_ERROR} BY <1>2, <1>3 DEF ST_INIT, ST_CLOSED, ST_ERROR
<1> HIDE DEF a
<1>5. /\ srv'[c] = a /\ c2s'[c] = <<>>
      /\ \A d \in Conns \ {c} : srv'[d] = srv[d] /\ c2s'[d] = c2s[d]
  BY <1>1 DEF OwnerInv, TypeOK
<1> QED BY <1>2, <1>4, <1>5

LEMMA SStopsEffect ==
  ASSUME OwnerInv, \A d \in Conns : SrvShape(d), NEW c \in Conns, srv[c].up,
         SDisconnect(c, srv[c]) \/ SDisconnect(c, SetException(srv[c])),
         UNCHANGED <<connVars, thrVars, resVars, executed, s2c, broken>>,
         sread'[c] \subseteq sread[c], executing'[c] \subseteq executing[c],
         \A d \in Conns \ {c} : sread'[d] = sread[d] /\ executing'[d] = executing[d]
  PROVE  \A d \in Conns : SEffect(d)
<1>1. /\ srv[c] \in SrvSet /\ SetException(srv[c]) \in SrvSet
      /\ SetException(srv[c]).up = srv[c].up /\ SetException(srv[c]).started = srv[c].started
  BY TypesOf, SrvTypes, SrvFields
<1>2. PICK k \in SrvSet : /\ k.up = srv[c].up /\ k.started = srv[c].started
                          /\ SDisconnect(c, k)
  BY <1>1
<1>3. /\ srv'[c].st \in {ST_CLOSED, ST_ERROR} /\ ~srv'[c].fd /\ srv'[c].wq = <<>>
      /\ ~srv'[c].rt /\ srv'[c].up /\ srv'[c].started = srv[c].started
      /\ c2s'[c] = <<>>
      /\ \A d \in Conns \ {c} : srv'[d] = srv[d] /\ c2s'[d] = c2s[d]
  BY <1>2, SDisconnectFields
<1>4. SStops(c) BY <1>3, ClientStill DEF SStops
<1>5. SEffect(c) BY <1>3, <1>4 DEF SEffect
<1> QED BY <1>3, <1>5, Elsewhere DEF SameServer, SameSockets

LEMMA SAcceptEffect ==
  ASSUME OwnerInv, \A d \in Conns : SrvShape(d), NEW c \in Conns, SAccept(c)
  PROVE  \A d \in Conns : SEffect(d)
<1> DEFINE a == [[srv[c] EXCEPT !.up = TRUE] EXCEPT !.fd = TRUE]
<1>1. srv' = [srv EXCEPT ![c] = a] BY DEF SAccept, OwnerInv, TypeOK
<1>2. srv[c] \in SrvSet BY TypesOf
<1>3. /\ a.up = TRUE /\ a.fd = TRUE /\ a.st = srv[c].st /\ a.wq = srv[c].wq
      /\ a.processing = srv[c].processing /\ a.started = srv[c].started
  BY <1>2 DEF SrvSet
<1> HIDE DEF a
<1>4. srv'[c] = a /\ \A d \in Conns \ {c} : srv'[d] = srv[d] BY <1>1 DEF OwnerInv, TypeOK
<1>5. /\ UNCHANGED <<connVars, thrVars, resVars, sread, executing, executed, c2s, s2c, broken>>
      /\ ~srv[c].up
  BY DEF SAccept, netVars
<1>6. SAccepts(c)
  BY <1>3, <1>4, <1>5, ClientStill DEF SAccepts, SameSrv, SameWork, SameNet, SameSockets
<1>7. SEffect(c) BY <1>3, <1>4, <1>6 DEF SEffect
<1> QED BY <1>4, <1>5, <1>7, Elsewhere DEF SameServer, SameSockets

LEMMA SHelloEffect ==
  ASSUME OwnerInv, \A d \in Conns : SrvShape(d), NEW c \in Conns, SHello(c)
  PROVE  \A d \in Conns : SEffect(d)
<1> DEFINE k == srv[c]
           a == [k EXCEPT !.started = TRUE,
                          !.st = IF k.fd THEN ST_ACTIVE ELSE ST_ERROR,
                          !.wq = IF k.fd THEN Append(@, Hello) ELSE @]
<1>1. srv' = [srv EXCEPT ![c] = a] BY DEF SHello
<1>2. srv[c] \in SrvSet BY TypesOf
<1>3. /\ a.up = k.up /\ a.fd = k.fd /\ a.processing = k.processing /\ a.started = TRUE
      /\ a.st = (IF k.fd THEN ST_ACTIVE ELSE ST_ERROR)
      /\ a.wq = (IF k.fd THEN Append(k.wq, Hello) ELSE k.wq)
  BY <1>2 DEF SrvSet
<1> HIDE DEF a
<1>4. srv'[c] = a /\ \A d \in Conns \ {c} : srv'[d] = srv[d] BY <1>1 DEF OwnerInv, TypeOK
<1>5. /\ UNCHANGED <<connVars, thrVars, resVars, sread, executing, executed, c2s, s2c, broken>>
      /\ k.up /\ ~k.started
  BY DEF SHello, netVars
<1>6. SHellos(c)
  BY <1>3, <1>4, <1>5, ClientStill DEF SHellos, SameWork, SameNet, SameSockets
<1>7. SEffect(c) BY <1>3, <1>4, <1>5, <1>6 DEF SEffect
<1> QED BY <1>4, <1>5, <1>7, Elsewhere DEF SameServer, SameSockets

LEMMA SWriteEffect ==
  ASSUME OwnerInv, \A d \in Conns : SrvShape(d), NEW c \in Conns, SWrite(c)
  PROVE  \A d \in Conns : SEffect(d)
<1>0. srv[c].up BY TypesOf DEF SWrite, SrvShape
<1>1. CASE /\ ~broken[c]
           /\ s2c' = [s2c EXCEPT ![c] = IF conn[c].fd THEN Append(@, Head(srv[c].wq)) ELSE @]
           /\ srv' = [srv EXCEPT ![c].wq = Tail(@)]
           /\ UNCHANGED c2s
  <2> DEFINE a == [srv[c] EXCEPT !.wq = Tail(@)]
  <2>1. srv' = [srv EXCEPT ![c] = a] BY <1>1
  <2>2. srv[c] \in SrvSet BY TypesOf
  <2>3. /\ a.up = srv[c].up /\ a.fd = srv[c].fd /\ a.st = srv[c].st /\ a.wq = Tail(srv[c].wq)
        /\ a.processing = srv[c].processing /\ a.started = srv[c].started
    BY <2>2 DEF SrvSet
  <2> HIDE DEF a
  <2>4. srv'[c] = a /\ \A d \in Conns \ {c} : srv'[d] = srv[d] BY <2>1 DEF OwnerInv, TypeOK
  <2>5. /\ UNCHANGED <<connVars, thrVars, resVars, sread, executing, executed, c2s, broken>>
        /\ srv[c].fd /\ srv[c].wq # <<>>
        /\ s2c'[c] = (IF conn[c].fd THEN Append(s2c[c], Head(srv[c].wq)) ELSE s2c[c])
        /\ \A d \in Conns \ {c} : s2c'[d] = s2c[d]
    BY <1>1 DEF SWrite, OwnerInv, TypeOK
  <2>6. SWrites(c)
    BY <1>1, <2>3, <2>4, <2>5, ClientStill DEF SWrites, SameWork, SameEnds
  <2>7. SEffect(c) BY <1>0, <2>3, <2>4, <2>6 DEF SEffect
  <2> QED BY <2>4, <2>5, <2>7, Elsewhere DEF SameServer, SameSockets
<1>2. CASE SDisconnect(c, SetException(srv[c])) /\ UNCHANGED s2c
  BY <1>0, <1>2, SStopsEffect DEF SWrite
<1> QED BY <1>1, <1>2 DEF SWrite

LEMMA SRecvQuestEffect ==
  ASSUME OwnerInv, \A d \in Conns : SrvShape(d), NEW c \in Conns, SRecvQuest(c)
  PROVE  \A d \in Conns : SEffect(d)
<1>1. /\ UNCHANGED <<connVars, thrVars, resVars, srv, executing, executed, s2c, broken>>
      /\ srv[c].fd /\ srv[c].st < ST_CLOSED /\ c2s[c] # <<>> /\ Head(c2s[c]).type = "Q"
      /\ c2s'[c] = Tail(c2s[c]) /\ sread'[c] = sread[c] \cup {Head(c2s[c])}
      /\ \A d \in Conns \ {c} : c2s'[d] = c2s[d] /\ sread'[d] = sread[d]
  BY DEF SRecvQuest, SReadable, OwnerInv, TypeOK
<1>2. SReads(c) BY <1>1, ClientStill DEF SReads
<1>3. srv'[c].rt => srv'[c].up BY <1>1, TypesOf DEF SrvShape
<1>4. SEffect(c) BY <1>2, <1>3 DEF SEffect
<1> QED BY <1>1, <1>4, Elsewhere DEF SameServer, SameSockets

LEMMA SEndsEffect ==
  ASSUME OwnerInv, \A d \in Conns : SrvShape(d), NEW c \in Conns,
         SRecvBye(c) \/ SRecvFails(c) \/ STimeout(c) \/ SCloseForce(c)
  PROVE  \A d \in Conns : SEffect(d)
<1>1. srv[c].up
  BY TypesOf DEF SRecvBye, SRecvFails, STimeout, SCloseForce, SReadable, SrvShape
<1>2. UNCHANGED <<connVars, thrVars, resVars, sread, executing, executed, s2c, broken>>
  BY DEF SRecvBye, SRecvFails, STimeout, SCloseForce
<1>3. SDisconnect(c, srv[c]) \/ SDisconnect(c, SetException(srv[c]))
  BY DEF SRecvBye, SRecvFails, STimeout, SCloseForce
<1> QED BY <1>1, <1>2, <1>3, SStopsEffect

LEMMA SDispatchEffect ==
  ASSUME OwnerInv, \A d \in Conns : SrvShape(d), NEW c \in Conns, NEW m \in sread[c], SDispatch(c, m)
  PROVE  \A d \in Conns : SEffect(d)
<1>0. srv[c].up BY TypesOf DEF SrvShape
<1>1. /\ UNCHANGED <<connVars, thrVars, resVars, s2c, broken>>
      /\ sread'[c] = sread[c] \ {m} /\ \A d \in Conns \ {c} : sread'[d] = sread[d]
  BY DEF SDispatch, OwnerInv, TypeOK
<1>2. CASE srv[c].st >= ST_CLOSE /\ UNCHANGED <<srv, executing, executed, c2s>>
  <2>1. SDiscards(c) BY <1>1, <1>2, ClientStill DEF SDiscards, SameNet, SameSockets
  <2>2. SEffect(c) BY <1>0, <1>2, <2>1 DEF SEffect
  <2> QED BY <1>1, <1>2, <2>2, Elsewhere DEF SameServer, SameSockets
<1>3. CASE SDisconnect(c, SetException(srv[c])) /\ UNCHANGED <<executing, executed>>
  BY <1>0, <1>1, <1>3, SStopsEffect
<1>4. CASE /\ srv[c].st = ST_ACTIVE
           /\ srv' = [srv EXCEPT ![c].processing = @ + 1]
           /\ executing' = [executing EXCEPT ![c] = @ \cup {<<m.id, m.q>>}]
           /\ executed' = [executed EXCEPT ![c] = @ \cup {m.q}]
           /\ UNCHANGED c2s
  <2> DEFINE a == [srv[c] EXCEPT !.processing = @ + 1]
  <2>1. srv' = [srv EXCEPT ![c] = a] BY <1>4
  <2>2. srv[c] \in SrvSet BY TypesOf
  <2>3. /\ a.up = srv[c].up /\ a.fd = srv[c].fd /\ a.st = srv[c].st /\ a.wq = srv[c].wq
        /\ a.processing = srv[c].processing + 1 /\ a.started = srv[c].started /\ a.rt = srv[c].rt
    BY <2>2 DEF SrvSet
  <2> HIDE DEF a
  <2>4. /\ srv'[c] = a /\ executing'[c] = executing[c] \cup {<<m.id, m.q>>}
        /\ executed'[c] = executed[c] \cup {m.q}
        /\ \A d \in Conns \ {c} : /\ srv'[d] = srv[d] /\ executing'[d] = executing[d]
                                  /\ executed'[d] = executed[d]
    BY <1>4, <2>1 DEF OwnerInv, TypeOK
  <2>5. SRuns(c, m)
    BY <1>1, <1>4, <2>3, <2>4, ClientStill DEF SRuns, SameEnds, SameNet, SameSockets
  <2>6. SEffect(c) BY <1>0, <2>3, <2>4, <2>5 DEF SEffect
  <2> QED BY <1>1, <1>4, <2>4, <2>6, Elsewhere DEF SameServer, SameSockets
<1> QED BY <1>2, <1>3, <1>4 DEF SDispatch

LEMMA SReplyEffect ==
  ASSUME OwnerInv, \A d \in Conns : SrvShape(d), NEW c \in Conns, NEW e \in executing[c], SReply(c, e)
  PROVE  \A d \in Conns : SEffect(d)
<1> DEFINE k == srv[c]
           m == Msg("A", e[1], e[2])
           k1 == IF k.st < ST_CLOSED THEN Queued(k, m) ELSE k
           k2 == [k1 EXCEPT !.processing = @ - 1]
           k4 == [k2 EXCEPT !.st = ST_CLOSING, !.rt = TRUE]
           k5 == IF k2.st = ST_CLOSE /\ k2.processing = 0 THEN Queued(k4, Bye) ELSE k2
<1>0. k.up BY TypesOf DEF SrvShape
<1>1. k \in SrvSet /\ e \in Nat \X Quests /\ k.st \in Int /\ k.processing \in Int
  BY TypesOf, SrvTypes
<1>2. m \in MsgSet /\ Bye \in MsgSet BY <1>1, MessageTypes
<1>3. k1 \in SrvSet BY <1>1, <1>2, SrvTypes
<1>4. /\ k1.st = k.st /\ k1.fd = k.fd /\ k1.up = k.up /\ k1.started = k.started
      /\ k1.processing = k.processing
      /\ k1.wq = (IF k.st < ST_CLOSED THEN Append(k.wq, m) ELSE k.wq)
  BY <1>1, SrvFields
<1>5. srv' = [srv EXCEPT ![c] = k5] BY DEF SReply
<1> HIDE DEF k1
<1>6. k2 \in SrvSet
  <2>1. k1.processing - 1 \in Int BY <1>3, SrvTypes
  <2> QED BY <1>3, <2>1, SrvTypes
<1>7. /\ k2.st = k.st /\ k2.fd = k.fd /\ k2.up = k.up /\ k2.started = k.started
      /\ k2.processing = k.processing - 1 /\ k2.wq = k1.wq
  BY <1>3, <1>4 DEF SrvSet
<1> HIDE DEF k2
<1>8. /\ k4.st = ST_CLOSING /\ k4.fd = k.fd /\ k4.up = k.up /\ k4.started = k.started
      /\ k4.processing = k.processing - 1 /\ k4.wq = k1.wq
  BY <1>6, <1>7 DEF SrvSet
<1>9. k4 \in SrvSet BY <1>6, SrvClosing
<1> HIDE DEF k4
<1>10. /\ Queued(k4, Bye).st = ST_CLOSING /\ Queued(k4, Bye).fd = k.fd /\ Queued(k4, Bye).up = k.up
       /\ Queued(k4, Bye).started = k.started
       /\ Queued(k4, Bye).processing = k.processing - 1 /\ Queued(k4, Bye).wq = Append(k1.wq, Bye)
  BY <1>8, <1>9, SrvFields
<1>11. /\ k5.fd = k.fd /\ k5.up = k.up /\ k5.started = k.started
       /\ k5.processing = k.processing - 1
       /\ IF k.st = ST_CLOSE /\ k.processing - 1 = 0
          THEN k5.st = ST_CLOSING /\ k5.wq = Append(k1.wq, Bye)
          ELSE k5.st = k.st /\ k5.wq = k1.wq
  BY <1>7, <1>10
<1> HIDE DEF k5
<1>12. srv'[c] = k5 /\ \A d \in Conns \ {c} : srv'[d] = srv[d] BY <1>5 DEF OwnerInv, TypeOK
<1>13. /\ UNCHANGED <<connVars, thrVars, resVars, sread, executed, c2s, s2c, broken>>
       /\ executing'[c] = executing[c] \ {e}
       /\ \A d \in Conns \ {c} : executing'[d] = executing[d]
  BY DEF SReply, netVars, OwnerInv, TypeOK
<1>14. /\ Client(c) /\ SameEnds(c) /\ SameNet(c)
  BY <1>11, <1>12, <1>13, ClientStill DEF SameEnds, SameNet, SameSockets
<1>15. \/ k.st >= ST_CLOSED /\ srv'[c].st = k.st /\ srv'[c].wq = k.wq
       \/ /\ k.st < ST_CLOSED /\ ~(k.st = ST_CLOSE /\ k.processing = 1)
          /\ srv'[c].st = k.st /\ srv'[c].wq = Append(k.wq, m)
       \/ /\ k.st = ST_CLOSE /\ k.processing = 1 /\ srv'[c].st = ST_CLOSING
          /\ srv'[c].wq = Append(Append(k.wq, m), Bye)
  <2> HIDE DEF m
  <2>1. CASE k.st >= ST_CLOSED BY <1>1, <1>4, <1>11, <1>12, <2>1 DEF ST_CLOSED, ST_CLOSE
  <2>2. CASE k.st < ST_CLOSED /\ ~(k.st = ST_CLOSE /\ k.processing = 1)
    BY <1>1, <1>4, <1>11, <1>12, <2>2
  <2>3. CASE k.st = ST_CLOSE /\ k.processing = 1
    BY <1>1, <1>4, <1>11, <1>12, <2>3 DEF ST_CLOSED, ST_CLOSE
  <2> QED BY <1>1, <2>1, <2>2, <2>3 DEF ST_CLOSED, ST_CLOSE
<1>16. SReplies(c, e) BY <1>0, <1>11, <1>12, <1>13, <1>14, <1>15 DEF SReplies
<1>17. SEffect(c) BY <1>0, <1>11, <1>12, <1>16 DEF SEffect
<1> QED BY <1>12, <1>13, <1>17, Elsewhere DEF SameServer, SameSockets

LEMMA SReplyFailsEffect ==
  ASSUME OwnerInv, \A d \in Conns : SrvShape(d), NEW c \in Conns, NEW e \in executing[c],
         SReplyFails(c, e)
  PROVE  \A d \in Conns : SEffect(d)
<1>0. srv[c].up BY TypesOf DEF SrvShape
<1>1. /\ UNCHANGED <<connVars, thrVars, resVars, sread, executed, s2c, broken>>
      /\ srv[c].st < ST_CLOSED /\ srv[c].wq = <<>> /\ (broken[c] \/ ~conn[c].fd)
      /\ executing'[c] = executing[c] \ {e}
      /\ \A d \in Conns \ {c} : executing'[d] = executing[d]
  BY DEF SReplyFails, OwnerInv, TypeOK
<1>2. CASE SDisconnect(c, SetException(srv[c])) BY <1>0, <1>1, <1>2, SStopsEffect
<1>3. CASE srv' = [srv EXCEPT ![c] = SetException(srv[c])] /\ UNCHANGED c2s
  <2> DEFINE a == SetException(srv[c])
  <2>1. /\ a.st = ST_ERROR /\ a.fd = srv[c].fd /\ a.up = srv[c].up /\ a.started = srv[c].started
        /\ a.wq = srv[c].wq
    BY TypesOf, SrvFields
  <2> HIDE DEF a
  <2>2. srv'[c] = a /\ \A d \in Conns \ {c} : srv'[d] = srv[d]
    BY <1>3 DEF a, OwnerInv, TypeOK
  <2>3. SFails(c, e)
    BY <1>0, <1>1, <1>3, <2>1, <2>2, ClientStill DEF SFails, SameEnds, SameNet, SameSockets
  <2>4. SEffect(c) BY <1>0, <2>1, <2>2, <2>3 DEF SEffect
  <2> QED BY <1>1, <1>3, <2>2, <2>4, Elsewhere DEF SameServer, SameSockets
<1> QED BY <1>2, <1>3 DEF SReplyFails

LEMMA SCloseEffect ==
  ASSUME OwnerInv, \A d \in Conns : SrvShape(d), NEW c \in Conns, SClose(c)
  PROVE  \A d \in Conns : SEffect(d)
<1> DEFINE k == srv[c]
           k1 == [k EXCEPT !.st = ST_CLOSING, !.rt = TRUE]
           k2 == [k EXCEPT !.st = ST_CLOSE]
           k3 == IF k.processing = 0 THEN Queued(k1, Bye) ELSE k2
<1>0. k.up /\ k.st = ST_ACTIVE BY TypesOf DEF SrvShape, SClose, ST_ACTIVE, ST_WAITING_HELLO
<1>1. k \in SrvSet BY TypesOf
<1>2. srv' = [srv EXCEPT ![c] = k3] BY DEF SClose
<1>3. k1 \in SrvSet BY <1>1, SrvClosing
<1>4. /\ k1.st = ST_CLOSING /\ k1.fd = k.fd /\ k1.up = k.up /\ k1.started = k.started
      /\ k1.processing = k.processing /\ k1.wq = k.wq
  BY <1>1 DEF SrvSet
<1>5. /\ k2.st = ST_CLOSE /\ k2.fd = k.fd /\ k2.up = k.up /\ k2.started = k.started
      /\ k2.processing = k.processing /\ k2.wq = k.wq
  BY <1>1 DEF SrvSet
<1> HIDE DEF k1, k2
<1>6. /\ k3.fd = k.fd /\ k3.up = k.up /\ k3.started = k.started /\ k3.processing = k.processing
      /\ IF k.processing = 0 THEN k3.st = ST_CLOSING /\ k3.wq = Append(k.wq, Bye)
         ELSE k3.st = ST_CLOSE /\ k3.wq = k.wq
  BY <1>3, <1>4, <1>5, SrvFields
<1> HIDE DEF k3
<1>7. srv'[c] = k3 /\ \A d \in Conns \ {c} : srv'[d] = srv[d] BY <1>2 DEF OwnerInv, TypeOK
<1>8. UNCHANGED <<connVars, thrVars, resVars, sread, executing, executed, c2s, s2c, broken>>
  BY DEF SClose, netVars
<1>9. SCloses(c)
  BY <1>0, <1>6, <1>7, <1>8, ClientStill DEF SCloses, SameEnds, SameWork, SameNet, SameSockets
<1>10. SEffect(c) BY <1>0, <1>6, <1>7, <1>9 DEF SEffect
<1> QED BY <1>7, <1>8, <1>10, Elsewhere DEF SameServer, SameSockets

LEMMA ResetEffect ==
  ASSUME OwnerInv, \A d \in Conns : SrvShape(d), NEW c \in Conns, Reset(c)
  PROVE  \A d \in Conns : SEffect(d)
<1>1. /\ UNCHANGED <<connVars, thrVars, resVars, srv, sread, executing, executed>>
      /\ broken'[c] /\ c2s'[c] = <<>> /\ s2c'[c] = <<>>
      /\ \A d \in Conns \ {c} : c2s'[d] = c2s[d] /\ s2c'[d] = s2c[d] /\ broken'[d] = broken[d]
  BY DEF Reset, srvVars, OwnerInv, TypeOK
<1>2. Resets(c) BY <1>1, ClientStill DEF Resets, SameWork
<1>3. srv'[c].rt => srv'[c].up BY <1>1, TypesOf DEF SrvShape
<1>4. SEffect(c) BY <1>2, <1>3 DEF SEffect
<1> QED BY <1>1, <1>4, Elsewhere DEF SameServer, SameSockets

LEMMA ServerEffect ==
  ASSUME OwnerInv, \A c \in Conns : SrvShape(c), ServerAction
  PROVE  (\A c \in Conns : SEffect(c)) /\ UNCHANGED <<connVars, thrVars, resVars>>
<1>1. PICK c \in Conns :
        \/ SAccept(c) \/ SHello(c) \/ SWrite(c) \/ SRecvQuest(c) \/ SClose(c) \/ Reset(c)
        \/ SRecvBye(c) \/ SRecvFails(c) \/ STimeout(c) \/ SCloseForce(c)
        \/ \E m \in sread[c] : SDispatch(c, m)
        \/ \E e \in executing[c] : SReply(c, e) \/ SReplyFails(c, e)
  BY DEF ServerAction
<1>2. UNCHANGED <<connVars, thrVars, resVars>>
  BY <1>1 DEF SAccept, SHello, SWrite, SRecvQuest, SClose, Reset, SRecvBye, SRecvFails, STimeout,
              SCloseForce, SDispatch, SReply, SReplyFails
<1>3. \A d \in Conns : SEffect(d)
  BY <1>1, SAcceptEffect, SHelloEffect, SWriteEffect, SRecvQuestEffect, SCloseEffect, ResetEffect,
     SEndsEffect, SDispatchEffect, SReplyEffect, SReplyFailsEffect
<1> QED BY <1>2, <1>3

-----------------------------------------------------------------------------
(* The flow of a connection under the steps of the server.                 *)
LEMMA ServerMoved ==
  ASSUME OwnerInv, NEW c \in Conns, FlowAt(c), ServedAt(c), Client(c), Moved(c), AllOnce(c)',
         executed[c] \subseteq executed'[c]
  PROVE  FlowAt(c)' /\ ServedAt(c)' /\ Seen(c)' \subseteq Seen(c)
<1>1. FlowAt(c)' BY FlowKept DEF Client
<1> QED BY <1>1, ServedKept, SeenMoved

LEMMA ServerShrunk ==
  ASSUME OwnerInv, NEW c \in Conns, FlowAt(c), ServedAt(c), Client(c),
         NoNew(c2s[c], c2s'[c], "Q"),
         NoNew(srv[c].wq, srv'[c].wq, "A"), NoNew(s2c[c], s2c'[c], "A"),
         sread'[c] \subseteq sread[c], executing'[c] \subseteq executing[c],
         executed'[c] = executed[c]
  PROVE  FlowAt(c)' /\ ServedAt(c)' /\ Seen(c)' \subseteq Seen(c)
<1>1. /\ NoNew(conn[c].wq, conn'[c].wq, "Q") /\ HeldTrace(c)' \subseteq HeldTrace(c) /\ AllOnce(c)
  BY DEF NoNew, Client, SameHeld, FlowAt, OnePlace
<1>2. Trace(c)' \subseteq Trace(c) /\ AllOnce(c)' BY <1>1, NoNewFlow
<1>3. Moved(c) BY <1>2 DEF Moved
<1> QED BY <1>2, <1>3, ServerMoved

LEMMA SReadsKept ==
  ASSUME OwnerInv, NEW c \in Conns, FlowAt(c), ServedAt(c), SReads(c)
  PROVE  FlowAt(c)' /\ ServedAt(c)' /\ Seen(c)' \subseteq Seen(c)
<1>1. OnePlace(c) /\ AllOnce(c) BY DEF FlowAt, OnePlace
<1>2. PICK m : m = Head(c2s[c]) OBVIOUS
<1>3. /\ Client(c) /\ conn'[c] = conn[c] /\ SameHeld(c)
      /\ c2s[c] # <<>> /\ m.type = "Q" /\ c2s'[c] = Tail(c2s[c]) /\ sread'[c] = sread[c] \cup {m}
      /\ srv'[c] = srv[c] /\ executing'[c] = executing[c] /\ s2c'[c] = s2c[c]
      /\ executed'[c] = executed[c]
  BY <1>2 DEF SReads, Client
<1>4. MovesOn(c, <<"sent", None, m.id, m.q>>, <<"read", None, m.id, m.q>>)
  BY <1>1, <1>2, <1>3, SentToRead
<1>5. Moved(c) BY <1>4 DEF Moved
<1>6. AllOnce(c)' BY <1>1, <1>3, TypesOf, OnceSeq DEF AllOnce
<1> QED BY <1>3, <1>5, <1>6, ServerMoved

LEMMA SRunsKept ==
  ASSUME OwnerInv, NEW c \in Conns, FlowAt(c), ServedAt(c), NEW m \in sread[c], SRuns(c, m)
  PROVE  /\ FlowAt(c)' /\ ServedAt(c)' /\ Seen(c)' \subseteq Seen(c)
         /\ <<m.id, m.q>> \notin executing[c]
<1>1. OnePlace(c) /\ AllOnce(c) BY DEF FlowAt, OnePlace
<1>3. /\ Client(c) /\ conn'[c] = conn[c] /\ SameHeld(c)
      /\ sread'[c] = sread[c] \ {m} /\ executing'[c] = executing[c] \cup {<<m.id, m.q>>}
      /\ executed'[c] = executed[c] \cup {m.q}
      /\ srv'[c].wq = srv[c].wq /\ c2s'[c] = c2s[c] /\ s2c'[c] = s2c[c]
  BY DEF SRuns, Client, SameNet, SameSockets
<1>4. /\ MovesOn(c, <<"read", None, m.id, m.q>>, <<"running", None, m.id, m.q>>)
      /\ <<m.id, m.q>> \notin executing[c]
  BY <1>1, <1>3, ReadToRunning
<1>5. Moved(c) BY <1>4 DEF Moved
<1>6. AllOnce(c)' BY <1>1, <1>3 DEF AllOnce
<1>7. executed[c] \subseteq executed'[c] BY <1>3
<1> QED BY <1>3, <1>4, <1>5, <1>6, <1>7, ServerMoved

LEMMA SRepliesKept ==
  ASSUME OwnerInv, NEW c \in Conns, FlowAt(c), ServedAt(c), NEW e \in executing[c], SReplies(c, e)
  PROVE  FlowAt(c)' /\ ServedAt(c)' /\ Seen(c)' \subseteq Seen(c)
<1>1. OnePlace(c) /\ AllOnce(c) BY DEF FlowAt, OnePlace
<1> DEFINE m == Msg("A", e[1], e[2])
           z1 == Append(srv[c].wq, m)
<1>2. /\ Client(c) /\ conn'[c] = conn[c] /\ SameHeld(c)
      /\ executing'[c] = executing[c] \ {e} /\ executed'[c] = executed[c]
      /\ sread'[c] = sread[c] /\ c2s'[c] = c2s[c] /\ s2c'[c] = s2c[c]
  BY DEF SReplies, Client, SameNet, SameSockets
<1>3. m \in MsgSet /\ Bye \in MsgSet /\ m.type = "A" /\ Bye.type # "A"
  BY TypesOf, MessageTypes DEF Msg, Bye
<1>4. z1 \in Seq(MsgSet) /\ AnswersIn(z1) = AnswersIn(srv[c].wq) \cup {m}
  BY <1>3, TypesOf, InAppend, PartsOf
<1> HIDE DEF z1
<1>5. Append(z1, Bye) \in Seq(MsgSet) /\ AnswersIn(Append(z1, Bye)) = AnswersIn(srv[c].wq) \cup {m}
  BY <1>3, <1>4, InAppend, PartsOf
<1>6. CASE srv'[c].wq = srv[c].wq
  BY <1>2, <1>6, ServerShrunk DEF NoNew
<1>7. CASE srv'[c].wq = z1 \/ srv'[c].wq = Append(z1, Bye)
  <2>1. PICK z \in Seq(MsgSet) : /\ AnswersIn(z) = AnswersIn(srv[c].wq) \cup {m}
                                 /\ srv'[c].wq = z /\ (z = z1 \/ z = Append(z1, Bye))
    BY <1>4, <1>5, <1>7
  <2>2. /\ MovesOn(c, <<"running", None, e[1], e[2]>>, <<"answered", None, e[1], e[2]>>)
        /\ m \notin InSeq(srv[c].wq)
    BY <1>1, <1>2, <2>1, RunningToAnswered
  <2>3. Moved(c) BY <2>2 DEF Moved
  <2> HIDE DEF m
  <2>4. Once(z1, "A")
    <3>1. Once(srv[c].wq, "A") /\ srv[c].wq \in Seq(MsgSet) BY <1>1, TypesOf DEF AllOnce
    <3>2. Once(Append(srv[c].wq, m), "A") BY <1>3, <2>2, <3>1, OnceSeq
    <3> QED BY <3>2 DEF z1
  <2>5. Once(z, "A")
    <3>1. Once(Append(z1, Bye), "A") BY <1>3, <1>4, <2>4, OnceSeq
    <3> QED BY <2>1, <2>4, <3>1
  <2>6. AllOnce(c)' BY <1>1, <1>2, <2>1, <2>5 DEF AllOnce
  <2> QED BY <1>2, <2>3, <2>6, ServerMoved
<1> QED BY <1>6, <1>7 DEF SReplies, z1

LEMMA SWritesKept ==
  ASSUME OwnerInv, NEW c \in Conns, FlowAt(c), ServedAt(c), SWrites(c)
  PROVE  FlowAt(c)' /\ ServedAt(c)' /\ Seen(c)' \subseteq Seen(c)
<1>1. OnePlace(c) /\ AllOnce(c) BY DEF FlowAt, OnePlace
<1>2. PICK m : m = Head(srv[c].wq) OBVIOUS
<1>3. /\ Client(c) /\ conn'[c] = conn[c] /\ SameHeld(c)
      /\ srv[c].wq # <<>> /\ srv'[c].wq = Tail(srv[c].wq) /\ c2s'[c] = c2s[c]
      /\ sread'[c] = sread[c] /\ executing'[c] = executing[c] /\ executed'[c] = executed[c]
      /\ s2c'[c] = Append(s2c[c], m) \/ s2c'[c] = s2c[c]
  BY <1>2 DEF SWrites, Client, SameWork
<1>4. m \in MsgSet BY <1>2, <1>3, TypesOf, InTail
<1>5. CASE s2c'[c] = s2c[c] \/ (s2c'[c] = Append(s2c[c], m) /\ m.type # "A")
  BY <1>3, <1>4, <1>5, ServerShrunk DEF NoNew
<1>6. CASE s2c'[c] = Append(s2c[c], m) /\ m.type = "A"
  <2>1. /\ MovesOn(c, <<"answered", None, m.id, m.q>>, <<"returned", None, m.id, m.q>>)
        /\ m \notin InSeq(s2c[c])
    BY <1>1, <1>2, <1>3, <1>6, AnsweredToReturned
  <2>2. Moved(c) BY <2>1 DEF Moved
  <2>3. Once(s2c'[c], "A") /\ Once(srv'[c].wq, "A")
    BY <1>1, <1>3, <1>4, <1>6, <2>1, TypesOf, OnceSeq DEF AllOnce
  <2>4. AllOnce(c)' BY <1>1, <1>3, <2>3 DEF AllOnce
  <2> QED BY <1>3, <2>2, <2>4, ServerMoved
<1> QED BY <1>3, <1>5, <1>6

LEMMA SEffectFlow ==
  ASSUME OwnerInv, NEW c \in Conns, FlowAt(c), ServedAt(c), SEffect(c)
  PROVE  FlowAt(c)' /\ ServedAt(c)' /\ Seen(c)' \subseteq Seen(c)
<1>0. /\ Hello \in MsgSet /\ Hello.type # "A" /\ Bye \in MsgSet /\ Bye.type # "A"
  BY MessageTypes DEF Hello, Bye, Msg
<1>1. CASE Client(c) /\ SameServer(c) /\ SameSockets(c)
  BY <1>1, ServerShrunk DEF SameServer, SameSockets, NoNew
<1>2. CASE SAccepts(c)
  BY <1>2, ServerShrunk DEF SAccepts, SameSrv, SameWork, SameNet, SameSockets, NoNew
<1>3. CASE SHellos(c)
  BY <1>0, <1>3, ServerShrunk DEF SHellos, SameWork, SameNet, SameSockets, NoNew
<1>4. CASE SStops(c) BY <1>4, ServerShrunk DEF SStops, NoNew
<1>5. CASE SDiscards(c) BY <1>5, ServerShrunk DEF SDiscards, SameNet, SameSockets, NoNew
<1>6. CASE SCloses(c)
  BY <1>0, <1>6, ServerShrunk DEF SCloses, SameWork, SameNet, SameSockets, NoNew
<1>7. CASE Resets(c) BY <1>7, ServerShrunk DEF Resets, SameWork, NoNew
<1>8. ASSUME NEW e \in executing[c], SFails(c, e)
      PROVE  FlowAt(c)' /\ ServedAt(c)' /\ Seen(c)' \subseteq Seen(c)
  BY <1>8, ServerShrunk DEF SFails, SameNet, SameSockets, NoNew
<1> QED BY <1>1, <1>2, <1>3, <1>4, <1>5, <1>6, <1>7, <1>8, SReadsKept, SRunsKept, SRepliesKept,
           SWritesKept DEF SEffect

-----------------------------------------------------------------------------
(* MadeFirst is kept: whoever touches a connection has got it from          *)
(* makeConnection().                                                       *)
OnlyAt(c) ==
  \A d \in Conns \ {c} : conn'[d] = conn[d] /\ disc'[d] = disc[d] /\ writing'[d] = writing[d]

Tried(c, w, k, k1) ==
  WriteOK(c, w, k) \/ (WriteFails(c, w, k) /\ conn' = [conn EXCEPT ![c] = k1])
TriedToSend(c, w, k, m, k1) ==
  SendOK(c, w, k, m) \/ (SendFails(c, w, k, m) /\ conn' = [conn EXCEPT ![c] = k1])

LEMMA WriteOnlyAt ==
  ASSUME OwnerInv, NEW c \in Conns, NEW w, NEW k, NEW k1, Tried(c, w, k, k1)
  PROVE  \A d \in Conns \ {c} : conn'[d] = conn[d] /\ writing'[d] = writing[d]
<1>1. PICK k2, v : conn' = [conn EXCEPT ![c] = k2] /\ writing' = [writing EXCEPT ![c][w] = v]
  BY DEF Tried, WriteOK, WriteFails
<1> QED BY <1>1 DEF OwnerInv, TypeOK

LEMMA SendOnlyAt ==
  ASSUME OwnerInv, NEW c \in Conns, NEW w, NEW k, NEW m, NEW k1,
         TriedToSend(c, w, k, m, k1)
  PROVE  \A d \in Conns \ {c} : conn'[d] = conn[d] /\ writing'[d] = writing[d]
<1>1. CASE conn' = [conn EXCEPT ![c] = Queued(k, m)] /\ UNCHANGED <<writing, c2s>>
  BY <1>1 DEF OwnerInv, TypeOK
<1>2. CASE WriteOK(c, w, Queued(k, m)) BY <1>2, WriteOnlyAt DEF Tried
<1>3. CASE SendFails(c, w, k, m) /\ conn' = [conn EXCEPT ![c] = k1]
  <2>1. Tried(c, w, Queued(k, m), k1) BY <1>3 DEF SendFails, Tried
  <2> QED BY <2>1, WriteOnlyAt
<1> QED BY <1>1, <1>2, <1>3 DEF SendOK, TriedToSend

LEMMA MadeKept ==
  ASSUME OwnerInv, MadeFirst, made \subseteq made',
         \A d \in Conns \ made' : conn'[d] = conn[d] /\ disc'[d] = disc[d] /\ writing'[d] = writing[d],
         cur' \in made' \cup {None}, firing' \in made' \cup {None},
         \A q \in Quests : at'[q] \in {"start", "send"} => con'[q] \in made',
         \A p \in failing' : p[1] \in made',
         \A r \in Readers : reader'[r] # None => reader'[r][1] \in made'
  PROVE  MadeFirst'
BY DEF MadeFirst

\* A step at a connection that has been made.
LEMMA MadeAt ==
  ASSUME OwnerInv, MadeFirst, NEW c \in made, OnlyAt(c), UNCHANGED made,
         cur' = cur \/ cur' = c, firing' \in {firing, c, None},
         UNCHANGED con, \A q \in Quests : at'[q] \in {at[q], "pick", "out"} \/ con[q] = c,
         \A p \in failing' : p \in failing \/ p[1] = c,
         \A r \in Readers : reader'[r] = reader[r] \/ reader'[r] = None \/ reader'[r][1] = c
  PROVE  MadeFirst'
<1>1. \A d \in Conns \ made' : conn'[d] = conn[d] /\ disc'[d] = disc[d] /\ writing'[d] = writing[d]
  BY DEF OnlyAt
<1>2. \A q \in Quests : at'[q] \in {"start", "send"} => con'[q] \in made' BY DEF MadeFirst
<1>3. cur' \in made' \cup {None} /\ firing' \in made' \cup {None} BY DEF MadeFirst
<1>4. \A p \in failing' : p[1] \in made' BY DEF MadeFirst
<1>5. \A r \in Readers : reader'[r] # None => reader'[r][1] \in made' BY DEF MadeFirst
<1> QED BY <1>1, <1>2, <1>3, <1>4, <1>5, MadeKept

LEMMA MadeQuest ==
  ASSUME OwnerInv, MadeFirst, QuestAction PROVE MadeFirst'
<1>1. ASSUME NEW q \in Quests, PickExisting(q) PROVE MadeFirst'
  <2>1. UNCHANGED <<conn, made, cur, writing, disc, reader, failing, firing>>
    BY <1>1 DEF PickExisting, connVars, thrVars
  <2>2. /\ \A x \in Quests \ {q} : at'[x] = at[x] /\ con'[x] = con[x]
        /\ con'[q] = cur /\ cur # None
    BY <1>1 DEF PickExisting, MayReuse, OwnerInv, TypeOK
  <2> QED BY <2>1, <2>2 DEF MadeFirst
<1>2. ASSUME NEW q \in Quests, PickThrows(q) PROVE MadeFirst'
  <2>1. UNCHANGED <<conn, made, cur, writing, disc, reader, failing, firing, con>>
    BY <1>2 DEF PickThrows, connVars, thrVars
  <2>2. \A x \in Quests : at'[x] = at[x] \/ at'[x] = "out"
    BY <1>2 DEF PickThrows, OwnerInv, TypeOK
  <2> QED BY <2>1, <2>2 DEF MadeFirst
<1>3. ASSUME NEW q \in Quests, StartTimer(q) PROVE MadeFirst'
  <2>1. PICK c \in Conns : c = con[q] BY <1>3 DEF OwnerInv, SendsOnConnection, StartTimer
  <2>2. c \in made BY <1>3, <2>1 DEF MadeFirst, StartTimer
  <2>3. /\ UNCHANGED <<made, writing, disc, reader, failing, firing, con>> /\ cur' = c
        /\ \A x \in Quests : at'[x] = at[x] \/ x = q
        /\ \A d \in Conns \ {c} : conn'[d] = conn[d]
    BY <1>3, <2>1 DEF StartTimer, thrVars, OwnerInv, TypeOK
  <2>4. OnlyAt(c) BY <2>3 DEF OnlyAt
  <2> QED BY <2>1, <2>2, <2>3, <2>4, MadeAt
<1>4. ASSUME NEW q \in Quests, SendQuestClosed(q) PROVE MadeFirst'
  <2>1. PICK c \in Conns : c = con[q] BY <1>4 DEF OwnerInv, SendsOnConnection, SendQuestClosed
  <2>2. c \in made BY <1>4, <2>1 DEF MadeFirst, SendQuestClosed
  <2>3. /\ UNCHANGED <<made, cur, writing, disc, reader, failing, firing, con>>
        /\ \A x \in Quests : at'[x] = at[x] \/ at'[x] = "out"
        /\ \A d \in Conns \ {c} : conn'[d] = conn[d]
    BY <1>4, <2>1 DEF SendQuestClosed, thrVars, OwnerInv, TypeOK
  <2>4. OnlyAt(c) BY <2>3 DEF OnlyAt
  <2> QED BY <2>2, <2>3, <2>4, MadeAt
<1>5. ASSUME NEW q \in Quests, SendQuest(q) \/ SendQuestHuge(q) PROVE MadeFirst'
  <2>1. PICK c \in Conns : c = con[q]
    BY <1>5 DEF OwnerInv, SendsOnConnection, SendQuest, SendQuestHuge
  <2>2. c \in made BY <1>5, <2>1 DEF MadeFirst, SendQuest, SendQuestHuge
  <2>3. /\ UNCHANGED <<made, cur, disc, reader, firing, con>>
        /\ \A x \in Quests : at'[x] = at[x] \/ at'[x] = "out"
        /\ failing' = failing \/ failing' = failing \cup {<<c, q>>}
    BY <1>5, <2>1 DEF SendQuest, SendQuestHuge, OwnerInv, TypeOK
  <2>4. \A d \in Conns \ {c} : conn'[d] = conn[d] /\ writing'[d] = writing[d]
    <3>1. CASE SendQuestHuge(q)
      <4>1. conn' = [conn EXCEPT ![c] = Added(conn[c], q)] /\ UNCHANGED writing
        BY <2>1, <3>1 DEF SendQuestHuge
      <4> QED BY <4>1 DEF OwnerInv, TypeOK
    <3>2. CASE SendQuest(q)
      <4>1. PICK k, m, k1 : TriedToSend(c, q, k, m, k1)
        BY <2>1, <3>2 DEF SendQuest, TriedToSend
      <4> QED BY <4>1, SendOnlyAt
    <3> QED BY <1>5, <3>1, <3>2
  <2>5. OnlyAt(c) BY <2>3, <2>4 DEF OnlyAt
  <2>6. \A p \in failing' : p \in failing \/ p[1] = c BY <2>3
  <2> QED BY <2>2, <2>3, <2>5, <2>6, MadeAt
<1>6. ASSUME NEW q \in Quests, NEW c \in Conns, PickNew(q, c) PROVE MadeFirst'
  <2>1. /\ UNCHANGED <<cur, writing, disc, reader, failing, firing>> /\ made' = made \cup {c}
        /\ \A d \in Conns \ {c} : conn'[d] = conn[d]
        /\ \A x \in Quests \ {q} : at'[x] = at[x] /\ con'[x] = con[x]
        /\ con'[q] = c
    BY <1>6 DEF PickNew, thrVars, OwnerInv, TypeOK
  <2> QED BY <2>1 DEF MadeFirst
<1>7. ASSUME NEW q \in Quests, NEW c \in Conns, SendQuestCatch(c, q) PROVE MadeFirst'
  <2>1. c \in made
    <3>1. <<c, q>> \in failing BY <1>7 DEF SendQuestCatch
    <3> QED BY <3>1 DEF MadeFirst
  <2>2. /\ UNCHANGED <<made, cur, writing, disc, reader, firing, con, at>>
        /\ failing' \subseteq failing
        /\ \A d \in Conns \ {c} : conn'[d] = conn[d]
    BY <1>7 DEF SendQuestCatch, OwnerInv, TypeOK
  <2>3. OnlyAt(c) BY <2>2 DEF OnlyAt
  <2> QED BY <2>1, <2>2, <2>3, MadeAt
<1>8. ASSUME NEW q \in Quests, NEW c \in Conns, DisconnectResult(c, q) PROVE MadeFirst'
  <2>1. UNCHANGED <<conn, made, cur, writing, disc, reader, failing, firing, con>>
    BY <1>8 DEF DisconnectResult, connVars
  <2>2. \A x \in Quests : at'[x] = at[x] \/ at'[x] = "pick"
    BY <1>8 DEF DisconnectResult, OwnerInv, TypeOK
  <2> QED BY <2>1, <2>2 DEF MadeFirst
<1>9. ASSUME NEW q \in Quests, NEW kind \in {"answer", "error"}, Give(q, kind) PROVE MadeFirst'
  BY <1>9 DEF Give, connVars, thrVars, MadeFirst
<1> QED BY <1>1, <1>2, <1>3, <1>4, <1>5, <1>6, <1>7, <1>8, <1>9 DEF QuestAction

LEMMA MadeConn ==
  ASSUME OwnerInv, MadeFirst, ConnAction PROVE MadeFirst'
<1>0. ASSUME NEW c \in Conns
      PROVE  \A d \in Conns \ {c} : Call(c)[d] = disc[d]
  BY DEF Call, OwnerInv, TypeOK
<1>1. ASSUME NEW r \in Readers, ReadAnswer(r) PROVE MadeFirst'
  <2>1. reader[r] # None /\ reader[r] \in Conns \X [type : {"A"}, id : Nat, q : Quests]
    BY <1>1 DEF ReadAnswer, OwnerInv, TypeOK
  <2>2. PICK c \in Conns : c = reader[r][1] BY <2>1
  <2>3. c \in made BY <2>1, <2>2 DEF MadeFirst
  <2>4. UNCHANGED <<made, cur, firing, failing, at, con>> BY <1>1 DEF ReadAnswer
  <2>5. \A x \in Readers : reader'[x] = reader[x] \/ reader'[x] = None
    BY <1>1 DEF ReadAnswer, OwnerInv, TypeOK
  <2>6. disc' = disc \/ disc' = Call(c) BY <1>1, <2>2 DEF ReadAnswer
  <2>7. \A d \in Conns \ {c} : conn'[d] = conn[d] /\ writing'[d] = writing[d]
    <3>1. \/ \E k : conn' = [conn EXCEPT ![c] = k] /\ UNCHANGED writing
          \/ \E k, m, k1 : TriedToSend(c, r, k, m, k1)
      BY <1>1, <2>2 DEF ReadAnswer, TriedToSend
    <3>2. CASE \E k : conn' = [conn EXCEPT ![c] = k] /\ UNCHANGED writing
      BY <3>2 DEF OwnerInv, TypeOK
    <3> QED BY <3>1, <3>2, SendOnlyAt
  <2>8. OnlyAt(c) BY <1>0, <2>6, <2>7 DEF OnlyAt
  <2> QED BY <2>3, <2>4, <2>5, <2>8, MadeAt
<1>2. ASSUME NEW c \in Conns, NEW w \in Writers, QuestSent(c, w) \/ WriteAgain(c, w)
      PROVE  MadeFirst'
  <2>1. writing[c][w] # None
    BY <1>2, ConstantsAssumption DEF QuestSent, WriteAgain
  <2>2. c \in made BY <2>1 DEF MadeFirst
  <2>3. /\ UNCHANGED <<made, cur, firing, reader, at, con>>
        /\ failing' = failing \/ failing' = failing \cup {<<c, w>>}
        /\ disc' = disc \/ disc' = Call(c)
    BY <1>2 DEF QuestSent, WriteAgain, connVars, resVars
  <2>4. \A d \in Conns \ {c} : conn'[d] = conn[d] /\ writing'[d] = writing[d]
    <3>1. CASE QuestSent(c, w)
      BY <3>1 DEF QuestSent, connVars, OwnerInv, TypeOK
    <3>2. CASE WriteAgain(c, w)
      <4>1. \E k, k1 : Tried(c, w, k, k1) BY <3>2 DEF WriteAgain, Tried
      <4> QED BY <4>1, WriteOnlyAt
    <3> QED BY <1>2, <3>1, <3>2
  <2>5. OnlyAt(c) BY <1>0, <2>3, <2>4 DEF OnlyAt
  <2>6. \A p \in failing' : p \in failing \/ p[1] = c BY <2>3
  <2> QED BY <2>2, <2>3, <2>5, <2>6, MadeAt
<1>3. ASSUME NEW c \in Conns, NEW r \in Readers, DoWrite(c, r) \/ RecvHello(c, r) PROVE MadeFirst'
  <2>1. c \in made BY <1>3 DEF DoWrite, RecvHello, Readable
  <2>2. /\ UNCHANGED <<made, cur, firing, failing, reader, at, con>>
        /\ disc' = disc \/ disc' = Call(c)
    BY <1>3 DEF DoWrite, RecvHello, resVars
  <2>3. \A d \in Conns \ {c} : conn'[d] = conn[d] /\ writing'[d] = writing[d]
    <3>1. CASE UNCHANGED <<conn, writing>> BY <3>1
    <3>2. CASE \E k, k1 : Tried(c, r, k, k1) BY <3>2, WriteOnlyAt
    <3> QED BY <1>3, <3>1, <3>2 DEF DoWrite, RecvHello, Tried
  <2>4. OnlyAt(c) BY <1>0, <2>2, <2>3 DEF OnlyAt
  <2> QED BY <2>1, <2>2, <2>4, MadeAt
<1>4. ASSUME NEW c \in Conns, NEW r \in Readers, RecvBye(c, r) \/ RecvFails(c, r) PROVE MadeFirst'
  <2>1. c \in made BY <1>4 DEF RecvBye, RecvFails, Readable
  <2>2. /\ UNCHANGED <<made, cur, writing, firing, failing, reader, at, con>> /\ disc' = Call(c)
        /\ \A d \in Conns \ {c} : conn'[d] = conn[d]
    BY <1>4 DEF RecvBye, RecvFails, resVars, OwnerInv, TypeOK
  <2>3. OnlyAt(c) BY <1>0, <2>2 DEF OnlyAt
  <2> QED BY <2>1, <2>2, <2>3, MadeAt
<1>5. ASSUME NEW c \in Conns, NEW r \in Readers, RecvAnswer(c, r) PROVE MadeFirst'
  <2>1. c \in made BY <1>5 DEF RecvAnswer, Readable
  <2>2. /\ UNCHANGED <<conn, made, cur, writing, disc, firing, failing, at, con>>
        /\ \A x \in Readers : reader'[x] = reader[x] \/ reader'[x][1] = c
    BY <1>5 DEF RecvAnswer, connVars, resVars, OwnerInv, TypeOK
  <2>3. OnlyAt(c) BY <2>2 DEF OnlyAt
  <2> QED BY <2>1, <2>2, <2>3, MadeAt
<1>6. ASSUME NEW c \in Conns,
             Timeout(c) \/ DoTimeout(c) \/ DisconnectBegin(c) \/ DisconnectTake(c) \/ CloseForce(c)
      PROVE  MadeFirst'
  <2>1. c \in made
    <3>1. FreshConn.rt = FALSE /\ FreshConn.wt = FALSE BY DEF FreshConn
    <3>2. CASE Timeout(c) BY <3>1, <3>2 DEF Timeout, MadeFirst
    <3>3. CASE DoTimeout(c) BY <3>3, ConstantsAssumption DEF DoTimeout, MadeFirst
    <3>4. CASE DisconnectBegin(c) \/ DisconnectTake(c)
      BY <3>4 DEF DisconnectBegin, DisconnectTake, MadeFirst
    <3> QED BY <1>6, <3>2, <3>3, <3>4 DEF CloseForce
  <2>2. UNCHANGED <<made, cur, writing, failing, reader, at, con>>
    BY <1>6 DEF Timeout, DoTimeout, DisconnectBegin, DisconnectTake, CloseForce, connVars, resVars
  <2>3. firing' \in {firing, c, None}
    BY <1>6 DEF Timeout, DoTimeout, DisconnectBegin, DisconnectTake, CloseForce
  <2>4. \A d \in Conns \ {c} : conn'[d] = conn[d]
    BY <1>6 DEF Timeout, DoTimeout, DisconnectBegin, DisconnectTake, CloseForce, connVars, OwnerInv,
                TypeOK
  <2>5. \A d \in Conns \ {c} : disc'[d] = disc[d]
    BY <1>0, <1>6 DEF Timeout, DoTimeout, DisconnectBegin, DisconnectTake, CloseForce, OwnerInv,
                      TypeOK
  <2>6. OnlyAt(c) BY <2>2, <2>4, <2>5 DEF OnlyAt
  <2> QED BY <2>1, <2>2, <2>3, <2>6, MadeAt
<1>7. ASSUME NEW c \in Conns, Close(c) PROVE MadeFirst'
  <2>1. c \in made BY <1>7 DEF Close
  <2>2. UNCHANGED <<made, cur, disc, failing, firing, reader, at, con>> BY <1>7 DEF Close, resVars
  <2>3. \A d \in Conns \ {c} : conn'[d] = conn[d] /\ writing'[d] = writing[d]
    <3>1. \/ \E k : conn' = [conn EXCEPT ![c] = k] /\ UNCHANGED writing
          \/ \E w, k, m, k1 : TriedToSend(c, w, k, m, k1)
      BY <1>7 DEF Close, TriedToSend
    <3>2. CASE \E k : conn' = [conn EXCEPT ![c] = k] /\ UNCHANGED writing
      BY <3>2 DEF OwnerInv, TypeOK
    <3> QED BY <3>1, <3>2, SendOnlyAt
  <2>4. OnlyAt(c) BY <2>2, <2>3 DEF OnlyAt
  <2> QED BY <2>1, <2>2, <2>4, MadeAt
<1> QED BY <1>1, <1>2, <1>3, <1>4, <1>5, <1>6, <1>7 DEF ConnAction

LEMMA MadeStep ==
  ASSUME OwnerInv, MadeFirst, ClientAction \/ UNCHANGED <<connVars, thrVars, resVars>>
  PROVE  MadeFirst'
<1>1. CASE UNCHANGED <<connVars, thrVars, resVars>>
  BY <1>1 DEF MadeFirst, connVars, thrVars, resVars
<1> QED BY <1>1, MadeQuest, MadeConn DEF ClientAction

-----------------------------------------------------------------------------
(* What the client's steps do to the results.                              *)
Results ==
  \A q \in Quests :
    /\ at'[q] = "new" => at[q] = "new"
    /\ Given(q) \/ Done(q) => Given(q)' \/ Done(q)'
    /\ <<q, "answer">> \in giving' \/ outcome'[q] = "answer" =>
         \/ <<q, "answer">> \in giving \/ outcome[q] = "answer"
         \/ \E c \in Conns : \E t \in HeldTrace(c) : <<t[3], q>> \in conn[c].map

LEMMA ResultsGrow ==
  ASSUME \A q \in Quests : at'[q] = "new" => at[q] = "new",
         giving \subseteq giving', \A q \in Quests : <<q, "answer">> \in giving' => <<q, "answer">> \in giving,
         UNCHANGED outcome
  PROVE  Results
BY DEF Results, Given, Done

LEMMA ResultsQuest == ASSUME OwnerInv, QuestAction PROVE Results
<1>1. ASSUME NEW q \in Quests, PickExisting(q) \/ StartTimer(q) \/ SendQuest(q) \/ SendQuestHuge(q)
      PROVE  Results
  <2>1. UNCHANGED <<giving, outcome>> BY <1>1 DEF PickExisting, StartTimer, SendQuest, SendQuestHuge
  <2>2. \A x \in Quests : at'[x] = "new" => at[x] = "new"
    BY <1>1 DEF PickExisting, StartTimer, SendQuest, SendQuestHuge, OwnerInv, TypeOK
  <2> QED BY <2>1, <2>2, ResultsGrow
<1>2. ASSUME NEW q \in Quests, NEW c \in Conns, PickNew(q, c) PROVE Results
  <2>1. UNCHANGED <<giving, outcome>> BY <1>2 DEF PickNew
  <2>2. \A x \in Quests : at'[x] = "new" => at[x] = "new"
    BY <1>2 DEF PickNew, OwnerInv, TypeOK
  <2> QED BY <2>1, <2>2, ResultsGrow
<1>3. ASSUME NEW q \in Quests, PickThrows(q) \/ SendQuestClosed(q) PROVE Results
  <2>1. UNCHANGED outcome BY <1>3 DEF PickThrows, SendQuestClosed
  <2>2. \A x \in Quests : at'[x] = "new" => at[x] = "new"
    BY <1>3 DEF PickThrows, SendQuestClosed, OwnerInv, TypeOK
  <2>3. /\ giving \subseteq giving'
        /\ \A x \in Quests : <<x, "answer">> \in giving' => <<x, "answer">> \in giving
    BY <1>3 DEF PickThrows, SendQuestClosed
  <2> QED BY <2>1, <2>2, <2>3, ResultsGrow
<1>4. ASSUME NEW q \in Quests, NEW c \in Conns, SendQuestCatch(c, q) \/ DisconnectResult(c, q)
      PROVE  Results
  <2>1. UNCHANGED outcome BY <1>4 DEF SendQuestCatch, DisconnectResult
  <2>2. \A x \in Quests : at'[x] = "new" => at[x] = "new"
    BY <1>4 DEF SendQuestCatch, DisconnectResult, OwnerInv, TypeOK
  <2>3. /\ giving \subseteq giving'
        /\ \A x \in Quests : <<x, "answer">> \in giving' => <<x, "answer">> \in giving
    BY <1>4 DEF SendQuestCatch, DisconnectResult
  <2> QED BY <2>1, <2>2, <2>3, ResultsGrow
<1>5. ASSUME NEW q \in Quests, NEW kind \in {"answer", "error"}, Give(q, kind) PROVE Results
  <2>1. /\ <<q, kind>> \in giving /\ giving' = giving \ {<<q, kind>>} /\ UNCHANGED at
        /\ outcome'[q] = kind /\ \A x \in Quests \ {q} : outcome'[x] = outcome[x]
    BY <1>5 DEF Give, OwnerInv, TypeOK
  <2>2. ASSUME NEW x \in Quests, Given(x) \/ Done(x) PROVE Given(x)' \/ Done(x)'
    <3>1. CASE x = q BY <2>1, <3>1 DEF Done
    <3>2. CASE x # q BY <2>1, <2>2, <3>2 DEF Given, Done
    <3> QED BY <3>1, <3>2
  <2>3. ASSUME NEW x \in Quests, <<x, "answer">> \in giving' \/ outcome'[x] = "answer"
        PROVE  <<x, "answer">> \in giving \/ outcome[x] = "answer"
    BY <2>1, <2>3
  <2> QED BY <2>1, <2>2, <2>3 DEF Results
<1> QED BY <1>1, <1>2, <1>3, <1>4, <1>5 DEF QuestAction

LEMMA ResultsConn == ASSUME OwnerInv, ConnAction PROVE Results
<1>1. ASSUME NEW r \in Readers, ReadAnswer(r) PROVE Results
  <2>1. UNCHANGED <<at, outcome>> BY <1>1 DEF ReadAnswer
  <2>2. PICK c \in Conns, x \in Nat \X Quests :
          /\ Reads(c, r, x)
          /\ \/ giving' = giving
             \/ giving' = giving \cup {<<y, "answer">> : y \in QuestsOf(EntriesOf(conn[c], x[1]))}
    BY <1>1, ReadAnswerFlow
  <2>3. giving \subseteq giving' BY <2>2
  <2>4. ASSUME NEW q \in Quests, <<q, "answer">> \in giving', <<q, "answer">> \notin giving
        PROVE  \E t \in HeldTrace(c) : <<t[3], q>> \in conn[c].map
    <3>1. q \in QuestsOf(EntriesOf(conn[c], x[1])) BY <2>2, <2>4
    <3>2. PICK p \in conn[c].map : p[1] = x[1] /\ p[2] = q BY <3>1 DEF QuestsOf, EntriesOf
    <3>3. p = <<x[1], q>> BY <3>2, TypesOf
    <3>4. <<"held", r, x[1], x[2]>> \in HeldTrace(c) BY <2>2 DEF Reads
    <3> QED BY <3>2, <3>3, <3>4
  <2>5. \A q \in Quests : Given(q) \/ Done(q) => Given(q)' \/ Done(q)' BY <2>1, <2>3 DEF Given, Done
  <2> QED BY <2>1, <2>4, <2>5 DEF Results
<1>2. ASSUME NEW c \in Conns, NEW w \in Writers, QuestSent(c, w) \/ WriteAgain(c, w) PROVE Results
  <2>1. UNCHANGED <<at, giving, outcome>> BY <1>2 DEF QuestSent, WriteAgain, resVars
  <2> QED BY <2>1, ResultsGrow
<1>3. ASSUME NEW c \in Conns, NEW r \in Readers,
             \/ DoWrite(c, r) \/ RecvHello(c, r) \/ RecvBye(c, r)
             \/ RecvAnswer(c, r) \/ RecvFails(c, r)
      PROVE  Results
  <2>1. UNCHANGED <<at, giving, outcome>>
    BY <1>3 DEF DoWrite, RecvHello, RecvBye, RecvAnswer, RecvFails, resVars
  <2> QED BY <2>1, ResultsGrow
<1>4. ASSUME NEW c \in Conns,
             \/ Timeout(c) \/ DoTimeout(c) \/ DisconnectBegin(c) \/ DisconnectTake(c)
             \/ Close(c) \/ CloseForce(c)
      PROVE  Results
  <2>1. UNCHANGED <<at, giving, outcome>>
    BY <1>4 DEF Timeout, DoTimeout, DisconnectBegin, DisconnectTake, Close, CloseForce, resVars
  <2> QED BY <2>1, ResultsGrow
<1> QED BY <1>1, <1>2, <1>3, <1>4 DEF ConnAction

LEMMA ResultsStep ==
  ASSUME OwnerInv, ClientAction \/ UNCHANGED <<connVars, thrVars, resVars>> PROVE Results
<1>1. CASE UNCHANGED <<connVars, thrVars, resVars>>
  <2>1. UNCHANGED <<at, giving, outcome>> BY <1>1 DEF resVars
  <2> QED BY <2>1, ResultsGrow
<1> QED BY <1>1, ResultsQuest, ResultsConn DEF ClientAction

-----------------------------------------------------------------------------
(* Whoever is in sendQuest's catch clause: the quest was queued nowhere, or *)
(* the connection is in ST_ERROR.                                          *)
FailsAt(c) ==
  \A q \in Quests : <<c, q>> \in failing' /\ conn'[c].st < ST_CLOSED =>
    \/ <<c, q>> \in failing /\ (txid'[q] = txid[q] \/ at[q] = "send")
    \/ "huge" \in Env /\ Adds(c, q) /\ SameQueue(c) /\ txid'[q] = conn[c].next

LEMMA FailsSame ==
  ASSUME failing' \subseteq failing, UNCHANGED txid PROVE \A c \in Conns : FailsAt(c)
BY DEF FailsAt

LEMMA FailsQuest == ASSUME OwnerInv, QuestAction PROVE \A c \in Conns : FailsAt(c)
<1>1. ASSUME NEW q \in Quests, PickExisting(q) \/ PickThrows(q) \/ StartTimer(q) \/ SendQuestClosed(q)
      PROVE  \A c \in Conns : FailsAt(c)
  <2>1. UNCHANGED <<failing, txid>>
    BY <1>1 DEF PickExisting, PickThrows, StartTimer, SendQuestClosed, thrVars
  <2> QED BY <2>1, FailsSame
<1>2. ASSUME NEW q \in Quests, NEW c \in Conns,
             PickNew(q, c) \/ SendQuestCatch(c, q) \/ DisconnectResult(c, q)
      PROVE  \A d \in Conns : FailsAt(d)
  <2>1. failing' \subseteq failing /\ UNCHANGED txid
    BY <1>2 DEF PickNew, SendQuestCatch, DisconnectResult, thrVars
  <2> QED BY <2>1, FailsSame
<1>3. ASSUME NEW q \in Quests, NEW kind \in {"answer", "error"}, Give(q, kind)
      PROVE  \A c \in Conns : FailsAt(c)
  <2>1. UNCHANGED <<failing, txid>> BY <1>3 DEF Give, thrVars
  <2> QED BY <2>1, FailsSame
<1>4. ASSUME NEW q \in Quests, SendQuestHuge(q) PROVE \A c \in Conns : FailsAt(c)
  <2>1. PICK c \in Conns : c = con[q] /\ Adds(c, q) /\ SameQueue(c)
    BY <1>4, SendQuestHugeFlow
  <2>2. /\ failing' = failing \cup {<<c, q>>} /\ txid'[q] = conn[c].next /\ "huge" \in Env
        /\ at[q] = "send" /\ \A x \in Quests \ {q} : txid'[x] = txid[x]
    BY <1>4, <2>1 DEF SendQuestHuge, OwnerInv, TypeOK
  <2> QED BY <2>1, <2>2 DEF FailsAt
<1>5. ASSUME NEW q \in Quests, SendQuest(q) PROVE \A c \in Conns : FailsAt(c)
  <2>1. PICK c \in Conns : c = con[q] /\ Adds(c, q) BY <1>5, SendQuestFlow
  <2>2. /\ at[q] = "send" /\ \A x \in Quests \ {q} : txid'[x] = txid[x]
    BY <1>5, <2>1 DEF SendQuest, OwnerInv, TypeOK
  <2>3. failing' = failing \/ (failing' = failing \cup {<<c, q>>} /\ conn'[c].st = ST_ERROR)
    <3>1. CASE failing' # failing
      <4> DEFINE k == Queued(Added(conn[c], q), Msg("Q", conn[c].next, q))
      <4>1. failing' = failing \cup {<<c, q>>} /\ conn' = [conn EXCEPT ![c] = FailedWrite(k)]
        BY <1>5, <2>1, <3>1 DEF SendQuest
      <4>2. k \in ConnSet BY TypesOf, RecordTypes, MessageTypes
      <4>3. conn'[c] = FailedWrite(k) BY <4>1 DEF OwnerInv, TypeOK
      <4> QED BY <4>1, <4>2, <4>3, RecordFields
    <3> QED BY <3>1
  <2> QED BY <2>2, <2>3 DEF FailsAt, ST_ERROR, ST_CLOSED
<1> QED BY <1>1, <1>2, <1>3, <1>4, <1>5 DEF QuestAction

LEMMA FailsConn == ASSUME OwnerInv, ConnAction PROVE \A c \in Conns : FailsAt(c)
<1>1. ASSUME NEW r \in Readers, ReadAnswer(r) PROVE \A c \in Conns : FailsAt(c)
  <2>1. UNCHANGED <<failing, txid>> BY <1>1 DEF ReadAnswer
  <2> QED BY <2>1, FailsSame
<1>2. ASSUME NEW c \in Conns, NEW w \in Writers, QuestSent(c, w) PROVE \A d \in Conns : FailsAt(d)
  <2>1. UNCHANGED <<failing, txid>> BY <1>2 DEF QuestSent
  <2> QED BY <2>1, FailsSame
<1>3. ASSUME NEW c \in Conns, NEW w \in Writers, WriteAgain(c, w) PROVE \A d \in Conns : FailsAt(d)
  <2>1. UNCHANGED txid BY <1>3 DEF WriteAgain, resVars
  <2>2. CASE failing' = failing BY <2>1, <2>2, FailsSame
  <2>3. CASE failing' # failing
    <3>1. failing' = failing \cup {<<c, w>>} /\ conn' = [conn EXCEPT ![c] = FailedWrite(conn[c])]
      BY <1>3, <2>3 DEF WriteAgain
    <3>2. conn'[c].st = ST_ERROR BY <3>1, TypesOf, RecordFields DEF OwnerInv, TypeOK
    <3> QED BY <2>1, <3>1, <3>2 DEF FailsAt, ST_ERROR, ST_CLOSED
  <2> QED BY <2>2, <2>3
<1>4. ASSUME NEW c \in Conns, NEW r \in Readers,
             \/ DoWrite(c, r) \/ RecvHello(c, r) \/ RecvBye(c, r)
             \/ RecvAnswer(c, r) \/ RecvFails(c, r)
      PROVE  \A d \in Conns : FailsAt(d)
  <2>1. UNCHANGED <<failing, txid>>
    BY <1>4 DEF DoWrite, RecvHello, RecvBye, RecvAnswer, RecvFails, resVars
  <2> QED BY <2>1, FailsSame
<1>5. ASSUME NEW c \in Conns,
             \/ Timeout(c) \/ DoTimeout(c) \/ DisconnectBegin(c) \/ DisconnectTake(c)
             \/ Close(c) \/ CloseForce(c)
      PROVE  \A d \in Conns : FailsAt(d)
  <2>1. UNCHANGED <<failing, txid>>
    BY <1>5 DEF Timeout, DoTimeout, DisconnectBegin, DisconnectTake, Close, CloseForce, resVars
  <2> QED BY <2>1, FailsSame
<1> QED BY <1>1, <1>2, <1>3, <1>4, <1>5 DEF ConnAction

LEMMA EffectState ==
  ASSUME OwnerInv, NEW c \in Conns, Effect(c), conn'[c].st < ST_CLOSED
  PROVE  /\ conn[c].st < ST_CLOSED
         /\ conn[c].map \subseteq conn'[c].map \/ (\E id \in Nat : Drops(c, id) /\ Unsends(c, id))
            \/ (SaysBye(c) /\ SameHeld(c) /\ conn[c].map = {})
            \/ (\E r \in Readers, x \in Nat \X Quests : Reads(c, r, x) /\ GivesAnswer(c, x[1]))
<1>1. CASE \/ Quiet(c) \/ Handles(c) \/ Made(c) \/ Writes(c) \/ \E r \in Readers : GetsAnswer(c, r)
           \/ \E q \in Quests : Adds(c, q)
  BY <1>1 DEF Quiet, Handles, Made, Writes, GetsAnswer, Adds, SameState, SameResults
<1>2. CASE GetsBye(c) \/ Takes(c) BY <1>2 DEF GetsBye, Takes, ST_CLOSED, ST_ERROR
<1>3. CASE \E id \in Nat : Drops(c, id) /\ Unsends(c, id) BY <1>3 DEF Drops, SameState
<1>4. CASE SaysBye(c) /\ SameHeld(c) /\ conn[c].map = {} BY <1>4 DEF SaysBye
<1>5. CASE \E r \in Readers, x \in Nat \X Quests :
             Reads(c, r, x) /\ GivesAnswer(c, x[1]) /\ (KeepsOpen(c) \/ SaysBye(c))
  BY <1>5 DEF KeepsOpen, SaysBye, ST_CLOSED, ST_ERROR
<1> QED BY <1>1, <1>2, <1>3, <1>4, <1>5 DEF Effect

LEMMA FailingKept ==
  ASSUME OwnerInv, FlowInv, NEW c \in Conns, ServedAt(c), Effect(c), FailsAt(c)
  PROVE  FailingQuest(c)'
<1> SUFFICES ASSUME NEW q \in Quests, <<c, q>> \in failing', conn'[c].st < ST_CLOSED
             PROVE  "huge" \in Env /\ <<txid'[q], q>> \in conn'[c].map \ Seen(c)'
  BY DEF FailingQuest
<1>0. FlowAt(c) /\ FailingQuest(c) BY DEF FlowInv
<1>1. conn[c].st < ST_CLOSED BY EffectState
<1>2. /\ \/ Seen(c)' \subseteq Seen(c)
         \/ \E x \in Quests : Adds(c, x) /\ Seen(c)' \subseteq Seen(c) \cup {<<conn[c].next, x>>}
  BY <1>0, EffectFlow
<1>3. CASE <<c, q>> \in failing
  <2>1. "huge" \in Env /\ <<txid[q], q>> \in conn[c].map \ Seen(c) BY <1>0, <1>1, <1>3 DEF FailingQuest
  <2>2. InMap(q, c)
    <3>1. <<txid[q], q>>[2] = q OBVIOUS
    <3> QED BY <2>1, <3>1 DEF InMap
  <2>3. at[q] # "send" /\ ~Adds(c, q) BY <2>2 DEF OwnerInv, OneOwner, OwnedOnce, Sending, Adds
  <2>4. txid'[q] = txid[q] BY <2>3 DEF FailsAt
  <2>5. <<txid[q], q>> \notin Seen(c)'
    <3>1. CASE Seen(c)' \subseteq Seen(c) BY <2>1, <3>1
    <3>2. ASSUME NEW x \in Quests, Adds(c, x), Seen(c)' \subseteq Seen(c) \cup {<<conn[c].next, x>>}
          PROVE  <<txid[q], q>> \notin Seen(c)'
      BY <2>1, <2>3, <3>2
    <3> QED BY <1>2, <3>1, <3>2
  <2>6. <<txid[q], q>> \in conn'[c].map
    <3>1. CASE conn[c].map \subseteq conn'[c].map BY <2>1, <3>1
    <3>2. ASSUME NEW id \in Nat, Drops(c, id), Unsends(c, id) PROVE <<txid[q], q>> \in conn'[c].map
      <4>1. ~(conn[c].st >= ST_CLOSED) BY <1>1, TypesOf DEF ST_CLOSED
      <4>2. PICK y \in Quests : <<c, y>> \in failing /\ <<c, y>> \notin failing' /\ id = txid[y]
        BY <3>2, <4>1 DEF Unsends
      <4>3. <<id, y>> \in conn[c].map BY <1>0, <1>1, <4>2 DEF FailingQuest
      <4>4. ASSUME txid[q] = id PROVE FALSE
        <5>1. <<txid[q], q>> = <<id, y>>
          BY <1>0, <2>1, <4>3, <4>4 DEF FlowAt, IdsGiven
        <5>2. y = q BY <5>1
        <5> QED BY <4>2, <5>2
      <4>5. conn'[c].map = conn[c].map \ EntriesOf(conn[c], id) BY <3>2 DEF Drops
      <4> QED BY <2>1, <4>4, <4>5 DEF EntriesOf
    <3>3. conn[c].map # {} BY <2>1
    <3>4. ASSUME NEW r \in Readers, NEW x \in Nat \X Quests, Reads(c, r, x)
          PROVE  <<txid[q], q>> \in conn'[c].map
      <4>1. <<"held", r, x[1], x[2]>> \in Trace(c) BY <3>4, InTrace DEF Reads
      <4>2. <<x[1], x[2]>> \in Seen(c)
        <5>1. <<"held", r, x[1], x[2]>>[3] = x[1] /\ <<"held", r, x[1], x[2]>>[4] = x[2] OBVIOUS
        <5> QED BY <4>1, <5>1 DEF Seen
      <4>3. ASSUME txid[q] = x[1] PROVE FALSE
        <5>1. <<x[1], x[2]>> = <<txid[q], q>> BY <1>0, <2>1, <4>2, <4>3 DEF FlowAt, Matching
        <5> QED BY <2>1, <4>2, <5>1
      <4>4. conn'[c].map = conn[c].map \ EntriesOf(conn[c], x[1]) BY <3>4 DEF Reads
      <4> QED BY <2>1, <4>3, <4>4 DEF EntriesOf
    <3> QED BY <3>1, <3>2, <3>3, <3>4, EffectState
  <2> QED BY <2>1, <2>4, <2>5, <2>6
<1>4. CASE <<c, q>> \notin failing
  <2>1. "huge" \in Env /\ Adds(c, q) /\ SameQueue(c) /\ txid'[q] = conn[c].next
    BY <1>4 DEF FailsAt
  <2>2. <<conn[c].next, q>> \in conn'[c].map BY <2>1 DEF Adds
  <2>3. Trace(c)' \subseteq Trace(c)
    BY <1>0, <2>1, NoNewFlow DEF FlowAt, OnePlace, Adds, SameQueue, SameSockets, SameServer, SameHeld,
                                 NoNew
  <2>4. <<conn[c].next, q>> \notin Seen(c)'
    <3> SUFFICES ASSUME <<conn[c].next, q>> \in Seen(c)' PROVE FALSE OBVIOUS
    <3>1. PICK t \in Trace(c)' : <<conn[c].next, q>> = <<t[3], t[4]>> BY DEF Seen
    <3>2. <<conn[c].next, q>> \in Seen(c) BY <2>3, <3>1 DEF Seen
    <3>3. <<conn[c].next, q>>[1] < conn[c].next BY <1>0, <3>2 DEF FlowAt, IdsGiven
    <3> QED BY <3>3, TypesOf
  <2> QED BY <2>1, <2>2, <2>4
<1> QED BY <1>3, <1>4

-----------------------------------------------------------------------------
(* The server's end keeps its shape and its count of quests in process.    *)
LEMMA Counting ==
  ASSUME NEW S, IsFiniteSet(S)
  PROVE  /\ Cardinality(S) \in Nat /\ (Cardinality(S) = 0 <=> S = {})
         /\ \A x : x \notin S => IsFiniteSet(S \cup {x}) /\ Cardinality(S \cup {x}) = Cardinality(S) + 1
         /\ \A x : x \in S => IsFiniteSet(S \ {x}) /\ Cardinality(S \ {x}) = Cardinality(S) - 1
         /\ \A R \in SUBSET S : IsFiniteSet(R)
BY FS_CardinalityType, FS_EmptySet, FS_AddElement, FS_RemoveElement, FS_Subset

LEMMA SrvShapeKept ==
  ASSUME OwnerInv, NEW c \in Conns, SrvShape(c), SEffect(c), OwnerInv'
  PROVE  SrvShape(c)'
<1> USE DEF SrvShape, ST_WAITING_HELLO, ST_ACTIVE, ST_CLOSE, ST_CLOSING, ST_CLOSED, ST_ERROR
<1>0. /\ srv[c].fd \in BOOLEAN /\ srv[c].up \in BOOLEAN /\ srv[c].started \in BOOLEAN
      /\ srv[c].st \in Int
  BY TypesOf
<1>1. srv'[c].rt => srv'[c].up BY DEF SEffect
<1>2. CASE Client(c) /\ SameServer(c) /\ SameSockets(c) BY <1>2 DEF SameServer
<1>3. CASE SAccepts(c) BY <1>0, <1>1, <1>3 DEF SAccepts, SameSrv, SameWork
<1>4. CASE SHellos(c) BY <1>0, <1>1, <1>4 DEF SHellos, SameWork
<1>5. CASE SWrites(c) BY <1>0, <1>1, <1>5 DEF SWrites, SameEnds, SameWork
<1>6. CASE SReads(c) BY <1>0, <1>1, <1>6 DEF SReads
<1>7. CASE SStops(c) BY <1>0, <1>1, <1>7 DEF SStops
<1>8. CASE SDiscards(c) BY <1>0, <1>1, <1>8 DEF SDiscards
<1>9. ASSUME NEW m \in sread[c], SRuns(c, m) PROVE SrvShape(c)'
  BY <1>0, <1>1, <1>9 DEF SRuns, SameEnds
<1>10. ASSUME NEW e \in executing[c], SReplies(c, e) PROVE SrvShape(c)'
  BY <1>0, <1>1, <1>10 DEF SReplies, SameEnds
<1>11. ASSUME NEW e \in executing[c], SFails(c, e) PROVE SrvShape(c)'
  BY <1>0, <1>1, <1>11 DEF SFails, SameEnds
<1>12. CASE SCloses(c) BY <1>0, <1>1, <1>12 DEF SCloses, SameEnds, SameWork
<1>13. CASE Resets(c) BY <1>0, <1>1, <1>13 DEF Resets, SameWork
<1> QED BY <1>2, <1>3, <1>4, <1>5, <1>6, <1>7, <1>8, <1>9, <1>10, <1>11, <1>12, <1>13 DEF SEffect

LEMMA ProcessingKept ==
  ASSUME OwnerInv, NEW c \in Conns, FlowAt(c), ServedAt(c), ServerAt(c), SEffect(c)
  PROVE  Processing(c)' /\ SrvCloseWaits(c)'
<1> USE DEF Processing, SrvCloseWaits, ST_WAITING_HELLO, ST_ACTIVE, ST_CLOSE, ST_CLOSING, ST_CLOSED,
            ST_ERROR
<1>0. /\ SrvShape(c) /\ Processing(c) /\ SrvCloseWaits(c) /\ srv[c].st \in Int
      /\ srv[c].started \in BOOLEAN
  BY TypesOf DEF ServerAt
<1>1. IsFiniteSet(executing[c]) BY <1>0
<1>2. CASE Client(c) /\ SameServer(c) /\ SameSockets(c) BY <1>0, <1>2 DEF SameServer
<1>3. CASE SAccepts(c) BY <1>0, <1>3 DEF SAccepts, SameSrv, SameWork
<1>4. CASE SHellos(c) BY <1>0, <1>4 DEF SHellos, SameWork, SrvShape
<1>5. CASE SWrites(c) BY <1>0, <1>5 DEF SWrites, SameWork
<1>6. CASE SReads(c) BY <1>0, <1>6 DEF SReads
<1>7. CASE SStops(c)
  <2>1. IsFiniteSet(executing'[c]) BY <1>1, <1>7, Counting DEF SStops
  <2> QED BY <1>7, <2>1 DEF SStops
<1>8. CASE SDiscards(c) BY <1>0, <1>8 DEF SDiscards
<1>9. ASSUME NEW m \in sread[c], SRuns(c, m) PROVE Processing(c)' /\ SrvCloseWaits(c)'
  <2>1. <<m.id, m.q>> \notin executing[c] BY <1>9, SRunsKept
  <2>2. /\ IsFiniteSet(executing'[c])
        /\ Cardinality(executing'[c]) = Cardinality(executing[c]) + 1
    BY <1>1, <1>9, <2>1, Counting DEF SRuns
  <2> QED BY <1>0, <1>9, <2>2 DEF SRuns
<1>10. ASSUME NEW e \in executing[c], SReplies(c, e) PROVE Processing(c)' /\ SrvCloseWaits(c)'
  <2>0. executing'[c] = executing[c] \ {e} BY <1>10 DEF SReplies
  <2>1. /\ IsFiniteSet(executing'[c]) /\ Cardinality(executing[c]) \in Nat
        /\ Cardinality(executing'[c]) = Cardinality(executing[c]) - 1
        /\ executing'[c] = {} => Cardinality(executing'[c]) = 0
    <3>1. /\ IsFiniteSet(executing'[c]) /\ Cardinality(executing[c]) \in Nat
          /\ Cardinality(executing'[c]) = Cardinality(executing[c]) - 1
      BY <1>1, <1>10, <2>0, Counting
    <3> QED BY <3>1, Counting
  <2>2. Processing(c)'
    <3>1. ASSUME srv'[c].st < ST_CLOSED PROVE srv[c].st < ST_CLOSED BY <1>0, <1>10, <3>1 DEF SReplies
    <3>2. srv'[c].processing = srv[c].processing - 1 BY <1>10 DEF SReplies
    <3>3. ASSUME srv'[c].st < ST_CLOSED PROVE srv'[c].processing = Cardinality(executing'[c])
      <4>1. srv[c].processing = Cardinality(executing[c]) BY <1>0, <3>1, <3>3
      <4> QED BY <2>1, <3>2, <4>1
    <3> QED BY <2>1, <3>3
  <2>3. SrvCloseWaits(c)' BY <1>0, <1>10, <2>1 DEF SReplies
  <2> QED BY <2>2, <2>3
<1>11. ASSUME NEW e \in executing[c], SFails(c, e) PROVE Processing(c)' /\ SrvCloseWaits(c)'
  <2>1. IsFiniteSet(executing'[c]) BY <1>1, <1>11, Counting DEF SFails
  <2> QED BY <1>11, <2>1 DEF SFails
<1>12. CASE SCloses(c)
  <2>1. executing[c] = {} => Cardinality(executing[c]) = 0 BY <1>1, Counting
  <2> QED BY <1>0, <1>12, <2>1 DEF SCloses, SameWork
<1>13. CASE Resets(c) BY <1>0, <1>13 DEF Resets, SameWork
<1> QED BY <1>2, <1>3, <1>4, <1>5, <1>6, <1>7, <1>8, <1>9, <1>10, <1>11, <1>12, <1>13 DEF SEffect

LEMMA ServerKept ==
  ASSUME OwnerInv, NEW c \in Conns, ServerAt(c), SameServer(c) PROVE ServerAt(c)'
BY DEF ServerAt, SrvShape, Processing, SrvCloseWaits, SameServer

(* What a servant runs was seen on the connection.                         *)
LEMMA SExecuted ==
  ASSUME OwnerInv, NEW c \in Conns, SEffect(c)
  PROVE  /\ executed[c] \subseteq executed'[c]
         /\ \A q \in executed'[c] \ executed[c] :
              \E m \in sread[c] : SRuns(c, m) /\ m.q = q /\ <<m.id, q>> \in Seen(c)
<1>1. ASSUME NEW m \in sread[c], SRuns(c, m), NEW q \in executed'[c] \ executed[c]
      PROVE  m.q = q /\ <<m.id, q>> \in Seen(c)
  <2>1. m.q = q BY <1>1 DEF SRuns
  <2>2. <<"read", None, m.id, m.q>> \in Trace(c) BY InTrace DEF ReadTrace
  <2>3. <<"read", None, m.id, m.q>>[3] = m.id /\ <<"read", None, m.id, m.q>>[4] = m.q OBVIOUS
  <2> QED BY <2>1, <2>2, <2>3 DEF Seen
<1>2. CASE \E m \in sread[c] : SRuns(c, m) BY <1>1, <1>2 DEF SRuns
<1>3. CASE ~\E m \in sread[c] : SRuns(c, m)
  <2>1. executed'[c] = executed[c]
    BY <1>3 DEF SEffect, SameServer, SAccepts, SHellos, SWrites, SReads, SStops, SDiscards, SReplies,
                SFails, SCloses, Resets, SameWork
  <2> QED BY <2>1
<1> QED BY <1>2, <1>3

LEMMA NewKeptClient ==
  ASSUME OwnerInv, NEW c \in Conns, FlowAt(c), ServedAt(c), NewNotSeen(c), Effect(c), Results
  PROVE  NewNotSeen(c)'
<1> SUFFICES ASSUME NEW q \in Quests, at'[q] = "new"
             PROVE  q \notin executed'[c] /\ \A x \in Seen(c)' : x[2] # q
  BY DEF NewNotSeen
<1>1. at[q] = "new" BY DEF Results
<1>2. executed'[c] = executed[c] BY EffectServer DEF SameServer
<1>3. CASE Seen(c)' \subseteq Seen(c) BY <1>1, <1>2, <1>3 DEF NewNotSeen
<1>4. ASSUME NEW y \in Quests, Adds(c, y), Seen(c)' \subseteq Seen(c) \cup {<<conn[c].next, y>>}
      PROVE  q \notin executed'[c] /\ \A x \in Seen(c)' : x[2] # q
  <2>1. y # q BY <1>1, <1>4 DEF Adds
  <2>2. \A x \in Seen(c) : x[2] # q BY <1>1 DEF NewNotSeen
  <2>3. \A x \in Seen(c)' : x[2] # q BY <1>4, <2>1, <2>2
  <2> QED BY <1>1, <1>2, <2>3 DEF NewNotSeen
<1> QED BY <1>3, <1>4, EffectFlow

LEMMA NewKeptServer ==
  ASSUME OwnerInv, NEW c \in Conns, FlowAt(c), ServedAt(c), NewNotSeen(c), SEffect(c), UNCHANGED at
  PROVE  NewNotSeen(c)'
<1>1. Seen(c)' \subseteq Seen(c) BY SEffectFlow
<1>2. \A q \in executed'[c] \ executed[c] : \E x \in Seen(c) : x[2] = q
  <2> SUFFICES ASSUME NEW q \in executed'[c] \ executed[c] PROVE \E x \in Seen(c) : x[2] = q OBVIOUS
  <2>1. PICK m : <<m.id, q>> \in Seen(c) BY SExecuted
  <2>2. <<m.id, q>>[2] = q OBVIOUS
  <2> QED BY <2>1, <2>2
<1> QED BY <1>1, <1>2 DEF NewNotSeen

LEMMA AnswersServedKept ==
  ASSUME OwnerInv, FlowInv, \A c \in Conns : ServedAt(c), AnswersServed, Results,
         \A c \in Conns : executed[c] \subseteq executed'[c]
  PROVE  AnswersServed'
<1> SUFFICES ASSUME NEW q \in Quests, <<q, "answer">> \in giving' \/ outcome'[q] = "answer"
             PROVE  \E c \in Conns : q \in executed'[c]
  BY DEF AnswersServed
<1>1. CASE <<q, "answer">> \in giving \/ outcome[q] = "answer" BY <1>1 DEF AnswersServed
<1>2. ASSUME NEW c \in Conns, NEW t \in HeldTrace(c), <<t[3], q>> \in conn[c].map
      PROVE  q \in executed'[c]
  <2>1. t \in Trace(c) BY <1>2, InTrace
  <2>2. t[1] = "held" BY <1>2 DEF HeldTrace
  <2>3. t[4] \in executed[c] BY <2>1, <2>2 DEF ServedAt, Served
  <2>4. <<t[3], t[4]>> \in Seen(c) BY <2>1 DEF Seen
  <2>5. Matching(c) BY DEF FlowInv, FlowAt
  <2>6. <<t[3], t[4]>> = <<t[3], q>> BY <1>2, <2>4, <2>5 DEF Matching
  <2>7. t[4] = q BY <2>6
  <2> QED BY <2>3, <2>7
<1> QED BY <1>1, <1>2 DEF Results

-----------------------------------------------------------------------------
(* The inductive invariant of the message flow.                            *)
CoreInv ==
  /\ OwnerInv /\ MadeFirst /\ FlowInv /\ AnswersServed
  /\ \A c \in Conns : ServedAt(c) /\ NewNotSeen(c) /\ ServerAt(c)

(* A step is one of the client or one of the server (or a stuttering one). *)
ByClient == ClientAction /\ (\A c \in Conns : Effect(c) /\ FailsAt(c))
ByServer == (\A c \in Conns : SEffect(c)) /\ UNCHANGED <<connVars, thrVars, resVars>>

LEMMA StepKinds == ASSUME CoreInv, [Next]_vars PROVE (ByClient \/ ByServer) /\ OwnerInv' /\ Results
<1>0. /\ OwnerInv /\ MadeFirst /\ FlowInv /\ \A c \in Conns : SrvShape(c)
  BY DEF CoreInv, ServerAt
<1>1. OwnerInv' BY <1>0, OwnerInvStep
<1>2. CASE ClientAction
  <2>1. \A c \in Conns : Effect(c) BY <1>0, <1>2, ClientEffect
  <2>2. \A c \in Conns : FailsAt(c) BY <1>0, <1>2, FailsQuest, FailsConn DEF ClientAction
  <2>3. Results BY <1>0, <1>2, ResultsStep
  <2> QED BY <1>1, <1>2, <2>1, <2>2, <2>3 DEF ByClient
<1>3. CASE ServerAction
  <2>1. ByServer BY <1>0, <1>3, ServerEffect DEF ByServer
  <2> QED BY <1>0, <1>1, <2>1, ResultsStep DEF ByServer
<1>4. CASE UNCHANGED vars
  <2>1. /\ UNCHANGED <<connVars, thrVars, resVars>>
        /\ UNCHANGED <<srv, sread, executing, executed, c2s, s2c, broken>>
    BY <1>4 DEF vars, srvVars, netVars
  <2>2. \A c \in Conns : Client(c) BY <2>1, ClientStill
  <2>3. \A c \in Conns : srv'[c].rt => srv'[c].up BY <1>0, <2>1, TypesOf DEF SrvShape
  <2>4. ByServer BY <2>1, <2>2, <2>3 DEF ByServer, SEffect, SameServer, SameSockets
  <2> QED BY <1>0, <1>1, <2>1, <2>4, ResultsStep
<1> QED BY <1>2, <1>3, <1>4, NextActions

LEMMA CoreInit == ASSUME Init PROVE CoreInv
<1>1. OwnerInv BY OwnerInvInit
<1>2. MadeFirst BY DEF Init, MadeFirst
<1>3. ASSUME NEW c \in Conns
      PROVE  /\ FlowAt(c) /\ FailingQuest(c) /\ ServedAt(c) /\ NewNotSeen(c) /\ ServerAt(c)
  <2>1. /\ conn[c] = FreshConn /\ srv[c] = FreshSrv /\ sread[c] = {} /\ executing[c] = {}
        /\ executed[c] = {} /\ c2s[c] = <<>> /\ s2c[c] = <<>>
        /\ \A r \in Readers : reader[r] = None
    BY DEF Init
  <2>2. conn[c].wq = <<>> /\ conn[c].map = {} /\ srv[c].wq = <<>> BY <2>1 DEF FreshConn, FreshSrv
  <2>3. /\ QueuedTrace(c) = {} /\ SentTrace(c) = {} /\ ReadTrace(c) = {} /\ RunningTrace(c) = {}
    BY <2>1, <2>2, EmptyParts DEF QueuedTrace, SentTrace, ReadTrace, RunningTrace
  <2>4. AnsweredTrace(c) = {} /\ ReturnedTrace(c) = {} /\ HeldTrace(c) = {}
    BY <2>1, <2>2, EmptyParts DEF AnsweredTrace, ReturnedTrace, HeldTrace, HeldBy
  <2>5. Trace(c) = {} BY <2>3, <2>4 DEF Trace
  <2>6. Seen(c) = {} BY <2>5 DEF Seen
  <2>7. FlowAt(c)
    BY <2>1, <2>2, <2>5, <2>6, EmptyParts
    DEF FlowAt, IdsGiven, OnePlace, AllOnce, Matching, SeenInMap
  <2>8. FailingQuest(c) BY DEF Init, FailingQuest
  <2>9. ServedAt(c) /\ NewNotSeen(c) BY <2>1, <2>5, <2>6 DEF ServedAt, NewNotSeen
  <2>10. SrvShape(c) /\ SrvCloseWaits(c)
    BY <2>1 DEF SrvShape, SrvCloseWaits, FreshSrv, ST_WAITING_HELLO, ST_CLOSED, ST_CLOSE
  <2>11. Processing(c) BY <2>1, FS_EmptySet DEF Processing, FreshSrv
  <2> QED BY <2>7, <2>8, <2>9, <2>10, <2>11 DEF ServerAt
<1>4. AnswersServed BY DEF Init, AnswersServed
<1> QED BY <1>1, <1>2, <1>3, <1>4 DEF CoreInv, FlowInv

LEMMA CoreStep == ASSUME CoreInv, [Next]_vars PROVE CoreInv'
<1>0. /\ OwnerInv /\ MadeFirst /\ FlowInv /\ AnswersServed
      /\ \A c \in Conns : ServedAt(c) /\ NewNotSeen(c) /\ ServerAt(c) /\ FlowAt(c) /\ FailingQuest(c)
  BY DEF CoreInv, FlowInv
<1>1. (ByClient \/ ByServer) /\ OwnerInv' /\ Results BY StepKinds
<1>2. MadeFirst' BY <1>0, <1>1, MadeStep DEF ByClient, ByServer
<1>3. CASE ByClient
  <2>1. ASSUME NEW c \in Conns
        PROVE  /\ FlowAt(c)' /\ FailingQuest(c)' /\ ServedAt(c)' /\ NewNotSeen(c)' /\ ServerAt(c)'
    <3>1. Effect(c) /\ FailsAt(c) /\ SameServer(c) BY <1>3, EffectServer DEF ByClient
    <3>2. FlowAt(c)' /\ ServedAt(c)' BY <1>0, <3>1, EffectFlow
    <3>3. FailingQuest(c)' BY <1>0, <3>1, FailingKept
    <3>4. NewNotSeen(c)' BY <1>0, <1>1, <3>1, NewKeptClient
    <3>5. ServerAt(c)' BY <1>0, <3>1, ServerKept
    <3> QED BY <3>2, <3>3, <3>4, <3>5
  <2>2. \A c \in Conns : executed[c] \subseteq executed'[c]
    BY <1>3, EffectServer DEF ByClient, SameServer
  <2>3. AnswersServed' BY <1>0, <1>1, <2>2, AnswersServedKept
  <2> QED BY <1>1, <1>2, <2>1, <2>3 DEF CoreInv, FlowInv
<1>4. CASE ByServer
  <2>0. UNCHANGED <<conn, failing, at, txid>> BY <1>4 DEF ByServer, connVars, thrVars, resVars
  <2>1. ASSUME NEW c \in Conns
        PROVE  /\ FlowAt(c)' /\ FailingQuest(c)' /\ ServedAt(c)' /\ NewNotSeen(c)' /\ ServerAt(c)'
    <3>1. SEffect(c) BY <1>4 DEF ByServer
    <3>2. FlowAt(c)' /\ ServedAt(c)' /\ Seen(c)' \subseteq Seen(c) BY <1>0, <3>1, SEffectFlow
    <3>3. FailingQuest(c)' BY <1>0, <2>0, <3>2 DEF FailingQuest
    <3>4. NewNotSeen(c)' BY <1>0, <2>0, <3>1, NewKeptServer
    <3>5. SrvShape(c)' BY <1>0, <1>1, <3>1, SrvShapeKept DEF ServerAt
    <3>6. ServerAt(c)' BY <1>0, <3>1, <3>5, ProcessingKept DEF ServerAt
    <3> QED BY <3>2, <3>3, <3>4, <3>6
  <2>2. \A c \in Conns : executed[c] \subseteq executed'[c] BY <1>0, <1>4, SExecuted DEF ByServer
  <2>3. AnswersServed' BY <1>0, <1>1, <2>2, AnswersServedKept
  <2> QED BY <1>1, <1>2, <2>1, <2>3 DEF CoreInv, FlowInv
<1> QED BY <1>1, <1>3, <1>4

-----------------------------------------------------------------------------
(* Bye, and what is on the way when it is sent.                            *)
LastBye(c) ==
  /\ SaysBye(c)
  /\ \/ SameHeld(c) /\ conn[c].map = {}
     \/ \E r \in Readers, x \in Nat \X Quests : Reads(c, r, x)
Feeds(c, z) ==
  \/ z = conn[c].wq
  \/ conn[c].st < ST_CLOSED /\ \E q \in Quests : z = Append(conn[c].wq, Msg("Q", conn[c].next, q))
Unread(c) == s2c'[c] = s2c[c] \/ s2c'[c] = <<>> \/ (s2c[c] # <<>> /\ s2c'[c] = Tail(s2c[c]))

LEMMA EffectBye ==
  ASSUME OwnerInv, NEW c \in Conns, Effect(c)
  PROVE  /\ Unread(c)
         /\ \/ LastBye(c)
            \/ /\ conn'[c].st < ST_CLOSED => conn[c].st < ST_CLOSED
               /\ \/ conn'[c].graceful = conn[c].graceful /\ \E z : Feeds(c, z) /\ Written(c, z)
                  \/ Takes(c) \/ GetsBye(c)
<1> USE DEF Unread, SameQueue, SameSockets, SameState, SameServer
<1>0. Feeds(c, conn[c].wq) BY DEF Feeds
<1>1. CASE Quiet(c) \/ Handles(c) \/ Made(c)
  BY <1>0, <1>1 DEF Quiet, Handles, Made, Written
<1>2. CASE Writes(c) BY <1>0, <1>2 DEF Writes
<1>3. CASE GetsBye(c) BY <1>3 DEF GetsBye, ST_CLOSED
<1>4. CASE Takes(c) BY <1>4 DEF Takes, ST_CLOSED, ST_ERROR
<1>5. CASE \E r \in Readers : GetsAnswer(c, r) BY <1>0, <1>5 DEF GetsAnswer, Written
<1>6. CASE \E id \in Nat : Drops(c, id) /\ Unsends(c, id) BY <1>0, <1>6 DEF Drops, Written
<1>7. ASSUME NEW q \in Quests, Adds(c, q)
      PROVE  /\ Unread(c) /\ conn'[c].graceful = conn[c].graceful
             /\ conn[c].st < ST_CLOSED /\ \E z : Feeds(c, z) /\ Written(c, z)
  <2>1. CASE SameQueue(c) BY <1>0, <1>7, <2>1 DEF Adds, Written
  <2>2. CASE Written(c, Append(conn[c].wq, Msg("Q", conn[c].next, q)))
    BY <1>7, <2>2 DEF Adds, Feeds
  <2> QED BY <1>7, <2>1, <2>2 DEF Adds
<1>8. CASE SaysBye(c) /\ SameHeld(c) /\ conn[c].map = {} BY <1>8 DEF SaysBye, LastBye
<1>9. CASE \E r \in Readers, x \in Nat \X Quests :
             Reads(c, r, x) /\ GivesAnswer(c, x[1]) /\ (KeepsOpen(c) \/ SaysBye(c))
  <2>1. CASE SaysBye(c) BY <1>9, <2>1 DEF SaysBye, LastBye
  <2>2. CASE KeepsOpen(c) BY <1>0, <2>2 DEF KeepsOpen, Written, ST_CLOSED, ST_ERROR
  <2> QED BY <1>9, <2>1, <2>2
<1> QED BY <1>1, <1>2, <1>3, <1>4, <1>5, <1>6, <1>7, <1>8, <1>9 DEF Effect

LEMMA SeqTypesNext ==
  ASSUME OwnerInv', NEW c \in Conns
  PROVE  conn'[c].wq \in Seq(MsgSet) /\ c2s'[c] \in Seq(MsgSet)
<1>1. conn'[c] \in ConnSet /\ c2s'[c] \in Seq(MsgSet) BY DEF OwnerInv, TypeOK
<1> QED BY <1>1 DEF ConnSet

\* The bytes the client's end may still read only shrink.
LEMMA UnreadKept ==
  ASSUME OwnerInv, NEW c \in Conns, Unread(c)
  PROVE  /\ InSeq(s2c'[c]) \subseteq InSeq(s2c[c]) /\ AnswersIn(s2c'[c]) \subseteq AnswersIn(s2c[c])
         /\ AheadOfBye(s2c[c]) => AheadOfBye(s2c'[c])
<1>1. s2c[c] \in Seq(MsgSet) BY TypesOf
<1>2. CASE s2c'[c] = s2c[c] BY <1>2
<1>3. CASE s2c'[c] = <<>> BY <1>3, InEmpty, EmptyParts
<1>4. CASE s2c[c] # <<>> /\ s2c'[c] = Tail(s2c[c]) BY <1>1, <1>4, InTail, PartsOf, AheadOfByeSeq
<1> QED BY <1>2, <1>3, <1>4 DEF Unread

LEMMA WrittenBye ==
  ASSUME OwnerInv, NEW c \in Conns, NEW z \in Seq(MsgSet), Written(c, z)
  PROVE  /\ InSeq(conn'[c].wq) \cup InSeq(c2s'[c]) \subseteq InSeq(z) \cup InSeq(c2s[c])
         /\ broken[c] => conn'[c].wq = z /\ c2s'[c] = c2s[c]
         /\ BehindBye(c2s[c]) /\ (Bye \in InSeq(c2s[c]) \/ BehindBye(z)) /\ (srv[c].up => srv[c].fd)
              => /\ BehindBye(c2s'[c])
                 /\ Bye \in InSeq(c2s'[c]) \/ BehindBye(conn'[c].wq)
         /\ (srv[c].up => srv[c].fd)
              => InSeq(z) \subseteq InSeq(conn'[c].wq) \cup InSeq(c2s'[c])
         /\ (srv[c].up => srv[c].fd) /\ Bye \in InSeq(c2s[c]) => Bye \in InSeq(c2s'[c])
<1>0. c2s[c] \in Seq(MsgSet) /\ broken[c] \in BOOLEAN BY TypesOf
<1>1. CASE conn'[c].wq = z /\ c2s'[c] = c2s[c] BY <1>1
<1>2. CASE /\ z # <<>> /\ srv[c].up /\ ~broken[c] /\ conn'[c].wq = Tail(z)
           /\ ~srv[c].fd /\ c2s'[c] = c2s[c]
  BY <1>2, InTail
<1>3. CASE /\ z # <<>> /\ srv[c].up /\ ~broken[c] /\ conn'[c].wq = Tail(z)
           /\ srv[c].fd /\ c2s'[c] = Append(c2s[c], Head(z))
  <2>1. /\ InSeq(z) = {Head(z)} \cup InSeq(Tail(z)) /\ Head(z) \in MsgSet
        /\ InSeq(c2s'[c]) = InSeq(c2s[c]) \cup {Head(z)}
    BY <1>0, <1>3, InTail, InAppend
  <2>2. ASSUME BehindBye(c2s[c]), Bye \in InSeq(c2s[c]) \/ BehindBye(z)
        PROVE  /\ BehindBye(c2s'[c])
               /\ Bye \in InSeq(c2s'[c]) \/ BehindBye(conn'[c].wq)
    <3>1. Head(z).type # "Q" \/ Bye \in InSeq(c2s[c]) BY <1>3, <2>2, BehindByeSeq
    <3>2. BehindBye(c2s'[c]) BY <1>0, <1>3, <2>1, <2>2, <3>1, BehindByeSeq
    <3>3. Bye \notin InSeq(c2s[c]) /\ Head(z) # Bye => BehindBye(Tail(z)) BY <1>3, <2>2, BehindByeSeq
    <3> QED BY <1>3, <2>1, <3>2, <3>3
  <2> QED BY <1>3, <2>1, <2>2
<1> QED BY <1>1, <1>2, <1>3 DEF Written

LEMMA FeedsBye ==
  ASSUME OwnerInv, NEW c \in Conns, NEW z, Feeds(c, z)
  PROVE  /\ z \in Seq(MsgSet) /\ InSeq(conn[c].wq) \subseteq InSeq(z)
         /\ Bye \in InSeq(z) => Bye \in InSeq(conn[c].wq)
         /\ BehindBye(conn[c].wq) /\ (Bye \in InSeq(conn[c].wq) \/ conn[c].st >= ST_CLOSED)
              => BehindBye(z)
<1>1. conn[c].wq \in Seq(MsgSet) /\ conn[c].st \in Int /\ conn[c].next \in Nat BY TypesOf
<1>2. CASE z = conn[c].wq BY <1>1, <1>2
<1>3. ASSUME conn[c].st < ST_CLOSED, NEW q \in Quests,
             z = Append(conn[c].wq, Msg("Q", conn[c].next, q))
      PROVE  /\ z \in Seq(MsgSet) /\ InSeq(conn[c].wq) \subseteq InSeq(z)
             /\ Bye \in InSeq(z) => Bye \in InSeq(conn[c].wq)
             /\ BehindBye(conn[c].wq) /\ (Bye \in InSeq(conn[c].wq) \/ conn[c].st >= ST_CLOSED)
                  => BehindBye(z)
  <2>1. Msg("Q", conn[c].next, q) \in MsgSet BY <1>1, MessageTypes
  <2>2. Bye # Msg("Q", conn[c].next, q) BY DEF Bye, Msg
  <2>3. z \in Seq(MsgSet) /\ InSeq(z) = InSeq(conn[c].wq) \cup {Msg("Q", conn[c].next, q)}
    BY <1>1, <1>3, <2>1, InAppend
  <2>4. ~(conn[c].st >= ST_CLOSED) BY <1>1, <1>3 DEF ST_CLOSED
  <2> QED BY <1>1, <1>3, <2>1, <2>2, <2>3, <2>4, BehindByeSeq
<1> QED BY <1>2, <1>3 DEF Feeds

-----------------------------------------------------------------------------
(* The client's steps: what is drained when Bye is sent stays drained.     *)
LEMMA LastByeParts ==
  ASSUME OwnerInv, OwnerInv', NEW c \in Conns, FlowAt(c), LastBye(c)
  PROVE  /\ BehindBye(c2s'[c]) /\ BehindBye(conn'[c].wq) /\ sread[c] = {} /\ executing[c] = {}
         /\ AnswersIn(srv[c].wq) = {} /\ AnswersIn(s2c[c]) = {}
         /\ (srv[c].up => srv[c].fd) => Bye \in InSeq(conn'[c].wq) \cup InSeq(c2s'[c])
<1>1. /\ QuestsIn(conn'[c].wq) = {} /\ QuestsIn(c2s'[c]) = {} BY SaysByeKept DEF LastBye
<1>2. BehindBye(c2s'[c]) /\ BehindBye(conn'[c].wq) BY <1>1, SeqTypesNext, BehindByeSeq
<1>3. /\ sread[c] = {} /\ executing[c] = {}
      /\ AnswersIn(srv[c].wq) = {} /\ AnswersIn(s2c[c]) = {}
  BY EmptyAtBye DEF LastBye
<1>4. PICK z : z = Append(conn[c].wq, Bye) OBVIOUS
<1>5. z \in Seq(MsgSet) /\ Bye \in InSeq(z) BY <1>4, TypesOf, MessageTypes, InAppend
<1>6. Written(c, z) BY <1>4 DEF LastBye, SaysBye
<1> QED BY <1>2, <1>3, <1>5, <1>6, WrittenBye

LEMMA ByeDrainedCClient ==
  ASSUME OwnerInv, OwnerInv', NEW c \in Conns, FlowAt(c), ByeDrainedC(c), Effect(c)
  PROVE  ByeDrainedC(c)'
<1> SUFFICES ASSUME Bye \in InSeq(conn'[c].wq) \cup InSeq(c2s'[c]), ~broken'[c],
                    ~(srv'[c].up /\ ~srv'[c].fd)
             PROVE  /\ BehindBye(c2s'[c])
                    /\ Bye \in InSeq(c2s'[c]) \/ BehindBye(conn'[c].wq)
                    /\ sread'[c] = {} /\ executing'[c] = {}
                    /\ AnswersIn(srv'[c].wq) = {} /\ AnswersIn(s2c'[c]) = {}
  BY DEF ByeDrainedC
<1>1. /\ srv'[c] = srv[c] /\ sread'[c] = sread[c] /\ broken'[c] = broken[c]
      /\ executing'[c] = executing[c]
  BY EffectServer DEF SameServer
<1>2. /\ AnswersIn(s2c'[c]) \subseteq AnswersIn(s2c[c]) BY EffectBye, UnreadKept
<1>3. srv[c].up => srv[c].fd BY <1>1, TypesOf
<1>4. CASE LastBye(c) BY <1>1, <1>2, <1>4, LastByeParts
<1>5. ASSUME Bye \in InSeq(conn[c].wq) \cup InSeq(c2s[c])
      PROVE  /\ BehindBye(c2s[c]) /\ (Bye \in InSeq(c2s[c]) \/ BehindBye(conn[c].wq))
             /\ sread[c] = {} /\ executing[c] = {}
             /\ AnswersIn(srv[c].wq) = {} /\ AnswersIn(s2c[c]) = {}
  BY <1>1, <1>3, <1>5 DEF ByeDrainedC
<1>6. ASSUME NEW z, Feeds(c, z), Written(c, z)
      PROVE  /\ BehindBye(c2s'[c])
             /\ Bye \in InSeq(c2s'[c]) \/ BehindBye(conn'[c].wq)
             /\ Bye \in InSeq(conn[c].wq) \cup InSeq(c2s[c])
  <2>1. z \in Seq(MsgSet) /\ (Bye \in InSeq(z) => Bye \in InSeq(conn[c].wq)) BY <1>6, FeedsBye
  <2>2. Bye \in InSeq(conn[c].wq) \cup InSeq(c2s[c]) BY <1>6, <2>1, WrittenBye
  <2>3. Bye \in InSeq(c2s[c]) \/ BehindBye(z) BY <1>5, <1>6, <2>2, FeedsBye
  <2> QED BY <1>3, <1>5, <1>6, <2>1, <2>2, <2>3, WrittenBye
<1>7. CASE Takes(c) BY <1>1, <1>2, <1>5, <1>7, InEmpty, EmptyParts DEF Takes
<1>8. CASE GetsBye(c) BY <1>1, <1>2, <1>5, <1>8 DEF GetsBye
<1> QED BY <1>1, <1>2, <1>4, <1>5, <1>6, <1>7, <1>8, EffectBye

LEMMA ByeDrainedSClient ==
  ASSUME OwnerInv, NEW c \in Conns, ByeDrainedS(c), Effect(c)
  PROVE  ByeDrainedS(c)'
<1>1. srv'[c] = srv[c] /\ executing'[c] = executing[c] BY EffectServer DEF SameServer
<1>2. /\ InSeq(s2c'[c]) \subseteq InSeq(s2c[c])
      /\ AheadOfBye(s2c[c]) => AheadOfBye(s2c'[c])
  BY EffectBye, UnreadKept
<1> QED BY <1>1, <1>2 DEF ByeDrainedS

LEMMA ShutClient ==
  ASSUME OwnerInv, OwnerInv', NEW c \in Conns, FlowAt(c), SrvShape(c), ByeDrainedS(c), Shut(c), Effect(c)
  PROVE  Shut(c)'
<1>0. /\ conn[c].wq \in Seq(MsgSet) /\ s2c[c] \in Seq(MsgSet) /\ srv[c].st \in Int
      /\ conn[c].st \in Int
  BY TypesOf
<1>1. /\ srv'[c] = srv[c] /\ sread'[c] = sread[c] /\ broken'[c] = broken[c]
  BY EffectServer DEF SameServer
<1> SUFFICES ASSUME conn'[c].graceful, ~(srv[c].st >= ST_CLOSING)
             PROVE  /\ sread[c] = {}
                    /\ BehindBye(c2s'[c])
                    /\ \/ Bye \in InSeq(c2s'[c])
                       \/ broken[c]
                       \/ /\ BehindBye(conn'[c].wq)
                          /\ Bye \in InSeq(conn'[c].wq) \/ conn'[c].st >= ST_CLOSED
  BY <1>1 DEF Shut
<1>2. srv[c].up => srv[c].fd BY <1>0, TypesOf DEF SrvShape, ST_CLOSED, ST_CLOSING
<1>3. CASE LastBye(c) BY <1>2, <1>3, LastByeParts
<1>4. CASE GetsBye(c)
  <2>1. Head(s2c[c]) \in MsgSet /\ Head(s2c[c]) \in InSeq(s2c[c]) /\ Head(s2c[c]).type = "B"
    BY <1>0, <1>4, InTail DEF GetsBye
  <2>2. Head(s2c[c]) = Bye BY <2>1 DEF MsgSet, Hello, Bye, Msg
  <2> QED BY <2>1, <2>2 DEF ByeDrainedS
<1>5. ASSUME conn[c].graceful
      PROVE  /\ sread[c] = {}
             /\ BehindBye(c2s[c])
             /\ \/ Bye \in InSeq(c2s[c])
                \/ broken[c]
                \/ /\ BehindBye(conn[c].wq)
                   /\ Bye \in InSeq(conn[c].wq) \/ conn[c].st >= ST_CLOSED
  BY <1>5 DEF Shut
<1>6. CASE Takes(c)
  <2>1. conn'[c].st >= ST_CLOSED BY <1>6 DEF Takes, ST_CLOSED, ST_ERROR
  <2> QED BY <1>5, <1>6, <2>1, EmptyParts DEF Takes
<1>7. ASSUME conn'[c].st < ST_CLOSED => conn[c].st < ST_CLOSED, conn'[c].graceful = conn[c].graceful,
             NEW z, Feeds(c, z), Written(c, z)
      PROVE  /\ sread[c] = {}
             /\ BehindBye(c2s'[c])
             /\ \/ Bye \in InSeq(c2s'[c])
                \/ broken[c]
                \/ /\ BehindBye(conn'[c].wq)
                   /\ Bye \in InSeq(conn'[c].wq) \/ conn'[c].st >= ST_CLOSED
  <2>1. /\ z \in Seq(MsgSet) /\ InSeq(conn[c].wq) \subseteq InSeq(z)
        /\ BehindBye(conn[c].wq) /\ (Bye \in InSeq(conn[c].wq) \/ conn[c].st >= ST_CLOSED)
             => BehindBye(z)
    BY <1>7, FeedsBye
  <2>2. CASE broken[c] BY <1>5, <1>7, <2>1, <2>2, WrittenBye
  <2>3. CASE Bye \in InSeq(c2s[c]) BY <1>2, <1>5, <1>7, <2>1, <2>3, WrittenBye
  <2>4. CASE BehindBye(conn[c].wq) /\ Bye \in InSeq(conn[c].wq)
    BY <1>2, <1>5, <1>7, <2>1, <2>4, WrittenBye
  <2>5. CASE BehindBye(conn[c].wq) /\ conn[c].st >= ST_CLOSED
    <3>1. conn'[c].st \in Int
      <4>1. conn'[c] \in ConnSet BY DEF OwnerInv, TypeOK
      <4> QED BY <4>1 DEF ConnSet, ST_INIT, ST_ERROR
    <3>2. conn'[c].st >= ST_CLOSED BY <1>0, <1>7, <2>5, <3>1 DEF ST_CLOSED
    <3> QED BY <1>2, <1>5, <1>7, <2>1, <2>5, <3>2, WrittenBye
  <2> QED BY <1>5, <1>7, <2>2, <2>3, <2>4, <2>5
<1> QED BY <1>3, <1>4, <1>5, <1>6, <1>7, EffectBye

-----------------------------------------------------------------------------
(* The server's steps: its Bye is the last of its messages.                *)
LEMMA ByeMessages ==
  /\ Hello \in MsgSet /\ Hello # Bye /\ Hello.type # "A" /\ Bye \in MsgSet /\ Bye.type # "A"
  /\ \A id \in Nat, q \in Quests : Msg("A", id, q) \in MsgSet /\ Msg("A", id, q) # Bye
BY MessageTypes DEF Hello, Bye, Msg

LEMMA NoAnswerAppended ==
  ASSUME NEW s \in Seq(MsgSet), NEW m \in MsgSet, m.type # "A"
  PROVE  AnswersIn(Append(s, m)) = AnswersIn(s)
<1>1. InSeq(Append(s, m)) = InSeq(s) \cup {m} BY InAppend
<1> QED BY <1>1 DEF AnswersIn

LEMMA ByeDrainedCServer ==
  ASSUME OwnerInv, NEW c \in Conns, ByeDrainedC(c), SEffect(c)
  PROVE  ByeDrainedC(c)'
<1> SUFFICES ASSUME Bye \in InSeq(conn'[c].wq) \cup InSeq(c2s'[c]), ~broken'[c],
                    ~(srv'[c].up /\ ~srv'[c].fd)
             PROVE  /\ BehindBye(c2s'[c])
                    /\ Bye \in InSeq(c2s'[c]) \/ BehindBye(conn'[c].wq)
                    /\ sread'[c] = {} /\ executing'[c] = {}
                    /\ AnswersIn(srv'[c].wq) = {} /\ AnswersIn(s2c'[c]) = {}
  BY DEF ByeDrainedC
<1>0. /\ srv[c].wq \in Seq(MsgSet) /\ s2c[c] \in Seq(MsgSet) /\ c2s[c] \in Seq(MsgSet)
      /\ srv[c].up \in BOOLEAN /\ srv[c].fd \in BOOLEAN
  BY TypesOf
<1>1. ASSUME Bye \in InSeq(conn[c].wq) \cup InSeq(c2s[c]), ~broken[c], srv[c].up => srv[c].fd
      PROVE  /\ BehindBye(c2s[c]) /\ (Bye \in InSeq(c2s[c]) \/ BehindBye(conn[c].wq))
             /\ sread[c] = {} /\ executing[c] = {}
             /\ AnswersIn(srv[c].wq) = {} /\ AnswersIn(s2c[c]) = {}
  BY <1>1 DEF ByeDrainedC
<1>2. CASE Client(c) /\ SameServer(c) /\ SameSockets(c)
  BY <1>0, <1>1, <1>2 DEF SameServer, SameSockets, Client
<1>3. CASE SAccepts(c)
  BY <1>0, <1>1, <1>3 DEF SAccepts, SameSrv, SameWork, SameNet, SameSockets, Client
<1>4. CASE SHellos(c)
  <2>1. AnswersIn(Append(srv[c].wq, Hello)) = AnswersIn(srv[c].wq) BY <1>0, ByeMessages, NoAnswerAppended
  <2> QED BY <1>0, <1>1, <1>4, <2>1 DEF SHellos, SameWork, SameNet, SameSockets, Client
<1>5. CASE SWrites(c)
  <2>1. /\ conn'[c] = conn[c] /\ c2s'[c] = c2s[c] /\ sread'[c] = sread[c]
        /\ executing'[c] = executing[c] /\ srv[c].fd /\ ~broken[c] /\ srv[c].wq # <<>>
        /\ srv'[c].wq = Tail(srv[c].wq)
        /\ s2c'[c] = s2c[c] \/ s2c'[c] = Append(s2c[c], Head(srv[c].wq))
    BY <1>5 DEF SWrites, Client, SameWork
  <2>2. /\ BehindBye(c2s[c]) /\ (Bye \in InSeq(c2s[c]) \/ BehindBye(conn[c].wq))
        /\ sread[c] = {} /\ executing[c] = {}
        /\ AnswersIn(srv[c].wq) = {} /\ AnswersIn(s2c[c]) = {}
    BY <1>1, <2>1
  <2>3. /\ Head(srv[c].wq) \in MsgSet
        /\ AnswersIn(srv[c].wq) =
             AnswersIn(Tail(srv[c].wq)) \cup {x \in {Head(srv[c].wq)} : x.type = "A"}
    BY <1>0, <2>1, InTail, PartsOf
  <2>4. Head(srv[c].wq).type # "A" /\ AnswersIn(Tail(srv[c].wq)) = {} BY <2>2, <2>3
  <2>5. AnswersIn(s2c'[c]) = {} BY <1>0, <2>1, <2>2, <2>3, <2>4, NoAnswerAppended
  <2> QED BY <2>1, <2>2, <2>4, <2>5
<1>6. CASE SReads(c)
  <2>1. /\ conn'[c] = conn[c] /\ c2s[c] # <<>> /\ Head(c2s[c]).type = "Q" /\ c2s'[c] = Tail(c2s[c])
        /\ srv'[c] = srv[c] /\ broken'[c] = broken[c]
    BY <1>6 DEF SReads, Client
  <2>2. InSeq(c2s'[c]) \subseteq InSeq(c2s[c]) BY <1>0, <2>1, InTail
  <2>3. BehindBye(c2s[c]) BY <1>0, <1>1, <2>1, <2>2
  <2> QED BY <1>0, <2>1, <2>3, BehindByeSeq
<1>7. CASE SStops(c) BY <1>7 DEF SStops
<1>8. CASE SDiscards(c)
  BY <1>0, <1>1, <1>8 DEF SDiscards, SameNet, SameSockets, Client
<1>9. ASSUME NEW m \in sread[c], SRuns(c, m) PROVE FALSE
  BY <1>0, <1>1, <1>9 DEF SRuns, SameEnds, SameNet, SameSockets, Client
<1>10. ASSUME NEW e \in executing[c], SReplies(c, e) \/ SFails(c, e) PROVE FALSE
  BY <1>0, <1>1, <1>10 DEF SReplies, SFails, SameEnds, SameNet, SameSockets, Client
<1>11. CASE SCloses(c)
  <2>1. AnswersIn(Append(srv[c].wq, Bye)) = AnswersIn(srv[c].wq) BY <1>0, ByeMessages, NoAnswerAppended
  <2> QED BY <1>0, <1>1, <1>11, <2>1 DEF SCloses, SameEnds, SameWork, SameNet, SameSockets, Client
<1>12. CASE Resets(c) BY <1>12 DEF Resets
<1> QED BY <1>2, <1>3, <1>4, <1>5, <1>6, <1>7, <1>8, <1>9, <1>10, <1>11, <1>12 DEF SEffect

LEMMA ByeDrainedSServer ==
  ASSUME OwnerInv, NEW c \in Conns, ServerAt(c), ByeDrainedS(c), SEffect(c)
  PROVE  ByeDrainedS(c)'
<1> USE DEF ByeDrainedS, ST_WAITING_HELLO, ST_ACTIVE, ST_CLOSE, ST_CLOSING, ST_CLOSED, ST_ERROR
<1>0. /\ srv[c].wq \in Seq(MsgSet) /\ s2c[c] \in Seq(MsgSet) /\ srv[c].st \in Int
      /\ srv[c].started \in BOOLEAN /\ executing[c] \in SUBSET (Nat \X Quests)
  BY TypesOf
<1>1. IsFiniteSet(executing[c]) /\ SrvShape(c) /\ Processing(c) BY DEF ServerAt, Processing
<1>2. CASE Client(c) /\ SameServer(c) /\ SameSockets(c) BY <1>2 DEF SameServer, SameSockets
<1>3. CASE SAccepts(c) BY <1>3 DEF SAccepts, SameSrv, SameWork, SameNet, SameSockets
<1>4. CASE SHellos(c)
  <2>1. Bye \notin InSeq(srv[c].wq) \cup InSeq(s2c[c]) BY <1>4 DEF SHellos
  <2>2. Bye \notin InSeq(Append(srv[c].wq, Hello)) /\ AheadOfBye(Append(srv[c].wq, Hello))
    BY <1>0, <2>1, ByeMessages, InAppend, AheadOfByeSeq
  <2> QED BY <1>4, <2>1, <2>2 DEF SHellos, SameWork, SameNet, SameSockets
<1>5. CASE SWrites(c)
  <2>1. /\ executing'[c] = executing[c] /\ srv[c].wq # <<>> /\ srv'[c].st = srv[c].st
        /\ srv'[c].wq = Tail(srv[c].wq) /\ srv'[c].started = srv[c].started
        /\ s2c'[c] = s2c[c] \/ s2c'[c] = Append(s2c[c], Head(srv[c].wq))
    BY <1>5 DEF SWrites, SameWork, SameEnds
  <2>2. /\ InSeq(srv[c].wq) = {Head(srv[c].wq)} \cup InSeq(Tail(srv[c].wq))
        /\ Head(srv[c].wq) \in MsgSet
        /\ AnswersIn(srv[c].wq) =
             AnswersIn(Tail(srv[c].wq)) \cup {x \in {Head(srv[c].wq)} : x.type = "A"}
        /\ AheadOfBye(Tail(srv[c].wq))
        /\ Head(srv[c].wq) = Bye => AnswersIn(srv[c].wq) = {}
    BY <1>0, <2>1, InTail, PartsOf, AheadOfByeSeq
  <2>3. CASE s2c'[c] = s2c[c] BY <2>1, <2>2, <2>3
  <2>4. CASE s2c'[c] = Append(s2c[c], Head(srv[c].wq))
    <3>1. InSeq(s2c'[c]) = InSeq(s2c[c]) \cup {Head(srv[c].wq)} BY <1>0, <2>2, <2>4, InAppend
    <3>2. Head(srv[c].wq).type # "A" \/ Bye \notin InSeq(s2c[c]) BY <2>2
    <3>3. AheadOfBye(s2c'[c]) BY <1>0, <2>2, <2>4, <3>2, AheadOfByeSeq
    <3> QED BY <2>1, <2>2, <3>1, <3>3
  <2> QED BY <2>1, <2>3, <2>4
<1>6. CASE SReads(c) BY <1>6 DEF SReads
<1>7. CASE SStops(c) BY <1>7, InEmpty, EmptyParts DEF SStops
<1>8. CASE SDiscards(c) BY <1>8 DEF SDiscards, SameNet, SameSockets
<1>9. ASSUME NEW m \in sread[c], SRuns(c, m) PROVE ByeDrainedS(c)'
  <2>1. Bye \notin InSeq(srv[c].wq) \cup InSeq(s2c[c]) BY <1>0, <1>9 DEF SRuns
  <2> QED BY <1>9, <2>1 DEF SRuns, SameNet, SameSockets
<1>10. ASSUME NEW e \in executing[c], SReplies(c, e) PROVE ByeDrainedS(c)'
  <2>0. /\ s2c'[c] = s2c[c] /\ srv'[c].started = srv[c].started /\ executing'[c] = executing[c] \ {e}
    BY <1>10 DEF SReplies, SameEnds, SameNet, SameSockets
  <2>1. Bye \notin InSeq(srv[c].wq) \cup InSeq(s2c[c]) OBVIOUS
  <2>2. PICK m : m = Msg("A", e[1], e[2]) OBVIOUS
  <2>3. m \in MsgSet /\ m # Bye BY <1>0, <2>2, ByeMessages
  <2>4. PICK z : z = Append(srv[c].wq, m) OBVIOUS
  <2>5. z \in Seq(MsgSet) /\ Bye \notin InSeq(z) /\ AheadOfBye(z)
    BY <1>0, <2>1, <2>3, <2>4, InAppend, AheadOfByeSeq
  <2>6. CASE srv'[c].wq = srv[c].wq BY <2>0, <2>1, <2>6
  <2>7. CASE srv'[c].wq = z BY <2>0, <2>1, <2>5, <2>7
  <2>8. CASE /\ srv[c].st = ST_CLOSE /\ srv[c].processing = 1 /\ srv'[c].st = ST_CLOSING
             /\ srv'[c].wq = Append(z, Bye)
    <3>1. AheadOfBye(srv'[c].wq) BY <2>5, <2>8, ByeMessages, AheadOfByeSeq
    <3>2. srv[c].started BY <1>0, <1>1 DEF SrvShape
    <3>3. Cardinality(executing[c]) = 1 BY <1>1, <2>8 DEF Processing
    <3>4. IsFiniteSet(executing'[c]) /\ Cardinality(executing'[c]) = Cardinality(executing[c]) - 1
      BY <1>1, <2>0, Counting
    <3>5. executing'[c] = {} BY <3>3, <3>4, Counting
    <3> QED BY <2>0, <2>1, <2>8, <3>1, <3>2, <3>5
  <2> QED BY <1>10, <2>2, <2>4, <2>6, <2>7, <2>8 DEF SReplies
<1>11. ASSUME NEW e \in executing[c], SFails(c, e) PROVE ByeDrainedS(c)'
  <2>1. Bye \notin InSeq(srv[c].wq) \cup InSeq(s2c[c]) OBVIOUS
  <2> QED BY <1>11, <2>1, InEmpty, EmptyParts DEF SFails, SameNet, SameSockets
<1>12. CASE SCloses(c)
  <2>1. Bye \notin InSeq(srv[c].wq) \cup InSeq(s2c[c]) BY <1>0, <1>12 DEF SCloses
  <2>2. srv[c].started BY <1>0, <1>1, <1>12 DEF SCloses, SrvShape
  <2>3. srv[c].processing = 0 => executing[c] = {} BY <1>0, <1>1, <1>12, Counting DEF SCloses, Processing
  <2>4. AheadOfBye(Append(srv[c].wq, Bye)) BY <1>0, ByeMessages, AheadOfByeSeq
  <2>5. /\ executing'[c] = executing[c] /\ s2c'[c] = s2c[c] /\ srv'[c].started = srv[c].started
        /\ \/ executing[c] = {} /\ srv'[c].st = ST_CLOSING /\ srv'[c].wq = Append(srv[c].wq, Bye)
           \/ srv'[c].wq = srv[c].wq
    BY <1>12, <2>3 DEF SCloses, SameEnds, SameWork, SameNet, SameSockets
  <2>6. AheadOfBye(srv[c].wq) /\ AheadOfBye(s2c[c]) OBVIOUS
  <2>7. CASE executing[c] = {} /\ srv'[c].st = ST_CLOSING /\ srv'[c].wq = Append(srv[c].wq, Bye)
    BY <2>1, <2>2, <2>4, <2>5, <2>6, <2>7
  <2>8. CASE srv'[c].wq = srv[c].wq BY <2>1, <2>5, <2>6, <2>8
  <2> QED BY <2>5, <2>7, <2>8
<1>13. CASE Resets(c) BY <1>13, InEmpty, EmptyParts DEF Resets, SameWork
<1> QED BY <1>2, <1>3, <1>4, <1>5, <1>6, <1>7, <1>8, <1>9, <1>10, <1>11, <1>12, <1>13 DEF SEffect

LEMMA ShutServer ==
  ASSUME OwnerInv, NEW c \in Conns, SrvShape(c), Shut(c), SEffect(c)
  PROVE  Shut(c)' /\ \A m \in sread[c] : SRuns(c, m) => ~conn[c].graceful
<1> USE DEF ST_WAITING_HELLO, ST_ACTIVE, ST_CLOSE, ST_CLOSING, ST_CLOSED, ST_ERROR
<1>0. /\ c2s[c] \in Seq(MsgSet) /\ srv[c].st \in Int /\ srv[c].fd \in BOOLEAN
  BY TypesOf
<1>1. CASE Client(c) /\ SameServer(c) /\ SameSockets(c)
  BY <1>1 DEF SameServer, SameSockets, Client, Shut, SRuns
<1>2. CASE SAccepts(c) BY <1>2 DEF SAccepts, SameSrv, SameWork, SameNet, SameSockets, Client, Shut, SRuns
<1>3. CASE SHellos(c) BY <1>0, <1>3 DEF SHellos, SameWork, SameNet, SameSockets, Client, Shut, SRuns, SrvShape
<1>4. CASE SWrites(c) BY <1>4 DEF SWrites, SameWork, Client, Shut, SRuns
<1>5. CASE SReads(c) BY <1>0, <1>5, BehindByeSeq DEF SReads, Client, Shut, SRuns
<1>6. CASE SStops(c) BY <1>6 DEF SStops, Shut, SRuns
<1>7. CASE SDiscards(c) BY <1>7 DEF SDiscards, SameNet, SameSockets, Client, Shut, SRuns
<1>8. ASSUME NEW m \in sread[c], SRuns(c, m) PROVE ~conn[c].graceful /\ Client(c)
  BY <1>0, <1>8 DEF SRuns, Client, Shut
<1>9. ASSUME NEW e \in executing[c], SReplies(c, e) PROVE Shut(c)'
  BY <1>0, <1>9 DEF SReplies, SameNet, SameSockets, Client, Shut
<1>10. ASSUME NEW e \in executing[c], SFails(c, e) PROVE Shut(c)' BY <1>10 DEF SFails, Shut
<1>11. CASE SCloses(c) BY <1>0, <1>11 DEF SCloses, SameWork, SameNet, SameSockets, Client, Shut
<1>12. CASE Resets(c) BY <1>8, <1>12, EmptyParts DEF Resets, SameWork, Client, Shut
<1>13. (\E m \in sread[c] : SRuns(c, m)) => Shut(c)' BY <1>8 DEF Client, Shut
<1> QED BY <1>1, <1>2, <1>3, <1>4, <1>5, <1>6, <1>7, <1>8, <1>9, <1>10, <1>11, <1>12, <1>13 DEF SEffect

-----------------------------------------------------------------------------
(* What Bye stands for is kept by every step.                              *)
LEMMA ByeStep ==
  ASSUME CoreInv, \A c \in Conns : ByeAt(c), [Next]_vars
  PROVE  \A c \in Conns : ByeAt(c)'
<1> SUFFICES ASSUME NEW c \in Conns PROVE ByeAt(c)' OBVIOUS
<1>0. /\ OwnerInv /\ FlowAt(c) /\ ServedAt(c) /\ ServerAt(c) /\ SrvShape(c)
      /\ ByeDrainedC(c) /\ ByeDrainedS(c) /\ Shut(c)
  BY DEF CoreInv, FlowInv, ServerAt, ByeAt
<1>1. (ByClient \/ ByServer) /\ OwnerInv' BY StepKinds
<1>2. CASE ByClient
  <2>1. Effect(c) BY <1>2 DEF ByClient
  <2> QED BY <1>0, <1>1, <2>1, ByeDrainedCClient, ByeDrainedSClient, ShutClient DEF ByeAt
<1>3. CASE ByServer
  <2>1. SEffect(c) BY <1>3 DEF ByServer
  <2> QED BY <1>0, <2>1, ByeDrainedCServer, ByeDrainedSServer, ShutServer DEF ByeAt
<1> QED BY <1>1, <1>2, <1>3

LEMMA ByeInit == ASSUME Init PROVE \A c \in Conns : ByeAt(c)
<1> SUFFICES ASSUME NEW c \in Conns PROVE ByeAt(c) OBVIOUS
<1>1. /\ conn[c] = FreshConn /\ srv[c] = FreshSrv /\ c2s[c] = <<>> /\ s2c[c] = <<>>
  BY DEF Init
<1>2. conn[c].wq = <<>> /\ ~conn[c].graceful /\ srv[c].wq = <<>> BY <1>1 DEF FreshConn, FreshSrv
<1> QED BY <1>1, <1>2, InEmpty, EmptyParts DEF ByeAt, ByeDrainedC, ByeDrainedS, Shut

-----------------------------------------------------------------------------
(* What was run is in the map or over.                                     *)
LEMMA RunOrOverClient ==
  ASSUME OwnerInv, NEW c \in Conns, RunOrOver(c), Effect(c), Results
  PROVE  RunOrOver(c)'
<1> SUFFICES ASSUME NEW q \in Quests, q \in executed'[c], conn'[c].st < ST_CLOSED
             PROVE  InMap(q, c)' \/ Given(q)' \/ Done(q)'
  BY DEF RunOrOver
<1>1. q \in executed[c] BY EffectServer DEF SameServer
<1>2. conn[c].st < ST_CLOSED BY EffectState
<1>3. CASE Given(q) \/ Done(q) BY <1>3 DEF Results
<1>4. ASSUME NEW p \in conn[c].map, p[2] = q PROVE InMap(q, c)' \/ Given(q)' \/ Done(q)'
  <2>1. CASE conn[c].map \subseteq conn'[c].map BY <1>4, <2>1 DEF InMap
  <2>2. ASSUME NEW id \in Nat, Drops(c, id), Unsends(c, id) PROVE InMap(q, c)' \/ Given(q)'
    <3>1. ~(conn[c].st >= ST_CLOSED) BY <1>2, TypesOf DEF ST_CLOSED
    <3>2. giving' = giving \cup {<<x, "error">> : x \in QuestsOf(EntriesOf(conn[c], id))}
      BY <2>2 DEF Unsends, GivesErrors
    <3>3. conn'[c].map = conn[c].map \ EntriesOf(conn[c], id) BY <2>2 DEF Drops
    <3>4. CASE p[1] = id
      <4>1. q \in QuestsOf(EntriesOf(conn[c], id)) BY <1>4, <3>4 DEF QuestsOf, EntriesOf
      <4> QED BY <3>2, <4>1 DEF Given
    <3>5. CASE p[1] # id BY <1>4, <3>3, <3>5 DEF InMap, EntriesOf
    <3> QED BY <3>4, <3>5
  <2>3. ASSUME NEW r \in Readers, NEW x \in Nat \X Quests, Reads(c, r, x), GivesAnswer(c, x[1])
        PROVE  InMap(q, c)' \/ Given(q)'
    <3>1. giving' = giving \cup {<<y, "answer">> : y \in QuestsOf(EntriesOf(conn[c], x[1]))}
      BY <2>3 DEF GivesAnswer, ST_ERROR, ST_CLOSED
    <3>2. conn'[c].map = conn[c].map \ EntriesOf(conn[c], x[1]) BY <2>3 DEF Reads
    <3>3. CASE p[1] = x[1]
      <4>1. q \in QuestsOf(EntriesOf(conn[c], x[1])) BY <1>4, <3>3 DEF QuestsOf, EntriesOf
      <4> QED BY <3>1, <4>1 DEF Given
    <3>4. CASE p[1] # x[1] BY <1>4, <3>2, <3>4 DEF InMap, EntriesOf
    <3> QED BY <3>3, <3>4
  <2> QED BY <2>1, <2>2, <2>3, EffectState
<1> QED BY <1>1, <1>2, <1>3, <1>4 DEF RunOrOver, InMap

LEMMA RunOrOverServer ==
  ASSUME OwnerInv, NEW c \in Conns, FlowAt(c), RunOrOver(c), SEffect(c),
         UNCHANGED <<connVars, thrVars, resVars>>
  PROVE  RunOrOver(c)'
<1>0. UNCHANGED <<conn, giving, outcome>> BY DEF connVars, resVars
<1> SUFFICES ASSUME NEW q \in Quests, q \in executed'[c], conn[c].st < ST_CLOSED
             PROVE  InMap(q, c) \/ Given(q) \/ Done(q)
  BY <1>0 DEF RunOrOver, InMap, Given, Done
<1>1. CASE q \in executed[c] BY <1>1 DEF RunOrOver
<1>2. CASE q \notin executed[c]
  <2>1. PICK m : <<m.id, q>> \in Seen(c) BY <1>2, SExecuted
  <2>2. <<m.id, q>> \in conn[c].map BY <2>1 DEF FlowAt, SeenInMap
  <2>3. <<m.id, q>>[2] = q OBVIOUS
  <2> QED BY <2>2, <2>3 DEF InMap
<1> QED BY <1>1, <1>2

LEMMA TakenClosedClient ==
  ASSUME OwnerInv, OwnerInv', NEW c \in Conns, TakenClosed(c), Effect(c)
  PROVE  TakenClosed(c)'
<1>1. conn'[c].st \in Int
  <2>1. conn'[c] \in ConnSet BY DEF OwnerInv, TypeOK
  <2> QED BY <2>1 DEF ConnSet, ST_INIT, ST_ERROR
<1> SUFFICES ASSUME conn'[c].st < ST_CLOSED PROVE taken'[c] = {} BY <1>1 DEF TakenClosed, ST_CLOSED
<1>2. conn[c].st < ST_CLOSED /\ conn[c].st \in Int BY EffectState, TypesOf
<1>3. taken[c] = {} BY <1>2 DEF TakenClosed, ST_CLOSED
<1>4. ~Takes(c) BY DEF Takes, ST_CLOSED, ST_ERROR
<1>5. taken'[c] \subseteq taken[c]
  BY <1>4 DEF Effect, Quiet, Handles, Made, Writes, GetsBye, GetsAnswer, Drops, Adds, SaysBye, KeepsOpen
<1> QED BY <1>3, <1>5

\* A quest that is being sent has not been run on a connection that is open.
LEMMA SendingNotRun ==
  ASSUME OwnerInv, NEW c \in Conns, RunOrOver(c), NEW q \in Quests, Adds(c, q)
  PROVE  q \notin executed[c]
<1>1. at[q] = "send" /\ conn[c].st < ST_CLOSED BY DEF Adds
<1>2. ~InMap(q, c) /\ ~Given(q) /\ ~Done(q) BY <1>1 DEF OwnerInv, OneOwner, OwnedOnce, Sending
<1> QED BY <1>1, <1>2 DEF RunOrOver

-----------------------------------------------------------------------------
(* The answer on its way to a result.                                      *)
OnWay(c, id) ==
  \/ \E e \in executing[c] : e[1] = id
  \/ \E m \in AnswersIn(srv[c].wq) \cup AnswersIn(s2c[c]) : m.id = id
  \/ \E t \in HeldTrace(c) : t[3] = id

LEMMA OnWayNow ==
  ASSUME NEW c, NEW t \in Trace(c), Served(t) PROVE OnWay(c, t[3])
<1>1. CASE t \in RunningTrace(c)
  <2>1. PICK e \in executing[c] : t = <<"running", None, e[1], e[2]>> BY <1>1 DEF RunningTrace
  <2>2. t[3] = e[1] BY <2>1
  <2> QED BY <2>2 DEF OnWay
<1>2. CASE t \in AnsweredTrace(c)
  <2>1. PICK m \in AnswersIn(srv[c].wq) : t = <<"answered", None, m.id, m.q>> BY <1>2 DEF AnsweredTrace
  <2>2. t[3] = m.id BY <2>1
  <2> QED BY <2>2 DEF OnWay
<1>3. CASE t \in ReturnedTrace(c)
  <2>1. PICK m \in AnswersIn(s2c[c]) : t = <<"returned", None, m.id, m.q>> BY <1>3 DEF ReturnedTrace
  <2>2. t[3] = m.id BY <2>1
  <2> QED BY <2>2 DEF OnWay
<1>4. CASE t \in HeldTrace(c) BY <1>4 DEF OnWay
<1> QED BY <1>1, <1>2, <1>3, <1>4, Tags DEF Served

LEMMA OnWayNext ==
  ASSUME NEW c, NEW id, OnWay(c, id)' PROVE \E t \in Trace(c)' : Served(t) /\ t[3] = id
<1>1. ASSUME NEW e \in executing'[c], e[1] = id PROVE \E t \in Trace(c)' : Served(t) /\ t[3] = id
  <2>1. PICK t : t = <<"running", None, e[1], e[2]>> OBVIOUS
  <2>2. t \in RunningTrace(c)' BY <2>1 DEF RunningTrace
  <2>3. t \in Trace(c)' BY <2>2 DEF Trace
  <2>4. Served(t) /\ t[3] = id BY <1>1, <2>1 DEF Served
  <2> QED BY <2>3, <2>4
<1>2. ASSUME NEW m \in AnswersIn(srv'[c].wq), m.id = id
      PROVE  \E t \in Trace(c)' : Served(t) /\ t[3] = id
  <2>1. PICK t : t = <<"answered", None, m.id, m.q>> OBVIOUS
  <2>2. t \in AnsweredTrace(c)' BY <2>1 DEF AnsweredTrace
  <2>3. t \in Trace(c)' BY <2>2 DEF Trace
  <2>4. Served(t) /\ t[3] = id BY <1>2, <2>1 DEF Served
  <2> QED BY <2>3, <2>4
<1>3. ASSUME NEW m \in AnswersIn(s2c'[c]), m.id = id
      PROVE  \E t \in Trace(c)' : Served(t) /\ t[3] = id
  <2>1. PICK t : t = <<"returned", None, m.id, m.q>> OBVIOUS
  <2>2. t \in ReturnedTrace(c)' BY <2>1 DEF ReturnedTrace
  <2>3. t \in Trace(c)' BY <2>2 DEF Trace
  <2>4. Served(t) /\ t[3] = id BY <1>3, <2>1 DEF Served
  <2> QED BY <2>3, <2>4
<1>4. ASSUME NEW t \in HeldTrace(c)', t[3] = id PROVE \E u \in Trace(c)' : Served(u) /\ u[3] = id
  <2>1. t \in Trace(c)' BY <1>4 DEF Trace
  <2>2. t[1] = "held" BY <1>4 DEF HeldTrace
  <2> QED BY <1>4, <2>1, <2>2 DEF Served
<1> QED BY <1>1, <1>2, <1>3, <1>4 DEF OnWay

LEMMA OnWayKept ==
  ASSUME NEW c \in Conns, OwnerInv, AnswerOnItsWay(c), Lossless(c),
         NEW p \in conn[c].map, p[2] \in executed[c]
  PROVE  OnWay(c, p[1])
<1>1. PICK t \in Trace(c) : Served(t) /\ t[3] = p[1] BY DEF AnswerOnItsWay
<1> QED BY <1>1, OnWayNow

LEMMA OnItsWayClient ==
  ASSUME OwnerInv, NEW c \in Conns, FlowAt(c), AnswerOnItsWay(c), RunOrOver(c), Effect(c)
  PROVE  AnswerOnItsWay(c)'
<1> SUFFICES ASSUME Lossless(c)', NEW p \in conn'[c].map, p[2] \in executed'[c]
             PROVE  OnWay(c, p[1])'
  BY OnWayNext DEF AnswerOnItsWay
<1>0. /\ s2c[c] \in Seq(MsgSet) /\ conn[c].map \in SUBSET (Nat \X Quests) BY TypesOf
<1>1. /\ srv'[c] = srv[c] /\ executing'[c] = executing[c] /\ broken'[c] = broken[c]
      /\ executed'[c] = executed[c]
  BY EffectServer DEF SameServer
<1>2. InSeq(s2c'[c]) \subseteq InSeq(s2c[c]) BY EffectBye, UnreadKept
<1>3. ~Takes(c) /\ ~SaysBye(c) BY DEF Takes, SaysBye
<1>4. CASE Made(c) BY <1>4 DEF Made, SameResults
<1>5. ASSUME ~Made(c) PROVE Lossless(c)
  <2>1. conn'[c].fd = conn[c].fd
    BY <1>3, <1>5 DEF Effect, Quiet, Handles, Writes, GetsBye, GetsAnswer, Drops, Adds, KeepsOpen
  <2> QED BY <1>1, <1>2, <2>1 DEF Lossless
<1>6. ASSUME ~Made(c), p \in conn[c].map PROVE OnWay(c, p[1]) BY <1>1, <1>5, <1>6, OnWayKept
<1>7. CASE \/ Quiet(c) \/ Handles(c) \/ \E id \in Nat : Drops(c, id) /\ Unsends(c, id)
           \/ \E q \in Quests : Adds(c, q)
  <2>1. s2c'[c] = s2c[c] /\ SameHeld(c)
    BY <1>7 DEF Quiet, Handles, Drops, Adds, SameQueue, SameSockets
  <2>2. CASE p \in conn[c].map BY <1>1, <1>4, <1>6, <2>1, <2>2 DEF OnWay, SameHeld
  <2>3. CASE p \notin conn[c].map
    <3>1. PICK q \in Quests : Adds(c, q) /\ p = <<conn[c].next, q>>
      BY <1>7, <2>3 DEF Quiet, Handles, Drops, Adds, SameResults
    <3> QED BY <1>1, <3>1, SendingNotRun
  <2> QED BY <2>2, <2>3
<1>8. CASE Writes(c) \/ GetsBye(c)
  <2>1. /\ SameHeld(c) /\ conn'[c].map = conn[c].map
        /\ \/ s2c'[c] = s2c[c]
           \/ s2c[c] # <<>> /\ Head(s2c[c]).type # "A" /\ s2c'[c] = Tail(s2c[c])
    BY <1>8 DEF Writes, GetsBye, SameResults
  <2>2. AnswersIn(s2c[c]) \subseteq AnswersIn(s2c'[c]) BY <1>0, <2>1, PartsOf
  <2> QED BY <1>1, <1>4, <1>6, <2>1, <2>2 DEF OnWay, SameHeld
<1>9. ASSUME NEW r \in Readers, GetsAnswer(c, r) PROVE OnWay(c, p[1])'
  <2>1. PICK m : m = Head(s2c[c]) OBVIOUS
  <2>2. /\ conn'[c].map = conn[c].map /\ s2c[c] # <<>> /\ s2c'[c] = Tail(s2c[c])
        /\ HeldTrace(c)' = HeldTrace(c) \cup {<<"held", r, m.id, m.q>>}
    BY <1>9, <2>1 DEF GetsAnswer, SameResults
  <2>3. AnswersIn(s2c[c]) \subseteq AnswersIn(s2c'[c]) \cup {m} BY <1>0, <2>1, <2>2, PartsOf
  <2>4. <<"held", r, m.id, m.q>>[3] = m.id OBVIOUS
  <2>5. CASE Made(c) BY <1>4, <2>5
  <2>6. CASE OnWay(c, p[1]) BY <1>1, <2>2, <2>3, <2>4, <2>6 DEF OnWay
  <2> QED BY <1>6, <2>2, <2>5, <2>6
<1>10. ASSUME NEW r \in Readers, NEW x \in Nat \X Quests, Reads(c, r, x), KeepsOpen(c)
       PROVE  OnWay(c, p[1])'
  <2>1. /\ HeldTrace(c)' = HeldTrace(c) \ {<<"held", r, x[1], x[2]>>} /\ s2c'[c] = s2c[c]
        /\ conn'[c].map = conn[c].map \ EntriesOf(conn[c], x[1])
    BY <1>10 DEF Reads, KeepsOpen, SameQueue, SameSockets
  <2>2. p \in conn[c].map /\ p[1] # x[1] BY <2>1 DEF EntriesOf
  <2>3. <<"held", r, x[1], x[2]>>[3] = x[1] OBVIOUS
  <2>4. CASE Made(c) BY <1>4, <2>4
  <2>5. CASE OnWay(c, p[1]) BY <1>1, <2>1, <2>2, <2>3, <2>5 DEF OnWay
  <2> QED BY <1>6, <2>2, <2>4, <2>5
<1> QED BY <1>3, <1>4, <1>7, <1>8, <1>9, <1>10 DEF Effect

-----------------------------------------------------------------------------
(* The answer on its way, under the steps of the server.                   *)
LEMMA LosslessBefore ==
  ASSUME OwnerInv, NEW c \in Conns, SrvShape(c), SEffect(c), Lossless(c)'
  PROVE  Lossless(c)
<1> USE DEF ST_WAITING_HELLO, ST_ACTIVE, ST_CLOSE, ST_CLOSING, ST_CLOSED, ST_ERROR
<1>0. /\ srv[c].wq \in Seq(MsgSet) /\ s2c[c] \in Seq(MsgSet) /\ srv[c].st \in Int
      /\ srv[c].fd \in BOOLEAN
  BY TypesOf
<1>1. CASE Client(c) /\ SameServer(c) /\ SameSockets(c)
  BY <1>1 DEF SameServer, SameSockets, Client, Lossless
<1>2. CASE SAccepts(c) \/ SDiscards(c) \/ SReads(c)
  BY <1>2 DEF SAccepts, SDiscards, SReads, SameSrv, SameWork, SameNet, SameSockets, Client, Lossless
<1>3. CASE SHellos(c)
  BY <1>0, <1>3 DEF SHellos, SameNet, SameSockets, Client, Lossless, SrvShape
<1>4. CASE SWrites(c)
  <2>1. CASE s2c'[c] = s2c[c] BY <1>4, <2>1 DEF SWrites, Client, Lossless
  <2>2. CASE conn[c].fd
    <3>1. ~broken[c] /\ srv[c].st < ST_CLOSED BY <1>0, <1>4 DEF SWrites, SrvShape
    <3> QED BY <2>2, <3>1 DEF Lossless
  <2> QED BY <1>4, <2>1, <2>2 DEF SWrites
<1>5. CASE SStops(c) BY <1>5 DEF SStops, Client, Lossless
<1>6. ASSUME NEW m \in sread[c], SRuns(c, m) PROVE Lossless(c)
  BY <1>6 DEF SRuns, SameNet, SameSockets, Client, Lossless
<1>7. ASSUME NEW e \in executing[c], SReplies(c, e) \/ SFails(c, e) PROVE Lossless(c)
  BY <1>0, <1>7 DEF SReplies, SFails, SameNet, SameSockets, Client, Lossless
<1>8. CASE SCloses(c) BY <1>8 DEF SCloses, SameNet, SameSockets, Client, Lossless
<1>9. CASE Resets(c) BY <1>9, InEmpty DEF Resets, Lossless
<1> QED BY <1>1, <1>2, <1>3, <1>4, <1>5, <1>6, <1>7, <1>8, <1>9 DEF SEffect

LEMMA OnItsWayServer ==
  ASSUME OwnerInv, NEW c \in Conns, FlowAt(c), SrvShape(c), ByeDrainedS(c), AnswerOnItsWay(c),
         SEffect(c)
  PROVE  AnswerOnItsWay(c)'
<1> USE DEF ST_WAITING_HELLO, ST_ACTIVE, ST_CLOSE, ST_CLOSING, ST_CLOSED, ST_ERROR
<1> SUFFICES ASSUME Lossless(c)', NEW p \in conn'[c].map, p[2] \in executed'[c]
             PROVE  OnWay(c, p[1])'
  BY OnWayNext DEF AnswerOnItsWay
<1>0. /\ srv[c].wq \in Seq(MsgSet) /\ s2c[c] \in Seq(MsgSet) /\ srv[c].st \in Int
      /\ executing[c] \in SUBSET (Nat \X Quests)
      /\ conn[c].map \in SUBSET (Nat \X Quests)
  BY TypesOf
<1>1. conn'[c] = conn[c] /\ HeldTrace(c)' = HeldTrace(c)
  BY DEF SEffect, SAccepts, SHellos, SWrites, SReads, SStops, SDiscards, SRuns, SReplies, SFails,
         SCloses, Resets, Client, SameHeld
<1>2. Lossless(c) BY LosslessBefore
<1>3. ASSUME p[2] \in executed[c] PROVE OnWay(c, p[1]) BY <1>1, <1>2, <1>3, OnWayKept
<1>4. CASE \/ Client(c) /\ SameServer(c) /\ SameSockets(c)
           \/ SAccepts(c) \/ SDiscards(c) \/ SReads(c)
  <2>1. /\ executing'[c] = executing[c] /\ srv'[c].wq = srv[c].wq /\ s2c'[c] = s2c[c]
        /\ executed'[c] = executed[c]
    BY <1>4 DEF SameServer, SAccepts, SDiscards, SReads, SameSrv, SameWork, SameNet, SameSockets
  <2> QED BY <1>1, <1>3, <2>1 DEF OnWay
<1>5. CASE SHellos(c) \/ SCloses(c)
  <2>1. /\ executing'[c] = executing[c] /\ s2c'[c] = s2c[c] /\ executed'[c] = executed[c]
        /\ \/ srv'[c].wq = srv[c].wq
           \/ srv'[c].wq = Append(srv[c].wq, Hello) \/ srv'[c].wq = Append(srv[c].wq, Bye)
    BY <1>5 DEF SHellos, SCloses, SameWork, SameNet, SameSockets
  <2>2. AnswersIn(srv'[c].wq) = AnswersIn(srv[c].wq) BY <1>0, <2>1, ByeMessages, NoAnswerAppended
  <2> QED BY <1>1, <1>3, <2>1, <2>2 DEF OnWay
<1>6. CASE SWrites(c)
  <2>1. /\ executing'[c] = executing[c] /\ executed'[c] = executed[c] /\ srv[c].wq # <<>>
        /\ srv'[c].wq = Tail(srv[c].wq)
        /\ \/ conn[c].fd /\ s2c'[c] = Append(s2c[c], Head(srv[c].wq))
           \/ ~conn[c].fd /\ s2c'[c] = s2c[c]
    BY <1>6 DEF SWrites, SameWork
  <2>2. /\ Head(srv[c].wq) \in MsgSet
        /\ AnswersIn(srv[c].wq) =
             AnswersIn(Tail(srv[c].wq)) \cup {x \in {Head(srv[c].wq)} : x.type = "A"}
    BY <1>0, <2>1, InTail, PartsOf
  <2>3. AnswersIn(srv[c].wq) \cup AnswersIn(s2c[c]) \subseteq AnswersIn(srv'[c].wq) \cup AnswersIn(s2c'[c])
    <3>1. CASE conn[c].fd /\ s2c'[c] = Append(s2c[c], Head(srv[c].wq))
      <4>1. AnswersIn(s2c'[c]) = AnswersIn(s2c[c]) \cup {x \in {Head(srv[c].wq)} : x.type = "A"}
        BY <1>0, <2>2, <3>1, PartsOf
      <4> QED BY <2>1, <2>2, <4>1
    <3>2. CASE ~conn[c].fd /\ s2c'[c] = s2c[c]
      <4>1. Bye \in InSeq(s2c[c]) BY <1>1, <3>2 DEF Lossless
      <4>2. AnswersIn(srv[c].wq) = {} BY <4>1 DEF ByeDrainedS
      <4> QED BY <3>2, <4>2
    <3> QED BY <2>1, <3>1, <3>2
  <2> QED BY <1>1, <1>3, <2>1, <2>3 DEF OnWay
<1>7. CASE SStops(c)
  <2>1. Bye \in InSeq(s2c[c]) /\ s2c'[c] = s2c[c] /\ executed'[c] = executed[c]
    BY <1>7 DEF SStops, Lossless
  <2>2. executing[c] = {} /\ AnswersIn(srv[c].wq) = {} BY <2>1 DEF ByeDrainedS
  <2> QED BY <1>1, <1>3, <2>1, <2>2 DEF OnWay
<1>8. ASSUME NEW m \in sread[c], SRuns(c, m) PROVE OnWay(c, p[1])'
  <2>1. /\ executing'[c] = executing[c] \cup {<<m.id, m.q>>} /\ executed'[c] = executed[c] \cup {m.q}
        /\ srv'[c].wq = srv[c].wq /\ s2c'[c] = s2c[c]
    BY <1>8 DEF SRuns, SameNet, SameSockets
  <2>2. CASE p[2] \in executed[c] BY <1>1, <1>3, <2>1, <2>2 DEF OnWay
  <2>3. CASE p[2] \notin executed[c]
    <3>1. m.q = p[2] BY <2>1, <2>3
    <3>2. <<m.id, p[2]>> \in Seen(c)
      <4>1. <<"read", None, m.id, m.q>> \in Trace(c) BY InTrace DEF ReadTrace
      <4>2. <<"read", None, m.id, m.q>>[3] = m.id /\ <<"read", None, m.id, m.q>>[4] = m.q OBVIOUS
      <4> QED BY <3>1, <4>1, <4>2 DEF Seen
    <3>3. <<m.id, p[2]>> = p BY <1>1, <3>2 DEF FlowAt, Matching
    <3>4. p \in executing'[c] BY <2>1, <3>1, <3>3
    <3> QED BY <3>4 DEF OnWay
  <2> QED BY <2>2, <2>3
<1>9. ASSUME NEW e \in executing[c], SReplies(c, e) PROVE OnWay(c, p[1])'
  <2>0. Bye \notin InSeq(s2c[c]) BY DEF ByeDrainedS
  <2>1. /\ executing'[c] = executing[c] \ {e} /\ executed'[c] = executed[c] /\ s2c'[c] = s2c[c]
    BY <1>9 DEF SReplies, SameNet, SameSockets
  <2>2. srv'[c].st < ST_CLOSED BY <2>0, <2>1 DEF Lossless
  <2>3. PICK m : m = Msg("A", e[1], e[2]) OBVIOUS
  <2>4. m \in MsgSet /\ m.type = "A" /\ m.id = e[1] BY <1>0, <2>3, MessageTypes DEF Msg
  <2>5. PICK z : z = Append(srv[c].wq, m) OBVIOUS
  <2>6. z \in Seq(MsgSet) /\ AnswersIn(z) = AnswersIn(srv[c].wq) \cup {m}
    BY <1>0, <2>4, <2>5, InAppend, PartsOf
  <2>7. srv'[c].wq = z \/ srv'[c].wq = Append(z, Bye) BY <1>0, <1>9, <2>2, <2>3, <2>5 DEF SReplies
  <2>8. AnswersIn(srv'[c].wq) = AnswersIn(srv[c].wq) \cup {m}
    BY <2>6, <2>7, ByeMessages, NoAnswerAppended
  <2> QED BY <1>1, <1>3, <2>1, <2>4, <2>8 DEF OnWay
<1>10. ASSUME NEW e \in executing[c], SFails(c, e) PROVE FALSE
  BY <1>10 DEF SFails, Lossless, ByeDrainedS, SameNet, SameSockets
<1>11. CASE Resets(c) BY <1>11, InEmpty DEF Resets, Lossless
<1> QED BY <1>4, <1>5, <1>6, <1>7, <1>8, <1>9, <1>10, <1>11 DEF SEffect

\* With one dispatcher thread, whoever reads Bye has read all that came before it.
OneReader == \A r, s \in Readers : r = s

LEMMA NothingHeld ==
  ASSUME OneReader, NEW c \in Conns, NEW r \in Readers, reader[r] = None
  PROVE  HeldTrace(c) = {}
BY DEF OneReader, HeldTrace, HeldBy

LEMMA NotRunTwiceClient ==
  ASSUME OneReader, OwnerInv, NEW c \in Conns, FlowAt(c), ByeDrainedS(c), RunOrOver(c), RetryAt(c),
         Effect(c)
  PROVE  NotRunTwice(c)'
<1>0. /\ s2c[c] \in Seq(MsgSet) /\ conn[c].st \in Int
      /\ executed'[c] = executed[c] /\ NotRunTwice(c) /\ TakenClosed(c) /\ AnswerOnItsWay(c)
  BY TypesOf, EffectServer DEF SameServer, RetryAt
<1>1. CASE GetsBye(c)
  <2>1. taken[c] = {} /\ taken'[c] = taken[c] /\ conn'[c].map = conn[c].map
    BY <1>0, <1>1 DEF GetsBye, TakenClosed, SameResults, ST_CLOSED
  <2>2. Head(s2c[c]) \in MsgSet /\ Head(s2c[c]) \in InSeq(s2c[c]) /\ Head(s2c[c]).type = "B" /\ s2c[c] # <<>>
    BY <1>0, <1>1, InTail DEF GetsBye
  <2>3. Head(s2c[c]) = Bye BY <2>2 DEF MsgSet, Hello, Bye, Msg
  <2>4. /\ Lossless(c) /\ executing[c] = {} /\ AnswersIn(srv[c].wq) = {}
        /\ AnswersIn(s2c[c]) = {}
    BY <1>0, <2>2, <2>3, AheadOfByeSeq DEF ByeDrainedS, Lossless
  <2>5. HeldTrace(c) = {} BY <1>1, NothingHeld DEF GetsBye
  <2>6. \A p \in conn[c].map : p[2] \notin executed[c]
    BY <1>0, <2>4, <2>5, OnWayKept DEF OnWay
  <2> QED BY <1>0, <2>1, <2>6 DEF NotRunTwice, QuestsOf
<1>2. CASE SaysBye(c) BY <1>0, <1>2 DEF SaysBye, TakenClosed, NotRunTwice, QuestsOf, ST_CLOSED
<1>3. CASE Takes(c) BY <1>0, <1>3 DEF Takes, NotRunTwice, QuestsOf
<1>4. ASSUME NEW q \in Quests, Adds(c, q) PROVE NotRunTwice(c)'
  <2>1. q \notin executed[c] BY <1>4, SendingNotRun
  <2>2. /\ conn'[c].map = conn[c].map \cup {<<conn[c].next, q>>} /\ taken'[c] = taken[c]
        /\ conn'[c].graceful = conn[c].graceful
    BY <1>4 DEF Adds
  <2>3. QuestsOf(conn'[c].map) \subseteq QuestsOf(conn[c].map) \cup {q} BY <2>2 DEF QuestsOf
  <2> QED BY <1>0, <2>1, <2>2, <2>3 DEF NotRunTwice
<1>5. CASE \/ Quiet(c) \/ Handles(c) \/ Made(c) \/ Writes(c) \/ \E r \in Readers : GetsAnswer(c, r)
           \/ \E id \in Nat : Drops(c, id)
           \/ KeepsOpen(c) /\ \E r \in Readers, x \in Nat \X Quests : Reads(c, r, x)
  <2>1. /\ conn'[c].map \subseteq conn[c].map /\ taken'[c] \subseteq taken[c]
        /\ conn'[c].graceful = conn[c].graceful
    BY <1>5 DEF Quiet, Handles, Made, Writes, GetsAnswer, Drops, KeepsOpen, Reads, SameResults, SameState
  <2>2. QuestsOf(conn'[c].map) \subseteq QuestsOf(conn[c].map) BY <2>1 DEF QuestsOf
  <2> QED BY <1>0, <2>1, <2>2 DEF NotRunTwice
<1> QED BY <1>1, <1>2, <1>3, <1>4, <1>5 DEF Effect

LEMMA NotRunTwiceServer ==
  ASSUME OwnerInv, NEW c \in Conns, SrvShape(c), Shut(c), NotRunTwice(c), SEffect(c),
         UNCHANGED <<connVars, thrVars, resVars>>
  PROVE  NotRunTwice(c)' /\ (conn[c].graceful => executed'[c] = executed[c])
<1>1. UNCHANGED <<conn, taken>> BY DEF connVars, thrVars
<1>2. conn[c].graceful => executed'[c] = executed[c] BY ShutServer, SExecuted
<1> QED BY <1>1, <1>2 DEF NotRunTwice

-----------------------------------------------------------------------------
(* Somebody watches the outstanding results of a connection.               *)
Watched(c) == conn[c].map # {} => conn[c].rt \/ firing = c \/ disc[c] # "no"

LEMMA WatchSame ==
  ASSUME NEW c, Watched(c), firing' = firing, disc'[c] = disc[c],
         conn'[c].map \subseteq conn[c].map, conn'[c].rt = conn[c].rt
  PROVE  Watched(c)'
BY DEF Watched

LEMMA WatchOthers ==
  ASSUME OwnerInv, NEW c \in Conns, \A d \in Conns : Watched(d),
         firing' = firing \/ firing = None \/ firing = c,
         \A d \in Conns \ {c} : conn'[d] = conn[d] /\ disc'[d] = disc[d], Watched(c)'
  PROVE  \A d \in Conns : Watched(d)'
<1> SUFFICES ASSUME NEW d \in Conns \ {c} PROVE Watched(d)' OBVIOUS
<1> QED BY ConstantsAssumption DEF Watched

LEMMA Called ==
  ASSUME OwnerInv, NEW c \in Conns, disc' = Call(c)
  PROVE  disc'[c] # "no" /\ \A d \in Conns \ {c} : disc'[d] = disc[d]
BY DEF Call, OwnerInv, TypeOK

LEMMA WatchQuest ==
  ASSUME MsgTimeout, OwnerInv, \A c \in Conns : Watched(c), QuestAction
  PROVE  \A c \in Conns : Watched(c)'
<1>1. ASSUME NEW q \in Quests, PickExisting(q) \/ PickThrows(q) PROVE \A c \in Conns : Watched(c)'
  BY <1>1 DEF PickExisting, PickThrows, connVars, thrVars, Watched
<1>2. ASSUME NEW q \in Quests, NEW c \in Conns, DisconnectResult(c, q)
      PROVE  \A d \in Conns : Watched(d)'
  BY <1>2 DEF DisconnectResult, connVars, Watched
<1>3. ASSUME NEW q \in Quests, NEW kind \in {"answer", "error"}, Give(q, kind)
      PROVE  \A c \in Conns : Watched(c)'
  BY <1>3 DEF Give, connVars, thrVars, Watched
<1>4. ASSUME NEW q \in Quests, StartTimer(q) PROVE \A c \in Conns : Watched(c)'
  <2>1. con[q] \in Conns BY <1>4 DEF StartTimer, OwnerInv, SendsOnConnection
  <2>2. conn' = [conn EXCEPT ![con[q]] = [conn[con[q]] EXCEPT !.wt = conn[con[q]].fd]]
        /\ UNCHANGED <<firing, disc>>
    BY <1>4 DEF StartTimer, thrVars, OwnerInv, TypeOK
  <2>3. ASSUME NEW c \in Conns PROVE conn'[c].map = conn[c].map /\ conn'[c].rt = conn[c].rt
    <3>1. conn[c] \in ConnSet BY TypesOf
    <3> QED BY <2>1, <2>2, <3>1 DEF ConnSet, OwnerInv, TypeOK
  <2> QED BY <2>2, <2>3 DEF Watched
<1>5. ASSUME NEW q \in Quests, SendQuestClosed(q) PROVE \A c \in Conns : Watched(c)'
  <2>1. PICK c \in Conns : c = con[q] BY <1>5 DEF SendQuestClosed, OwnerInv, SendsOnConnection
  <2>2. \/ conn' = conn
        \/ conn' = [conn EXCEPT ![c] = [conn[c] EXCEPT !.map = conn[c].map \ EntriesOf(conn[c], txid[q])]]
    BY <1>5, <2>1 DEF SendQuestClosed, OwnerInv, TypeOK
  <2>3. UNCHANGED <<firing, disc>> BY <1>5 DEF SendQuestClosed, thrVars
  <2>4. conn[c] \in ConnSet BY TypesOf
  <2>5. conn'[c].map \subseteq conn[c].map /\ conn'[c].rt = conn[c].rt
    BY <2>2, <2>4 DEF ConnSet, OwnerInv, TypeOK
  <2>6. \A d \in Conns \ {c} : conn'[d] = conn[d] BY <2>2 DEF OwnerInv, TypeOK
  <2> QED BY <2>3, <2>5, <2>6, WatchSame, WatchOthers
<1>6. ASSUME NEW q \in Quests, NEW c \in Conns, SendQuestCatch(c, q)
      PROVE  \A d \in Conns : Watched(d)'
  <2>1. conn' = [conn EXCEPT ![c] = Dropped(conn[c], txid[q])] /\ UNCHANGED <<firing, disc>>
    BY <1>6 DEF SendQuestCatch
  <2>2. conn[c] \in ConnSet BY TypesOf
  <2>3. Dropped(conn[c], txid[q]).map \subseteq conn[c].map /\ Dropped(conn[c], txid[q]).rt = conn[c].rt
    BY <2>2 DEF ConnSet, Dropped
  <2>4. conn'[c].map \subseteq conn[c].map /\ conn'[c].rt = conn[c].rt
    BY <2>1, <2>3 DEF OwnerInv, TypeOK
  <2>5. \A d \in Conns \ {c} : conn'[d] = conn[d] BY <2>1 DEF OwnerInv, TypeOK
  <2> QED BY <2>1, <2>4, <2>5, WatchSame, WatchOthers
<1>7. ASSUME NEW q \in Quests, NEW c \in Conns, PickNew(q, c) PROVE \A d \in Conns : Watched(d)'
  <2>1. conn' = [conn EXCEPT ![c] = [FreshConn EXCEPT !.fd = TRUE]] /\ UNCHANGED <<firing, disc>>
    BY <1>7 DEF PickNew, thrVars
  <2>2. conn'[c].map = {} BY <2>1 DEF FreshConn, OwnerInv, TypeOK
  <2>3. \A d \in Conns \ {c} : conn'[d] = conn[d] BY <2>1 DEF OwnerInv, TypeOK
  <2> QED BY <2>1, <2>2, <2>3, WatchOthers DEF Watched
<1>8. ASSUME NEW q \in Quests, SendQuest(q) \/ SendQuestHuge(q) PROVE \A c \in Conns : Watched(c)'
  <2>1. PICK c \in Conns : c = con[q] BY <1>8 DEF SendQuest, SendQuestHuge, OwnerInv, SendsOnConnection
  <2>2. UNCHANGED <<firing, disc>> BY <1>8 DEF SendQuest, SendQuestHuge
  <2>3. PICK k : k = Added(conn[c], q) OBVIOUS
  <2>4. conn[c] \in ConnSet /\ k \in ConnSet BY <2>3, TypesOf, RecordTypes
  <2>5. k.rt = (conn[c].rt \/ (MsgTimeout /\ conn[c].map = {})) BY <2>3, <2>4 DEF Added, ConnSet
  <2>6. conn'[c].rt = k.rt /\ \A d \in Conns \ {c} : conn'[d] = conn[d]
    <3>1. CASE SendQuest(q)
      <4>1. Msg("Q", conn[c].next, q) \in MsgSet BY TypesOf, MessageTypes
      <4>2. Sends(c, q, k, Msg("Q", conn[c].next, q)) BY <2>1, <2>3, <3>1 DEF SendQuest, Sends
      <4> QED BY <2>4, <4>1, <4>2, SendFlow DEF OwnerInv
    <3>2. CASE SendQuestHuge(q) BY <2>1, <2>3, <3>2 DEF SendQuestHuge, OwnerInv, TypeOK
    <3> QED BY <1>8, <3>1, <3>2
  <2>7. Watched(c)' BY <2>2, <2>5, <2>6 DEF Watched
  <2> QED BY <2>2, <2>6, <2>7, WatchOthers
<1> QED BY <1>1, <1>2, <1>3, <1>4, <1>5, <1>6, <1>7, <1>8 DEF QuestAction

-----------------------------------------------------------------------------
LEMMA WatchConn ==
  ASSUME MsgTimeout, OwnerInv, \A c \in Conns : Watched(c), ConnAction
  PROVE  \A c \in Conns : Watched(c)'
<1>1. ASSUME NEW r \in Readers, ReadAnswer(r) PROVE \A c \in Conns : Watched(c)'
  <2>1. PICK c \in Conns : c = reader[r][1]
    <3>1. reader[r] \in Conns \X [type : {"A"}, id : Nat, q : Quests]
      BY <1>1 DEF ReadAnswer, OwnerInv, TypeOK
    <3> QED BY <3>1
  <2>2. firing' = firing BY <1>1 DEF ReadAnswer
  <2>3. conn[c] \in ConnSet BY TypesOf
  <2> DEFINE found == EntriesOf(conn[c], reader[r][2].id)
             left == [conn[c] EXCEPT !.map = @ \ found]
             timed == [left EXCEPT !.rt = IF MsgTimeout THEN left.map # {} ELSE @]
             closing == [left EXCEPT !.st = ST_CLOSING, !.graceful = TRUE]
  <2>4. left.map = {} => closing.map = {} BY <2>3 DEF ConnSet
  <2>5. timed.map # {} => timed.rt BY <2>3 DEF ConnSet
  <2>6. left \in ConnSet /\ timed \in ConnSet /\ closing \in ConnSet
        /\ [closing EXCEPT !.rt = TRUE] \in ConnSet
    <3>1. left \in ConnSet BY <2>3 DEF ConnSet
    <3>2. timed \in ConnSet BY <3>1 DEF ConnSet
    <3>3. [left EXCEPT !.st = ST_CLOSING] \in ConnSet BY <3>1, States DEF ConnSet
    <3>4. [[left EXCEPT !.st = ST_CLOSING] EXCEPT !.graceful = TRUE] \in ConnSet BY <3>3 DEF ConnSet
    <3>5. closing \in ConnSet BY <3>4
    <3> HIDE DEF left, timed, closing
    <3>6. [closing EXCEPT !.rt = TRUE] \in ConnSet BY <3>5 DEF ConnSet
    <3> QED BY <3>1, <3>2, <3>5, <3>6
  <2>7. closing.map = left.map /\ [closing EXCEPT !.rt = TRUE].map = left.map BY <2>3 DEF ConnSet
  <2>8. \/ conn' = [conn EXCEPT ![c] = timed] /\ UNCHANGED disc
        \/ conn' = [conn EXCEPT ![c] = SetException(timed)] /\ disc' = Call(c)
        \/ left.map = {} /\ SendOK(c, r, [closing EXCEPT !.rt = TRUE], Bye) /\ UNCHANGED disc
        \/ /\ conn' = [conn EXCEPT ![c] = FailedWrite(Queued(closing, Bye))] /\ disc' = Call(c)
    BY <1>1, <2>1 DEF ReadAnswer
  <2> HIDE DEF found, left, timed, closing
  <2>9. CASE conn' = [conn EXCEPT ![c] = timed] /\ UNCHANGED disc
    <3>1. conn'[c] = timed /\ \A d \in Conns \ {c} : conn'[d] = conn[d] /\ disc'[d] = disc[d]
      BY <2>9 DEF OwnerInv, TypeOK
    <3> QED BY <2>2, <2>5, <3>1, WatchOthers DEF Watched
  <2>10. CASE /\ conn' = [conn EXCEPT ![c] = SetException(timed)]
                  \/ conn' = [conn EXCEPT ![c] = FailedWrite(Queued(closing, Bye))]
              /\ disc' = Call(c)
    <3>1. \A d \in Conns \ {c} : conn'[d] = conn[d] BY <2>10 DEF OwnerInv, TypeOK
    <3> QED BY <2>2, <2>10, <3>1, Called, WatchOthers DEF Watched
  <2>11. CASE left.map = {} /\ SendOK(c, r, [closing EXCEPT !.rt = TRUE], Bye) /\ UNCHANGED disc
    <3>1. PICK k \in ConnSet : k = [closing EXCEPT !.rt = TRUE] BY <2>6
    <3>2. Sends(c, r, k, Bye) /\ k.map = {} BY <2>7, <2>11, <3>1 DEF Sends
    <3>3. conn'[c].map = {} /\ \A d \in Conns \ {c} : conn'[d] = conn[d]
      BY <3>2, SendFlow, MessageTypes DEF OwnerInv
    <3> QED BY <2>2, <2>11, <3>3, WatchOthers DEF Watched
  <2> QED BY <2>8, <2>9, <2>10, <2>11
<1>2. ASSUME NEW c \in Conns, NEW w \in Writers, QuestSent(c, w) PROVE \A d \in Conns : Watched(d)'
  BY <1>2 DEF QuestSent, connVars, Watched
<1>3. ASSUME NEW c \in Conns, NEW w, NEW k \in ConnSet, firing' = firing,
             k.map = conn[c].map, k.rt = conn[c].rt \/ conn[c].map = {},
             \/ WriteOK(c, w, k) /\ UNCHANGED disc
             \/ conn' = [conn EXCEPT ![c] = FailedWrite(k)] /\ (disc' = Call(c) \/ UNCHANGED disc)
      PROVE  \A d \in Conns : Watched(d)'
  <2>1. /\ conn'[c].map = k.map /\ conn'[c].rt = k.rt
        /\ \A d \in Conns \ {c} : conn'[d] = conn[d]
    <3>1. CASE WriteOK(c, w, k) BY <3>1, WriteFlow DEF OwnerInv
    <3>2. CASE conn' = [conn EXCEPT ![c] = FailedWrite(k)]
      <4>1. conn'[c] = FailedWrite(k) /\ \A d \in Conns \ {c} : conn'[d] = conn[d]
        BY <3>2 DEF OwnerInv, TypeOK
      <4> QED BY <4>1, RecordFields
    <3> QED BY <1>3, <3>1, <3>2
  <2>2. disc' = disc \/ (disc'[c] # "no" /\ \A d \in Conns \ {c} : disc'[d] = disc[d])
    BY <1>3, Called
  <2>3. Watched(c)' BY <1>3, <2>1, <2>2 DEF Watched
  <2> QED BY <1>3, <2>1, <2>2, <2>3, WatchOthers
<1>4. ASSUME NEW c \in Conns, NEW w \in Writers, WriteAgain(c, w) PROVE \A d \in Conns : Watched(d)'
  <2>1. conn[c] \in ConnSet /\ firing' = firing BY <1>4, TypesOf DEF WriteAgain
  <2>2. \/ WriteOK(c, w, conn[c]) /\ UNCHANGED disc
        \/ conn' = [conn EXCEPT ![c] = FailedWrite(conn[c])] /\ (disc' = Call(c) \/ UNCHANGED disc)
    BY <1>4 DEF WriteAgain
  <2> QED BY <1>3, <2>1, <2>2
<1>5. ASSUME NEW c \in Conns, NEW r \in Readers, DoWrite(c, r) PROVE \A d \in Conns : Watched(d)'
  <2>1. conn[c] \in ConnSet /\ firing' = firing BY <1>5, TypesOf DEF DoWrite
  <2> DEFINE a == [conn[c] EXCEPT !.st = ST_WAITING_HELLO, !.wt = FALSE]
  <2>2. a.map = conn[c].map /\ a.rt = conn[c].rt BY <2>1 DEF ConnSet
  <2>3. [conn[c] EXCEPT !.st = ST_WAITING_HELLO] \in ConnSet BY <2>1, States DEF ConnSet
  <2>4. [[conn[c] EXCEPT !.st = ST_WAITING_HELLO] EXCEPT !.wt = FALSE] \in ConnSet
    BY <2>3 DEF ConnSet
  <2>5. a \in ConnSet BY <2>4
  <2> HIDE DEF a
  <2>6. PICK k : k = IF conn[c].st < ST_WAITING_HELLO THEN a ELSE conn[c] OBVIOUS
  <2>7. k \in ConnSet /\ k.map = conn[c].map /\ k.rt = conn[c].rt BY <2>1, <2>2, <2>5, <2>6
  <2>8. \/ WriteOK(c, r, k) /\ UNCHANGED disc
        \/ conn' = [conn EXCEPT ![c] = FailedWrite(k)] /\ disc' = Call(c)
    BY <1>5, <2>6 DEF DoWrite, a
  <2> QED BY <1>3, <2>1, <2>7, <2>8
<1>6. ASSUME NEW c \in Conns, NEW r \in Readers, RecvHello(c, r) PROVE \A d \in Conns : Watched(d)'
  <2>1. conn[c] \in ConnSet /\ firing' = firing BY <1>6, TypesOf DEF RecvHello
  <2> DEFINE b == IF conn[c].map = {} THEN FALSE ELSE conn[c].rt
             a == [[conn[c] EXCEPT !.st = ST_ACTIVE] EXCEPT !.rt = b]
  <2>2. a.map = conn[c].map /\ a.rt = b BY <2>1 DEF ConnSet
  <2>3. b \in BOOLEAN BY <2>1 DEF ConnSet
  <2>4. [conn[c] EXCEPT !.st = ST_ACTIVE] \in ConnSet BY <2>1, States DEF ConnSet
  <2>5. a \in ConnSet BY <2>3, <2>4 DEF ConnSet
  <2>6. \/ UNCHANGED <<conn, disc>>
        \/ WriteOK(c, r, a) /\ UNCHANGED disc
        \/ conn' = [conn EXCEPT ![c] = FailedWrite(a)] /\ disc' = Call(c)
    BY <1>6, <2>1 DEF RecvHello, ConnSet
  <2>7. CASE UNCHANGED <<conn, disc>> BY <2>1, <2>7 DEF Watched
  <2>8. a.rt = conn[c].rt \/ conn[c].map = {} BY <2>2
  <2> HIDE DEF a
  <2> QED BY <1>3, <2>1, <2>2, <2>5, <2>6, <2>7, <2>8
<1>7. ASSUME NEW c \in Conns, NEW r \in Readers, RecvAnswer(c, r) PROVE \A d \in Conns : Watched(d)'
  BY <1>7 DEF RecvAnswer, connVars, Watched
<1>8. ASSUME NEW c \in Conns, disc' = Call(c), firing' = firing \/ firing = c,
             \A d \in Conns \ {c} : conn'[d] = conn[d]
      PROVE  \A d \in Conns : Watched(d)'
  BY <1>8, Called, WatchOthers DEF Watched
<1>9. ASSUME NEW c \in Conns, NEW r \in Readers, RecvBye(c, r) \/ RecvFails(c, r)
      PROVE  \A d \in Conns : Watched(d)'
  <2>1. /\ disc' = Call(c) /\ firing' = firing
        /\ \A d \in Conns \ {c} : conn'[d] = conn[d]
    BY <1>9 DEF RecvBye, RecvFails, OwnerInv, TypeOK
  <2> QED BY <1>8, <2>1
<1>10. ASSUME NEW c \in Conns, DoTimeout(c) \/ CloseForce(c) PROVE \A d \in Conns : Watched(d)'
  <2>1. /\ disc' = Call(c) /\ (firing' = firing \/ firing = c)
        /\ \A d \in Conns \ {c} : conn'[d] = conn[d]
    BY <1>10 DEF DoTimeout, CloseForce, connVars, OwnerInv, TypeOK
  <2> QED BY <1>8, <2>1
<1>11. ASSUME NEW c \in Conns, Timeout(c) PROVE \A d \in Conns : Watched(d)'
  <2>1. /\ firing = None /\ firing' = c /\ UNCHANGED disc
        /\ \A d \in Conns \ {c} : conn'[d] = conn[d]
    BY <1>11 DEF Timeout, OwnerInv, TypeOK
  <2> QED BY <2>1, WatchOthers DEF Watched
<1>12. ASSUME NEW c \in Conns, DisconnectBegin(c) PROVE \A d \in Conns : Watched(d)'
  <2>1. /\ firing' = firing /\ disc'[c] = "begun"
        /\ \A d \in Conns \ {c} : conn'[d] = conn[d] /\ disc'[d] = disc[d]
    BY <1>12 DEF DisconnectBegin, OwnerInv, TypeOK
  <2> QED BY <2>1, WatchOthers DEF Watched
<1>13. ASSUME NEW c \in Conns, DisconnectTake(c) PROVE \A d \in Conns : Watched(d)'
  <2>1. /\ firing' = firing
        /\ \A d \in Conns \ {c} : conn'[d] = conn[d] /\ disc'[d] = disc[d]
    BY <1>13 DEF DisconnectTake, OwnerInv, TypeOK
  <2>2. conn'[c].map = {} BY <1>13, DisconnectTakeFlow DEF Takes
  <2> QED BY <2>1, <2>2, WatchOthers DEF Watched
<1>14. ASSUME NEW c \in Conns, Close(c) PROVE \A d \in Conns : Watched(d)'
  <2>1. UNCHANGED <<firing, disc>> BY <1>14 DEF Close
  <2>2. conn[c] \in ConnSet BY TypesOf
  <2>3. CASE conn' = [conn EXCEPT ![c].st = ST_CLOSE]
    <3>1. /\ conn'[c].map = conn[c].map /\ conn'[c].rt = conn[c].rt
          /\ \A d \in Conns \ {c} : conn'[d] = conn[d]
      BY <2>2, <2>3 DEF ConnSet, OwnerInv, TypeOK
    <3> QED BY <2>1, <3>1, WatchSame, WatchOthers
  <2>4. CASE conn' # [conn EXCEPT ![c].st = ST_CLOSE]
    <3> DEFINE a == [conn[c] EXCEPT !.st = ST_CLOSING, !.graceful = TRUE, !.rt = TRUE]
    <3>1. Sends(c, "grace", a, Bye) /\ conn[c].map = {} BY <1>14, <2>4 DEF Close, Sends
    <3>2. a.map = conn[c].map BY <2>2 DEF ConnSet
    <3>3. [conn[c] EXCEPT !.st = ST_CLOSING] \in ConnSet BY <2>2, States DEF ConnSet
    <3>4. [[conn[c] EXCEPT !.st = ST_CLOSING] EXCEPT !.graceful = TRUE] \in ConnSet BY <3>3 DEF ConnSet
    <3>5. [[[conn[c] EXCEPT !.st = ST_CLOSING] EXCEPT !.graceful = TRUE] EXCEPT !.rt = TRUE] \in ConnSet
      BY <3>4 DEF ConnSet
    <3>6. a \in ConnSet BY <3>5
    <3> HIDE DEF a
    <3>7. conn'[c].map = {} /\ \A d \in Conns \ {c} : conn'[d] = conn[d]
      BY <3>1, <3>2, <3>6, SendFlow, MessageTypes DEF OwnerInv
    <3> QED BY <2>1, <3>7, WatchOthers DEF Watched
  <2> QED BY <2>3, <2>4
<1> QED BY <1>1, <1>2, <1>4, <1>5, <1>6, <1>7, <1>9, <1>10, <1>11, <1>12, <1>13, <1>14 DEF ConnAction

-----------------------------------------------------------------------------
LEMMA CloseWaitsKept ==
  ASSUME "huge" \notin Env, CoreInv, CloseWaitsC, [Next]_vars
  PROVE  CloseWaitsC'
<1> USE DEF ST_CLOSE, ST_CLOSING, ST_CLOSED, ST_ERROR
<1> SUFFICES ASSUME NEW c \in Conns, conn'[c].st = ST_CLOSE PROVE conn'[c].map # {}
  BY DEF CloseWaitsC
<1>0. OwnerInv /\ FailingQuest(c) BY DEF CoreInv, FlowInv
<1>1. CASE ByServer
  <2>1. conn' = conn BY <1>1 DEF ByServer, connVars
  <2> QED BY <2>1 DEF CloseWaitsC
<1>2. CASE ByClient
  <2>1. Effect(c) BY <1>2 DEF ByClient
  <2>2. CASE Quiet(c) \/ Handles(c) \/ Made(c) \/ \E r \in Readers : GetsAnswer(c, r)
    BY <2>2 DEF Quiet, Handles, Made, GetsAnswer, SameState, SameResults, CloseWaitsC
  <2>3. CASE Writes(c) BY <2>3 DEF Writes, SameResults, CloseWaitsC
  <2>4. CASE GetsBye(c) \/ Takes(c) \/ SaysBye(c) BY <2>4 DEF GetsBye, Takes, SaysBye
  <2>5. CASE KeepsOpen(c) BY <2>5 DEF KeepsOpen
  <2>6. CASE \E q \in Quests : Adds(c, q) BY <2>6 DEF Adds
  <2>7. ASSUME NEW id \in Nat, Drops(c, id), Unsends(c, id) PROVE FALSE
    <3>1. conn[c].st = ST_CLOSE BY <2>7 DEF Drops, SameState
    <3>2. ~(conn[c].st >= ST_CLOSED) /\ conn[c].st < ST_CLOSED BY <3>1
    <3>3. \E q \in Quests : <<c, q>> \in failing /\ <<c, q>> \notin failing' /\ id = txid[q]
      BY <2>7, <3>2 DEF Unsends
    <3> QED BY <1>0, <3>2, <3>3 DEF FailingQuest
  <2> QED BY <2>1, <2>2, <2>3, <2>4, <2>5, <2>6, <2>7 DEF Effect
<1> QED BY <1>1, <1>2, StepKinds

-----------------------------------------------------------------------------
(* The steps of RpcResult.                                                 *)
Sets(q) == \E v \in {"pick", "start", "send", "out"} : at' = [at EXCEPT ![q] = v]

LEMMA RpcClient ==
  ASSUME OwnerInv, ClientAction
  PROVE  /\ UNCHANGED executed
         /\ \/ \E q \in Quests, kind \in {"answer", "error"} : Give(q, kind)
            \/ UNCHANGED outcome /\ (UNCHANGED at \/ \E q \in Quests : Sets(q))
<1>1. ASSUME NEW q \in Quests,
             \/ PickExisting(q) \/ PickThrows(q) \/ StartTimer(q)
             \/ SendQuestClosed(q) \/ SendQuest(q) \/ SendQuestHuge(q)
      PROVE  UNCHANGED <<executed, outcome>> /\ Sets(q)
  BY <1>1 DEF PickExisting, PickThrows, StartTimer, SendQuestClosed, SendQuest, SendQuestHuge, srvVars, Sets
<1>2. ASSUME NEW q \in Quests, NEW c \in Conns,
             PickNew(q, c) \/ SendQuestCatch(c, q) \/ DisconnectResult(c, q)
      PROVE  UNCHANGED <<executed, outcome>> /\ (UNCHANGED at \/ Sets(q))
  BY <1>2 DEF PickNew, SendQuestCatch, DisconnectResult, srvVars, Sets
<1>3. ASSUME NEW q \in Quests, NEW kind \in {"answer", "error"}, Give(q, kind) PROVE UNCHANGED executed
  BY <1>3 DEF Give, srvVars
<1>4. ASSUME ConnAction PROVE UNCHANGED <<executed, outcome, at>>
  BY <1>4 DEF ConnAction, ReadAnswer, QuestSent, WriteAgain, DoWrite, RecvHello, RecvBye, RecvAnswer,
              RecvFails, Timeout, DoTimeout, DisconnectBegin, DisconnectTake, Close, CloseForce,
              srvVars, resVars
<1> QED BY <1>1, <1>2, <1>3, <1>4 DEF ClientAction, QuestAction

LEMMA RpcServer ==
  ASSUME OwnerInv, ServerAction
  PROVE  /\ UNCHANGED <<at, outcome>>
         /\ \/ UNCHANGED executed
            \/ \E c \in Conns : \E m \in sread[c] :
                 executed' = [executed EXCEPT ![c] = @ \cup {m.q}]
<1>1. PICK c \in Conns :
        \/ SAccept(c) \/ SHello(c) \/ SWrite(c) \/ SRecvQuest(c) \/ SClose(c) \/ Reset(c)
        \/ SRecvBye(c) \/ SRecvFails(c) \/ STimeout(c) \/ SCloseForce(c)
        \/ \E m \in sread[c] : SDispatch(c, m)
        \/ \E e \in executing[c] : SReply(c, e) \/ SReplyFails(c, e)
  BY DEF ServerAction
<1>2. UNCHANGED <<at, outcome>>
  BY <1>1 DEF SAccept, SHello, SWrite, SRecvQuest, SClose, Reset, SRecvBye, SRecvFails, STimeout,
              SCloseForce, SDispatch, SReply, SReplyFails, resVars
<1>3. ASSUME NEW m \in sread[c], SDispatch(c, m)
      PROVE  UNCHANGED executed \/ executed' = [executed EXCEPT ![c] = @ \cup {m.q}]
  BY <1>3 DEF SDispatch
<1>4. CASE ~\E m \in sread[c] : SDispatch(c, m)
  <2>1. UNCHANGED executed
    BY <1>1, <1>4 DEF SAccept, SHello, SWrite, SRecvQuest, SClose, Reset, SRecvBye, SRecvFails,
                      STimeout, SCloseForce, SReply, SReplyFails, srvVars
  <2> QED BY <1>2, <2>1
<1> QED BY <1>2, <1>3, <1>4

\* What RpcResult sees of the state.
Phase == [q \in Quests |-> IF at[q] = "new" THEN "new"
                           ELSE IF outcome[q] = "none" THEN "pending" ELSE outcome[q]]
Ran == UNION {executed[c] : c \in Conns}

LEMMA RpcStep ==
  ASSUME CoreInv, [Next]_vars
  PROVE  [Rpc!Next]_<<Phase, Ran>>
<1>0. OwnerInv /\ AnswersServed BY DEF CoreInv
<1> DEFINE EmitR(q) == Phase[q] = "new" /\ Phase' = [Phase EXCEPT ![q] = "pending"] /\ Ran' = Ran
           RunR(q) == Phase[q] # "new" /\ Ran' = Ran \cup {q} /\ Phase' = Phase
           CompleteR(q, kind) == /\ Phase[q] = "pending" /\ (kind = "answer" => q \in Ran)
                                 /\ Phase' = [Phase EXCEPT ![q] = kind] /\ Ran' = Ran
<1>1. ASSUME NEW q \in Quests, EmitR(q) PROVE Rpc!Next
  BY <1>1 DEF Rpc!Next, Rpc!Emit, Phase, Ran
<1>2. ASSUME NEW q \in Quests, RunR(q) PROVE Rpc!Next
  BY <1>2 DEF Rpc!Next, Rpc!Run, Phase, Ran
<1>3. ASSUME NEW q \in Quests, NEW kind \in {"answer", "error"}, CompleteR(q, kind) PROVE Rpc!Next
  BY <1>3 DEF Rpc!Next, Rpc!Complete, Phase, Ran
<1>4. ASSUME UNCHANGED executed PROVE Ran' = Ran BY <1>4 DEF Ran
<1>5. CASE UNCHANGED vars
  <2>1. UNCHANGED <<at, outcome, executed>> BY <1>5 DEF vars, resVars, srvVars
  <2> QED BY <1>4, <2>1 DEF Phase
<1>6. CASE ServerAction
  <2>1. UNCHANGED <<at, outcome>> BY <1>0, <1>6, RpcServer
  <2>2. Phase' = Phase BY <2>1 DEF Phase
  <2>3. CASE UNCHANGED executed BY <1>4, <2>2, <2>3
  <2>4. ASSUME NEW c \in Conns, NEW m \in sread[c], executed' = [executed EXCEPT ![c] = @ \cup {m.q}]
        PROVE  Rpc!Next
    <3>1. m.q \in Quests BY <1>0, TypesOf
    <3>2. Ran' = Ran \cup {m.q}
      <4>1. executed'[c] = executed[c] \cup {m.q} /\ \A d \in Conns \ {c} : executed'[d] = executed[d]
        BY <1>0, <2>4 DEF OwnerInv, TypeOK
      <4>2. ASSUME NEW x PROVE x \in Ran' <=> x \in Ran \cup {m.q}
        <5>1. x \in Ran' <=> \E d \in Conns : x \in executed'[d] BY DEF Ran
        <5>2. x \in Ran <=> \E d \in Conns : x \in executed[d] BY DEF Ran
        <5> QED BY <4>1, <5>1, <5>2
      <4> QED BY <4>2
    <3>3. Phase[m.q] # "new"
      <4>1. <<"read", None, m.id, m.q>> \in Trace(c) BY InTrace DEF ReadTrace
      <4>2. <<"read", None, m.id, m.q>>[3] = m.id /\ <<"read", None, m.id, m.q>>[4] = m.q OBVIOUS
      <4>3. <<m.id, m.q>> \in Seen(c) BY <4>1, <4>2 DEF Seen
      <4>4. <<m.id, m.q>>[2] = m.q OBVIOUS
      <4>5. at[m.q] # "new" BY <3>1, <4>3, <4>4 DEF CoreInv, NewNotSeen
      <4>6. outcome[m.q] \in {"none", "answer", "error"} BY <1>0, <3>1 DEF OwnerInv, TypeOK
      <4> QED BY <3>1, <4>5, <4>6 DEF Phase
    <3> QED BY <1>2, <2>2, <3>1, <3>2, <3>3
  <2> QED BY <1>0, <1>6, <2>3, <2>4, RpcServer
<1>7. CASE ClientAction
  <2>0. Ran' = Ran BY <1>0, <1>4, <1>7, RpcClient
  <2>1. ASSUME NEW q \in Quests, NEW kind \in {"answer", "error"}, Give(q, kind) PROVE Rpc!Next
    <3>1. /\ <<q, kind>> \in giving /\ UNCHANGED at /\ outcome' = [outcome EXCEPT ![q] = kind]
      BY <2>1 DEF Give
    <3>2. Given(q) BY <3>1 DEF Given
    <3>3. ~Done(q) /\ ~Sending(q) BY <1>0, <3>2 DEF OwnerInv, OneOwner, OwnedOnce
    <3>4. at[q] = "out" /\ outcome[q] = "none" BY <3>3 DEF Sending, Done
    <3>5. Phase[q] = "pending" BY <3>4 DEF Phase
    <3>6. kind = "answer" => q \in Ran BY <1>0, <3>1 DEF AnswersServed, Ran
    <3>7. Phase' = [Phase EXCEPT ![q] = kind] BY <1>0, <3>1, <3>4 DEF Phase, OwnerInv, TypeOK
    <3> QED BY <1>3, <2>0, <2>1, <3>5, <3>6, <3>7
  <2>2. ASSUME UNCHANGED <<outcome, at>> PROVE Phase' = Phase BY <2>2 DEF Phase
  <2>3. ASSUME UNCHANGED outcome, NEW q \in Quests, Sets(q) PROVE Rpc!Next \/ Phase' = Phase
    <3>1. at'[q] # "new" /\ \A x \in Quests \ {q} : at'[x] = at[x]
      BY <1>0, <2>3 DEF Sets, OwnerInv, TypeOK
    <3>2. CASE at[q] = "new"
      <4>1. outcome[q] = "none" BY <1>0, <3>2 DEF OwnerInv, OneOwner, OwnedOnce, Sending, Done
      <4>2. Phase[q] = "new" BY <3>2 DEF Phase
      <4>3. Phase' = [Phase EXCEPT ![q] = "pending"] BY <2>3, <3>1, <4>1 DEF Phase
      <4> QED BY <1>1, <2>0, <4>2, <4>3
    <3>3. CASE at[q] # "new"
      <4>1. \A x \in Quests : at'[x] = "new" <=> at[x] = "new" BY <3>1, <3>3
      <4> QED BY <2>3, <4>1 DEF Phase
    <3> QED BY <3>2, <3>3
  <2> QED BY <1>0, <1>7, <2>0, <2>1, <2>2, <2>3, RpcClient
<1> QED BY <1>5, <1>6, <1>7, NextActions

-----------------------------------------------------------------------------
-----------------------------------------------------------------------------
(* What _write_q finds for the quest it has written.                       *)
ResultKept(c) ==
  \A m \in QuestsIn(conn[c].wq) :
    <<m.id, m.q>> \in conn[c].map \/ (conn[c].st >= ST_CLOSED /\ HandlerFailed(m.q))
NullClosed(c) == \A w \in Writers : writing[c][w] = "null" => conn[c].st >= ST_CLOSED

\* Whoever finds no result from now on does so on a connection that is over.
NullOver ==
  \A c \in Conns, w \in Writers :
    writing'[c][w] = "null" => writing[c][w] = "null" \/ conn'[c].st >= ST_CLOSED

LEMMA NullSet ==
  ASSUME OwnerInv, NEW c \in Conns, NEW w \in Writers, NEW v,
         writing' = [writing EXCEPT ![c][w] = v], v = "null" => conn'[c].st >= ST_CLOSED
  PROVE  NullOver
<1>1. /\ \A d \in Conns, u \in Writers : d # c \/ u # w => writing'[d][u] = writing[d][u]
      /\ writing'[c][w] = v
  BY DEF OwnerInv, TypeOK
<1> QED BY <1>1 DEF NullOver

LEMMA WriteNull ==
  ASSUME OwnerInv, NEW c \in Conns, NEW w \in Writers, NEW k \in ConnSet, WriteOK(c, w, k),
         k.wq # <<>> /\ Head(k.wq).type = "Q" =>
           k.st >= ST_CLOSED \/ EntriesOf(k, Head(k.wq).id) # {}
  PROVE  NullOver
<1>1. conn'[c].st = k.st BY WriteFlow DEF OwnerInv
<1>2. PICK v : /\ writing' = [writing EXCEPT ![c][w] = v]
               /\ \/ v = None
                  \/ k.wq # <<>> /\ Head(k.wq).type = "Q" /\ v = findResult(k, Head(k.wq).id)
  BY DEF WriteOK
<1>3. ASSUME v = "null" PROVE k.st >= ST_CLOSED
  <2>1. k.wq # <<>> /\ Head(k.wq).type = "Q" /\ v = findResult(k, Head(k.wq).id)
    BY <1>2, <1>3, ConstantsAssumption
  <2>2. CASE EntriesOf(k, Head(k.wq).id) # {}
    <3>1. QuestsOf(EntriesOf(k, Head(k.wq).id)) # {} BY <2>2 DEF QuestsOf
    <3>2. QuestsOf(EntriesOf(k, Head(k.wq).id)) \subseteq Quests
      BY DEF QuestsOf, EntriesOf, ConnSet
    <3>3. findResult(k, Head(k.wq).id) \in Quests BY <2>2, <3>1, <3>2 DEF findResult
    <3> QED BY <1>3, <2>1, <3>3, ConstantsAssumption
  <2> QED BY <2>1, <2>2
<1> QED BY <1>1, <1>2, <1>3, NullSet

LEMMA WriteFailsNull ==
  ASSUME OwnerInv, NEW c \in Conns, NEW w \in Writers, NEW k, WriteFails(c, w, k) PROVE NullOver
<1>1. writing' = [writing EXCEPT ![c][w] = None] BY DEF WriteFails
<1> QED BY <1>1, NullSet, ConstantsAssumption

\* What _write_q writes first, of a queue as it is, ...
LEMMA QueueNull ==
  ASSUME OwnerInv, NEW c \in Conns, FlowAt(c), NEW w \in Writers, NEW k \in ConnSet,
         WriteOK(c, w, k), k.wq = conn[c].wq, k.map = conn[c].map,
         k.st < ST_CLOSED => conn[c].st < ST_CLOSED
  PROVE  NullOver
<1>1. ASSUME k.wq # <<>>, Head(k.wq).type = "Q", k.st < ST_CLOSED
      PROVE  EntriesOf(k, Head(k.wq).id) # {}
  <2>1. PICK m : m = Head(k.wq) OBVIOUS
  <2>2. m \in QuestsIn(conn[c].wq) BY <1>1, <2>1, TypesOf, InTail DEF QuestsIn
  <2>3. <<"queued", None, m.id, m.q>> \in Trace(c) BY <2>2, InTrace DEF QueuedTrace
  <2>4. <<"queued", None, m.id, m.q>>[3] = m.id /\ <<"queued", None, m.id, m.q>>[4] = m.q OBVIOUS
  <2>5. <<m.id, m.q>> \in Seen(c) BY <2>3, <2>4 DEF Seen
  <2>6. <<m.id, m.q>> \in k.map BY <1>1, <2>5 DEF FlowAt, SeenInMap
  <2>7. <<m.id, m.q>>[1] = m.id OBVIOUS
  <2> QED BY <2>1, <2>6, <2>7 DEF EntriesOf
<1>2. k.st < ST_CLOSED \/ k.st >= ST_CLOSED
  <2>1. k.st \in Int BY DEF ConnSet, ST_INIT, ST_ERROR
  <2> QED BY <2>1 DEF ST_CLOSED
<1> QED BY <1>1, <1>2, WriteNull

\* ... and of one that _send_qmsg has just added a message to.
LEMMA SendNull ==
  ASSUME OwnerInv, NEW c \in Conns, NEW w \in Writers, NEW k \in ConnSet, NEW m \in MsgSet,
         SendOK(c, w, k, m), m.type = "Q" => EntriesOf(k, m.id) # {}
  PROVE  NullOver
<1>1. CASE MustWrite(k) /\ WriteOK(c, w, Queued(k, m))
  <2>1. /\ Queued(k, m) \in ConnSet /\ Queued(k, m).map = k.map
        /\ Queued(k, m).wq = Append(k.wq, m) /\ k.wq = <<>>
    BY <1>1, RecordTypes, RecordFields DEF MustWrite
  <2>2. Head(Queued(k, m).wq) = m BY <2>1
  <2>3. m.type = "Q" => EntriesOf(Queued(k, m), m.id) # {} BY <2>1 DEF EntriesOf
  <2> QED BY <1>1, <2>1, <2>2, <2>3, WriteNull
<1>2. CASE UNCHANGED writing BY <1>2 DEF NullOver
<1> QED BY <1>1, <1>2 DEF SendOK

LEMMA NullSame == ASSUME UNCHANGED writing PROVE NullOver
BY DEF NullOver

LEMMA NullStep ==
  ASSUME OwnerInv, FlowInv, ClientAction PROVE NullOver
<1>0. \A c \in Conns : FlowAt(c) /\ conn[c] \in ConnSet BY TypesOf DEF FlowInv
<1>1. CASE QuestAction
  <2>1. ASSUME NEW q \in Quests, SendQuest(q) PROVE NullOver
    <3>1. PICK c \in Conns : c = con[q] BY <2>1 DEF OwnerInv, SendsOnConnection, SendQuest
    <3> DEFINE k == Added(conn[c], q)
               m == Msg("Q", conn[c].next, q)
    <3>2. SendOK(c, q, k, m) \/ SendFails(c, q, k, m) BY <2>1, <3>1 DEF SendQuest
    <3>3. k \in ConnSet /\ m \in MsgSet /\ q \in Writers
      BY <1>0, TypesOf, RecordTypes, MessageTypes DEF Writers
    <3>4. EntriesOf(k, m.id) # {}
      <4>1. <<conn[c].next, q>> \in k.map BY <1>0, AddedFields
      <4>2. <<conn[c].next, q>>[1] = m.id BY DEF Msg
      <4> QED BY <4>1, <4>2 DEF EntriesOf
    <3> HIDE DEF k, m
    <3> QED BY <3>2, <3>3, <3>4, SendNull, WriteFailsNull DEF SendFails
  <2>2. ASSUME NEW q \in Quests,
               \/ PickExisting(q) \/ PickThrows(q) \/ StartTimer(q)
               \/ SendQuestClosed(q) \/ SendQuestHuge(q)
        PROVE  NullOver
    BY <2>2, NullSame
    DEF PickExisting, PickThrows, StartTimer, SendQuestClosed, SendQuestHuge, thrVars
  <2>3. ASSUME NEW q \in Quests, NEW c \in Conns,
               PickNew(q, c) \/ SendQuestCatch(c, q) \/ DisconnectResult(c, q)
        PROVE  NullOver
    BY <2>3, NullSame DEF PickNew, SendQuestCatch, DisconnectResult, thrVars
  <2>4. ASSUME NEW q \in Quests, NEW kind \in {"answer", "error"}, Give(q, kind) PROVE NullOver
    BY <2>4, NullSame DEF Give, thrVars
  <2> QED BY <1>1, <2>1, <2>2, <2>3, <2>4 DEF QuestAction
<1>2. CASE ConnAction
  <2>1. ASSUME NEW r \in Readers, ReadAnswer(r) PROVE NullOver
    <3>1. PICK c \in Conns : c = reader[r][1]
      BY <2>1 DEF ReadAnswer, OwnerInv, TypeOK
    <3>2. reader[r] \in Conns \X [type : {"A"}, id : Nat, q : Quests]
      BY <2>1 DEF ReadAnswer, OwnerInv, TypeOK
    <3> DEFINE id == reader[r][2].id
               left == Dropped(conn[c], id)
               closing == [left EXCEPT !.st = ST_CLOSING, !.graceful = TRUE]
               armed == [closing EXCEPT !.rt = TRUE]
    <3>3. \/ UNCHANGED writing
          \/ SendOK(c, r, armed, Bye) \/ SendFails(c, r, closing, Bye)
      BY <2>1, <3>1 DEF ReadAnswer, Dropped
    <3>4. left \in ConnSet BY <1>0, <3>2, RecordTypes
    <3> HIDE DEF left
    <3>5. closing \in ConnSet BY <3>4, States DEF ConnSet
    <3>6. armed \in ConnSet BY <3>5 DEF ConnSet
    <3> HIDE DEF closing, armed
    <3>7. r \in Writers /\ Bye \in MsgSet /\ Bye.type # "Q"
      BY MessageTypes DEF Writers, Bye, Msg
    <3> QED BY <3>3, <3>5, <3>6, <3>7, NullSame, SendNull, WriteFailsNull DEF SendFails
  <2>2. ASSUME NEW c \in Conns, NEW w \in Writers, QuestSent(c, w) PROVE NullOver
    <3>1. writing' = [writing EXCEPT ![c][w] = "again"] BY <2>2 DEF QuestSent
    <3> QED BY <3>1, NullSet
  <2>3. ASSUME NEW c \in Conns, NEW w \in Writers, WriteAgain(c, w) PROVE NullOver
    BY <1>0, <2>3, QueueNull, WriteFailsNull DEF WriteAgain
  <2>4. ASSUME NEW c \in Conns, NEW r \in Readers, DoWrite(c, r) PROVE NullOver
    <3> DEFINE k == conn[c]
               k1 == IF k.st < ST_WAITING_HELLO
                     THEN [k EXCEPT !.st = ST_WAITING_HELLO, !.wt = FALSE] ELSE k
    <3>1. k1 \in ConnSet /\ k1.wq = k.wq /\ k1.map = k.map
      <4>1. CASE k.st < ST_WAITING_HELLO
        <5>1. k1 = [k EXCEPT !.st = ST_WAITING_HELLO, !.wt = FALSE] BY <4>1
        <5>2. /\ [k EXCEPT !.st = ST_WAITING_HELLO, !.wt = FALSE] \in ConnSet
              /\ [k EXCEPT !.st = ST_WAITING_HELLO, !.wt = FALSE].wq = k.wq
              /\ [k EXCEPT !.st = ST_WAITING_HELLO, !.wt = FALSE].map = k.map
          BY <1>0, States DEF ConnSet
        <5> QED BY <5>1, <5>2
      <4> QED BY <1>0, <4>1
    <3>2. conn[c].st < ST_CLOSED BY <2>4 DEF DoWrite
    <3>3. WriteOK(c, r, k1) \/ WriteFails(c, r, k1) BY <2>4 DEF DoWrite
    <3>4. r \in Writers BY DEF Writers
    <3> HIDE DEF k1
    <3> QED BY <1>0, <3>1, <3>2, <3>3, <3>4, QueueNull, WriteFailsNull
  <2>5. ASSUME NEW c \in Conns, NEW r \in Readers, RecvHello(c, r) PROVE NullOver
    <3> DEFINE k == conn[c]
               k1 == [k EXCEPT !.st = ST_ACTIVE, !.rt = IF k.map = {} THEN FALSE ELSE @]
    <3>1. k1 \in ConnSet /\ k1.wq = k.wq /\ k1.map = k.map
      <4>1. (IF k.map = {} THEN FALSE ELSE k.rt) \in BOOLEAN BY <1>0 DEF ConnSet
      <4> QED BY <1>0, <4>1, States DEF ConnSet
    <3>2. \/ UNCHANGED writing
          \/ k.st < ST_ACTIVE /\ (WriteOK(c, r, k1) \/ WriteFails(c, r, k1))
      BY <2>5 DEF RecvHello
    <3>3. k.st < ST_ACTIVE => conn[c].st < ST_CLOSED BY TypesOf DEF ST_ACTIVE, ST_CLOSED
    <3>4. r \in Writers BY DEF Writers
    <3> HIDE DEF k1
    <3> QED BY <1>0, <3>1, <3>2, <3>3, <3>4, NullSame, QueueNull, WriteFailsNull
  <2>6. ASSUME NEW c \in Conns, NEW r \in Readers, RecvBye(c, r) \/ RecvAnswer(c, r) \/ RecvFails(c, r)
        PROVE  NullOver
    BY <2>6, NullSame DEF RecvBye, RecvAnswer, RecvFails
  <2>7. ASSUME NEW c \in Conns,
               \/ Timeout(c) \/ DoTimeout(c) \/ DisconnectBegin(c) \/ DisconnectTake(c)
               \/ CloseForce(c)
        PROVE  NullOver
    BY <2>7, NullSame DEF Timeout, DoTimeout, DisconnectBegin, DisconnectTake, CloseForce
  <2>8. ASSUME NEW c \in Conns, Close(c) PROVE NullOver
    <3> DEFINE closing == [conn[c] EXCEPT !.st = ST_CLOSING, !.graceful = TRUE, !.rt = TRUE]
    <3>1. \/ UNCHANGED writing
          \/ SendOK(c, "grace", closing, Bye) \/ SendFails(c, "grace", closing, Bye)
      BY <2>8 DEF Close
    <3>2. closing \in ConnSet BY <1>0, States DEF ConnSet
    <3>3. "grace" \in Writers /\ Bye \in MsgSet /\ Bye.type # "Q"
      BY MessageTypes DEF Writers, Bye, Msg
    <3> HIDE DEF closing
    <3> QED BY <3>1, <3>2, <3>3, NullSame, SendNull, WriteFailsNull DEF SendFails
  <2> QED BY <1>2, <2>1, <2>2, <2>3, <2>4, <2>5, <2>6, <2>7, <2>8 DEF ConnAction
<1> QED BY <1>1, <1>2 DEF ClientAction

\* A result that the handler has failed stays failed.
FailedKept == \A q \in Quests : HandlerFailed(q) => HandlerFailed(q)'

LEMMA FailedGrow ==
  ASSUME giving \subseteq giving', UNCHANGED outcome PROVE FailedKept
BY DEF FailedKept, HandlerFailed

LEMMA FailedStep ==
  ASSUME OwnerInv, ClientAction PROVE FailedKept
<1>1. CASE \E q \in Quests, kind \in {"answer", "error"} : Give(q, kind)
  <2>1. PICK q \in Quests, kind \in {"answer", "error"} : Give(q, kind) BY <1>1
  <2>2. /\ <<q, kind>> \in giving /\ giving' = giving \ {<<q, kind>>}
        /\ outcome'[q] = kind /\ \A x \in Quests \ {q} : outcome'[x] = outcome[x]
    BY <2>1 DEF Give, OwnerInv, TypeOK
  <2>3. Given(q) BY <2>2 DEF Given
  <2>4. ~Done(q) /\ ~(<<q, "answer">> \in giving /\ <<q, "error">> \in giving)
    BY <2>3 DEF OwnerInv, OneOwner, OwnedOnce
  <2>5. HandlerFailed(q) => kind = "error" BY <2>2, <2>4 DEF HandlerFailed, Done
  <2> QED BY <2>2, <2>5 DEF FailedKept, HandlerFailed
<1>2. CASE QuestAction
  <2>1. ASSUME NEW q \in Quests,
               \/ PickExisting(q) \/ PickThrows(q) \/ StartTimer(q)
               \/ SendQuestClosed(q) \/ SendQuest(q) \/ SendQuestHuge(q)
        PROVE  giving \subseteq giving' /\ UNCHANGED outcome
    BY <2>1 DEF PickExisting, PickThrows, StartTimer, SendQuestClosed, SendQuest, SendQuestHuge
  <2>2. ASSUME NEW q \in Quests, NEW c \in Conns,
               PickNew(q, c) \/ SendQuestCatch(c, q) \/ DisconnectResult(c, q)
        PROVE  giving \subseteq giving' /\ UNCHANGED outcome
    BY <2>2 DEF PickNew, SendQuestCatch, DisconnectResult
  <2> QED BY <1>1, <1>2, <2>1, <2>2, FailedGrow DEF QuestAction
<1>3. CASE ConnAction
  <2>1. ASSUME NEW r \in Readers, ReadAnswer(r) PROVE giving \subseteq giving' /\ UNCHANGED outcome
    BY <2>1 DEF ReadAnswer
  <2>2. ASSUME NEW c \in Conns, NEW w \in Writers, QuestSent(c, w) \/ WriteAgain(c, w)
        PROVE  UNCHANGED <<giving, outcome>>
    BY <2>2 DEF QuestSent, WriteAgain, resVars
  <2>3. ASSUME NEW c \in Conns, NEW r \in Readers,
               \/ DoWrite(c, r) \/ RecvHello(c, r) \/ RecvBye(c, r)
               \/ RecvAnswer(c, r) \/ RecvFails(c, r)
        PROVE  UNCHANGED <<giving, outcome>>
    BY <2>3 DEF DoWrite, RecvHello, RecvBye, RecvAnswer, RecvFails, resVars
  <2>4. ASSUME NEW c \in Conns,
               \/ Timeout(c) \/ DoTimeout(c) \/ DisconnectBegin(c) \/ DisconnectTake(c)
               \/ Close(c) \/ CloseForce(c)
        PROVE  UNCHANGED <<giving, outcome>>
    BY <2>4 DEF Timeout, DoTimeout, DisconnectBegin, DisconnectTake, Close, CloseForce, resVars
  <2> QED BY <1>3, <2>1, <2>2, <2>3, <2>4, FailedGrow DEF ConnAction
<1> QED BY <1>2, <1>3 DEF ClientAction

\* Who takes a result out of the map: the handler, an answer, or disconnect(),
\* which empties the queue as well.
LEMMA EntryLost ==
  ASSUME NEW c \in Conns, Effect(c), NEW p \in conn[c].map, p \notin conn'[c].map
  PROVE  \/ <<p[2], "error">> \in giving'
         \/ conn'[c].wq = <<>>
         \/ \E r, u : <<"held", r, p[1], u>> \in Trace(c)
<1>1. CASE \/ Quiet(c) \/ Handles(c) \/ Made(c) \/ Writes(c) \/ GetsBye(c)
           \/ \E r \in Readers : GetsAnswer(c, r)
  BY <1>1 DEF Quiet, Handles, Made, Writes, GetsBye, GetsAnswer, SameResults
<1>2. CASE Takes(c) BY <1>2 DEF Takes
<1>3. CASE \E q \in Quests : Adds(c, q) BY <1>3 DEF Adds
<1>4. CASE SaysBye(c) /\ SameHeld(c) /\ conn[c].map = {} BY <1>4
<1>5. CASE \E id \in Nat : Drops(c, id) /\ Unsends(c, id)
  <2>1. PICK id \in Nat : Drops(c, id) /\ Unsends(c, id) BY <1>5
  <2>2. p \in EntriesOf(conn[c], id) BY <2>1 DEF Drops
  <2>3. p[2] \in QuestsOf(EntriesOf(conn[c], id)) BY <2>2 DEF QuestsOf
  <2> QED BY <2>1, <2>3 DEF Unsends, GivesErrors
<1>6. CASE \E r \in Readers, x \in Nat \X Quests :
             Reads(c, r, x) /\ GivesAnswer(c, x[1]) /\ (KeepsOpen(c) \/ SaysBye(c))
  <2>1. PICK r \in Readers, x \in Nat \X Quests : Reads(c, r, x) BY <1>6
  <2>2. p \in EntriesOf(conn[c], x[1]) BY <2>1 DEF Reads
  <2>3. p[1] = x[1] BY <2>2 DEF EntriesOf
  <2> QED BY <2>1, <2>3, InTrace DEF Reads
<1> QED BY <1>1, <1>2, <1>3, <1>4, <1>5, <1>6 DEF Effect

\* Who puts a quest into the queue: sendQuest, with its result in the map.
LEMMA QueueAfter ==
  ASSUME OwnerInv, NEW c \in Conns, Effect(c), NEW m \in QuestsIn(conn'[c].wq)
  PROVE  m \in QuestsIn(conn[c].wq) \/ <<m.id, m.q>> \in conn'[c].map
<1>0. conn[c].wq \in Seq(MsgSet) /\ conn[c].next \in Nat BY TypesOf
<1>1. ASSUME NEW z \in Seq(MsgSet), Written(c, z) PROVE m \in QuestsIn(z)
  BY <1>1, InTail DEF Written, QuestsIn
<1>2. CASE \/ Quiet(c) \/ Handles(c) \/ Made(c) \/ GetsBye(c)
           \/ (\E r \in Readers : GetsAnswer(c, r)) \/ (\E id \in Nat : Drops(c, id)) \/ KeepsOpen(c)
  BY <1>2 DEF Quiet, Handles, Made, GetsBye, GetsAnswer, Drops, KeepsOpen, SameQueue
<1>3. CASE Takes(c) BY <1>3, EmptyParts DEF Takes
<1>4. CASE Writes(c) BY <1>0, <1>1, <1>4 DEF Writes
<1>5. CASE SaysBye(c)
  <2>1. m \in QuestsIn(Append(conn[c].wq, Bye))
    BY <1>0, <1>1, <1>5, InAppend, MessageTypes DEF SaysBye
  <2>2. Bye.type # "Q" BY DEF Bye, Msg
  <2> QED BY <1>0, <2>1, <2>2, PartsOf, MessageTypes
<1>6. ASSUME NEW q \in Quests, Adds(c, q)
      PROVE  m \in QuestsIn(conn[c].wq) \/ <<m.id, m.q>> \in conn'[c].map
  <2> DEFINE x == Msg("Q", conn[c].next, q)
  <2>1. x \in MsgSet BY <1>0, MessageTypes
  <2>2. x.id = conn[c].next /\ x.q = q BY DEF Msg
  <2>3. <<x.id, x.q>> \in conn'[c].map BY <1>6, <2>2 DEF Adds
  <2>4. conn'[c].wq = conn[c].wq \/ Written(c, Append(conn[c].wq, x))
    BY <1>6 DEF Adds, SameQueue
  <2> HIDE DEF x
  <2>5. CASE conn'[c].wq = conn[c].wq BY <2>5
  <2>6. CASE Written(c, Append(conn[c].wq, x))
    <3>1. m \in QuestsIn(Append(conn[c].wq, x)) BY <1>0, <1>1, <2>1, <2>6, InAppend
    <3>2. m \in QuestsIn(conn[c].wq) \/ m = x BY <1>0, <2>1, <3>1, PartsOf
    <3> QED BY <2>3, <3>2
  <2> QED BY <2>4, <2>5, <2>6
<1> QED BY <1>2, <1>3, <1>4, <1>5, <1>6 DEF Effect

LEMMA ResultKeptClient ==
  ASSUME OwnerInv, OwnerInv', NEW c \in Conns, FlowAt(c), FlowAt(c)', Effect(c), FailedKept,
         ResultKept(c)
  PROVE  ResultKept(c)'
<1> SUFFICES ASSUME NEW m \in QuestsIn(conn'[c].wq), <<m.id, m.q>> \notin conn'[c].map
             PROVE  conn'[c].st >= ST_CLOSED /\ HandlerFailed(m.q)'
  BY DEF ResultKept
<1>1. m \in QuestsIn(conn[c].wq) BY QueueAfter
<1>2. m.q \in Quests /\ m.id \in Nat BY <1>1, TypesOf, PartsOf
<1>3. conn'[c].st >= ST_CLOSED
  <2>1. conn'[c] \in ConnSet BY DEF OwnerInv, TypeOK
  <2>2. conn'[c].st \in Int BY <2>1 DEF ConnSet, ST_INIT, ST_ERROR
  <2>3. ASSUME conn'[c].st < ST_CLOSED PROVE FALSE
    <3>1. <<"queued", None, m.id, m.q>> \in QueuedTrace(c)' BY DEF QueuedTrace
    <3>2. <<"queued", None, m.id, m.q>> \in Trace(c)' BY <3>1 DEF Trace
    <3>3. <<"queued", None, m.id, m.q>>[3] = m.id /\ <<"queued", None, m.id, m.q>>[4] = m.q OBVIOUS
    <3>4. <<m.id, m.q>> \in Seen(c)' BY <3>2, <3>3 DEF Seen
    <3> QED BY <2>3, <3>4 DEF FlowAt, SeenInMap
  <2> QED BY <2>2, <2>3 DEF ST_CLOSED
<1>4. CASE HandlerFailed(m.q) BY <1>2, <1>3, <1>4 DEF FailedKept
<1>5. CASE <<m.id, m.q>> \in conn[c].map
  <2>1. PICK p \in conn[c].map : p = <<m.id, m.q>> BY <1>5
  <2>2. p[1] = m.id /\ p[2] = m.q BY <2>1
  <2>3. \/ <<p[2], "error">> \in giving' \/ conn'[c].wq = <<>>
        \/ \E r, u : <<"held", r, p[1], u>> \in Trace(c)
    BY <2>1, EntryLost
  <2>4. conn'[c].wq # <<>> BY EmptyParts
  <2>5. ASSUME NEW r, NEW u, <<"held", r, p[1], u>> \in Trace(c) PROVE FALSE
    <3>1. <<"queued", None, m.id, m.q>> \in Trace(c) BY <1>1, InTrace DEF QueuedTrace
    <3>2. <<"queued", None, m.id, m.q>>[3] = <<"held", r, p[1], u>>[3] BY <2>2
    <3>3. <<"queued", None, m.id, m.q>> = <<"held", r, p[1], u>>
      BY <2>5, <3>1, <3>2 DEF FlowAt, OnePlace
    <3> QED BY <3>3
  <2> QED BY <1>3, <2>2, <2>3, <2>4, <2>5 DEF HandlerFailed
<1> QED BY <1>1, <1>4, <1>5 DEF ResultKept

(* What _write_q finds is part of the invariant from here on.              *)
FoundInv == CoreInv /\ \A c \in Conns : ResultKept(c) /\ NullClosed(c)
LEMMA FoundInvSteps == (Init => FoundInv) /\ (FoundInv /\ [Next]_vars => FoundInv')
<1>1. ASSUME Init PROVE FoundInv
  <2>1. ASSUME NEW c \in Conns PROVE ResultKept(c) /\ NullClosed(c)
    <3>1. conn[c].wq = <<>> BY <1>1 DEF Init, FreshConn
    <3>2. \A w \in Writers : writing[c][w] # "null" BY <1>1, ConstantsAssumption DEF Init
    <3> QED BY <3>1, <3>2, EmptyParts DEF ResultKept, NullClosed
  <2> QED BY <1>1, <2>1, CoreInit DEF FoundInv
<1>2. ASSUME FoundInv, [Next]_vars PROVE FoundInv'
  <2>0. CoreInv /\ OwnerInv /\ FlowInv BY <1>2 DEF FoundInv, CoreInv
  <2>1. CoreInv' BY <1>2, <2>0, CoreStep
  <2>2. OwnerInv' BY <2>1 DEF CoreInv
  <2>3. ASSUME NEW c \in Conns PROVE ResultKept(c)' /\ NullClosed(c)'
    <3>0. /\ FlowAt(c) /\ FlowAt(c)' /\ ResultKept(c) /\ NullClosed(c)
      BY <1>2, <2>0, <2>1 DEF FoundInv, CoreInv, FlowInv
    <3>1. CASE ByClient
      <4>1. Effect(c) /\ ClientAction BY <3>1 DEF ByClient
      <4>2. ResultKept(c)' BY <2>0, <2>2, <3>0, <4>1, FailedStep, ResultKeptClient
      <4>3. NullOver BY <2>0, <4>1, NullStep
      <4>4. ASSUME NEW w \in Writers, writing'[c][w] = "null" PROVE conn'[c].st >= ST_CLOSED
        <5>1. CASE writing[c][w] = "null"
          <6>1. conn[c].st >= ST_CLOSED /\ conn[c].st \in Int BY <2>0, <3>0, <5>1, TypesOf DEF NullClosed
          <6>2. ~(conn'[c].st < ST_CLOSED) BY <2>0, <4>1, <6>1, EffectState DEF ST_CLOSED
          <6>3. conn'[c] \in ConnSet BY <2>2 DEF OwnerInv, TypeOK
          <6>4. conn'[c].st \in Int BY <6>3 DEF ConnSet, ST_INIT, ST_ERROR
          <6> QED BY <6>2, <6>4 DEF ST_CLOSED
        <5> QED BY <4>3, <4>4, <5>1 DEF NullOver
      <4> QED BY <4>2, <4>4 DEF NullClosed
    <3>2. CASE ByServer
      <4>1. UNCHANGED <<conn, writing, giving, outcome>>
        BY <3>2 DEF ByServer, connVars, thrVars, resVars
      <4>2. NullClosed(c)' BY <3>0, <4>1 DEF NullClosed
      <4>3. ResultKept(c)' BY <3>0, <4>1 DEF ResultKept, HandlerFailed
      <4> QED BY <4>2, <4>3
    <3> QED BY <1>2, <2>0, <3>1, <3>2, StepKinds
  <2> QED BY <2>1, <2>3 DEF FoundInv
<1> QED BY <1>1, <1>2

(* Whatever the number of quests, connections and dispatcher threads, a    *)
(* quest in the write queue has its result in the map, unless the          *)
(* connection is in ST_CLOSED or ST_ERROR and the result was given an      *)
(* error; and _write_q finds no result, to call questSent() on, of a quest *)
(* it has written on such a connection only (PtEngineImp.cpp:1145-1154).   *)
THEOREM ConnQueuedHasResult == Spec => []QueuedHasResult
<1>1. FoundInv => QueuedHasResult
  BY DEF FoundInv, ResultKept, NullClosed, QueuedHasResult, QuestsIn
<1>2. Init => FoundInv BY FoundInvSteps
<1>3. FoundInv /\ [Next]_vars => FoundInv' BY FoundInvSteps
<1> QED BY <1>1, <1>2, <1>3, PTL DEF Spec

(* The result an answer is handed to is that of the quest it answers, and  *)
(* whoever is completed with an answer was run by a servant: txids are     *)
(* never used twice on a connection, and what is on its way under a txid   *)
(* is the quest that is in the map under it (handle_answer,                *)
(* PtEngineImp.cpp:1003-1047).                                             *)
THEOREM ConnAnswersOwnQuest == Spec => []AnswersOwnQuest
<1>1. CoreInv => AnswersOwnQuest
  <2> SUFFICES ASSUME CoreInv PROVE AnswersOwnQuest OBVIOUS
  <2>1. ASSUME NEW c \in Conns, NEW m \in Answers(c), NEW p \in conn[c].map, p[1] = m.id
        PROVE  p[2] = m.q
    <3>1. m \in AnswersIn(srv[c].wq) \cup AnswersIn(s2c[c]) BY DEF Answers, AnswersIn
    <3>2. PICK t \in Trace(c) : t[3] = m.id /\ t[4] = m.q
      <4>1. CASE m \in AnswersIn(srv[c].wq)
        <5>1. <<"answered", None, m.id, m.q>> \in Trace(c) BY <4>1, InTrace DEF AnsweredTrace
        <5> QED BY <5>1
      <4>2. CASE m \in AnswersIn(s2c[c])
        <5>1. <<"returned", None, m.id, m.q>> \in Trace(c) BY <4>2, InTrace DEF ReturnedTrace
        <5> QED BY <5>1
      <4> QED BY <3>1, <4>1, <4>2
    <3>3. <<m.id, m.q>> \in Seen(c) BY <3>2 DEF Seen
    <3>4. <<m.id, m.q>>[1] = p[1] BY <2>1
    <3>5. <<m.id, m.q>> = p BY <3>3, <3>4 DEF CoreInv, FlowInv, FlowAt, Matching
    <3>6. <<m.id, m.q>>[2] = m.q OBVIOUS
    <3> QED BY <3>5, <3>6
  <2>2. \A q \in Quests : outcome[q] = "answer" => \E c \in Conns : q \in executed[c]
    BY DEF CoreInv, AnswersServed
  <2> QED BY <2>1, <2>2 DEF AnswersOwnQuest
<1>2. Init => CoreInv BY CoreInit
<1>3. CoreInv /\ [Next]_vars => CoreInv' BY CoreStep
<1> QED BY <1>1, <1>2, <1>3, PTL DEF Spec

(* What the graceful closes add to the invariant.                          *)
ByeInv == CoreInv /\ \A c \in Conns : ByeAt(c)
LEMMA ByeInvSteps == (Init => ByeInv) /\ (ByeInv /\ [Next]_vars => ByeInv')
<1>1. Init => ByeInv BY CoreInit, ByeInit DEF ByeInv
<1>2. ASSUME ByeInv, [Next]_vars PROVE ByeInv'
  <2>1. CoreInv' BY <1>2, CoreStep DEF ByeInv
  <2>2. \A c \in Conns : ByeAt(c)' BY <1>2, ByeStep DEF ByeInv
  <2> QED BY <2>1, <2>2 DEF ByeInv
<1> QED BY <1>1, <1>2

(* doc/xic.rst:190-193 for every number of quests and connections: when    *)
(* the client's Bye is on the socket the server has nothing read, in       *)
(* process or unsent, and a server's Bye is queued only when no servant    *)
(* runs (_grace, do_read and replyAnswer, PtEngineImp.cpp).                *)
THEOREM ConnByeDrained == Spec => []ByeDrained
<1>1. ByeInv => ByeDrained
  <2> SUFFICES ASSUME ByeInv, NEW c \in Conns
               PROVE  /\ Bye \in InSeq(c2s[c]) /\ ~broken[c] /\ srv[c].fd =>
                           sread[c] = {} /\ executing[c] = {} /\ Answers(c) = {}
                      /\ Bye \in InSeq(srv[c].wq) \cup InSeq(s2c[c]) => executing[c] = {}
    BY DEF ByeDrained
  <2>1. ByeDrainedC(c) /\ ByeDrainedS(c) BY DEF ByeInv, ByeAt
  <2>2. Answers(c) = AnswersIn(srv[c].wq) \cup AnswersIn(s2c[c]) BY DEF Answers, AnswersIn
  <2> QED BY <2>1, <2>2 DEF ByeDrainedC, ByeDrainedS
<1>2. Init => ByeInv BY ByeInvSteps
<1>3. ByeInv /\ [Next]_vars => ByeInv' BY ByeInvSteps
<1> QED BY <1>1, <1>2, <1>3, PTL DEF Spec

(* Once the client's end was closed gracefully no servant starts on its    *)
(* connection, with any number of dispatcher threads: the server has read  *)
(* every quest before the Bye it gets, and discards what it reads once it  *)
(* has sent its own (do_read, case 'Q').                                   *)
THEOREM ConnNoExecutionAfterClose == Spec => NoExecutionAfterGracefulClose
<1>1. ByeInv /\ [Next]_vars =>
        [\A c \in Conns : conn[c].graceful /\ conn[c].st >= ST_CLOSED
                            => executed'[c] = executed[c]]_vars
  <2> SUFFICES ASSUME ByeInv, [Next]_vars, NEW c \in Conns, conn[c].graceful
               PROVE  executed'[c] = executed[c]
    OBVIOUS
  <2>0. OwnerInv /\ SrvShape(c) /\ Shut(c) /\ CoreInv BY DEF ByeInv, CoreInv, ServerAt, ByeAt
  <2>1. CASE ByClient BY <2>1, EffectServer DEF ByClient, SameServer
  <2>2. CASE ByServer
    <3>1. SEffect(c) BY <2>2 DEF ByServer
    <3> QED BY <2>0, <3>1, ShutServer, SExecuted
  <2> QED BY <2>0, <2>1, <2>2, StepKinds
<1>2. Init => ByeInv BY ByeInvSteps
<1>3. ByeInv /\ [Next]_vars => ByeInv' BY ByeInvSteps
<1> QED BY <1>1, <1>2, <1>3, PTL DEF Spec, NoExecutionAfterGracefulClose

(* What the retry after a graceful close needs of the invariant.           *)
RetryInv == ByeInv /\ \A c \in Conns : RunOrOver(c) /\ RetryAt(c)
LEMMA RetryInvSteps ==
  ASSUME OneReader PROVE (Init => RetryInv) /\ (RetryInv /\ [Next]_vars => RetryInv')
<1>1. ASSUME Init PROVE RetryInv
  <2>1. ByeInv BY <1>1, ByeInvSteps
  <2>2. ASSUME NEW c \in Conns PROVE RunOrOver(c) /\ RetryAt(c)
    <3>1. /\ executed[c] = {} /\ conn[c] = FreshConn /\ taken[c] = {} BY <1>1 DEF Init
    <3> QED BY <3>1 DEF RunOrOver, RetryAt, AnswerOnItsWay, TakenClosed, NotRunTwice
  <2> QED BY <2>1, <2>2 DEF RetryInv
<1>2. ASSUME RetryInv, [Next]_vars PROVE RetryInv'
  <2>1. ByeInv' BY <1>2, ByeInvSteps DEF RetryInv
  <2>2. ASSUME NEW c \in Conns PROVE RunOrOver(c)' /\ RetryAt(c)'
    <3>0. /\ CoreInv /\ OwnerInv /\ FlowAt(c) /\ SrvShape(c) /\ ByeDrainedS(c) /\ Shut(c)
          /\ RunOrOver(c) /\ RetryAt(c) /\ AnswerOnItsWay(c) /\ TakenClosed(c) /\ NotRunTwice(c)
      BY <1>2 DEF RetryInv, ByeInv, CoreInv, FlowInv, ServerAt, ByeAt, RetryAt
    <3>1. OwnerInv' /\ Results /\ (ByClient \/ ByServer) BY <1>2, <3>0, StepKinds
    <3>2. CASE ByClient
      <4>1. Effect(c) BY <3>2 DEF ByClient
      <4>2. RunOrOver(c)' BY <3>0, <3>1, <4>1, RunOrOverClient
      <4>3. AnswerOnItsWay(c)' BY <3>0, <4>1, OnItsWayClient
      <4>4. TakenClosed(c)' BY <3>0, <3>1, <4>1, TakenClosedClient
      <4>5. NotRunTwice(c)' BY <3>0, <4>1, NotRunTwiceClient
      <4> QED BY <4>2, <4>3, <4>4, <4>5 DEF RetryAt
    <3>3. CASE ByServer
      <4>1. SEffect(c) /\ UNCHANGED <<connVars, thrVars, resVars>> BY <3>3 DEF ByServer
      <4>2. RunOrOver(c)' BY <3>0, <4>1, RunOrOverServer
      <4>3. AnswerOnItsWay(c)' BY <3>0, <4>1, OnItsWayServer
      <4>4. TakenClosed(c)' BY <3>0, <4>1 DEF TakenClosed, connVars, thrVars
      <4>5. NotRunTwice(c)' BY <3>0, <4>1, NotRunTwiceServer
      <4> QED BY <4>2, <4>3, <4>4, <4>5 DEF RetryAt
    <3> QED BY <3>1, <3>2, <3>3
  <2> QED BY <2>1, <2>2 DEF RetryInv
<1> QED BY <1>1, <1>2

(* With one dispatcher thread, a quest that a graceful close gives back    *)
(* for retry (PtEngineImp.cpp:525) was not run on that connection: its     *)
(* answer would have come before the server's Bye and would have been      *)
(* handled.  With two threads one may hold an answer while the other reads *)
(* the Bye behind it (1011), so that the hypothesis is needed.             *)
THEOREM ConnGracefulRetrySafe ==
  ASSUME OneReader PROVE Spec => []GracefulRetrySafe
<1>1. RetryInv => GracefulRetrySafe BY DEF RetryInv, RetryAt, NotRunTwice, GracefulRetrySafe
<1>2. Init => RetryInv BY RetryInvSteps
<1>3. RetryInv /\ [Next]_vars => RetryInv' BY RetryInvSteps
<1> QED BY <1>1, <1>2, <1>3, PTL DEF Spec

(* As long as no quest is larger than xic_message_size, a connection that  *)
(* waits in ST_CLOSE waits for a result or for a servant.  The error       *)
(* handler of an oversize quest removes its result and sends no pending    *)
(* Bye (PtEngineImp.cpp:889), which is why the hypothesis is needed.       *)
THEOREM ConnCloseWaits ==
  ASSUME "huge" \notin Env PROVE Spec => []CloseWaitsForSomething
<1> DEFINE I == CoreInv /\ CloseWaitsC
<1>1. I => CloseWaitsForSomething
  BY DEF CoreInv, ServerAt, SrvCloseWaits, CloseWaitsC, CloseWaitsForSomething
<1>2. Init => I
  <2> SUFFICES ASSUME Init PROVE CoreInv /\ CloseWaitsC OBVIOUS
  <2>1. CloseWaitsC BY DEF Init, CloseWaitsC, FreshConn, ST_INIT, ST_CLOSE
  <2> QED BY <2>1, CoreInit
<1>3. I /\ [Next]_vars => I'
  <2> SUFFICES ASSUME CoreInv, CloseWaitsC, [Next]_vars PROVE CoreInv' /\ CloseWaitsC' OBVIOUS
  <2> QED BY CoreStep, CloseWaitsKept
<1> QED BY <1>1, <1>2, <1>3, PTL DEF Spec

(* With a message timeout the outstanding results of every connection are  *)
(* watched by an armed timer, a running one or a disconnect(), although    *)
(* the timer is armed for the first quest only and is removed, moved and   *)
(* armed again by others (PtEngineImp.cpp:838, 619, 1017, 1028, 479).      *)
THEOREM ConnOutstandingWatched == Spec => []OutstandingWatched
<1> DEFINE W == MsgTimeout => \A c \in Conns : Watched(c)
           I == CoreInv /\ W
<1>1. I => OutstandingWatched BY DEF OutstandingWatched, Watched
<1>2. Init => I
  <2> SUFFICES ASSUME Init PROVE CoreInv /\ W OBVIOUS
  <2>1. \A c \in Conns : Watched(c) BY DEF Init, Watched, FreshConn
  <2> QED BY <2>1, CoreInit
<1>3. I /\ [Next]_vars => I'
  <2> SUFFICES ASSUME CoreInv, W, [Next]_vars PROVE CoreInv' /\ W' OBVIOUS
  <2>1. CoreInv' BY CoreStep
  <2>2. ASSUME MsgTimeout PROVE \A c \in Conns : Watched(c)'
    <3>0. OwnerInv BY DEF CoreInv
    <3>1. CASE ClientAction BY <2>2, <3>0, <3>1, WatchQuest, WatchConn DEF ClientAction
    <3>2. CASE ByServer BY <2>2, <3>2 DEF ByServer, connVars, thrVars, Watched
    <3> QED BY <3>1, <3>2, StepKinds DEF ByClient
  <2> QED BY <2>1, <2>2
<1> QED BY <1>1, <1>2, <1>3, PTL DEF Spec

(* The engine implements RpcResult: a quest is emitted once, completed at  *)
(* most once, with an answer only after a servant began it, and its        *)
(* outcome is final, through connections, retries and closes               *)
(* (PtResult, PtEngineImp.cpp:140-223).                                    *)
THEOREM ConnKeepsRpcPromise == Spec => KeepsRpcPromise
<1>1. Init => Rpc!Init
  <2> SUFFICES ASSUME Init PROVE Rpc!Init OBVIOUS
  <2>1. \A q \in Quests : at[q] = "new" BY DEF Init
  <2>2. \A c \in Conns : executed[c] = {} BY DEF Init
  <2>3. Ran = {} BY <2>2 DEF Ran
  <2>4. Phase = [q \in Quests |-> "new"] BY <2>1 DEF Phase
  <2> QED BY <2>3, <2>4 DEF Rpc!Init, Phase, Ran
<1>2. CoreInv /\ [Next]_vars => [Rpc!Next]_<<Phase, Ran>> BY RpcStep
<1>3. Init => CoreInv BY CoreInit
<1>4. CoreInv /\ [Next]_vars => CoreInv' BY CoreStep
<1> QED BY <1>1, <1>2, <1>3, <1>4, PTL DEF Spec, KeepsRpcPromise, Rpc!Spec, Phase, Ran
=============================================================================
