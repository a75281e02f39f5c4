--------------------------- MODULE HandshakeProofs ---------------------------
(***************************************************************************)
(* The handshake, for any number of quests.  WrongPasswordUnserved: each   *)
(* stream carries only what its sender may say: a client's proof is made   *)
(* with its own secret, and Hello and the server's proof come from a       *)
(* server that has seen the right one.  TypeOK: no quest is counted twice  *)
(* (CountInv).  CiphersInStep: the nonces on the way go from what the      *)
(* reader has counted to what the writer has (Up and Down), and before     *)
(* anything that is encrypted the client sees the proof with which the     *)
(* server switches its cipher on.                                          *)
(***************************************************************************)
EXTENDS Handshake, FiniteSetTheorems, TLAPS

Checks == {"INIT", "S1", "S2", "S3", "S4", "FINISH"}
Keys == {"none", "good", "bad", "unknown"}
Fds == {"open", "stray", "closed"}
Ends ==
  [state : Int, ck : Checks, key : Keys, o : Nat, i : Nat, wq : Nat,
   results : Int, processing : Int, fd : Fds]
Cmds == {"", "AUTHENTICATE", "FORBIDDEN", "SRP6a1", "SRP6a2", "SRP6a3", "SRP6a4"}
Messages ==
  [type : {"C", "H", "B", "Q", "A"}, cmd : Cmds, data : Keys \cup {""}, key : Keys, n : Nat]

\* What a client sends: Check messages answer a server that has a shadow file.
ToServer ==
  {m \in Messages :
     /\ m.type \in {"C", "B", "Q"}
     /\ m.type = "C" => setup.shadow /\ m.data = setup.secret}

\* What a server sends.
ToClient ==
  {m \in Messages :
     /\ m.type \in {"C", "H", "B", "A"}
     /\ m.type = "C" => setup.shadow
     /\ m.type = "C" /\ m.cmd = "SRP6a4" => setup.secret = "good"
     /\ m.type = "H" => ~setup.shadow \/ setup.secret = "good"}

Types ==
  /\ setup \in Setups /\ cli \in Ends /\ srv \in Ends
  /\ c2s \in Seq(ToServer) /\ s2c \in Seq(ToClient) /\ served \in Nat

\* A client without the password gets nowhere, at either end.
Refused ==
  setup.shadow /\ setup.secret # "good" =>
    /\ served = 0 /\ srv.state # ST_ACTIVE
    /\ cli.state # ST_ACTIVE /\ cli.ck # "FINISH"

AuthInv == Types /\ Refused /\ (cli.ck # "INIT" => setup.shadow)

-----------------------------------------------------------------------------
\* The fields of an end of the connection.
LEMMA Fields ==
  ASSUME NEW e \in Ends
  PROVE  /\ e.state \in Int /\ e.ck \in Checks /\ e.key \in Keys /\ e.o \in Nat /\ e.i \in Nat
         /\ e.wq \in Nat /\ e.results \in Int /\ e.processing \in Int /\ e.fd \in Fds
BY DEF Ends

\* Messages without encryption.
LEMMA PlainMessages ==
  /\ \A t \in {"C", "H", "B", "Q", "A"} : Plain(t) \in Messages /\ Plain(t).type = t
  /\ Plain("B") \in ToServer /\ Plain("B") \in ToClient
BY DEF Plain, Messages, Keys, Cmds, ToServer, ToClient

LEMMA CheckMessages ==
  ASSUME NEW c \in Cmds, NEW d \in Keys \cup {""}
  PROVE  Check(c, d) \in Messages /\ Check(c, d).type = "C" /\ Check(c, d).cmd = c /\ Check(c, d).data = d
BY DEF Check, Messages, Keys

\* Check messages, by who may send them.
LEMMA CheckTo ==
  ASSUME setup.shadow, NEW c \in Cmds
  PROVE  /\ setup.secret \in Keys => Check(c, setup.secret) \in ToServer
         /\ c # "SRP6a4" => Check(c, "") \in ToClient
         /\ setup.secret = "good" => Check(c, "good") \in ToClient
<1>1. \A d \in Keys \cup {""} :
        Check(c, d) \in Messages /\ Check(c, d).type = "C" /\ Check(c, d).cmd = c /\ Check(c, d).data = d
  BY CheckMessages
<1>2. setup.secret \in Keys => Check(c, setup.secret) \in ToServer
  BY <1>1 DEF ToServer
<1>3. c # "SRP6a4" => Check(c, "") \in ToClient
  BY <1>1 DEF ToClient
<1>4. setup.secret = "good" => Check(c, "good") \in ToClient
  <2>1. "good" \in Keys
    BY DEF Keys
  <2> QED BY <1>1, <2>1 DEF ToClient
<1> QED BY <1>2, <1>3, <1>4

\* What a stream is after a message or two more.
LEMMA Sent ==
  ASSUME NEW S, NEW q \in Seq(S), NEW x \in S, NEW y \in S
  PROVE  Append(q, x) \in Seq(S) /\ q \o <<x, y>> \in Seq(S)
OBVIOUS

\* Quests and answers, encrypted or not.
LEMMA Written ==
  ASSUME NEW e \in Ends, NEW t \in {"Q", "A"}, NEW k \in Nat
  PROVE  Message(e, t, k) \in Messages /\ Message(e, t, k).type = t
<1>1. e.key \in Keys /\ e.o + k \in Nat
  BY Fields
<1>2. Plain(t) \in Messages /\ Plain(t).type = t
  BY PlainMessages
<1>3. [Plain(t) EXCEPT !.key = e.key, !.n = e.o + k] \in Messages
  BY <1>1, <1>2, ZenonT(30) DEF Messages
<1>4. [Plain(t) EXCEPT !.key = e.key, !.n = e.o + k].type = t
  BY <1>2 DEF Messages
<1>5. CASE Encrypted(t) /\ e.key # "none"
  BY <1>3, <1>4, <1>5 DEF Message
<1>6. CASE ~(Encrypted(t) /\ e.key # "none")
  BY <1>2, <1>6 DEF Message
<1> QED BY <1>5, <1>6

LEMMA WrittenTo ==
  ASSUME NEW e \in Ends, NEW k \in Nat
  PROVE  Message(e, "Q", k) \in ToServer /\ Message(e, "A", k) \in ToClient
BY Written DEF ToServer, ToClient

\* An end after it has written.
LEMMA AfterWrite ==
  ASSUME NEW e \in Ends, NEW t, NEW n \in Nat
  PROVE  /\ After(e, t, n) \in Ends
         /\ After(e, t, n).state = e.state /\ After(e, t, n).ck = e.ck
         /\ After(e, t, n).results = e.results /\ After(e, t, n).processing = e.processing
<1>1. e.o + n \in Nat
  BY Fields
<1>2. [e EXCEPT !.o = e.o + n] \in Ends
  BY <1>1, ZenonT(30) DEF Ends
<1>3. After(e, t, n) = e \/ After(e, t, n) = [e EXCEPT !.o = e.o + n]
  BY DEF After
<1> QED BY <1>2, <1>3 DEF Ends

\* A queue that is written at once.
LEMMA BurstWritten ==
  ASSUME NEW e \in Ends, NEW n \in Nat
  PROVE  Burst(e, "Q", n) \in Seq(ToServer)
<1>1. \A k \in 1..n : Message(e, "Q", k) \in ToServer
  BY WrittenTo
<1> QED BY <1>1 DEF Burst

\* set_exception(), the state a step assigns, and disconnect().
LEMMA StateSet ==
  ASSUME NEW e \in Ends, NEW x \in Int
  PROVE  /\ [e EXCEPT !.state = x] \in Ends /\ [e EXCEPT !.state = x].state = x
         /\ [e EXCEPT !.state = x].ck = e.ck
<1>1. [e EXCEPT !.state = x] \in Ends
  BY ZenonT(30) DEF Ends
<1> QED BY <1>1 DEF Ends

LEMMA EndFailed ==
  ASSUME NEW e \in Ends
  PROVE  Failed(e) \in Ends /\ Failed(e).state = ST_ERROR /\ Failed(e).ck = e.ck
BY StateSet DEF Failed, ST_ERROR

LEMMA EndGone ==
  ASSUME NEW e \in Ends
  PROVE  /\ Gone(e) \in Ends /\ Gone(e).ck = e.ck
         /\ Gone(e).state = IF e.state < ST_CLOSED THEN ST_CLOSED ELSE e.state
<1> DEFINE x == IF e.state < ST_CLOSED THEN ST_CLOSED ELSE e.state
<1>1. x \in Int /\ 0 \in Nat /\ 0 \in Int /\ "closed" \in Fds
  BY Fields DEF ST_CLOSED, Fds
<1>2. Gone(e) = [e EXCEPT !.fd = "closed", !.wq = 0, !.results = 0, !.state = x]
  BY DEF Gone
<1>3. Gone(e) \in Ends
  <2> HIDE DEF x
  <2> QED BY <1>1, <1>2, ZenonT(30) DEF Ends
<1> QED BY <1>2, <1>3 DEF Ends

LEMMA FailedGone ==
  ASSUME NEW e \in Ends
  PROVE  /\ Gone(Failed(e)) \in Ends /\ Gone(Failed(e)).ck = e.ck
         /\ Gone(Failed(e)).state = ST_ERROR
<1>1. Failed(e) \in Ends /\ Failed(e).state = ST_ERROR /\ Failed(e).ck = e.ck
  BY EndFailed
<1>2. \A f \in Ends : f.state = ST_ERROR => Gone(f) \in Ends /\ Gone(f).ck = f.ck /\ Gone(f).state = ST_ERROR
  BY EndGone DEF ST_CLOSED, ST_ERROR
<1> QED BY <1>1, <1>2

\* A message that has been decrypted.
LEMMA EndRead ==
  ASSUME NEW e \in Ends, NEW m
  PROVE  /\ Read(e, m) \in Ends /\ Read(e, m).ck = e.ck /\ Read(e, m).state = e.state
         /\ Read(e, m).results = e.results /\ Read(e, m).processing = e.processing
<1>1. e.i + 1 \in Nat
  BY Fields
<1>2. [e EXCEPT !.i = e.i + 1] \in Ends
  BY <1>1, ZenonT(30) DEF Ends
<1>3. Read(e, m) = e \/ Read(e, m) = [e EXCEPT !.i = e.i + 1]
  BY DEF Read
<1> QED BY <1>2, <1>3 DEF Ends

-----------------------------------------------------------------------------
(* The client. *)

\* What is to be shown of a step of the client.
LEMMA ClientKeeps ==
  ASSUME AuthInv, UNCHANGED <<setup, srv, served>>,
         cli' \in Ends, c2s' \in Seq(ToServer), s2c' \in Seq(ToClient),
         setup.shadow /\ setup.secret # "good" => cli'.state # ST_ACTIVE /\ cli'.ck # "FINISH",
         cli'.ck # "INIT" => setup.shadow
  PROVE  AuthInv'
<1>1. ToServer' = ToServer /\ ToClient' = ToClient
  BY DEF ToServer, ToClient
<1> QED BY <1>1 DEF AuthInv, Types, Refused

\* A failure of the client's end, in whatever step.
LEMMA ClientFails ==
  ASSUME AuthInv, CFails, UNCHANGED <<setup, srv, served>>, s2c' \in Seq(ToClient)
  PROVE  AuthInv'
<1>1. cli' \in Ends /\ cli'.state = ST_ERROR /\ cli'.ck = cli.ck
  BY FailedGone DEF CFails, AuthInv, Types
<1>2. c2s' \in Seq(ToServer)
  BY DEF CFails, AuthInv, Types
<1> QED BY <1>1, <1>2, ClientKeeps DEF AuthInv, Refused, ST_ACTIVE, ST_ERROR

\* do_write()
LEMMA ClientWrites ==
  ASSUME AuthInv, CWrite
  PROVE  AuthInv'
<1> DEFINE e == [cli EXCEPT !.state = IF @ < ST_WAITING_HELLO THEN ST_WAITING_HELLO ELSE @]
<1>0. cli \in Ends /\ c2s \in Seq(ToServer) /\ s2c \in Seq(ToClient)
  BY DEF AuthInv, Types
<1>1. UNCHANGED <<setup, srv, served, s2c>>
  BY DEF CWrite, clientOnly
<1>2. /\ e \in Ends /\ e.ck = cli.ck
      /\ e.state = IF cli.state < ST_WAITING_HELLO THEN ST_WAITING_HELLO ELSE cli.state
  <2> DEFINE x == IF cli.state < ST_WAITING_HELLO THEN ST_WAITING_HELLO ELSE cli.state
  <2>1. x \in Int
    BY <1>0, Fields DEF ST_WAITING_HELLO
  <2>2. e = [cli EXCEPT !.state = x]
    OBVIOUS
  <2> HIDE DEF x
  <2>3. [cli EXCEPT !.state = x] \in Ends /\ [cli EXCEPT !.state = x].state = x /\ [cli EXCEPT !.state = x].ck = cli.ck
    BY <1>0, <2>1, StateSet, Zenon
  <2>4. e \in Ends /\ e.state = x /\ e.ck = cli.ck
    BY <2>2, <2>3, Zenon
  <2> QED BY <2>4 DEF x
<1>3. e.wq \in Nat /\ 0 \in Nat
  BY <1>2, Fields, Zenon
<1>4. CASE cli' = e /\ c2s' = c2s
  BY <1>0, <1>1, <1>2, <1>4, ClientKeeps DEF AuthInv, Refused, ST_ACTIVE, ST_WAITING_HELLO
<1>5. CASE cli' = [After(e, "Q", e.wq) EXCEPT !.wq = 0] /\ c2s' = c2s \o Burst(e, "Q", e.wq)
  <2> HIDE DEF e
  <2>1. Burst(e, "Q", e.wq) \in Seq(ToServer)
    BY <1>2, <1>3, BurstWritten
  <2>2. /\ After(e, "Q", e.wq) \in Ends
        /\ After(e, "Q", e.wq).state = e.state /\ After(e, "Q", e.wq).ck = e.ck
    BY <1>2, <1>3, AfterWrite
  <2>3. cli' \in Ends
    BY <1>3, <1>5, <2>2, ZenonT(30) DEF Ends
  <2>4. cli'.state = e.state /\ cli'.ck = e.ck
    BY <1>5, <2>2 DEF Ends
  <2>5. c2s' \in Seq(ToServer)
    BY <1>0, <1>5, <2>1
  <2> QED BY <1>0, <1>1, <1>2, <2>3, <2>4, <2>5, ClientKeeps
          DEF AuthInv, Refused, ST_ACTIVE, ST_WAITING_HELLO
<1> QED BY <1>4, <1>5 DEF CWrite

\* sendQuest()
LEMMA ClientQuests ==
  ASSUME AuthInv, CQuest
  PROVE  AuthInv'
<1>0. cli \in Ends /\ c2s \in Seq(ToServer) /\ s2c \in Seq(ToClient)
  BY DEF AuthInv, Types
<1>1. UNCHANGED <<setup, srv, served, s2c>>
  BY DEF CQuest, clientOnly
<1>2. cli.wq + 1 \in Nat /\ cli.results + 1 \in Int
  BY <1>0, Fields
<1>3. CASE cli' = [cli EXCEPT !.wq = cli.wq + 1, !.results = cli.results + 1] /\ c2s' = c2s
  <2>1. cli' \in Ends
    BY <1>0, <1>2, <1>3, ZenonT(30) DEF Ends
  <2>2. cli'.state = cli.state /\ cli'.ck = cli.ck
    BY <1>0, <1>3 DEF Ends
  <2> QED BY <1>0, <1>1, <1>3, <2>1, <2>2, ClientKeeps DEF AuthInv, Refused
<1>4. CASE /\ cli' = [After(cli, "Q", 1) EXCEPT !.results = After(cli, "Q", 1).results + 1]
           /\ c2s' = Append(c2s, Message(cli, "Q", 1))
  <2>1. /\ After(cli, "Q", 1) \in Ends /\ After(cli, "Q", 1).state = cli.state
        /\ After(cli, "Q", 1).ck = cli.ck /\ After(cli, "Q", 1).results = cli.results
    BY <1>0, AfterWrite
  <2>2. After(cli, "Q", 1).results + 1 \in Int
    BY <1>2, <2>1
  <2>3. cli' \in Ends
    BY <1>4, <2>1, <2>2, ZenonT(30) DEF Ends
  <2>4. cli'.state = cli.state /\ cli'.ck = cli.ck
    BY <1>4, <2>1 DEF Ends
  <2>5. c2s' \in Seq(ToServer)
    BY <1>0, <1>4, WrittenTo
  <2> QED BY <1>0, <1>1, <2>3, <2>4, <2>5, ClientKeeps DEF AuthInv, Refused
<1> QED BY <1>3, <1>4 DEF CQuest

\* close(false)
LEMMA ClientCloses ==
  ASSUME AuthInv, CClose
  PROVE  AuthInv'
<1>0. cli \in Ends /\ c2s \in Seq(ToServer) /\ s2c \in Seq(ToClient)
  BY DEF AuthInv, Types
<1>1. UNCHANGED <<setup, srv, served, s2c>>
  BY DEF CClose, clientOnly
<1>2. PICK x \in {ST_CLOSE, ST_CLOSING} : cli' = [cli EXCEPT !.state = x]
  BY DEF CClose
<1>3. cli' \in Ends /\ cli'.state = x /\ cli'.ck = cli.ck /\ x # ST_ACTIVE
  <2>1. x \in Int /\ x # ST_ACTIVE
    BY DEF ST_CLOSE, ST_CLOSING, ST_ACTIVE
  <2> QED BY <1>0, <1>2, <2>1, StateSet, Zenon
<1>4. c2s' \in Seq(ToServer)
  BY <1>0, PlainMessages DEF CClose
<1> QED BY <1>0, <1>1, <1>3, <1>4, ClientKeeps DEF AuthInv, Refused

\* The end of the stream.
LEMMA ClientEnds ==
  ASSUME AuthInv, CEnd
  PROVE  AuthInv'
BY ClientFails DEF CEnd, clientOnly, AuthInv, Types

\* handle_check() of the client.
LEMMA ClientChecks ==
  ASSUME AuthInv, NEW msg \in ToClient, msg.type = "C", CCheck(msg),
         UNCHANGED <<setup, srv, served>>, s2c' \in Seq(ToClient)
  PROVE  AuthInv'
<1>0. cli \in Ends /\ c2s \in Seq(ToServer) /\ setup.secret \in Keys
  BY DEF AuthInv, Types, Setups, Keys
<1>1. setup.shadow /\ (msg.cmd = "SRP6a4" => setup.secret = "good")
  BY DEF ToClient
<1>2. Check("SRP6a1", setup.secret) \in ToServer /\ Check("SRP6a3", setup.secret) \in ToServer
  BY <1>0, <1>1, CheckTo DEF Cmds
<1>3. CASE CFails
  BY <1>3, ClientFails
<1>4. CASE \E x \in {"S2", "S4"} : cli' = [cli EXCEPT !.ck = x] /\ c2s' \in Seq(ToServer)
  <2>1. PICK x \in {"S2", "S4"} : cli' = [cli EXCEPT !.ck = x]
    BY <1>4
  <2>2. x \in Checks /\ x # "FINISH"
    BY DEF Checks
  <2>3. cli' \in Ends
    BY <1>0, <2>1, <2>2, ZenonT(30) DEF Ends
  <2>4. cli'.state = cli.state /\ cli'.ck = x
    BY <1>0, <2>1 DEF Ends
  <2> QED BY <1>1, <1>4, <2>2, <2>3, <2>4, ClientKeeps DEF AuthInv, Refused
<1>5. CASE /\ msg.cmd = "SRP6a4" /\ c2s' = c2s
           /\ cli' = [cli EXCEPT !.ck = "FINISH", !.key = IF setup.cipher THEN setup.secret ELSE cli.key]
  <2> DEFINE k == IF setup.cipher THEN setup.secret ELSE cli.key
  <2>1. k \in Keys /\ "FINISH" \in Checks
    BY <1>0, Fields DEF Checks
  <2>2. cli' = [cli EXCEPT !.ck = "FINISH", !.key = k]
    BY <1>5
  <2> HIDE DEF k
  <2>3. cli' \in Ends
    BY <1>0, <2>1, <2>2, ZenonT(30) DEF Ends
  <2> QED BY <1>0, <1>1, <1>5, <2>3, ClientKeeps
<1>6. CASE \/ cli' = [cli EXCEPT !.ck = "S2"] /\ c2s' = Append(c2s, Check("SRP6a1", setup.secret))
           \/ cli' = [cli EXCEPT !.ck = "S4"] /\ c2s' = Append(c2s, Check("SRP6a3", setup.secret))
  <2>1. c2s' \in Seq(ToServer)
    <3>1. /\ Append(c2s, Check("SRP6a1", setup.secret)) \in Seq(ToServer)
          /\ Append(c2s, Check("SRP6a3", setup.secret)) \in Seq(ToServer)
      BY <1>0, <1>2, Sent
    <3> QED BY <1>6, <3>1, Zenon
  <2> QED BY <1>4, <1>6, <2>1
<1> QED BY <1>3, <1>5, <1>6 DEF CCheck

\* recv_msg() and do_read() of the client.
LEMMA ClientReads ==
  ASSUME AuthInv, CRecv
  PROVE  AuthInv'
<1> DEFINE msg == Head(s2c)
<1>0. cli \in Ends /\ c2s \in Seq(ToServer) /\ s2c \in Seq(ToClient)
  BY DEF AuthInv, Types
<1>1. UNCHANGED <<setup, srv, served>>
  BY DEF CRecv, clientOnly
<1>2. msg \in ToClient /\ s2c' \in Seq(ToClient)
  BY <1>0 DEF CRecv
<1>3. msg.type \in {"C", "H", "B", "A"}
  BY <1>2 DEF ToClient
<1> HIDE DEF msg
<1>4. CASE CFails
  BY <1>1, <1>2, <1>4, ClientFails
<1>5. CASE msg.type = "H" /\ ~CFails
  <2>1. ~setup.shadow \/ setup.secret = "good"
    BY <1>2, <1>5 DEF ToClient
  <2>2. CASE /\ cli' = [After(cli, "Q", cli.wq) EXCEPT !.state = ST_ACTIVE, !.wq = 0]
             /\ c2s' = c2s \o Burst(cli, "Q", cli.wq)
    <3>1. cli.wq \in Nat /\ 0 \in Nat /\ ST_ACTIVE \in Int
      BY <1>0, Fields DEF ST_ACTIVE
    <3>2. Burst(cli, "Q", cli.wq) \in Seq(ToServer)
      BY <1>0, <3>1, BurstWritten
    <3>3. After(cli, "Q", cli.wq) \in Ends /\ After(cli, "Q", cli.wq).ck = cli.ck
      BY <1>0, <3>1, AfterWrite
    <3>4. cli' \in Ends
      BY <2>2, <3>1, <3>3, ZenonT(30) DEF Ends
    <3>5. cli'.ck = cli.ck
      BY <2>2, <3>3 DEF Ends
    <3>6. c2s' \in Seq(ToServer)
      BY <1>0, <2>2, <3>2
    <3> QED BY <1>1, <1>2, <2>1, <3>4, <3>5, <3>6, ClientKeeps DEF AuthInv
  <2>3. CASE UNCHANGED <<cli, c2s>>
    BY <1>0, <1>1, <1>2, <2>3, ClientKeeps DEF AuthInv, Refused
  <2> QED BY <1>5, <2>2, <2>3 DEF CRecv, msg
<1>6. CASE msg.type = "B" /\ ~CFails
  <2>1. cli' = Gone([cli EXCEPT !.state = ST_CLOSED]) /\ c2s' = c2s
    BY <1>6 DEF CRecv, msg
  <2>2. PICK e \in Ends : e = [cli EXCEPT !.state = ST_CLOSED] /\ e.state = ST_CLOSED /\ e.ck = cli.ck
    <3>1. ST_CLOSED \in Int
      BY DEF ST_CLOSED
    <3> QED BY <1>0, <3>1, StateSet, Zenon
  <2>3. cli' \in Ends /\ cli'.state = ST_CLOSED /\ cli'.ck = cli.ck
    BY <2>1, <2>2, EndGone
  <2> QED BY <1>0, <1>1, <1>2, <2>1, <2>3, ClientKeeps DEF AuthInv, Refused, ST_ACTIVE, ST_CLOSED
<1>7. CASE msg.type = "C" /\ ~CFails
  <2>1. CCheck(msg)
    BY <1>7 DEF CRecv, msg
  <2> QED BY <1>1, <1>2, <1>7, <2>1, ClientChecks
<1>8. CASE msg.type = "A" /\ ~CFails
  <2>1. PICK e \in Ends : e = Read(cli, msg) /\ e.state = cli.state /\ e.ck = cli.ck
    BY <1>0, EndRead
  <2>2. \/ /\ cli' = [e EXCEPT !.results = 0, !.state = ST_CLOSING]
           /\ c2s' = Append(c2s, Plain("B"))
        \/ cli' = [e EXCEPT !.results = e.results - 1] /\ c2s' = c2s
    BY <1>8, <2>1 DEF CRecv, msg
  <2>3. e.results - 1 \in Int /\ 0 \in Int /\ ST_CLOSING \in Int
    BY Fields DEF ST_CLOSING
  <2>4. cli' \in Ends
    <3>1. [e EXCEPT !.results = 0, !.state = ST_CLOSING] \in Ends
      BY <2>3, ZenonT(30) DEF Ends
    <3>2. [e EXCEPT !.results = e.results - 1] \in Ends
      BY <2>3, ZenonT(30) DEF Ends
    <3> QED BY <2>2, <3>1, <3>2, Zenon
  <2>5. cli'.state \in {cli.state, ST_CLOSING} /\ cli'.ck = cli.ck
    BY <2>1, <2>2 DEF Ends
  <2>6. c2s' \in Seq(ToServer)
    BY <1>0, <2>2, PlainMessages
  <2> QED BY <1>1, <1>2, <2>4, <2>5, <2>6, ClientKeeps DEF AuthInv, Refused, ST_ACTIVE, ST_CLOSING
<1> QED BY <1>3, <1>4, <1>5, <1>6, <1>7, <1>8

-----------------------------------------------------------------------------
(* The server. *)

\* What is to be shown of a step of the server.
LEMMA ServerKeeps ==
  ASSUME AuthInv, UNCHANGED <<setup, cli>>,
         srv' \in Ends, c2s' \in Seq(ToServer), s2c' \in Seq(ToClient), served' \in Nat,
         setup.shadow /\ setup.secret # "good" => served' = 0 /\ srv'.state # ST_ACTIVE
  PROVE  AuthInv'
<1>1. ToServer' = ToServer /\ ToClient' = ToClient
  BY DEF ToServer, ToClient
<1> QED BY <1>1 DEF AuthInv, Types, Refused

\* start() of the server's end.
LEMMA ServerStarts ==
  ASSUME AuthInv, SStart
  PROVE  AuthInv'
<1>0. srv \in Ends /\ c2s \in Seq(ToServer) /\ s2c \in Seq(ToClient) /\ served \in Nat
  BY DEF AuthInv, Types
<1>1. UNCHANGED <<setup, cli, c2s, served>>
  BY DEF SStart, serverOnly
<1>2. ST_ACTIVE \in Int /\ ST_ERROR \in Int /\ ST_ERROR # ST_ACTIVE /\ {"S1", "FINISH"} \subseteq Checks
  BY DEF ST_ACTIVE, ST_ERROR, Checks
<1>3. CASE StartSends /\ setup.shadow
  <2>1. Check("AUTHENTICATE", "") \in ToClient
    BY <1>3, CheckTo DEF Cmds
  <2>2. srv' = [srv EXCEPT !.ck = "S1"] /\ s2c' = Append(s2c, Check("AUTHENTICATE", ""))
    BY <1>3 DEF StartSends
  <2>3. srv' \in Ends
    BY <1>0, <1>2, <2>2, ZenonT(30) DEF Ends
  <2>4. srv'.state = srv.state
    BY <1>0, <2>2 DEF Ends
  <2>5. s2c' \in Seq(ToClient)
    BY <1>0, <2>1, <2>2, Sent
  <2> QED BY <1>0, <1>1, <2>3, <2>4, <2>5, ServerKeeps DEF AuthInv, Refused
<1>4. CASE StartSends /\ ~setup.shadow
  <2>1. Plain("H") \in ToClient
    BY <1>4, PlainMessages DEF ToClient
  <2>2. srv' = [srv EXCEPT !.ck = "FINISH", !.state = ST_ACTIVE] /\ s2c' = Append(s2c, Plain("H"))
    BY <1>4 DEF StartSends
  <2>3. srv' \in Ends
    BY <1>0, <1>2, <2>2, ZenonT(30) DEF Ends
  <2> QED BY <1>0, <1>1, <1>4, <2>1, <2>2, <2>3, ServerKeeps
<1>5. CASE StartThrows
  <2>1. PICK c \in {"S1", "FINISH"}, f \in Fds, x \in {srv.state, ST_ERROR} :
          srv' = [srv EXCEPT !.ck = c, !.state = x, !.fd = f]
    <3>1. CASE setup.shadow /\ srv.fd = "closed"
      <4>1. srv' = [srv EXCEPT !.ck = "S1", !.state = srv.state, !.fd = srv.fd]
        BY <1>0, <1>5, <3>1 DEF StartThrows, Ends
      <4> QED BY <1>0, <4>1, Fields
    <3>2. CASE ~(setup.shadow /\ srv.fd = "closed")
      <4>1. srv' = [srv EXCEPT !.ck = IF setup.shadow THEN "S1" ELSE "FINISH", !.state = ST_ERROR,
                               !.fd = IF srv.fd = "open" THEN "stray" ELSE srv.fd]
        BY <1>5, <3>2 DEF StartThrows
      <4>2. (IF srv.fd = "open" THEN "stray" ELSE srv.fd) \in Fds
        BY <1>0, Fields DEF Fds
      <4> QED BY <4>1, <4>2
    <3> QED BY <3>1, <3>2
  <2>2. c \in Checks /\ x \in Int
    BY <1>0, <1>2, Fields
  <2>3. srv' \in Ends
    BY <1>0, <2>1, <2>2, ZenonT(30) DEF Ends
  <2>4. srv'.state = x
    BY <1>0, <2>1 DEF Ends
  <2>5. s2c' = s2c
    BY <1>5 DEF StartThrows
  <2> QED BY <1>0, <1>1, <1>2, <2>3, <2>4, <2>5, ServerKeeps DEF AuthInv, Refused
<1> QED BY <1>3, <1>4, <1>5 DEF SStart

\* A failure of the server's end, in whatever step.
LEMMA ServerFails ==
  ASSUME AuthInv, SFails, UNCHANGED <<setup, cli, served>>, c2s' \in Seq(ToServer)
  PROVE  AuthInv'
<1>1. srv' \in Ends /\ srv'.state = ST_ERROR /\ s2c' = s2c
  BY FailedGone DEF SFails, AuthInv, Types
<1> QED BY <1>1, ServerKeeps DEF AuthInv, Types, Refused, ST_ACTIVE, ST_ERROR

\* handle_check() of the server, and its failures.
LEMMA ServerChecks ==
  ASSUME AuthInv, NEW msg \in ToServer, msg.type = "C", SCheck(msg) \/ SCheckUnsent,
         UNCHANGED <<setup, cli, served>>, c2s' \in Seq(ToServer)
  PROVE  AuthInv'
<1>0. srv \in Ends /\ s2c \in Seq(ToClient) /\ served \in Nat
  BY DEF AuthInv, Types
<1>1. setup.shadow /\ msg.data = setup.secret
  BY DEF ToServer
<1>2. Failed(srv) \in Ends /\ Failed(srv).state # ST_ACTIVE
  BY <1>0, EndFailed DEF ST_ACTIVE, ST_ERROR
<1>3. CASE SForbidden
  <2>1. Check("FORBIDDEN", "") \in ToClient
    BY <1>1, CheckTo DEF Cmds
  <2>2. srv' = Failed(srv) /\ s2c' \in Seq(ToClient)
    BY <1>0, <1>3, <2>1, Sent DEF SForbidden
  <2> QED BY <1>0, <1>2, <2>2, ServerKeeps DEF AuthInv, Refused
<1>4. CASE SCheckUnsent
  <2>1. srv' = Failed(srv) /\ s2c' = s2c
    BY <1>4 DEF SCheckUnsent
  <2> QED BY <1>0, <1>2, <2>1, ServerKeeps DEF AuthInv, Refused
<1>5. CASE srv' = [srv EXCEPT !.ck = "S3"] /\ s2c' = Append(s2c, Check("SRP6a2", ""))
  <2>1. Check("SRP6a2", "") \in ToClient /\ "S3" \in Checks
    BY <1>1, CheckTo DEF Cmds, Checks
  <2>2. srv' \in Ends
    BY <1>0, <1>5, <2>1, ZenonT(30) DEF Ends
  <2>3. srv'.state = srv.state
    BY <1>0, <1>5 DEF Ends
  <2>4. s2c' \in Seq(ToClient)
    BY <1>0, <1>5, <2>1, Sent
  <2> QED BY <1>0, <2>2, <2>3, <2>4, ServerKeeps DEF AuthInv, Refused
<1>6. CASE /\ msg.data = "good" /\ s2c' = s2c \o <<Check("SRP6a4", "good"), Plain("H")>>
           /\ srv' = [srv EXCEPT !.ck = "FINISH", !.state = ST_ACTIVE,
                                 !.key = IF setup.cipher THEN "good" ELSE srv.key]
  <2> DEFINE k == IF setup.cipher THEN "good" ELSE srv.key
  <2>1. Check("SRP6a4", "good") \in ToClient /\ Plain("H") \in ToClient
    <3>1. Check("SRP6a4", "good") \in ToClient
      BY <1>1, <1>6, CheckTo DEF Cmds
    <3>2. Plain("H") \in ToClient
      BY <1>1, <1>6, PlainMessages DEF ToClient
    <3> QED BY <3>1, <3>2
  <2>2. k \in Keys /\ "FINISH" \in Checks /\ ST_ACTIVE \in Int
    BY <1>0, Fields DEF Keys, Checks, ST_ACTIVE
  <2>3. srv' = [srv EXCEPT !.ck = "FINISH", !.state = ST_ACTIVE, !.key = k]
    BY <1>6
  <2> HIDE DEF k
  <2>4. srv' \in Ends
    BY <1>0, <2>2, <2>3, ZenonT(30) DEF Ends
  <2>5. s2c' \in Seq(ToClient)
    BY <1>0, <1>6, <2>1, Sent
  <2> QED BY <1>0, <1>1, <1>6, <2>4, <2>5, ServerKeeps
<1> QED BY <1>3, <1>4, <1>5, <1>6 DEF SCheck

\* recv_msg() and do_read() of the server.
LEMMA ServerReads ==
  ASSUME AuthInv, SRecv
  PROVE  AuthInv'
<1> DEFINE msg == Head(c2s)
<1>0. srv \in Ends /\ c2s \in Seq(ToServer) /\ s2c \in Seq(ToClient) /\ served \in Nat
  BY DEF AuthInv, Types
<1>1. UNCHANGED <<setup, cli>>
  BY DEF SRecv, serverOnly
<1>2. msg \in ToServer /\ c2s' \in Seq(ToServer)
  BY <1>0 DEF SRecv
<1>3. msg.type \in {"C", "B", "Q"}
  BY <1>2 DEF ToServer
<1> HIDE DEF msg
<1>4. CASE SFails /\ UNCHANGED served
  BY <1>1, <1>2, <1>4, ServerFails
<1>5. CASE msg.type = "B" /\ ~(SFails /\ UNCHANGED served)
  <2>1. srv' = Gone([srv EXCEPT !.state = ST_CLOSED]) /\ UNCHANGED <<s2c, served>>
    BY <1>5 DEF SRecv, msg
  <2>2. PICK e \in Ends : e = [srv EXCEPT !.state = ST_CLOSED] /\ e.state = ST_CLOSED
    <3>1. ST_CLOSED \in Int
      BY DEF ST_CLOSED
    <3> QED BY <1>0, <3>1, StateSet, Zenon
  <2>3. srv' \in Ends /\ srv'.state = ST_CLOSED
    BY <2>1, <2>2, EndGone
  <2> QED BY <1>0, <1>1, <1>2, <2>1, <2>3, ServerKeeps DEF AuthInv, Refused, ST_ACTIVE, ST_CLOSED
<1>6. CASE msg.type = "C" /\ ~(SFails /\ UNCHANGED served)
  <2>1. UNCHANGED served /\ (SCheck(msg) \/ SCheckUnsent)
    BY <1>6 DEF SRecv, msg
  <2> QED BY <1>1, <1>2, <1>6, <2>1, ServerChecks
<1>7. CASE msg.type = "Q" /\ ~(SFails /\ UNCHANGED served)
  <2>1. PICK e \in Ends : e = Read(srv, msg) /\ e.state = srv.state
    BY <1>0, EndRead
  <2>2. \/ /\ srv.state = ST_ACTIVE /\ served' = served + 1 /\ s2c' = s2c
           /\ srv' = [e EXCEPT !.processing = e.processing + 1]
        \/ srv' = e /\ UNCHANGED <<served, s2c>>
    BY <1>7, <2>1 DEF SRecv, msg
  <2>3. CASE srv' = e /\ UNCHANGED <<served, s2c>>
    BY <1>0, <1>1, <1>2, <2>1, <2>3, ServerKeeps DEF AuthInv, Refused
  <2>4. CASE /\ srv.state = ST_ACTIVE /\ served' = served + 1 /\ s2c' = s2c
             /\ srv' = [e EXCEPT !.processing = e.processing + 1]
    <3>1. e.processing + 1 \in Int
      BY Fields
    <3>2. srv' \in Ends
      BY <2>4, <3>1, ZenonT(30) DEF Ends
    <3>3. ~setup.shadow \/ setup.secret = "good"
      BY <2>4 DEF AuthInv, Refused
    <3> QED BY <1>0, <1>1, <1>2, <2>4, <3>2, <3>3, ServerKeeps
  <2> QED BY <2>2, <2>3, <2>4
<1> QED BY <1>3, <1>4, <1>5, <1>6, <1>7

\* replyAnswer()
LEMMA ServerReplies ==
  ASSUME AuthInv, SReply
  PROVE  AuthInv'
<1>0. srv \in Ends /\ c2s \in Seq(ToServer) /\ s2c \in Seq(ToClient) /\ served \in Nat
  BY DEF AuthInv, Types
<1>1. UNCHANGED <<setup, cli, c2s, served>>
  BY DEF SReply, serverOnly
<1>2. Message(srv, "A", 1) \in ToClient /\ Plain("B") \in ToClient
  BY <1>0, WrittenTo, PlainMessages
<1>3. s2c' \in Seq(ToClient)
  <2>1. \/ s2c' = s2c \/ s2c' = Append(s2c, Message(srv, "A", 1))
        \/ s2c' = s2c \o <<Message(srv, "A", 1), Plain("B")>>
    BY DEF SReply
  <2> QED BY <1>0, <1>2, <2>1, Sent
<1>4. PICK a \in Ends : /\ a = After(srv, "A", 1) /\ a.state = srv.state
  BY <1>0, AfterWrite
<1>5. srv.processing - 1 \in Int /\ a.processing - 1 \in Int /\ ST_CLOSING \in Int
  BY <1>0, Fields DEF ST_CLOSING
<1>6. PICK x \in {srv, a} :
        \/ srv' = [x EXCEPT !.processing = x.processing - 1]
        \/ srv' = [x EXCEPT !.processing = x.processing - 1, !.state = ST_CLOSING]
  BY <1>4 DEF SReply
<1>7. x \in Ends /\ x.state = srv.state /\ x.processing - 1 \in Int
  BY <1>0, <1>4, <1>5
<1>8. srv' \in Ends
  <2>1. [x EXCEPT !.processing = x.processing - 1] \in Ends
    BY <1>7, ZenonT(30) DEF Ends
  <2>2. [x EXCEPT !.processing = x.processing - 1, !.state = ST_CLOSING] \in Ends
    BY <1>5, <1>7, ZenonT(30) DEF Ends
  <2> QED BY <1>6, <2>1, <2>2, Zenon
<1>9. srv'.state \in {srv.state, ST_CLOSING}
  BY <1>6, <1>7 DEF Ends
<1> QED BY <1>0, <1>1, <1>3, <1>8, <1>9, ServerKeeps DEF AuthInv, Refused, ST_ACTIVE, ST_CLOSING

\* The other steps of the server: the end of the stream, close(false) and its tasks.
LEMMA ServerActs ==
  ASSUME AuthInv, SEnd \/ SClose \/ SPop \/ STimeout \/ SDisconnect
  PROVE  AuthInv'
<1>0. srv \in Ends /\ c2s \in Seq(ToServer) /\ s2c \in Seq(ToClient) /\ served \in Nat
  BY DEF AuthInv, Types
<1>1. UNCHANGED <<setup, cli, c2s, served>>
  BY DEF SEnd, SClose, SPop, STimeout, SDisconnect, serverOnly
<1>2. CASE SEnd \/ STimeout
  BY <1>0, <1>1, <1>2, ServerFails DEF SEnd, STimeout
<1>3. CASE SClose
  <2>1. PICK x \in {ST_CLOSE, ST_CLOSING} : srv' = [srv EXCEPT !.state = x]
    BY <1>3 DEF SClose
  <2>2. x \in Int /\ x # ST_ACTIVE
    BY DEF ST_CLOSE, ST_CLOSING, ST_ACTIVE
  <2>3. srv' \in Ends /\ srv'.state = x
    BY <1>0, <2>1, <2>2, StateSet, Zenon
  <2>4. s2c' \in Seq(ToClient)
    BY <1>0, <1>3, PlainMessages DEF SClose
  <2> QED BY <1>0, <1>1, <2>2, <2>3, <2>4, ServerKeeps DEF AuthInv, Refused
<1>4. CASE SPop
  BY <1>0, <1>1, <1>4, ServerKeeps DEF SPop, AuthInv, Refused
<1>5. CASE SDisconnect
  <2>1. srv' = Gone(srv) /\ s2c' = s2c
    BY <1>5 DEF SDisconnect
  <2>2. srv' \in Ends /\ (srv'.state = srv.state \/ srv'.state = ST_CLOSED)
    BY <1>0, <2>1, EndGone
  <2> QED BY <1>0, <1>1, <2>1, <2>2, ServerKeeps DEF AuthInv, Refused, ST_ACTIVE, ST_CLOSED
<1> QED BY <1>2, <1>3, <1>4, <1>5

-----------------------------------------------------------------------------
LEMMA AuthInit == Init => AuthInv
BY DEF Init, Fresh, AuthInv, Types, Refused, Ends, Checks, Keys, Fds, ST_INIT, ST_WAITING_HELLO,
   ST_ACTIVE

LEMMA AuthStep == AuthInv /\ [Next]_vars => AuthInv'
<1> SUFFICES ASSUME AuthInv, [Next]_vars PROVE AuthInv'
  OBVIOUS
<1>1. CASE UNCHANGED vars
  BY <1>1 DEF vars, AuthInv, Types, Refused, ToServer, ToClient
<1>2. CASE Next
  BY <1>2, ClientWrites, ClientQuests, ClientCloses, ClientEnds, ClientReads, ServerStarts,
     ServerReads, ServerReplies, ServerActs DEF Next, Client, Server
<1> QED BY <1>1, <1>2

\* Between two ends that run this code, a server with a shadow file runs no quest of
\* a client configured without the right password, and neither end ever takes the
\* connection for active.
THEOREM HandshakeRefuses == Spec => []WrongPasswordUnserved
<1>1. AuthInv => WrongPasswordUnserved
  BY DEF AuthInv, Types, Refused, WrongPasswordUnserved
<1> QED BY <1>1, AuthInit, AuthStep, PTL DEF Spec

-----------------------------------------------------------------------------
(* What is counted: quests, results, and the messages of the two ciphers.  *)
(* Num and All count the messages of a stream that are in a set.           *)

Coded == {m \in Messages : m.key # "none"}
Asks == {m \in Messages : m.type = "Q"}
Replies == {m \in Messages : m.type = "A"}
Num(q, S, k) == Cardinality({j \in 1..k : q[j] \in S})
All(q, S) == Num(q, S, Len(q))
One(p) == IF p THEN 1 ELSE 0

\* No quest is asked, served, answered or counted by a cipher more often than
\* there are quests, and the client waits for what is on the way and more.
CountInv ==
  /\ asked \in 0..MaxQuests
  /\ cli.state \in ST_INIT..ST_ERROR /\ srv.state \in ST_INIT..ST_ERROR
  /\ timer \in {"off", "armed", "popped"} /\ dying \in BOOLEAN
  /\ srv.wq = 0 /\ srv.results = 0 /\ cli.processing = 0
  /\ cli.results \in 0..asked /\ srv.processing \in 0..served
  /\ cli.o + cli.wq <= asked
  /\ served + All(c2s, Asks) + cli.wq <= asked
  /\ srv.i + All(c2s, Asks) + cli.wq <= asked
  /\ srv.o + srv.processing <= served
  /\ cli.i + All(s2c, Replies) + srv.processing <= served
  /\ cli.fd = "open" =>
       cli.wq + All(c2s, Asks) + srv.processing + All(s2c, Replies) <= cli.results

\* The nonces on the way go from what the reader has to what the writer has.
Nonces(q, i, o) ==
  /\ \A k \in 1..Len(q) : q[k].key # "none" => q[k].n = i + Num(q, Coded, k)
  /\ i + All(q, Coded) = o

\* What is encrypted is of type t and has the server's key.
Keyed(q, t, key) == \A k \in 1..Len(q) : q[k].key # "none" => q[k].type = t /\ q[k].key = key

Reading(e) == e.fd = "open" /\ e.state < ST_CLOSE

\* The stream to server e from a client that has encrypted o messages.
Up(q, e, o) == Keyed(q, "Q", e.key) /\ (Reading(e) => Nonces(q, e.i, o))

\* The stream from server e to client c: a client that has not switched its
\* cipher on sees the proof of the server before anything that is encrypted.
Proof(q, n) == \E j \in 1..n : q[j].cmd = "SRP6a4"
Down(q, c, e) ==
  /\ Keyed(q, "A", e.key)
  /\ Reading(c) =>
       /\ Nonces(q, c.i, e.o)
       /\ c.key = "none" =>
            /\ \A k \in 1..Len(q) : q[k].key # "none" => Proof(q, k - 1)
            /\ e.key # "none" => Proof(q, Len(q))

\* The server switches its cipher on first, when it sends its proof.
KeyInv ==
  /\ srv.key \in {"none", "good"} /\ cli.key \in {"none", srv.key}
  /\ srv.key # "none" => setup.cipher
  /\ \A k \in 1..Len(s2c) : s2c[k].cmd = "SRP6a4" => s2c[k].type = "C" /\ (setup.cipher => srv.key # "none")

\* Before start() has sent something nobody has.
StartInv ==
  srv.ck = "INIT" =>
    /\ s2c = <<>> /\ cli.ck = "INIT" /\ srv.processing = 0
    /\ srv.fd = "open" => srv.state = ST_WAITING_HELLO
    /\ \A k \in 1..Len(c2s) : c2s[k].type # "C"

StepInv == CountInv /\ KeyInv /\ StartInv /\ Up(c2s, srv, cli.o) /\ Down(s2c, cli, srv)

-----------------------------------------------------------------------------
(* Counting. *)

LEMMA NumIs ==
  ASSUME NEW q, NEW S, NEW k \in Nat
  PROVE  /\ IsFiniteSet({j \in 1..k : q[j] \in S}) /\ Num(q, S, k) \in Nat
         /\ Num(q, S, 0) = 0
         /\ Num(q, S, k + 1) = Num(q, S, k) + One(q[k + 1] \in S)
<1>1. PICK T : T = {j \in 1..k : q[j] \in S} OBVIOUS
<1>2. IsFiniteSet(1..k) /\ T \subseteq 1..k
  <2>1. 1 \in Int /\ k \in Int OBVIOUS
  <2>2. IsFiniteSet(1..k) BY <2>1, FS_Interval
  <2> QED BY <1>1, <2>2
<1>3. IsFiniteSet(T) /\ Cardinality(T) \in Nat
  <2>1. IsFiniteSet(T) BY <1>2, FS_Subset
  <2> QED BY <2>1, FS_CardinalityType
<1>4. {j \in 1..0 : q[j] \in S} = {} OBVIOUS
<1>5. Num(q, S, 0) = 0 BY <1>4, FS_EmptySet DEF Num
<1>6. k + 1 \notin T BY <1>1
<1>7. 1..(k + 1) = (1..k) \cup {k + 1} OBVIOUS
<1>8. {j \in 1..(k + 1) : q[j] \in S} = IF q[k + 1] \in S THEN T \cup {k + 1} ELSE T
  BY <1>1, <1>7
<1>9. Cardinality(T \cup {k + 1}) = Cardinality(T) + 1 BY <1>3, <1>6, FS_AddElement
<1>10. Num(q, S, k) = Cardinality(T) BY <1>1 DEF Num
<1>11. CASE q[k + 1] \in S
  <2>1. Num(q, S, k + 1) = Cardinality(T \cup {k + 1}) BY <1>8, <1>11 DEF Num
  <2>2. One(q[k + 1] \in S) = 1 BY <1>11 DEF One
  <2> QED BY <1>1, <1>3, <1>5, <1>9, <1>10, <2>1, <2>2
<1>12. CASE q[k + 1] \notin S
  <2>1. Num(q, S, k + 1) = Cardinality(T) BY <1>8, <1>12 DEF Num
  <2>2. One(q[k + 1] \in S) = 0 BY <1>12 DEF One
  <2> QED BY <1>1, <1>3, <1>5, <1>10, <2>1, <2>2
<1> QED BY <1>11, <1>12

LEMMA NumSame ==
  ASSUME NEW q, NEW r, NEW S, NEW k \in Nat, \A j \in 1..k : r[j] = q[j]
  PROVE  Num(r, S, k) = Num(q, S, k)
<1>1. {j \in 1..k : r[j] \in S} = {j \in 1..k : q[j] \in S} OBVIOUS
<1> QED BY <1>1 DEF Num

\* r is q with n messages of type t of end e at its end, q with m at its end,
\* and q without m, its first message.
Grown(q, r, e, t, n) ==
  /\ r \in Seq(Messages) /\ Len(r) = Len(q) + n
  /\ \A k \in 1..Len(q) : r[k] = q[k]
  /\ \A k \in (Len(q) + 1)..(Len(q) + n) :
       /\ r[k].type = t /\ r[k].cmd = "" /\ r[k].key = e.key
       /\ e.key # "none" => r[k].n = e.o + (k - Len(q))
More(q, r, m) ==
  r \in Seq(Messages) /\ Len(r) = Len(q) + 1 /\ r[Len(q) + 1] = m /\ \A k \in 1..Len(q) : r[k] = q[k]
Less(q, r, m) ==
  /\ r \in Seq(Messages) /\ m \in Messages /\ Len(q) = Len(r) + 1 /\ m = q[1]
  /\ \A k \in 1..Len(r) : k + 1 \in 1..Len(q) /\ r[k] = q[k + 1]

LEMMA IsMore ==
  ASSUME NEW q \in Seq(Messages), NEW m \in Messages
  PROVE  More(q, Append(q, m), m)
BY DEF More

LEMMA IsLess ==
  ASSUME NEW q \in Seq(Messages), q # <<>>
  PROVE  Less(q, Tail(q), Head(q))
<1>0. PICK n \in Nat : Len(q) = n + 1
  <2>1. Len(q) \in Nat \ {0} OBVIOUS
  <2>2. Len(q) - 1 \in Nat /\ Len(q) = (Len(q) - 1) + 1 BY <2>1
  <2> QED BY <2>2
<1>1. Tail(q) \in Seq(Messages) /\ Len(Tail(q)) = n /\ \A k \in 1..n : Tail(q)[k] = q[k + 1] BY <1>0
<1>2. Head(q) = q[1] /\ q[1] \in Messages BY <1>0
<1>3. \A k \in 1..n : k + 1 \in 1..(n + 1) OBVIOUS
<1> QED BY <1>0, <1>1, <1>2, <1>3 DEF Less

\* One message more.
LEMMA SentOne ==
  ASSUME NEW q \in Seq(Messages), NEW r, NEW m, More(q, r, m), NEW S
  PROVE  /\ All(r, S) = All(q, S) + One(m \in S)
         /\ \A k \in 1..Len(r) : \/ k \in 1..Len(q) /\ r[k] = q[k] /\ Num(r, S, k) = Num(q, S, k)
                                 \/ k = Len(q) + 1 /\ r[k] = m /\ Num(r, S, k) = All(q, S) + One(m \in S)
<1>1. PICK n \in Nat : n = Len(q) OBVIOUS
<1>2. /\ r \in Seq(Messages) /\ Len(r) = n + 1 /\ r[n + 1] = m /\ \A j \in 1..n : r[j] = q[j]
  BY <1>1 DEF More
<1>3. \A k \in 0..n : Num(r, S, k) = Num(q, S, k)
  <2> SUFFICES ASSUME NEW k \in 0..n PROVE Num(r, S, k) = Num(q, S, k) OBVIOUS
  <2>1. \A j \in 1..k : r[j] = q[j] BY <1>2
  <2>2. k \in Nat BY <1>1
  <2> QED BY <2>1, <2>2, NumSame
<1>4. Num(r, S, n + 1) = Num(q, S, n) + One(m \in S)
  <2>1. n \in Nat /\ n \in 0..n BY <1>1
  <2>2. Num(r, S, n + 1) = Num(r, S, n) + One(r[n + 1] \in S) BY <2>1, NumIs
  <2>3. Num(r, S, n) = Num(q, S, n) BY <1>3, <2>1
  <2> QED BY <1>2, <2>2, <2>3
<1>5. \A k \in 1..(n + 1) : k = n + 1 \/ (k \in 1..n /\ k \in 0..n) OBVIOUS
<1>6. All(r, S) = All(q, S) + One(m \in S) BY <1>1, <1>2, <1>4 DEF All
<1> QED BY <1>1, <1>2, <1>3, <1>4, <1>5, <1>6 DEF All

\* All the messages after the l-th one are in S, or none of them.
Alike(q, r, l) == \A j \in 1..l : r[j] = q[j]
AllIn(r, S, l, z) == \A j \in (l + 1)..z : r[j] \in S
NoneIn(r, S, l, z) == \A j \in (l + 1)..z : r[j] \notin S

LEMMA NumAll ==
  ASSUME NEW q, NEW r, NEW l \in Nat, NEW z \in Nat, l <= z, NEW S, Alike(q, r, l), AllIn(r, S, l, z)
  PROVE  Num(r, S, z) = Num(q, S, l) + (z - l)
<1>1. PICK T : T = {j \in 1..l : q[j] \in S} OBVIOUS
<1>2. IsFiniteSet(T) /\ Cardinality(T) \in Nat /\ Num(q, S, l) = Cardinality(T)
  <2>1. IsFiniteSet(T) BY <1>1, NumIs
  <2> QED BY <1>1, <2>1, FS_CardinalityType DEF Num
<1>3. PICK I : I = (l + 1)..z OBVIOUS
<1>4. \A j \in 1..z : j \in 1..l \/ j \in I BY <1>3
<1>5. /\ \A j \in 1..l : j \in 1..z /\ j \notin I
      /\ \A j \in I : j \in 1..z /\ r[j] \in S
  BY <1>3 DEF AllIn
<1>6. {j \in 1..z : r[j] \in S} = T \cup I BY <1>1, <1>4, <1>5 DEF Alike
<1>7. T \cap I = {} BY <1>1, <1>5
<1>8. IsFiniteSet(I) /\ Cardinality(I) = z - l
  <2>1. l + 1 \in Int /\ z \in Int OBVIOUS
  <2>2. IsFiniteSet(I) /\ Cardinality(I) = IF l + 1 > z THEN 0 ELSE z - (l + 1) + 1
    BY <1>3, <2>1, FS_Interval
  <2> QED BY <2>2
<1>9. Cardinality(T \cup I) = Cardinality(T) + Cardinality(I) - Cardinality(T \cap I)
  BY <1>2, <1>8, FS_Union
<1>10. Cardinality(T \cap I) = 0 BY <1>7, FS_EmptySet
<1>11. Num(r, S, z) = Cardinality(T \cup I) BY <1>6 DEF Num
<1> QED BY <1>2, <1>8, <1>9, <1>10, <1>11

LEMMA NumNone ==
  ASSUME NEW q, NEW r, NEW l \in Nat, NEW z \in Nat, l <= z, NEW S, Alike(q, r, l), NoneIn(r, S, l, z)
  PROVE  Num(r, S, z) = Num(q, S, l)
<1>1. \A j \in 1..z : j \in 1..l \/ j \in (l + 1)..z OBVIOUS
<1>2. \A j \in 1..l : j \in 1..z OBVIOUS
<1>3. {j \in 1..z : r[j] \in S} = {j \in 1..l : q[j] \in S} BY <1>1, <1>2 DEF Alike, NoneIn
<1> QED BY <1>3 DEF Num

LEMMA NumEach ==
  ASSUME NEW q, NEW r, NEW l \in Nat, NEW n \in Nat, NEW S, NEW b \in BOOLEAN,
         Alike(q, r, l), b => AllIn(r, S, l, l + n), ~b => NoneIn(r, S, l, l + n)
  PROVE  \A k \in 0..n : Num(r, S, l + k) = Num(q, S, l) + IF b THEN k ELSE 0
<1> SUFFICES ASSUME NEW k \in 0..n PROVE Num(r, S, l + k) = Num(q, S, l) + IF b THEN k ELSE 0 OBVIOUS
<1>1. PICK z \in Nat : z = l + k OBVIOUS
<1>2. l <= z BY <1>1
<1>3. \A j \in (l + 1)..z : j \in (l + 1)..(l + n) BY <1>1
<1>4. Num(q, S, l) \in Nat
  <2>1. l \in Nat OBVIOUS
  <2> QED BY <2>1, NumIs
<1>5. CASE b
  <2>1. AllIn(r, S, l, z) BY <1>3, <1>5 DEF AllIn
  <2>2. Num(r, S, z) = Num(q, S, l) + (z - l) BY <1>2, <2>1, NumAll
  <2> QED BY <1>1, <1>4, <1>5, <2>2
<1>6. CASE ~b
  <2>1. NoneIn(r, S, l, z) BY <1>3, <1>6 DEF NoneIn
  <2>2. Num(r, S, z) = Num(q, S, l) BY <1>2, <2>1, NumNone
  <2> QED BY <1>1, <1>4, <1>6, <2>2
<1> QED BY <1>5, <1>6

\* The first message less.
LEMMA Took ==
  ASSUME NEW q \in Seq(Messages), NEW r, NEW m, Less(q, r, m), NEW S
  PROVE  /\ All(q, S) = All(r, S) + One(m \in S)
         /\ \A k \in 1..Len(r) : Num(q, S, k + 1) = Num(r, S, k) + One(m \in S)
<1>1. PICK n \in Nat : n = Len(r) BY DEF Less
<1>2. Len(q) = n + 1 /\ m = q[1] /\ \A k \in 1..n : r[k] = q[k + 1] BY <1>1 DEF Less
<1>3. ASSUME NEW k \in 0..n PROVE Num(q, S, k + 1) = Num(r, S, k) + One(q[1] \in S)
  <2>0. k \in Nat OBVIOUS
  <2>1. PICK T : T = {j \in 1..k : r[j] \in S} OBVIOUS
  <2>2. PICK U : U = {j \in 2..(k + 1) : q[j] \in S} OBVIOUS
  <2>3. IsFiniteSet(T) /\ Cardinality(T) = Num(r, S, k) BY <2>0, <2>1, NumIs DEF Num
  <2>4. PICK f : f = [j \in T |-> j + 1] OBVIOUS
  <2>5. \A j \in T : j \in 1..k /\ j + 1 \in U
    <3>1. \A j \in 1..k : j \in 1..n /\ j + 1 \in 2..(k + 1) OBVIOUS
    <3> QED BY <1>2, <2>1, <2>2, <3>1
  <2>6. \A u \in U : u - 1 \in T /\ (u - 1) + 1 = u
    <3>1. \A u \in 2..(k + 1) : u - 1 \in 1..k /\ u - 1 \in 1..n /\ (u - 1) + 1 = u OBVIOUS
    <3>2. \A u \in U : u \in 2..(k + 1) /\ q[u] \in S BY <2>2
    <3>3. \A u \in U : r[u - 1] = q[u]
      <4> SUFFICES ASSUME NEW u \in U PROVE r[u - 1] = q[u] OBVIOUS
      <4>1. u - 1 \in 1..n /\ (u - 1) + 1 = u BY <3>1, <3>2
      <4>2. r[u - 1] = q[(u - 1) + 1] BY <1>2, <4>1
      <4> QED BY <4>1, <4>2
    <3> QED BY <2>1, <3>1, <3>2, <3>3
  <2>7. \A i, j \in T : i + 1 = j + 1 => i = j BY <2>5
  <2>8. f \in Bijection(T, U)
    <3>1. f \in [T -> U] BY <2>4, <2>5
    <3>2. \A i, j \in T : f[i] = f[j] => i = j BY <2>4, <2>7
    <3>3. \A u \in U : \E j \in T : f[j] = u BY <2>4, <2>6
    <3> QED BY <3>1, <3>2, <3>3 DEF Bijection, Injection, Surjection, IsInjective
  <2>9. IsFiniteSet(U) /\ Cardinality(U) = Num(r, S, k)
    <3>1. ExistsBijection(T, U) BY <2>8 DEF ExistsBijection
    <3> QED BY <2>3, <3>1, FS_Bijection
  <2>10. 1 \notin U BY <2>2
  <2>11. 1..(k + 1) = {1} \cup 2..(k + 1) BY <2>0
  <2>12. {j \in 1..(k + 1) : q[j] \in S} = IF q[1] \in S THEN U \cup {1} ELSE U BY <2>2, <2>11
  <2>13. Cardinality(U \cup {1}) = Cardinality(U) + 1 BY <2>9, <2>10, FS_AddElement
  <2>14. Num(r, S, k) \in Nat BY <2>0, NumIs
  <2>15. CASE q[1] \in S
    <3>1. Num(q, S, k + 1) = Cardinality(U \cup {1}) BY <2>12, <2>15 DEF Num
    <3>2. One(q[1] \in S) = 1 BY <2>15 DEF One
    <3> QED BY <2>9, <2>13, <2>14, <3>1, <3>2
  <2>16. CASE q[1] \notin S
    <3>1. Num(q, S, k + 1) = Cardinality(U) BY <2>12, <2>16 DEF Num
    <3>2. One(q[1] \in S) = 0 BY <2>16 DEF One
    <3> QED BY <2>9, <2>14, <3>1, <3>2
  <2> QED BY <2>15, <2>16
<1>4. All(q, S) = All(r, S) + One(m \in S)
  <2>1. n \in 0..n OBVIOUS
  <2>2. Num(q, S, n + 1) = Num(r, S, n) + One(q[1] \in S) BY <1>3, <2>1
  <2> QED BY <1>1, <1>2, <2>2 DEF All
<1>5. \A k \in 1..n : k \in 0..n OBVIOUS
<1> QED BY <1>1, <1>2, <1>3, <1>4, <1>5

-----------------------------------------------------------------------------
(* The streams. *)

LEMMA Joined ==
  ASSUME NEW S, NEW q \in Seq(S), NEW b \in Seq(S)
  PROVE  /\ q \o b \in Seq(S) /\ Len(q \o b) = Len(q) + Len(b)
         /\ \A k \in 1..Len(q) : (q \o b)[k] = q[k]
OBVIOUS

LEMMA Counts ==
  ASSUME NEW q, NEW S, NEW k \in Nat
  PROVE  Num(q, S, k) \in Nat
BY NumIs, Zenon

LEMMA CountsAll ==
  ASSUME NEW q \in Seq(Messages), NEW S
  PROVE  All(q, S) \in Nat
<1>1. Len(q) \in Nat OBVIOUS
<1> QED BY <1>1, Counts DEF All

\* A write of n quests or answers.
LEMMA SentBurst ==
  ASSUME NEW q \in Seq(Messages), NEW e \in Ends, NEW t \in {"Q", "A"}, NEW n \in Nat,
         NEW r, r = q \o Burst(e, t, n)
  PROVE  Grown(q, r, e, t, n)
<1>1. PICK l \in Nat : l = Len(q) OBVIOUS
<1>2. PICK b : b = Burst(e, t, n) OBVIOUS
<1>3. \A k \in 1..n : b[k] = Message(e, t, k) BY <1>2 DEF Burst
<1>4. \A k \in 1..n : Message(e, t, k) \in Messages BY Written
<1>5. b \in Seq(Messages) /\ Len(b) = n BY <1>2, <1>4 DEF Burst
<1>6. r \in Seq(Messages) /\ Len(r) = l + n /\ \A k \in 1..l : r[k] = q[k]
  <2>1. r = q \o b BY <1>2
  <2>2. /\ q \o b \in Seq(Messages) /\ Len(q \o b) = Len(q) + Len(b)
        /\ \A k \in 1..Len(q) : (q \o b)[k] = q[k]
    BY <1>5, Joined
  <2> QED BY <1>1, <1>5, <2>1, <2>2
<1>7. ASSUME NEW k \in (l + 1)..(l + n)
      PROVE  /\ r[k].type = t /\ r[k].cmd = "" /\ r[k].key = e.key
             /\ e.key # "none" => r[k].n = e.o + (k - l)
  <2>1. k - l \in 1..n /\ k - l \in Nat /\ k \in 1..(l + n) /\ k > l OBVIOUS
  <2>2. r[k] = b[k - l] BY <1>1, <1>2, <1>5, <2>1
  <2>3. r[k] = Message(e, t, k - l) BY <1>3, <2>1, <2>2
  <2>4. PICK p : p = Plain(t) OBVIOUS
  <2>5. p \in Messages /\ p.type = t /\ p.cmd = "" /\ p.key = "none" BY <2>4, PlainMessages DEF Plain
  <2>6. e.key \in Keys /\ e.o + (k - l) \in Nat BY <2>1, Fields
  <2>7. CASE e.key = "none"
    <3>1. r[k] = p BY <2>3, <2>4, <2>7 DEF Message
    <3> QED BY <2>5, <2>7, <3>1
  <2>8. CASE e.key # "none"
    <3>1. r[k] = [p EXCEPT !.key = e.key, !.n = e.o + (k - l)]
      BY <2>3, <2>4, <2>8 DEF Message, Encrypted
    <3> QED BY <2>5, <2>6, <3>1 DEF Messages
  <2> QED BY <2>7, <2>8
<1> QED BY <1>1, <1>6, <1>7 DEF Grown

LEMMA SentMessage ==
  ASSUME NEW q \in Seq(Messages), NEW e \in Ends, NEW t \in {"Q", "A"}
  PROVE  Grown(q, Append(q, Message(e, t, 1)), e, t, 1)
<1>1. PICK m : m = Message(e, t, 1) OBVIOUS
<1>2. m \in Messages /\ m.type = t BY <1>1, Written
<1>3. More(q, Append(q, m), m) BY <1>2, IsMore
<1>4. e.key \in Keys /\ e.o \in Nat /\ e.o + 1 \in Nat BY Fields
<1>5. m.cmd = "" /\ m.key = e.key /\ (e.key # "none" => m.n = e.o + 1)
  <2>1. PICK p : p = Plain(t) OBVIOUS
  <2>2. p \in Messages /\ p.cmd = "" /\ p.key = "none" BY <2>1, PlainMessages DEF Plain
  <2>3. CASE e.key = "none"
    <3>1. m = p BY <1>1, <2>1, <2>3 DEF Message
    <3> QED BY <2>2, <2>3, <3>1
  <2>4. CASE e.key # "none"
    <3>1. m = [p EXCEPT !.key = e.key, !.n = e.o + 1] BY <1>1, <2>1, <2>4 DEF Message, Encrypted
    <3> QED BY <1>4, <2>2, <2>4, <3>1 DEF Messages
  <2> QED BY <2>3, <2>4
<1>6. PICK l \in Nat : l = Len(q) OBVIOUS
<1>7. \A k \in (l + 1)..(l + 1) : k = l + 1 /\ k - l = 1 OBVIOUS
<1> QED BY <1>1, <1>2, <1>3, <1>4, <1>5, <1>6, <1>7 DEF Grown, More

\* What it keeps: keys, nonces and counts.
LEMMA BurstKept ==
  ASSUME NEW q \in Seq(Messages), NEW e \in Ends, NEW t \in {"Q", "A"}, NEW n \in Nat,
         NEW r, Grown(q, r, e, t, n), NEW key, NEW i \in Nat
  PROVE  /\ Keyed(q, t, key) /\ e.key \in {"none", key} => Keyed(r, t, key)
         /\ Nonces(q, i, e.o) => Nonces(r, i, After(e, t, n).o)
         /\ All(r, Asks) = All(q, Asks) + IF t = "Q" THEN n ELSE 0
         /\ All(r, Replies) = All(q, Replies) + IF t = "A" THEN n ELSE 0
<1>1. PICK l \in Nat : l = Len(q) OBVIOUS
<1>2. /\ r \in Seq(Messages) /\ Len(r) = l + n
      /\ \A k \in 1..l : r[k] = q[k]
      /\ \A k \in (l + 1)..(l + n) :
           /\ r[k].type = t /\ r[k].cmd = "" /\ r[k].key = e.key
           /\ e.key # "none" => r[k].n = e.o + (k - l)
  BY <1>1 DEF Grown
<1>3. \A k \in 1..(l + n) : k \in 1..l \/ k \in (l + 1)..(l + n) OBVIOUS
<1>4. \A k \in (l + 1)..(l + n) : k \in 1..(l + n) /\ r[k] \in Messages
  <2>1. \A k \in (l + 1)..(l + n) : k \in 1..(l + n) OBVIOUS
  <2>2. r \in Seq(Messages) /\ Len(r) = l + n BY <1>2
  <2>3. \A k \in 1..(l + n) : r[k] \in Messages BY <2>2
  <2> QED BY <2>1, <2>3
<1>5. Keyed(q, t, key) /\ e.key \in {"none", key} => Keyed(r, t, key)
  BY <1>1, <1>2, <1>3 DEF Keyed
<1>6. ASSUME Nonces(q, i, e.o) PROVE Nonces(r, i, After(e, t, n).o)
  <2>0. PICK a \in Nat : a = All(q, Coded) /\ a = Num(q, Coded, l)
    <3>1. All(q, Coded) \in Nat /\ All(q, Coded) = Num(q, Coded, l) BY <1>1, NumIs DEF All
    <3> QED BY <3>1
  <2>1. e.o \in Nat /\ i + a = e.o BY <1>6, <2>0, Fields DEF Nonces
  <2>2. PICK b \in BOOLEAN : b <=> e.key # "none" OBVIOUS
  <2>3. \A k \in (l + 1)..(l + n) : r[k] \in Coded <=> b BY <1>2, <1>4, <2>2 DEF Coded
  <2>4. \A k \in 0..n : Num(r, Coded, l + k) = a + IF b THEN k ELSE 0
    <3>1. Alike(q, r, l) BY <1>2 DEF Alike
    <3>2. (b => AllIn(r, Coded, l, l + n)) /\ (~b => NoneIn(r, Coded, l, l + n))
      BY <2>3 DEF AllIn, NoneIn
    <3>3. \A k \in 0..n : Num(r, Coded, l + k) = Num(q, Coded, l) + IF b THEN k ELSE 0
      BY <3>1, <3>2, NumEach
    <3> QED BY <2>0, <3>3
  <2>5. After(e, t, n).o = e.o + IF b THEN n ELSE 0
    <3>1. Encrypted(t) BY DEF Encrypted
    <3>2. CASE b
      <4>1. After(e, t, n) = [e EXCEPT !.o = e.o + n] BY <2>2, <3>1, <3>2 DEF After
      <4> QED BY <3>2, <4>1 DEF Ends
    <3>3. CASE ~b
      <4>1. After(e, t, n) = e BY <2>2, <3>3 DEF After
      <4> QED BY <2>1, <3>3, <4>1
    <3> QED BY <3>2, <3>3
  <2>6. ASSUME NEW k \in 1..Len(r), r[k].key # "none" PROVE r[k].n = i + Num(r, Coded, k)
    <3>1. CASE k \in 1..l
      <4>1. k \in Nat /\ \A j \in 1..k : j \in 1..l BY <3>1
      <4>2. Num(r, Coded, k) = Num(q, Coded, k)
        <5>1. \A j \in 1..k : r[j] = q[j] BY <1>2, <4>1
        <5> QED BY <4>1, <5>1, NumSame
      <4>3. q[k].n = i + Num(q, Coded, k) BY <1>1, <1>2, <1>6, <2>6, <3>1 DEF Nonces
      <4> QED BY <1>2, <3>1, <4>2, <4>3
    <3>2. CASE k \in (l + 1)..(l + n)
      <4>1. k - l \in 0..n /\ l + (k - l) = k BY <3>2
      <4>2. b /\ r[k].n = e.o + (k - l) BY <1>2, <2>2, <2>6, <3>2
      <4>3. Num(r, Coded, k) = a + (k - l)
        <5>1. Num(r, Coded, l + (k - l)) = a + (k - l) BY <2>4, <4>1, <4>2
        <5> QED BY <4>1, <5>1
      <4> QED BY <2>1, <4>1, <4>2, <4>3
    <3> QED BY <1>2, <1>3, <3>1, <3>2
  <2>7. All(r, Coded) = a + IF b THEN n ELSE 0
    <3>1. n \in 0..n OBVIOUS
    <3> QED BY <1>2, <2>4, <3>1 DEF All
  <2>8. i + All(r, Coded) = After(e, t, n).o BY <2>1, <2>5, <2>7
  <2> QED BY <2>6, <2>8 DEF Nonces
<1>7. ASSUME NEW u \in {"Q", "A"}, NEW S, S = {m \in Messages : m.type = u}
      PROVE  All(r, S) = All(q, S) + IF t = u THEN n ELSE 0
  <2>1. Alike(q, r, l) BY <1>2 DEF Alike
  <2>2. All(r, S) = Num(r, S, l + n) /\ All(q, S) = Num(q, S, l) BY <1>1, <1>2 DEF All
  <2>3. Num(q, S, l) \in Nat BY Counts
  <2>4. CASE t = u
    <3>1. AllIn(r, S, l, l + n) BY <1>2, <1>4, <1>7, <2>4 DEF AllIn
    <3>2. l + n \in Nat /\ l <= l + n OBVIOUS
    <3>3. Num(r, S, l + n) = Num(q, S, l) + ((l + n) - l) BY <2>1, <3>1, <3>2, NumAll
    <3> QED BY <2>2, <2>3, <2>4, <3>3
  <2>5. CASE t # u
    <3>1. NoneIn(r, S, l, l + n) BY <1>2, <1>4, <1>7, <2>5 DEF NoneIn
    <3>2. l + n \in Nat /\ l <= l + n OBVIOUS
    <3>3. Num(r, S, l + n) = Num(q, S, l) BY <2>1, <3>1, <3>2, NumNone
    <3> QED BY <2>2, <2>3, <2>5, <3>3
  <2> QED BY <2>4, <2>5
<1>8. All(r, Asks) = All(q, Asks) + IF t = "Q" THEN n ELSE 0 BY <1>7 DEF Asks
<1>9. All(r, Replies) = All(q, Replies) + IF t = "A" THEN n ELSE 0 BY <1>7 DEF Replies
<1> QED BY <1>5, <1>6, <1>8, <1>9

\* A message without encryption that is neither a quest nor an answer.
LEMMA PlainKept ==
  ASSUME NEW q \in Seq(Messages), NEW m \in Messages, NEW r, More(q, r, m),
         m.key = "none", m.type \notin {"Q", "A"}, NEW t, NEW key, NEW i \in Nat, NEW o
  PROVE  /\ Keyed(q, t, key) => Keyed(r, t, key)
         /\ Nonces(q, i, o) => Nonces(r, i, o)
         /\ All(r, Asks) = All(q, Asks) /\ All(r, Replies) = All(q, Replies)
<1>1. PICK l \in Nat : l = Len(q) OBVIOUS
<1>2. /\ r \in Seq(Messages) /\ Len(r) = l + 1 /\ r[l + 1] = m /\ \A k \in 1..l : r[k] = q[k]
  BY <1>1 DEF More
<1>3. \A k \in 1..(l + 1) : k \in 1..l \/ k = l + 1 OBVIOUS
<1>4. ASSUME NEW S, m \notin S PROVE All(r, S) = All(q, S) /\ \A k \in 1..l : Num(r, S, k) = Num(q, S, k)
  <2>1. All(q, S) \in Nat BY CountsAll
  <2>2. One(m \in S) = 0 BY <1>4 DEF One
  <2>3. All(r, S) = All(q, S) + One(m \in S) BY SentOne
  <2>4. ASSUME NEW k \in 1..l PROVE Num(r, S, k) = Num(q, S, k)
    <3>1. k \in Nat /\ \A j \in 1..k : j \in 1..l OBVIOUS
    <3>2. \A j \in 1..k : r[j] = q[j] BY <1>2, <3>1
    <3> QED BY <3>1, <3>2, NumSame
  <2> QED BY <2>1, <2>2, <2>3, <2>4
<1>5. m \notin Asks /\ m \notin Replies /\ m \notin Coded BY DEF Asks, Replies, Coded
<1>6. Keyed(q, t, key) => Keyed(r, t, key) BY <1>1, <1>2, <1>3 DEF Keyed
<1>7. Nonces(q, i, o) => Nonces(r, i, o) BY <1>1, <1>2, <1>3, <1>4, <1>5 DEF Nonces
<1> QED BY <1>1, <1>2, <1>4, <1>5, <1>6, <1>7

\* The reader has taken the first message.
LEMMA TookKept ==
  ASSUME NEW q \in Seq(Messages), NEW r, NEW m, Less(q, r, m), NEW t, NEW key, NEW i \in Nat, NEW o
  PROVE  /\ Keyed(q, t, key) => Keyed(r, t, key)
         /\ Nonces(q, i, o) => /\ Nonces(r, i + One(m.key # "none"), o)
                               /\ m.key # "none" => m.n = i + 1
<1>1. m \in Messages /\ m = q[1] BY DEF Less
<1>2. PICK c : c = One(m \in Coded) OBVIOUS
<1>3. c \in Nat /\ c = One(m.key # "none") BY <1>1, <1>2 DEF One, Coded
<1>4. PICK l \in Nat : l = Len(r) /\ Len(q) = l + 1 BY DEF Less
<1>5. /\ All(q, Coded) = All(r, Coded) + c
      /\ \A k \in 1..l : k + 1 \in 1..Len(q) /\ r[k] = q[k + 1] /\ Num(q, Coded, k + 1) = Num(r, Coded, k) + c
  <2>1. \A k \in 1..l : k + 1 \in 1..Len(q) /\ r[k] = q[k + 1] BY <1>4 DEF Less
  <2>2. /\ All(q, Coded) = All(r, Coded) + c
        /\ \A k \in 1..l : Num(q, Coded, k + 1) = Num(r, Coded, k) + c
    BY <1>2, <1>4, Took
  <2> QED BY <2>1, <2>2
<1>6. Keyed(q, t, key) => Keyed(r, t, key) BY <1>4, <1>5 DEF Keyed
<1>7. ASSUME Nonces(q, i, o) PROVE Nonces(r, i + c, o) /\ (m.key # "none" => m.n = i + 1)
  <2>1. ASSUME NEW k \in 1..l, r[k].key # "none" PROVE r[k].n = i + c + Num(r, Coded, k)
    <3>1. r[k].n = i + Num(q, Coded, k + 1) BY <1>5, <1>7, <2>1 DEF Nonces
    <3>2. Num(r, Coded, k) \in Nat
      <4>1. k \in Nat OBVIOUS
      <4> QED BY <4>1, Counts
    <3> QED BY <1>3, <1>5, <3>1, <3>2
  <2>2. All(r, Coded) \in Nat BY <1>4, NumIs DEF All
  <2>3. i + c + All(r, Coded) = o BY <1>3, <1>5, <1>7, <2>2 DEF Nonces
  <2>4. ASSUME m.key # "none" PROVE m.n = i + 1
    <3>1. 1 \in 1..Len(q) /\ 0 \in Nat BY <1>4
    <3>2. m.n = i + Num(q, Coded, 1) BY <1>1, <1>7, <2>4, <3>1 DEF Nonces
    <3>3. Num(q, Coded, 0 + 1) = Num(q, Coded, 0) + One(q[0 + 1] \in Coded) /\ Num(q, Coded, 0) = 0
      BY <3>1, NumIs
    <3>4. One(q[1] \in Coded) = 1 BY <1>1, <2>4 DEF One, Coded
    <3> QED BY <3>2, <3>3, <3>4
  <2> QED BY <1>4, <2>1, <2>3, <2>4 DEF Nonces
<1> QED BY <1>1, <1>3, <1>6, <1>7

\* What can be read of a stream with no encrypted message, with whatever key.
LEMMA KeyedAny ==
  ASSUME NEW q, NEW t, NEW key, NEW old, Keyed(q, t, old), old \in {"none", key}
  PROVE  Keyed(q, t, key)
BY DEF Keyed

\* The stream to the server: quests are written.
LEMMA UpGrown ==
  ASSUME NEW q \in Seq(Messages), NEW r, NEW e \in Ends, NEW f \in Ends, NEW n \in Nat,
         Grown(q, r, e, "Q", n), e.key \in {"none", f.key}, Up(q, f, e.o)
  PROVE  Up(r, f, After(e, "Q", n).o)
<1>1. f.i \in Nat /\ "Q" \in {"Q", "A"} BY Fields
<1>2. /\ Keyed(q, "Q", f.key) /\ e.key \in {"none", f.key} => Keyed(r, "Q", f.key)
      /\ Nonces(q, f.i, e.o) => Nonces(r, f.i, After(e, "Q", n).o)
  BY <1>1, BurstKept, Zenon
<1> QED BY <1>2 DEF Up

LEMMA UpMore ==
  ASSUME NEW q \in Seq(Messages), NEW r, NEW m \in Messages, NEW f \in Ends, NEW o,
         More(q, r, m), m.key = "none", m.type \notin {"Q", "A"}, Up(q, f, o)
  PROVE  Up(r, f, o)
<1>1. f.i \in Nat BY Fields
<1>2. /\ Keyed(q, "Q", f.key) => Keyed(r, "Q", f.key)
      /\ Nonces(q, f.i, o) => Nonces(r, f.i, o)
  BY <1>1, PlainKept
<1> QED BY <1>2 DEF Up

\* The server has read a message.
LEMMA UpLess ==
  ASSUME NEW q \in Seq(Messages), NEW r, NEW m, NEW e \in Ends, NEW f \in Ends, NEW o,
         Less(q, r, m), e.key \in {"none", f.key}, Up(q, e, o),
         Reading(f) => Reading(e) /\ f.i = e.i + One(m.key # "none")
  PROVE  Up(r, f, o)
<1>1. e.i \in Nat BY Fields
<1>2. /\ Keyed(q, "Q", e.key) => Keyed(r, "Q", e.key)
      /\ Nonces(q, e.i, o) => Nonces(r, e.i + One(m.key # "none"), o)
  BY <1>1, TookKept
<1>3. Keyed(r, "Q", e.key) BY <1>2 DEF Up
<1>4. Keyed(r, "Q", f.key) BY <1>3, KeyedAny
<1>5. Reading(f) => Nonces(r, f.i, o) BY <1>2 DEF Up
<1> QED BY <1>4, <1>5 DEF Up

LEMMA UpSame ==
  ASSUME NEW q, NEW e, NEW f, NEW o, e.key = f.key, Up(q, e, o), Reading(f) => Reading(e) /\ f.i = e.i
  PROVE  Up(q, f, o)
BY DEF Up

\* The stream to the client: an answer is written.
LEMMA DownGrown ==
  ASSUME NEW q \in Seq(Messages), NEW r, NEW c \in Ends, NEW e \in Ends, NEW f \in Ends, NEW n \in Nat,
         Grown(q, r, e, "A", n), Down(q, c, e), f.key = e.key, f.o = After(e, "A", n).o
  PROVE  Down(r, c, f)
<1>1. c.i \in Nat /\ "A" \in {"Q", "A"} BY Fields
<1>2. /\ Keyed(q, "A", e.key) /\ e.key \in {"none", e.key} => Keyed(r, "A", e.key)
      /\ Nonces(q, c.i, e.o) => Nonces(r, c.i, After(e, "A", n).o)
  BY <1>1, BurstKept, Zenon
<1>3. PICK l \in Nat : l = Len(q) OBVIOUS
<1>4. /\ Len(r) = l + n /\ \A k \in 1..l : r[k] = q[k]
      /\ \A k \in (l + 1)..(l + n) : r[k].key = e.key
  BY <1>3 DEF Grown
<1>5. \A k \in 1..(l + n) : k \in 1..l \/ k \in (l + 1)..(l + n) OBVIOUS
<1>6. ASSUME Reading(c), c.key = "none"
      PROVE  /\ \A k \in 1..Len(r) : r[k].key # "none" => Proof(r, k - 1)
             /\ e.key # "none" => Proof(r, Len(r))
  <2>1. /\ \A k \in 1..l : q[k].key # "none" => Proof(q, k - 1)
        /\ e.key # "none" => Proof(q, l)
    BY <1>3, <1>6 DEF Down
  <2>2. \A z \in 0..l : \A y \in z..(l + n) : Proof(q, z) => Proof(r, y)
    <3> SUFFICES ASSUME NEW z \in 0..l, NEW y \in z..(l + n), Proof(q, z) PROVE Proof(r, y) OBVIOUS
    <3>1. PICK j \in 1..z : q[j].cmd = "SRP6a4" BY DEF Proof
    <3>2. j \in 1..l /\ j \in 1..y OBVIOUS
    <3> QED BY <1>4, <3>1, <3>2 DEF Proof
  <2>3. ASSUME NEW k \in 1..(l + n), r[k].key # "none" PROVE Proof(r, k - 1)
    <3>1. CASE k \in 1..l
      <4>1. k - 1 \in 0..l /\ k - 1 \in (k - 1)..(l + n) BY <3>1
      <4>2. Proof(q, k - 1) BY <1>4, <2>1, <2>3, <3>1
      <4> QED BY <2>2, <4>1, <4>2
    <3>2. CASE k \in (l + 1)..(l + n)
      <4>1. l \in 0..l /\ k - 1 \in l..(l + n) BY <3>2
      <4>2. Proof(q, l) BY <1>4, <2>1, <2>3, <3>2
      <4> QED BY <2>2, <4>1, <4>2
    <3> QED BY <1>5, <3>1, <3>2
  <2>4. e.key # "none" => Proof(r, l + n)
    <3>1. l \in 0..l /\ l + n \in l..(l + n) OBVIOUS
    <3> QED BY <2>1, <2>2, <3>1
  <2> QED BY <1>4, <2>3, <2>4
<1> QED BY <1>2, <1>6 DEF Down

\* Messages without encryption; the server may switch its cipher on with its proof.
LEMMA DownMore ==
  ASSUME NEW q \in Seq(Messages), NEW r, NEW m \in Messages, NEW c \in Ends, NEW e \in Ends, NEW f \in Ends,
         More(q, r, m), m.key = "none", m.type \notin {"Q", "A"}, Down(q, c, e), f.o = e.o,
         e.key = f.key \/ (e.key = "none" /\ m.cmd = "SRP6a4")
  PROVE  Down(r, c, f)
<1>1. c.i \in Nat BY Fields
<1>2. /\ Keyed(q, "A", e.key) => Keyed(r, "A", e.key)
      /\ Nonces(q, c.i, e.o) => Nonces(r, c.i, e.o)
  BY <1>1, PlainKept
<1>3. Keyed(r, "A", f.key)
  <2>1. Keyed(r, "A", e.key) /\ e.key \in {"none", f.key} BY <1>2 DEF Down
  <2> QED BY <2>1, KeyedAny
<1>4. PICK l \in Nat : l = Len(q) OBVIOUS
<1>5. Len(r) = l + 1 /\ r[l + 1] = m /\ \A k \in 1..l : r[k] = q[k] BY <1>4 DEF More
<1>6. \A k \in 1..(l + 1) : k \in 1..l \/ k = l + 1 OBVIOUS
<1>7. ASSUME Reading(c), c.key = "none"
      PROVE  /\ \A k \in 1..Len(r) : r[k].key # "none" => Proof(r, k - 1)
             /\ f.key # "none" => Proof(r, Len(r))
  <2>1. /\ \A k \in 1..l : q[k].key # "none" => Proof(q, k - 1)
        /\ e.key # "none" => Proof(q, l)
    BY <1>4, <1>7 DEF Down
  <2>2. \A z \in 0..l : \A y \in z..(l + 1) : Proof(q, z) => Proof(r, y)
    <3> SUFFICES ASSUME NEW z \in 0..l, NEW y \in z..(l + 1), Proof(q, z) PROVE Proof(r, y) OBVIOUS
    <3>1. PICK j \in 1..z : q[j].cmd = "SRP6a4" BY DEF Proof
    <3>2. j \in 1..l /\ j \in 1..y OBVIOUS
    <3> QED BY <1>5, <3>1, <3>2 DEF Proof
  <2>3. ASSUME NEW k \in 1..(l + 1), r[k].key # "none" PROVE Proof(r, k - 1)
    <3>1. k \in 1..l BY <1>5, <1>6, <2>3
    <3>2. k - 1 \in 0..l /\ k - 1 \in (k - 1)..(l + 1) BY <3>1
    <3>3. Proof(q, k - 1) BY <1>5, <2>1, <2>3, <3>1
    <3> QED BY <2>2, <3>2, <3>3
  <2>4. ASSUME f.key # "none" PROVE Proof(r, l + 1)
    <3>1. CASE e.key # "none"
      <4>1. l \in 0..l /\ l + 1 \in l..(l + 1) OBVIOUS
      <4> QED BY <2>1, <2>2, <3>1, <4>1
    <3>2. CASE e.key = "none"
      <4>1. l + 1 \in 1..(l + 1) /\ r[l + 1].cmd = "SRP6a4" BY <1>5, <2>4, <3>2
      <4> QED BY <4>1 DEF Proof
    <3> QED BY <3>1, <3>2
  <2> QED BY <1>5, <2>3, <2>4
<1> QED BY <1>2, <1>3, <1>7 DEF Down

\* The client has read a message: the server's proof only with its cipher switched on.
LEMMA DownLess ==
  ASSUME NEW q \in Seq(Messages), NEW r, NEW m, NEW c \in Ends, NEW d \in Ends, NEW e \in Ends,
         Less(q, r, m), Down(q, c, e),
         Reading(d) => Reading(c) /\ d.i = c.i + One(m.key # "none"),
         Reading(d) /\ d.key = "none" => c.key = "none" /\ (m.cmd = "SRP6a4" => e.key = "none")
  PROVE  Down(r, d, e)
<1>1. c.i \in Nat BY Fields
<1>2. /\ Keyed(q, "A", e.key) => Keyed(r, "A", e.key)
      /\ Nonces(q, c.i, e.o) => Nonces(r, c.i + One(m.key # "none"), e.o)
  BY <1>1, TookKept
<1>3. Keyed(r, "A", e.key) BY <1>2 DEF Down
<1>4. PICK l \in Nat : l = Len(r) /\ Len(q) = l + 1 BY DEF Less
<1>5. m = q[1] /\ \A k \in 1..l : k + 1 \in 1..(l + 1) /\ r[k] = q[k + 1] BY <1>4 DEF Less
<1>6. ASSUME Reading(d), d.key = "none"
      PROVE  /\ \A k \in 1..Len(r) : r[k].key # "none" => Proof(r, k - 1)
             /\ e.key # "none" => Proof(r, Len(r))
  <2>1. CASE e.key = "none"
    <3>1. \A k \in 1..Len(r) : r[k].key = "none" BY <1>3, <2>1 DEF Keyed
    <3> QED BY <2>1, <3>1
  <2>2. CASE e.key # "none"
    <3>1. c.key = "none" /\ Reading(c) /\ m.cmd # "SRP6a4" BY <1>6, <2>2
    <3>2. /\ \A k \in 1..(l + 1) : q[k].key # "none" => Proof(q, k - 1)
          /\ Proof(q, l + 1)
      BY <1>4, <2>2, <3>1 DEF Down
    <3>3. ASSUME NEW z \in 0..l, Proof(q, z + 1) PROVE Proof(r, z)
      <4>1. PICK j \in 1..(z + 1) : q[j].cmd = "SRP6a4" BY <3>3 DEF Proof
      <4>2. j # 1 BY <1>5, <3>1, <4>1
      <4>3. j - 1 \in 1..z /\ j - 1 \in 1..l /\ (j - 1) + 1 = j BY <4>2
      <4>4. r[j - 1] = q[(j - 1) + 1] BY <1>5, <4>3
      <4>5. r[j - 1].cmd = "SRP6a4" BY <4>1, <4>3, <4>4
      <4> QED BY <4>3, <4>5 DEF Proof
    <3>4. ASSUME NEW k \in 1..l, r[k].key # "none" PROVE Proof(r, k - 1)
      <4>1. k + 1 \in 1..(l + 1) /\ q[k + 1].key # "none" /\ (k + 1) - 1 = (k - 1) + 1 /\ k - 1 \in 0..l
        BY <1>5, <3>4
      <4>2. Proof(q, (k + 1) - 1) BY <3>2, <4>1
      <4>3. Proof(q, (k - 1) + 1) BY <4>1, <4>2
      <4> QED BY <3>3, <4>1, <4>3
    <3>5. l \in 0..l OBVIOUS
    <3> QED BY <1>4, <3>2, <3>3, <3>4, <3>5
  <2> QED BY <2>1, <2>2
<1> QED BY <1>2, <1>3, <1>6 DEF Down

LEMMA DownSame ==
  ASSUME NEW q, NEW c, NEW d, NEW e, NEW f, Down(q, c, e), f.key = e.key, f.o = e.o,
         Reading(d) => Reading(c) /\ d.i = c.i /\ d.key = c.key
  PROVE  Down(q, d, f)
BY DEF Down

-----------------------------------------------------------------------------
(* The ends. *)

\* f is e in all but what a write, a read or a state may change.
SameEnd(f, e) ==
  f.ck = e.ck /\ f.key = e.key /\ f.processing = e.processing /\ f.fd = e.fd

\* a is e after it has written n messages.
Wrote(a, e, n) ==
  /\ a \in Ends /\ SameEnd(a, e) /\ a.state = e.state /\ a.i = e.i /\ a.wq = e.wq
  /\ a.results = e.results /\ a.o \in Nat /\ a.o <= e.o + n

LEMMA AfterFields ==
  ASSUME NEW e \in Ends, NEW t \in {"Q", "A"}, NEW n \in Nat
  PROVE  Wrote(After(e, t, n), e, n)
<1>0. PICK a : a = After(e, t, n) OBVIOUS
<1>1. a \in Ends BY <1>0, AfterWrite
<1>2. e.o \in Nat BY Fields
<1>3. ASSUME a = e PROVE Wrote(a, e, n) BY <1>1, <1>2, <1>3 DEF SameEnd, Wrote
<1>4. ASSUME a = [e EXCEPT !.o = e.o + n] PROVE Wrote(a, e, n) BY <1>1, <1>2, <1>4 DEF SameEnd, Ends, Wrote
<1>5. a = e \/ a = [e EXCEPT !.o = e.o + n] BY <1>0 DEF After
<1> QED BY <1>0, <1>3, <1>4, <1>5

\* a is e after it has read message m.
HasRead(a, e, m) ==
  /\ a \in Ends /\ SameEnd(a, e) /\ a.state = e.state /\ a.wq = e.wq /\ a.o = e.o
  /\ a.results = e.results /\ a.i = e.i + One(m.key # "none") /\ One(m.key # "none") \in {0, 1}

LEMMA ReadFields ==
  ASSUME NEW e \in Ends, NEW m \in Messages
  PROVE  HasRead(Read(e, m), e, m)
<1>0. PICK a : a = Read(e, m) OBVIOUS
<1>1. a \in Ends BY <1>0, EndRead
<1>2. e.i \in Nat BY Fields
<1>3. CASE m.key = "none"
  <2>1. a = e /\ One(m.key # "none") = 0 BY <1>0, <1>3 DEF Read, One
  <2> QED BY <1>0, <1>1, <1>2, <2>1 DEF SameEnd, HasRead
<1>4. CASE m.key # "none"
  <2>1. a = [e EXCEPT !.i = e.i + 1] /\ One(m.key # "none") = 1 BY <1>0, <1>4 DEF Read, One
  <2> QED BY <1>0, <1>1, <1>2, <2>1 DEF SameEnd, Ends, HasRead
<1> QED BY <1>3, <1>4

\* disconnect() after a state has been set or not.
LEMMA GoneFields ==
  ASSUME NEW e \in Ends, NEW x \in Int, NEW g, g = Gone([e EXCEPT !.state = x]) \/ (g = Gone(e) /\ x = e.state)
  PROVE  /\ g \in Ends /\ g.fd = "closed" /\ g.wq = 0 /\ g.results = 0 /\ g.state \in {x, ST_CLOSED}
         /\ g.ck = e.ck /\ g.key = e.key /\ g.o = e.o /\ g.i = e.i /\ g.processing = e.processing
<1>1. PICK d \in Ends : /\ g = Gone(d) /\ d.state = x /\ d.ck = e.ck /\ d.key = e.key /\ d.o = e.o
                        /\ d.i = e.i /\ d.processing = e.processing
  <2>1. CASE g = Gone([e EXCEPT !.state = x])
    <3>1. [e EXCEPT !.state = x] \in Ends BY StateSet
    <3>2. /\ [e EXCEPT !.state = x].state = x /\ [e EXCEPT !.state = x].ck = e.ck
          /\ [e EXCEPT !.state = x].key = e.key /\ [e EXCEPT !.state = x].o = e.o
          /\ [e EXCEPT !.state = x].i = e.i /\ [e EXCEPT !.state = x].processing = e.processing
      BY DEF Ends
    <3> QED BY <2>1, <3>1, <3>2
  <2>2. CASE g = Gone(e) /\ x = e.state BY <2>2
  <2> QED BY <2>1, <2>2
<1>2. PICK y : y = IF d.state < ST_CLOSED THEN ST_CLOSED ELSE d.state OBVIOUS
<1>3. y \in {x, ST_CLOSED} /\ g = [d EXCEPT !.fd = "closed", !.wq = 0, !.results = 0, !.state = y]
  BY <1>1, <1>2 DEF Gone
<1>4. g \in Ends BY <1>1, EndGone
<1>5. /\ g.fd = "closed" /\ g.wq = 0 /\ g.results = 0 /\ g.state = y
      /\ g.ck = d.ck /\ g.key = d.key /\ g.o = d.o /\ g.i = d.i /\ g.processing = d.processing
  BY <1>3 DEF Ends
<1> QED BY <1>1, <1>3, <1>4, <1>5

-----------------------------------------------------------------------------
(* The streams are sequences of messages, in each step. *)

LEMMA Streams ==
  ASSUME AuthInv
  PROVE  /\ cli \in Ends /\ srv \in Ends /\ setup \in Setups /\ served \in Nat
         /\ c2s \in Seq(Messages) /\ s2c \in Seq(Messages)
         /\ All(c2s, Asks) \in Nat /\ All(s2c, Replies) \in Nat
<1>1. c2s \in Seq(ToServer) /\ s2c \in Seq(ToClient) BY DEF AuthInv, Types
<1>2. ToServer \subseteq Messages /\ ToClient \subseteq Messages BY DEF ToServer, ToClient
<1>3. c2s \in Seq(Messages) /\ s2c \in Seq(Messages) BY <1>1, <1>2
<1> QED BY <1>3, CountsAll DEF AuthInv, Types

\* The numbers of quests and results, in a step of the client.
LEMMA ClientCounts ==
  ASSUME AuthInv, StepInv, UNCHANGED <<srv, timer, dying, served>>, cli' \in Ends,
         cli'.processing = 0, cli'.state \in ST_INIT..ST_ERROR,
         asked' \in asked..MaxQuests, cli'.results \in 0..asked',
         NEW a \in Nat, a = All(c2s', Asks), NEW b \in Nat, b = All(s2c', Replies),
         cli'.o + cli'.wq + asked <= cli.o + cli.wq + asked',
         a + cli'.wq + asked <= All(c2s, Asks) + cli.wq + asked',
         cli'.i + b <= cli.i + All(s2c, Replies),
         cli'.fd = "open" =>
           /\ cli.fd = "open"
           /\ cli'.wq + a + b + cli.results <= cli.wq + All(c2s, Asks) + All(s2c, Replies) + cli'.results
  PROVE  CountInv'
<1>1. /\ cli \in Ends /\ srv \in Ends /\ served \in Nat
      /\ All(c2s, Asks) \in Nat /\ All(s2c, Replies) \in Nat BY Streams
<1>2. /\ cli.o \in Nat /\ cli.i \in Nat /\ cli.wq \in Nat /\ cli.results \in Int
      /\ srv.o \in Nat /\ srv.i \in Nat /\ srv.processing \in Int
  BY <1>1, Fields
<1>3. /\ cli'.o \in Nat /\ cli'.i \in Nat /\ cli'.wq \in Nat /\ cli'.results \in Int BY Fields
<1>4. /\ asked \in 0..MaxQuests /\ srv.processing \in 0..served
      /\ cli.o + cli.wq <= asked
      /\ served + All(c2s, Asks) + cli.wq <= asked
      /\ srv.i + All(c2s, Asks) + cli.wq <= asked
      /\ srv.o + srv.processing <= served
      /\ cli.i + All(s2c, Replies) + srv.processing <= served
  BY DEF StepInv, CountInv
<1>5. /\ srv.state \in ST_INIT..ST_ERROR
      /\ timer \in {"off", "armed", "popped"} /\ dying \in BOOLEAN
      /\ srv.wq = 0 /\ srv.results = 0
      /\ cli.fd = "open" =>
           cli.wq + All(c2s, Asks) + srv.processing + All(s2c, Replies) <= cli.results
  BY DEF StepInv, CountInv
<1>6. asked' \in 0..MaxQuests BY <1>4, MaxQuestsAssumption
<1>7. /\ cli'.o + cli'.wq <= asked' /\ served + a + cli'.wq <= asked'
      /\ srv.i + a + cli'.wq <= asked' /\ cli'.i + b + srv.processing <= served
  BY <1>1, <1>2, <1>3, <1>4, <1>6
<1>8. cli'.fd = "open" => cli'.wq + a + srv.processing + b <= cli'.results
  BY <1>1, <1>2, <1>3, <1>5
<1> QED BY <1>4, <1>5, <1>6, <1>7, <1>8 DEF CountInv

\* What is to be shown of a step of the client.
LEMMA ClientInStep ==
  ASSUME StepInv, UNCHANGED <<setup, srv>>, CountInv', cli'.key \in {"none", srv.key},
         Up(c2s', srv, cli'.o), Down(s2c', cli', srv),
         \A k \in 1..Len(s2c') : s2c'[k].cmd = "SRP6a4" => s2c'[k].type = "C" /\ (setup.cipher => srv.key # "none"),
         srv.ck = "INIT" => s2c' = <<>> /\ cli'.ck = "INIT" /\ \A k \in 1..Len(c2s') : c2s'[k].type # "C"
  PROVE  StepInv'
<1>1. KeyInv' BY DEF StepInv, KeyInv
<1>2. StartInv' BY DEF StepInv, StartInv
<1> QED BY <1>1, <1>2 DEF StepInv

\* The numbers of quests and results, in a step of the server.
LEMMA ServerCounts ==
  ASSUME AuthInv, StepInv, UNCHANGED <<cli, asked>>, srv' \in Ends,
         srv'.wq = 0, srv'.results = 0, srv'.state \in ST_INIT..ST_ERROR,
         timer' \in {"off", "armed", "popped"}, dying' \in BOOLEAN,
         served' \in Nat, srv'.processing \in 0..served',
         NEW a \in Nat, a = All(c2s', Asks), NEW b \in Nat, b = All(s2c', Replies),
         served' + a <= served + All(c2s, Asks), srv'.i + a <= srv.i + All(c2s, Asks),
         srv'.o + srv'.processing + served <= srv.o + srv.processing + served',
         b + srv'.processing + served <= All(s2c, Replies) + srv.processing + served',
         a + srv'.processing + b <= All(c2s, Asks) + srv.processing + All(s2c, Replies)
  PROVE  CountInv'
<1>1. /\ cli \in Ends /\ srv \in Ends /\ served \in Nat
      /\ All(c2s, Asks) \in Nat /\ All(s2c, Replies) \in Nat BY Streams
<1>2. /\ cli.o \in Nat /\ cli.i \in Nat /\ cli.wq \in Nat /\ cli.results \in Int
      /\ srv.o \in Nat /\ srv.i \in Nat /\ srv.processing \in Int
  BY <1>1, Fields
<1>3. srv'.o \in Nat /\ srv'.i \in Nat /\ srv'.processing \in Int BY Fields
<1>4. /\ asked \in 0..MaxQuests /\ cli.results \in 0..asked
      /\ cli.o + cli.wq <= asked
      /\ served + All(c2s, Asks) + cli.wq <= asked
      /\ srv.i + All(c2s, Asks) + cli.wq <= asked
      /\ srv.o + srv.processing <= served
      /\ cli.i + All(s2c, Replies) + srv.processing <= served
  BY DEF StepInv, CountInv
<1>5. /\ cli.state \in ST_INIT..ST_ERROR /\ cli.processing = 0
      /\ cli.fd = "open" =>
           cli.wq + All(c2s, Asks) + srv.processing + All(s2c, Replies) <= cli.results
  BY DEF StepInv, CountInv
<1>6. /\ served' + a + cli.wq <= asked /\ srv'.i + a + cli.wq <= asked
      /\ srv'.o + srv'.processing <= served' /\ cli.i + b + srv'.processing <= served'
  BY <1>1, <1>2, <1>3, <1>4
<1>7. cli.fd = "open" => cli.wq + a + srv'.processing + b <= cli.results
  BY <1>1, <1>2, <1>3, <1>5
<1> QED BY <1>4, <1>5, <1>6, <1>7 DEF CountInv

\* What is to be shown of a step of the server.
LEMMA ServerInStep ==
  ASSUME StepInv, UNCHANGED <<setup, cli>>, CountInv',
         srv'.key \in {"none", "good"}, cli.key \in {"none", srv'.key}, srv'.key # "none" => setup.cipher,
         Up(c2s', srv', cli.o), Down(s2c', cli, srv'),
         \A k \in 1..Len(s2c') : s2c'[k].cmd = "SRP6a4" => s2c'[k].type = "C" /\ (setup.cipher => srv'.key # "none"),
         StartInv'
  PROVE  StepInv'
<1>1. KeyInv' BY DEF KeyInv
<1> QED BY <1>1 DEF StepInv

\* What the invariants say of the client and its streams.
LEMMA Known ==
  ASSUME AuthInv, StepInv
  PROVE  /\ cli.o \in Nat /\ cli.i \in Nat /\ cli.wq \in Nat /\ cli.results \in 0..asked /\ cli.processing = 0
         /\ srv.o \in Nat /\ srv.i \in Nat /\ srv.processing \in 0..served /\ srv.wq = 0 /\ srv.results = 0
         /\ asked \in 0..MaxQuests /\ MaxQuests \in Nat /\ asked \in asked..MaxQuests
         /\ cli.state \in ST_INIT..ST_ERROR /\ srv.state \in ST_INIT..ST_ERROR
         /\ srv.key \in {"none", "good"} /\ cli.key \in {"none", srv.key} /\ (srv.key # "none" => setup.cipher)
         /\ Up(c2s, srv, cli.o) /\ Down(s2c, cli, srv)
         /\ \A k \in 1..Len(s2c) : s2c[k].cmd = "SRP6a4" => s2c[k].type = "C" /\ (setup.cipher => srv.key # "none")
<1>1. cli \in Ends /\ srv \in Ends BY Streams
<1>2. CountInv /\ KeyInv /\ Up(c2s, srv, cli.o) /\ Down(s2c, cli, srv) BY DEF StepInv
<1>3. cli.o \in Nat /\ cli.i \in Nat /\ cli.wq \in Nat /\ srv.o \in Nat /\ srv.i \in Nat BY <1>1, Fields
<1>4. asked \in 0..MaxQuests /\ MaxQuests \in Nat /\ asked \in asked..MaxQuests
  BY <1>2, MaxQuestsAssumption DEF CountInv
<1> QED BY <1>2, <1>3, <1>4 DEF CountInv, KeyInv

\* The client has taken a message from its stream.
LEMMA Received ==
  ASSUME AuthInv, StepInv, s2c # <<>>, s2c' = Tail(s2c), NEW m, m = Head(s2c)
  PROVE  /\ Less(s2c, s2c', m) /\ m \in ToClient /\ m \in Messages /\ srv.ck # "INIT"
         /\ All(s2c, Replies) = All(s2c', Replies) + One(m \in Replies) /\ All(s2c', Replies) \in Nat
         /\ m.key # "none" => m.type = "A"
         /\ m.cmd = "SRP6a4" => m.type = "C" /\ (setup.cipher => srv.key # "none")
         /\ \A k \in 1..Len(s2c') : s2c'[k].cmd = "SRP6a4" => s2c'[k].type = "C" /\ (setup.cipher => srv.key # "none")
<1>1. s2c \in Seq(Messages) BY Streams
<1>2. Less(s2c, s2c', m) BY <1>1, IsLess
<1>3. m \in ToClient /\ m \in Messages
  <2>1. s2c \in Seq(ToClient) BY DEF AuthInv, Types
  <2>2. m \in ToClient BY <2>1
  <2> QED BY <2>2 DEF ToClient
<1>4. srv.ck # "INIT" BY DEF StepInv, StartInv
<1>5. All(s2c, Replies) = All(s2c', Replies) + One(m \in Replies)
  BY <1>1, <1>2, Took
<1>6. All(s2c', Replies) \in Nat
  <2>1. s2c' \in Seq(Messages) BY <1>2 DEF Less
  <2> QED BY <2>1, CountsAll
<1>7. Keyed(s2c, "A", srv.key)
      /\ \A k \in 1..Len(s2c) : s2c[k].cmd = "SRP6a4" => s2c[k].type = "C" /\ (setup.cipher => srv.key # "none")
  BY Known DEF Down
<1>8. m = s2c[1] /\ 1 \in 1..Len(s2c) /\ \A k \in 1..Len(s2c') : k + 1 \in 1..Len(s2c) /\ s2c'[k] = s2c[k + 1]
  BY <1>1, <1>2 DEF Less
<1> QED BY <1>2, <1>3, <1>4, <1>5, <1>6, <1>7, <1>8 DEF Keyed

\* The client sends a message without encryption.
LEMMA SentUp ==
  ASSUME AuthInv, StepInv, NEW m \in Messages, m.key = "none", m.type \in {"B", "C"},
         c2s' = Append(c2s, m)
  PROVE  /\ Up(c2s', srv, cli.o) /\ All(c2s', Asks) = All(c2s, Asks)
         /\ m.type = "B" /\ srv.ck = "INIT" => \A k \in 1..Len(c2s') : c2s'[k].type # "C"
<1>1. c2s \in Seq(Messages) /\ srv \in Ends BY Streams
<1>2. More(c2s, c2s', m) BY <1>1, IsMore
<1>3. m.type \notin {"Q", "A"} OBVIOUS
<1>4. Up(c2s', srv, cli.o)
  <2>1. Up(c2s, srv, cli.o) BY Known
  <2> QED BY <1>1, <1>2, <1>3, <2>1, UpMore
<1>5. All(c2s', Asks) = All(c2s, Asks)
  <2>1. 0 \in Nat OBVIOUS
  <2> QED BY <1>1, <1>2, <1>3, <2>1, PlainKept
<1>6. ASSUME m.type = "B", srv.ck = "INIT" PROVE \A k \in 1..Len(c2s') : c2s'[k].type # "C"
  <2>1. \A k \in 1..Len(c2s) : c2s[k].type # "C" BY <1>6 DEF StepInv, StartInv
  <2>2. PICK l \in Nat : l = Len(c2s) BY <1>1
  <2>3. \A k \in 1..(l + 1) : k \in 1..l \/ k = l + 1 OBVIOUS
  <2> QED BY <1>2, <1>6, <2>1, <2>2, <2>3 DEF More
<1> QED BY <1>4, <1>5, <1>6

\* What is still to be shown where the client reads a message or not, and writes
\* one without encryption, or nothing.
LEMMA ClientStep ==
  ASSUME AuthInv, StepInv, clientOnly, asked' \in asked..MaxQuests,
         s2c' = s2c \/ (s2c # <<>> /\ s2c' = Tail(s2c)),
         Down(s2c', cli', srv), Up(c2s', srv, cli'.o), cli' \in Ends, cli'.processing = 0,
         cli'.state \in ST_INIT..ST_ERROR, cli'.results \in 0..asked', cli'.key \in {"none", srv.key},
         srv.ck = "INIT" => \A k \in 1..Len(c2s') : c2s'[k].type # "C",
         cli'.ck = cli.ck \/ srv.ck # "INIT",
         NEW a \in Nat, a = All(c2s', Asks), NEW b \in Nat, b = All(s2c', Replies),
         cli'.o + cli'.wq + asked <= cli.o + cli.wq + asked',
         a + cli'.wq + asked <= All(c2s, Asks) + cli.wq + asked',
         cli'.i + b <= cli.i + All(s2c, Replies),
         cli'.fd = "open" =>
           /\ cli.fd = "open"
           /\ cli'.wq + a + b + cli.results <= cli.wq + All(c2s, Asks) + All(s2c, Replies) + cli'.results
  PROVE  StepInv'
<1>1. UNCHANGED <<srv, timer, dying, served>> /\ UNCHANGED <<setup, srv>> BY DEF clientOnly
<1>2. CountInv' BY <1>1, ClientCounts
<1>3. \A k \in 1..Len(s2c') : s2c'[k].cmd = "SRP6a4" => s2c'[k].type = "C" /\ (setup.cipher => srv.key # "none")
  <2>1. CASE s2c' = s2c BY <2>1, Known
  <2>2. CASE s2c # <<>> /\ s2c' = Tail(s2c) BY <2>2, Received
  <2> QED BY <2>1, <2>2
<1>4. srv.ck = "INIT" => s2c' = <<>> /\ cli'.ck = "INIT" /\ \A k \in 1..Len(c2s') : c2s'[k].type # "C"
  BY DEF StepInv, StartInv
<1> QED BY <1>1, <1>2, <1>3, <1>4, ClientInStep

\* An exception, a timeout or the end of the stream at the client.
LEMMA ClientFailsStep ==
  ASSUME AuthInv, StepInv, NEW x \in ST_INIT..ST_ERROR, cli' = Gone([cli EXCEPT !.state = x]),
         UNCHANGED c2s, clientOnly, UNCHANGED asked,
         s2c' = s2c \/ (s2c # <<>> /\ s2c' = Tail(s2c))
  PROVE  StepInv'
<1>1. cli \in Ends /\ srv \in Ends /\ All(c2s, Asks) \in Nat /\ All(s2c, Replies) \in Nat BY Streams
<1>2. /\ cli' \in Ends /\ cli'.fd = "closed" /\ cli'.wq = 0 /\ cli'.results = 0 /\ cli'.state \in {x, ST_CLOSED}
      /\ cli'.ck = cli.ck /\ cli'.key = cli.key /\ cli'.o = cli.o /\ cli'.i = cli.i
      /\ cli'.processing = cli.processing
  <2>1. x \in Int BY DEF ST_INIT, ST_ERROR
  <2> QED BY <1>1, <2>1, GoneFields
<1>3. cli'.state \in ST_INIT..ST_ERROR BY <1>2 DEF ST_INIT, ST_ERROR, ST_CLOSED
<1>4. ~Reading(cli') BY <1>2 DEF Reading
<1>5. /\ cli.o \in Nat /\ cli.i \in Nat /\ cli.wq \in Nat /\ asked \in 0..MaxQuests /\ asked \in asked..MaxQuests
      /\ MaxQuests \in Nat /\ cli.processing = 0 /\ cli.key \in {"none", srv.key}
      /\ Up(c2s, srv, cli.o) /\ Down(s2c, cli, srv)
  BY Known
<1>7. PICK b \in Nat : b = All(s2c', Replies) /\ b <= All(s2c, Replies) /\ Down(s2c', cli', srv)
  <2>1. CASE s2c' = s2c
    <3>1. Down(s2c', cli', srv) BY <1>4, <1>5, <2>1 DEF Down
    <3> QED BY <1>1, <2>1, <3>1
  <2>2. CASE s2c # <<>> /\ s2c' = Tail(s2c)
    <3>1. PICK m : m = Head(s2c) OBVIOUS
    <3>2. /\ Less(s2c, s2c', m) /\ All(s2c', Replies) \in Nat
          /\ All(s2c, Replies) = All(s2c', Replies) + One(m \in Replies)
      BY <2>2, <3>1, Received
    <3>3. One(m \in Replies) \in Nat BY DEF One
    <3>4. Keyed(s2c', "A", srv.key)
      <4>1. s2c \in Seq(Messages) /\ 0 \in Nat BY Streams
      <4>2. Keyed(s2c, "A", srv.key) BY <1>5 DEF Down
      <4> QED BY <3>2, <4>1, <4>2, TookKept
    <3>5. Down(s2c', cli', srv) BY <1>4, <3>4 DEF Down
    <3> QED BY <1>1, <3>2, <3>3, <3>5
  <2> QED BY <2>1, <2>2
<1>8. Up(c2s', srv, cli'.o) /\ All(c2s', Asks) = All(c2s, Asks) BY <1>2, <1>5
<1>9. srv.ck = "INIT" => \A k \in 1..Len(c2s') : c2s'[k].type # "C" BY DEF StepInv, StartInv
<1>10. 0 \in 0..asked' BY <1>5
<1>11. /\ asked' \in asked..MaxQuests /\ cli'.results \in 0..asked' /\ cli'.processing = 0
       /\ cli'.key \in {"none", srv.key} /\ (cli'.ck = cli.ck \/ srv.ck # "INIT")
  BY <1>2, <1>5, <1>10
<1>12. PICK a \in Nat : a = All(c2s', Asks) BY <1>1, <1>8
<1>13. /\ cli'.o + cli'.wq + asked <= cli.o + cli.wq + asked'
       /\ a + cli'.wq + asked <= All(c2s, Asks) + cli.wq + asked'
       /\ cli'.i + b <= cli.i + All(s2c, Replies)
  <2>1. cli'.o = cli.o /\ cli'.i = cli.i /\ cli'.wq = 0 /\ asked' = asked BY <1>2
  <2>2. cli.o \in Nat /\ cli.i \in Nat /\ cli.wq \in Nat /\ asked \in Nat BY <1>5
  <2>3. a = All(c2s, Asks) /\ b <= All(s2c, Replies) BY <1>7, <1>8, <1>12
  <2>4. PICK o \in Nat, i \in Nat, w \in Nat, n \in Nat : o = cli.o /\ i = cli.i /\ w = cli.wq /\ n = asked
    BY <2>2
  <2>5. PICK c \in Nat : c = All(s2c, Replies) /\ b <= c BY <1>1, <2>3
  <2>6. o + 0 + n <= o + w + n /\ a + 0 + n <= a + w + n /\ i + b <= i + c BY <2>5
  <2>7. cli'.o + cli'.wq + asked <= cli.o + cli.wq + asked' BY <2>1, <2>4, <2>6
  <2>8. a + cli'.wq + asked <= All(c2s, Asks) + cli.wq + asked' BY <2>1, <2>3, <2>4, <2>6
  <2>9. cli'.i + b <= cli.i + All(s2c, Replies) BY <2>1, <2>4, <2>5, <2>6
  <2> QED BY <2>7, <2>8, <2>9
<1>14. cli'.fd = "open" =>
         /\ cli.fd = "open"
         /\ cli'.wq + a + b + cli.results <= cli.wq + All(c2s, Asks) + All(s2c, Replies) + cli'.results
  BY <1>2
<1> QED BY <1>2, <1>3, <1>7, <1>8, <1>9, <1>11, <1>12, <1>13, <1>14, ClientStep, Zenon

\* The client writes quests.
LEMMA WrittenUp ==
  ASSUME AuthInv, StepInv, NEW e \in Ends, e.key = cli.key, e.o = cli.o, NEW n \in Nat,
         Grown(c2s, c2s', e, "Q", n)
  PROVE  /\ Up(c2s', srv, After(e, "Q", n).o) /\ All(c2s', Asks) = All(c2s, Asks) + n
         /\ srv.ck = "INIT" => \A k \in 1..Len(c2s') : c2s'[k].type # "C"
<1>1. c2s \in Seq(Messages) /\ srv \in Ends /\ "Q" \in {"Q", "A"} BY Streams
<1>2. Grown(c2s, c2s', e, "Q", n) OBVIOUS
<1>3. Up(c2s', srv, After(e, "Q", n).o)
  <2>1. Up(c2s, srv, e.o) /\ e.key \in {"none", srv.key} BY Known
  <2> QED BY <1>1, <1>2, <2>1, UpGrown
<1>4. All(c2s', Asks) = All(c2s, Asks) + n
  <2>1. 0 \in Nat OBVIOUS
  <2> QED BY <1>1, <1>2, <2>1, BurstKept
<1>5. ASSUME srv.ck = "INIT" PROVE \A k \in 1..Len(c2s') : c2s'[k].type # "C"
  <2>1. \A k \in 1..Len(c2s) : c2s[k].type # "C" BY <1>5 DEF StepInv, StartInv
  <2>2. PICK l \in Nat : l = Len(c2s) BY <1>1
  <2>3. \A k \in 1..(l + n) : k \in 1..l \/ k \in (l + 1)..(l + n) OBVIOUS
  <2>4. /\ Len(c2s') = l + n /\ \A k \in 1..l : c2s'[k] = c2s[k]
        /\ \A k \in (l + 1)..(l + n) : c2s'[k].type = "Q"
    BY <1>2, <2>2 DEF Grown
  <2> QED BY <2>1, <2>2, <2>3, <2>4
<1> QED BY <1>3, <1>4, <1>5

\* The client reads a message without encryption, or none.
LEMMA ReadDown ==
  ASSUME AuthInv, StepInv, cli' \in Ends, cli'.i = cli.i, Reading(cli') => Reading(cli),
         Reading(cli') /\ cli'.key = "none" => cli.key = "none", s2c' = s2c => cli'.key = cli.key,
         s2c' = s2c \/ (s2c # <<>> /\ s2c' = Tail(s2c) /\ Head(s2c).key = "none"),
         Reading(cli') /\ s2c' # s2c /\ Head(s2c).cmd = "SRP6a4" /\ cli'.key = "none" => srv.key = "none"
  PROVE  /\ Down(s2c', cli', srv) /\ All(s2c', Replies) \in Nat
         /\ All(s2c', Replies) <= All(s2c, Replies)
<1>1. cli \in Ends /\ srv \in Ends /\ s2c \in Seq(Messages) /\ All(s2c, Replies) \in Nat BY Streams
<1>2. Down(s2c, cli, srv) BY Known
<1>3. CASE s2c' = s2c
  <2>1. Down(s2c', cli', srv) BY <1>2, <1>3, DownSame
  <2> QED BY <1>1, <1>3, <2>1
<1>4. CASE s2c' # s2c
  <2>1. s2c # <<>> /\ s2c' = Tail(s2c) /\ Head(s2c).key = "none" BY <1>4
  <2>2. PICK m : m = Head(s2c) OBVIOUS
  <2>3. /\ Less(s2c, s2c', m) /\ All(s2c', Replies) \in Nat
        /\ All(s2c, Replies) = All(s2c', Replies) + One(m \in Replies)
    BY <2>1, <2>2, Received
  <2>4. One(m \in Replies) \in Nat BY DEF One
  <2>5. One(m.key # "none") = 0 /\ cli.i \in Nat BY <1>1, <2>1, <2>2, Fields DEF One
  <2>6. Reading(cli') => Reading(cli) /\ cli'.i = cli.i + One(m.key # "none") BY <2>5
  <2>7. Reading(cli') /\ cli'.key = "none" => cli.key = "none" /\ (m.cmd = "SRP6a4" => srv.key = "none")
    BY <1>4, <2>2
  <2>8. Down(s2c', cli', srv) BY <1>1, <1>2, <2>3, <2>6, <2>7, DownLess
  <2> QED BY <1>1, <2>3, <2>4, <2>8
<1> QED BY <1>3, <1>4

\* The queue is written, by do_write() or when Hello comes.
LEMMA ClientFlushes ==
  ASSUME AuthInv, StepInv, clientOnly, UNCHANGED asked, NEW e \in Ends, e.key = cli.key, e.o = cli.o,
         c2s' = c2s \o Burst(e, "Q", cli.wq), cli'.o = After(e, "Q", cli.wq).o,
         cli' \in Ends, SameEnd(cli', cli), cli'.i = cli.i, cli'.wq = 0, cli'.results = cli.results,
         cli'.state \in ST_INIT..ST_ERROR, Reading(cli') => Reading(cli),
         s2c' = s2c \/ (s2c # <<>> /\ s2c' = Tail(s2c) /\ Head(s2c).type = "H")
  PROVE  StepInv'
<1>1. cli \in Ends /\ srv \in Ends /\ All(c2s, Asks) \in Nat /\ All(s2c, Replies) \in Nat BY Streams
<1>2. /\ cli.o \in Nat /\ cli.i \in Nat /\ cli.wq \in Nat /\ asked \in 0..MaxQuests /\ asked \in asked..MaxQuests
      /\ cli.results \in 0..asked /\ cli.processing = 0 /\ cli.key \in {"none", srv.key}
  BY Known
<1>3. /\ Up(c2s', srv, cli'.o) /\ All(c2s', Asks) = All(c2s, Asks) + cli.wq
      /\ srv.ck = "INIT" => \A k \in 1..Len(c2s') : c2s'[k].type # "C"
  <2>1. "Q" \in {"Q", "A"} /\ c2s \in Seq(Messages) BY Streams
  <2>2. Grown(c2s, c2s', e, "Q", cli.wq) BY <1>2, <2>1, SentBurst
  <2> QED BY <1>2, <2>2, WrittenUp
<1>4. cli'.o \in Nat /\ cli'.o <= cli.o + cli.wq
  <2>1. "Q" \in {"Q", "A"} OBVIOUS
  <2>2. Wrote(After(e, "Q", cli.wq), e, cli.wq) BY <1>2, <2>1, AfterFields
  <2> QED BY <2>2 DEF Wrote
<1>5. cli'.key = cli.key /\ cli'.ck = cli.ck /\ cli'.processing = 0 /\ cli'.fd = cli.fd
  BY <1>2 DEF SameEnd
<1>6. s2c' = s2c \/ (s2c # <<>> /\ s2c' = Tail(s2c) /\ Head(s2c).key = "none" /\ Head(s2c).cmd # "SRP6a4")
  <2>1. CASE s2c # <<>> /\ s2c' = Tail(s2c) /\ Head(s2c).type = "H"
    <3>1. PICK m : m = Head(s2c) OBVIOUS
    <3>2. (m.key # "none" => m.type = "A") /\ (m.cmd = "SRP6a4" => m.type = "C") BY <2>1, <3>1, Received
    <3> QED BY <2>1, <3>1, <3>2
  <2> QED BY <2>1
<1>7. Down(s2c', cli', srv) /\ All(s2c', Replies) \in Nat /\ All(s2c', Replies) <= All(s2c, Replies)
  BY <1>5, <1>6, ReadDown
<1>8. s2c' = s2c \/ (s2c # <<>> /\ s2c' = Tail(s2c)) BY <1>6
<1>9. PICK a \in Nat : a = All(c2s', Asks) BY <1>1, <1>2, <1>3
<1>10. PICK b \in Nat : b = All(s2c', Replies) BY <1>7
<1>11. /\ cli'.o + cli'.wq + asked <= cli.o + cli.wq + asked'
       /\ a + cli'.wq + asked <= All(c2s, Asks) + cli.wq + asked'
       /\ cli'.i + b <= cli.i + All(s2c, Replies)
  <2>1. a = All(c2s, Asks) + cli.wq /\ b <= All(s2c, Replies) BY <1>3, <1>7, <1>9, <1>10
  <2>2. asked \in Nat /\ cli'.wq = 0 /\ asked' = asked /\ cli'.i = cli.i BY <1>2
  <2>3. cli.o \in Nat /\ cli.i \in Nat /\ cli.wq \in Nat BY <1>2
  <2>4. All(c2s, Asks) \in Nat /\ All(s2c, Replies) \in Nat BY <1>1
  <2>5. cli'.o + cli'.wq + asked <= cli.o + cli.wq + asked' BY <1>4, <2>2, <2>3
  <2>6. a + cli'.wq + asked <= All(c2s, Asks) + cli.wq + asked' BY <2>1, <2>2, <2>3, <2>4
  <2>7. cli'.i + b <= cli.i + All(s2c, Replies) BY <2>1, <2>2, <2>3, <2>4
  <2> QED BY <2>5, <2>6, <2>7
<1>12. cli'.fd = "open" =>
         /\ cli.fd = "open"
         /\ cli'.wq + a + b + cli.results <= cli.wq + All(c2s, Asks) + All(s2c, Replies) + cli'.results
  <2>1. a = All(c2s, Asks) + cli.wq /\ b <= All(s2c, Replies) BY <1>3, <1>7, <1>9, <1>10
  <2>2. cli.results \in Nat /\ cli'.wq = 0 /\ cli'.results = cli.results /\ cli'.fd = cli.fd BY <1>2, <1>5
  <2>3. All(c2s, Asks) \in Nat /\ All(s2c, Replies) \in Nat /\ cli.wq \in Nat BY <1>1, <1>2
  <2> QED BY <2>1, <2>2, <2>3
<1>13. /\ asked' \in asked..MaxQuests /\ cli'.results \in 0..asked' /\ cli'.key \in {"none", srv.key}
       /\ (cli'.ck = cli.ck \/ srv.ck # "INIT")
  BY <1>2, <1>5
<1> QED BY <1>3, <1>5, <1>7, <1>8, <1>9, <1>10, <1>11, <1>12, <1>13, ClientStep, Zenon

\* A step that counts nothing: the client reads, writes or does neither, and
\* none of it is encrypted.
Counters(f, e) ==
  /\ f.o = e.o /\ f.i = e.i /\ f.wq = e.wq
  /\ f.results = e.results /\ f.processing = e.processing /\ f.fd = e.fd

SendsPlain ==
  \/ c2s' = c2s
  \/ \E m \in Messages :
       m.key = "none" /\ m.type \in {"B", "C"} /\ c2s' = Append(c2s, m) /\ (m.type = "C" => srv.ck # "INIT")

LEMMA ClientPlain ==
  ASSUME AuthInv, StepInv, clientOnly, asked' = asked, cli' \in Ends, Counters(cli', cli),
         cli'.state \in ST_INIT..ST_ERROR, cli'.key \in {"none", srv.key}, Reading(cli') => Reading(cli),
         SendsPlain,
         cli'.ck = cli.ck \/ srv.ck # "INIT",
         Reading(cli') /\ cli'.key = "none" => cli.key = "none", s2c' = s2c => cli'.key = cli.key,
         s2c' = s2c \/ (s2c # <<>> /\ s2c' = Tail(s2c) /\ Head(s2c).key = "none"),
         Reading(cli') /\ s2c' # s2c /\ Head(s2c).cmd = "SRP6a4" /\ cli'.key = "none" => srv.key = "none"
  PROVE  StepInv'
<1>1. cli \in Ends /\ srv \in Ends /\ All(c2s, Asks) \in Nat /\ All(s2c, Replies) \in Nat BY Streams
<1>2. /\ cli.o \in Nat /\ cli.i \in Nat /\ cli.wq \in Nat /\ asked \in 0..MaxQuests /\ asked \in asked..MaxQuests
      /\ cli.results \in 0..asked /\ cli.processing = 0 /\ Up(c2s, srv, cli.o)
  BY Known
<1>3. /\ cli'.o = cli.o /\ cli'.i = cli.i /\ cli'.wq = cli.wq /\ cli'.results = cli.results
      /\ cli'.processing = 0 /\ cli'.fd = cli.fd
  BY <1>2 DEF Counters
<1>4. Down(s2c', cli', srv) /\ All(s2c', Replies) \in Nat /\ All(s2c', Replies) <= All(s2c, Replies)
  BY <1>3, ReadDown
<1>5. /\ Up(c2s', srv, cli'.o) /\ All(c2s', Asks) = All(c2s, Asks)
      /\ srv.ck = "INIT" => \A k \in 1..Len(c2s') : c2s'[k].type # "C"
  <2>1. CASE c2s' = c2s
    <3>1. srv.ck = "INIT" => \A k \in 1..Len(c2s) : c2s[k].type # "C" BY DEF StepInv, StartInv
    <3> QED BY <1>2, <1>3, <2>1, <3>1
  <2>2. CASE c2s' # c2s
    <3>1. PICK m \in Messages :
            m.key = "none" /\ m.type \in {"B", "C"} /\ c2s' = Append(c2s, m) /\ (m.type = "C" => srv.ck # "INIT")
      BY <2>2, Zenon DEF SendsPlain
    <3>2. /\ Up(c2s', srv, cli.o) /\ All(c2s', Asks) = All(c2s, Asks)
          /\ m.type = "B" /\ srv.ck = "INIT" => \A k \in 1..Len(c2s') : c2s'[k].type # "C"
      BY <3>1, SentUp
    <3> QED BY <1>3, <3>1, <3>2
  <2> QED BY <2>1, <2>2
<1>6. PICK a \in Nat : a = All(c2s', Asks) /\ a = All(c2s, Asks) BY <1>1, <1>5
<1>7. PICK b \in Nat : b = All(s2c', Replies) /\ b <= All(s2c, Replies) BY <1>4
<1>8. /\ cli'.o + cli'.wq + asked <= cli.o + cli.wq + asked'
      /\ a + cli'.wq + asked <= All(c2s, Asks) + cli.wq + asked'
      /\ cli'.i + b <= cli.i + All(s2c, Replies)
  <2>1. asked \in Nat BY <1>2
  <2>2. cli'.o + cli'.wq + asked <= cli.o + cli.wq + asked' BY <1>2, <1>3, <2>1
  <2>3. a + cli'.wq + asked <= All(c2s, Asks) + cli.wq + asked' BY <1>1, <1>2, <1>3, <1>6, <2>1
  <2>4. cli'.i + b <= cli.i + All(s2c, Replies) BY <1>1, <1>2, <1>3, <1>7
  <2> QED BY <2>2, <2>3, <2>4
<1>9. cli'.fd = "open" =>
        /\ cli.fd = "open"
        /\ cli'.wq + a + b + cli.results <= cli.wq + All(c2s, Asks) + All(s2c, Replies) + cli'.results
  <2>1. cli.results \in Nat BY <1>2
  <2> QED BY <1>1, <1>2, <1>3, <1>6, <1>7, <2>1
<1>10. asked' \in asked..MaxQuests /\ cli'.results \in 0..asked' BY <1>2, <1>3
<1>11. s2c' = s2c \/ (s2c # <<>> /\ s2c' = Tail(s2c)) OBVIOUS
<1> QED BY <1>3, <1>4, <1>5, <1>6, <1>7, <1>8, <1>9, <1>10, <1>11, ClientStep, Zenon

\* do_write()
LEMMA WriteInStep ==
  ASSUME AuthInv, StepInv, CWrite
  PROVE  StepInv'
<1>1. cli \in Ends /\ srv \in Ends /\ All(c2s, Asks) \in Nat /\ All(s2c, Replies) \in Nat BY Streams
<1>2. /\ cli.o \in Nat /\ cli.i \in Nat /\ cli.wq \in Nat /\ asked \in 0..MaxQuests /\ asked \in asked..MaxQuests
      /\ cli.results \in 0..asked /\ cli.processing = 0 /\ cli.key \in {"none", srv.key}
      /\ cli.state \in ST_INIT..ST_ERROR /\ Up(c2s, srv, cli.o)
  BY Known
<1>3. clientOnly /\ UNCHANGED <<s2c, asked>> BY DEF CWrite
<1>4. PICK x : x = IF cli.state < ST_WAITING_HELLO THEN ST_WAITING_HELLO ELSE cli.state OBVIOUS
<1>5. x \in Int /\ x \in ST_INIT..ST_ERROR /\ (x < ST_CLOSE => cli.state < ST_CLOSE)
  BY <1>2, <1>4 DEF ST_INIT, ST_WAITING_HELLO, ST_CLOSE, ST_ERROR
<1>6. PICK e \in Ends : /\ e = [cli EXCEPT !.state = x] /\ e.state = x /\ SameEnd(e, cli) /\ e.o = cli.o
                        /\ e.i = cli.i /\ e.wq = cli.wq /\ e.results = cli.results
  <2>1. [cli EXCEPT !.state = x] \in Ends BY <1>1, <1>5, StateSet
  <2> QED BY <2>1 DEF SameEnd, Ends
<1>7. \/ cli' = e /\ c2s' = c2s
      \/ cli' = [After(e, "Q", e.wq) EXCEPT !.wq = 0] /\ c2s' = c2s \o Burst(e, "Q", e.wq)
  BY <1>4, <1>6 DEF CWrite
<1>8. CASE cli' = e /\ c2s' = c2s
  <2>1. Reading(cli') => Reading(cli) BY <1>5, <1>6, <1>8 DEF Reading, SameEnd
  <2>2. cli' \in Ends /\ cli'.state \in ST_INIT..ST_ERROR BY <1>5, <1>6, <1>8
  <2>3. Counters(cli', cli) /\ cli'.key = cli.key /\ cli'.ck = cli.ck
    BY <1>6, <1>8 DEF SameEnd, Counters
  <2>4. SendsPlain BY <1>8 DEF SendsPlain
  <2> QED BY <1>2, <1>3, <2>1, <2>2, <2>3, <2>4, ClientPlain
<1>9. CASE cli' = [After(e, "Q", e.wq) EXCEPT !.wq = 0] /\ c2s' = c2s \o Burst(e, "Q", e.wq)
  <2>0. "Q" \in {"Q", "A"} /\ e.wq \in Nat /\ 0 \in Nat BY <1>2, <1>6
  <2>1. PICK a \in Ends : /\ a = After(e, "Q", e.wq) /\ SameEnd(a, e) /\ a.state = e.state
                          /\ a.i = e.i /\ a.results = e.results
    <3>1. Wrote(After(e, "Q", e.wq), e, e.wq) BY <2>0, AfterFields
    <3> QED BY <3>1 DEF Wrote
  <2>2. cli' = [a EXCEPT !.wq = 0] BY <1>9, <2>1
  <2>3. cli' \in Ends BY <2>0, <2>2, ZenonT(30) DEF Ends
  <2>4. /\ SameEnd(cli', cli) /\ cli'.o = a.o /\ cli'.i = cli.i /\ cli'.wq = 0 /\ cli'.results = cli.results
        /\ cli'.state = x
    BY <1>6, <2>1, <2>2 DEF SameEnd, Ends
  <2>5. Reading(cli') => Reading(cli) BY <1>5, <2>4 DEF Reading, SameEnd
  <2>6. e.key = cli.key /\ e.o = cli.o /\ e.wq = cli.wq BY <1>6 DEF SameEnd
  <2>7. c2s' = c2s \o Burst(e, "Q", cli.wq) /\ cli'.o = After(e, "Q", cli.wq).o
    BY <1>9, <2>1, <2>4, <2>6
  <2> QED BY <1>3, <1>5, <2>3, <2>4, <2>5, <2>6, <2>7, ClientFlushes
<1> QED BY <1>7, <1>8, <1>9

\* sendQuest()
LEMMA QuestInStep ==
  ASSUME AuthInv, StepInv, CQuest
  PROVE  StepInv'
<1>1. /\ cli \in Ends /\ srv \in Ends /\ c2s \in Seq(Messages)
      /\ All(c2s, Asks) \in Nat /\ All(s2c, Replies) \in Nat
  BY Streams
<1>2. /\ cli.o \in Nat /\ cli.i \in Nat /\ cli.wq \in Nat /\ asked \in 0..MaxQuests /\ MaxQuests \in Nat
      /\ cli.results \in 0..asked /\ cli.processing = 0 /\ cli.key \in {"none", srv.key}
      /\ cli.state \in ST_INIT..ST_ERROR /\ Up(c2s, srv, cli.o)
  BY Known
<1>3. clientOnly /\ s2c' = s2c /\ asked' = asked + 1 /\ asked < MaxQuests BY DEF CQuest
<1>4. asked' \in asked..MaxQuests /\ cli.results + 1 \in 0..asked' /\ cli.results + 1 \in Int /\ asked \in Nat
  BY <1>2, <1>3
<1>5. ASSUME NEW w \in Nat, NEW d \in Nat, NEW n \in Nat, cli' \in Ends, SameEnd(cli', cli), cli'.state = cli.state,
             cli'.i = cli.i, cli'.results = cli.results + 1, cli'.wq = w, cli'.o = d,
             Up(c2s', srv, cli'.o), All(c2s', Asks) = All(c2s, Asks) + n, d + w <= cli.o + cli.wq + 1,
             w + n = cli.wq + 1, srv.ck = "INIT" => \A k \in 1..Len(c2s') : c2s'[k].type # "C"
      PROVE  StepInv'
  <2>1. /\ cli'.key = cli.key /\ cli'.ck = cli.ck /\ cli'.fd = cli.fd /\ cli'.processing = 0
    BY <1>2, <1>5 DEF SameEnd
  <2>2. Reading(cli') => Reading(cli) BY <1>5, <2>1 DEF Reading
  <2>3. Down(s2c', cli', srv) BY <1>3, <1>5, <2>1, <2>2, ReadDown
  <2>4. PICK a \in Nat : a = All(c2s', Asks) /\ a = All(c2s, Asks) + n BY <1>1, <1>5
  <2>5. PICK b \in Nat : b = All(s2c', Replies) /\ b = All(s2c, Replies) BY <1>1, <1>3
  <2>6. cli'.o + cli'.wq + asked <= cli.o + cli.wq + asked' 
    <3>1. cli'.o = d /\ cli'.wq = w /\ asked' = asked + 1 /\ d + w <= cli.o + cli.wq + 1 BY <1>3, <1>5
    <3>2. cli.o \in Nat /\ cli.wq \in Nat /\ asked \in Nat BY <1>2, <1>4
    <3> QED BY <3>1, <3>2
  <2>7. a + cli'.wq + asked <= All(c2s, Asks) + cli.wq + asked'
    <3>1. cli'.wq = w /\ asked' = asked + 1 /\ w + n = cli.wq + 1 BY <1>3, <1>5
    <3>2. cli.wq \in Nat /\ asked \in Nat /\ All(c2s, Asks) \in Nat BY <1>1, <1>2, <1>4
    <3> QED BY <2>4, <3>1, <3>2
  <2>8. cli'.i + b <= cli.i + All(s2c, Replies) BY <1>1, <1>2, <1>5, <2>5
  <2>9. cli'.fd = "open" =>
          /\ cli.fd = "open"
          /\ cli'.wq + a + b + cli.results <= cli.wq + All(c2s, Asks) + All(s2c, Replies) + cli'.results
    <3>1. cli.results \in Nat /\ cli.wq \in Nat /\ All(c2s, Asks) \in Nat /\ All(s2c, Replies) \in Nat
      BY <1>1, <1>2
    <3>2. cli'.wq = w /\ w + n = cli.wq + 1 /\ cli'.results = cli.results + 1 /\ cli'.fd = cli.fd BY <1>5, <2>1
    <3> QED BY <2>4, <2>5, <3>1, <3>2
  <2>10. cli'.results \in 0..asked' /\ cli'.key \in {"none", srv.key} /\ cli'.state \in ST_INIT..ST_ERROR
    BY <1>2, <1>4, <1>5, <2>1
  <2> QED BY <1>3, <1>4, <1>5, <2>1, <2>3, <2>4, <2>5, <2>6, <2>7, <2>8, <2>9, <2>10, ClientStep, Zenon
<1>6. CASE cli' = [cli EXCEPT !.wq = cli.wq + 1, !.results = cli.results + 1] /\ c2s' = c2s
  <2>1. cli.wq + 1 \in Nat /\ 0 \in Nat BY <1>2
  <2>2. cli' \in Ends BY <1>1, <1>4, <1>6, <2>1, ZenonT(30) DEF Ends
  <2>3. /\ SameEnd(cli', cli) /\ cli'.state = cli.state /\ cli'.i = cli.i /\ cli'.o = cli.o
        /\ cli'.wq = cli.wq + 1 /\ cli'.results = cli.results + 1
    BY <1>1, <1>6 DEF SameEnd, Ends
  <2>4. srv.ck = "INIT" => \A k \in 1..Len(c2s') : c2s'[k].type # "C" BY <1>6 DEF StepInv, StartInv
  <2>5. Up(c2s', srv, cli'.o) /\ All(c2s', Asks) = All(c2s, Asks) + 0 BY <1>1, <1>2, <1>6, <2>3
  <2>6. cli.o + (cli.wq + 1) <= cli.o + cli.wq + 1 /\ (cli.wq + 1) + 0 = cli.wq + 1 BY <1>2
  <2> QED BY <1>2, <1>5, <2>1, <2>2, <2>3, <2>4, <2>5, <2>6
<1>7. CASE /\ cli.wq = 0 /\ cli' = [After(cli, "Q", 1) EXCEPT !.results = After(cli, "Q", 1).results + 1]
           /\ c2s' = Append(c2s, Message(cli, "Q", 1))
  <2>0. "Q" \in {"Q", "A"} /\ 1 \in Nat /\ 0 \in Nat OBVIOUS
  <2>1. PICK a \in Ends : a = After(cli, "Q", 1) /\ Wrote(a, cli, 1)
    <3>1. Wrote(After(cli, "Q", 1), cli, 1) BY <1>1, <2>0, AfterFields
    <3> QED BY <3>1 DEF Wrote
  <2>2. cli' = [a EXCEPT !.results = cli.results + 1] BY <1>7, <2>1 DEF Wrote
  <2>3. cli' \in Ends BY <1>4, <2>2, ZenonT(30) DEF Ends
  <2>4. /\ SameEnd(cli', cli) /\ cli'.state = cli.state /\ cli'.i = cli.i /\ cli'.o = a.o
        /\ cli'.wq = 0 /\ cli'.results = cli.results + 1 /\ a.o \in Nat /\ a.o <= cli.o + 1
    BY <1>7, <2>1, <2>2 DEF SameEnd, Ends, Wrote
  <2>5. Grown(c2s, c2s', cli, "Q", 1) BY <1>1, <1>7, <2>0, SentMessage
  <2>6. /\ Up(c2s', srv, cli'.o) /\ All(c2s', Asks) = All(c2s, Asks) + 1
        /\ srv.ck = "INIT" => \A k \in 1..Len(c2s') : c2s'[k].type # "C"
    <3>1. /\ Up(c2s', srv, After(cli, "Q", 1).o) /\ All(c2s', Asks) = All(c2s, Asks) + 1
          /\ srv.ck = "INIT" => \A k \in 1..Len(c2s') : c2s'[k].type # "C"
      BY <1>1, <2>0, <2>5, WrittenUp
    <3> QED BY <2>1, <2>4, <3>1
  <2>7. a.o + 0 <= cli.o + cli.wq + 1 /\ 0 + 1 = cli.wq + 1 BY <1>2, <1>7, <2>4
  <2> QED BY <1>5, <2>0, <2>3, <2>4, <2>6, <2>7
<1>8. cli.wq > 0 \/ cli.wq = 0 BY <1>2
<1> QED BY <1>6, <1>7, <1>8 DEF CQuest

\* close(false)
LEMMA CloseInStep ==
  ASSUME AuthInv, StepInv, CClose
  PROVE  StepInv'
<1>1. cli \in Ends BY Streams
<1>2. clientOnly /\ s2c' = s2c /\ asked' = asked BY DEF CClose
<1>3. PICK x \in {ST_CLOSE, ST_CLOSING} : cli' = [cli EXCEPT !.state = x] BY DEF CClose
<1>4. x \in Int /\ x \in ST_INIT..ST_ERROR /\ ~(x < ST_CLOSE)
  BY DEF ST_CLOSE, ST_CLOSING, ST_INIT, ST_ERROR
<1>5. cli' \in Ends BY <1>1, <1>3, <1>4, StateSet
<1>6. Counters(cli', cli) /\ cli'.state = x /\ cli'.ck = cli.ck /\ cli'.key = cli.key
  BY <1>1, <1>3 DEF Counters, Ends
<1>7. SendsPlain
  <2>1. CASE c2s' = c2s BY <2>1 DEF SendsPlain
  <2>2. CASE c2s' = Append(c2s, Plain("B"))
    <3>1. PICK m \in Messages : m = Plain("B") /\ m.key = "none" /\ m.type = "B"
      BY PlainMessages DEF Plain
    <3> QED BY <2>2, <3>1 DEF SendsPlain
  <2> QED BY <2>1, <2>2 DEF CClose
<1>8. ~Reading(cli') BY <1>4, <1>6 DEF Reading
<1>9. cli.key \in {"none", srv.key} BY Known
<1> QED BY <1>2, <1>4, <1>5, <1>6, <1>7, <1>8, <1>9, ClientPlain

\* An answer is taken; after the last one close() goes on.
LEMMA AnswerInStep ==
  ASSUME AuthInv, StepInv, clientOnly, asked' = asked, s2c # <<>>, s2c' = Tail(s2c), cli.fd = "open",
         NEW m, m = Head(s2c), m.type = "A", NEW e, e = Read(cli, m),
         \/ /\ cli.results = 1 /\ cli' = [e EXCEPT !.results = 0, !.state = ST_CLOSING]
            /\ c2s' = Append(c2s, Plain("B"))
         \/ cli' = [e EXCEPT !.results = e.results - 1] /\ c2s' = c2s
  PROVE  StepInv'
<1>1. /\ cli \in Ends /\ srv \in Ends /\ c2s \in Seq(Messages) /\ s2c \in Seq(Messages) /\ served \in Nat
      /\ All(c2s, Asks) \in Nat /\ All(s2c, Replies) \in Nat
  BY Streams
<1>2. /\ cli.o \in Nat /\ cli.i \in Nat /\ cli.wq \in Nat /\ asked \in 0..MaxQuests /\ asked \in asked..MaxQuests
      /\ cli.results \in 0..asked /\ cli.processing = 0 /\ cli.key \in {"none", srv.key}
      /\ cli.state \in ST_INIT..ST_ERROR /\ Up(c2s, srv, cli.o) /\ Down(s2c, cli, srv)
      /\ srv.processing \in 0..served
  BY Known
<1>3. /\ Less(s2c, s2c', m) /\ m \in Messages /\ srv.ck # "INIT" /\ m.cmd # "SRP6a4"
      /\ All(s2c, Replies) = All(s2c', Replies) + One(m \in Replies) /\ All(s2c', Replies) \in Nat
  BY Received
<1>4. One(m \in Replies) = 1 BY <1>3 DEF One, Replies
<1>5. cli.results \in 1..asked
  <2>1. cli.wq + All(c2s, Asks) + srv.processing + All(s2c, Replies) <= cli.results
    BY DEF StepInv, CountInv
  <2> QED BY <1>1, <1>2, <1>3, <1>4, <2>1
<1>6. /\ e \in Ends /\ SameEnd(e, cli) /\ e.state = cli.state /\ e.wq = cli.wq /\ e.o = cli.o
      /\ e.results = cli.results /\ e.i = cli.i + One(m.key # "none") /\ One(m.key # "none") \in {0, 1}
  <2>1. HasRead(e, cli, m) BY <1>1, <1>3, ReadFields
  <2> QED BY <2>1 DEF HasRead
<1>7. PICK x \in {cli.state, ST_CLOSING} :
        cli' = [e EXCEPT !.results = cli.results - 1, !.state = x]
  <2>1. CASE cli.results = 1 /\ cli' = [e EXCEPT !.results = 0, !.state = ST_CLOSING] BY <2>1
  <2>2. CASE cli' = [e EXCEPT !.results = e.results - 1]
    <3>1. cli' = [e EXCEPT !.results = cli.results - 1, !.state = cli.state] BY <1>6, <2>2 DEF Ends
    <3> QED BY <3>1
  <2> QED BY <2>1, <2>2
<1>8. x \in Int /\ x \in ST_INIT..ST_ERROR /\ (x < ST_CLOSE => cli.state < ST_CLOSE)
  BY <1>2 DEF ST_INIT, ST_ERROR, ST_CLOSE, ST_CLOSING
<1>9. cli.results - 1 \in 0..asked /\ cli.results - 1 \in Int BY <1>2, <1>5
<1>10. cli' \in Ends BY <1>6, <1>7, <1>8, <1>9, ZenonT(30) DEF Ends
<1>11. /\ SameEnd(cli', cli) /\ cli'.state = x /\ cli'.wq = cli.wq /\ cli'.o = cli.o
       /\ cli'.results = cli.results - 1 /\ cli'.i = cli.i + One(m.key # "none")
  BY <1>6, <1>7 DEF SameEnd, Ends
<1>12. cli'.key = cli.key /\ cli'.ck = cli.ck /\ cli'.fd = cli.fd /\ cli'.processing = 0
  BY <1>2, <1>11 DEF SameEnd
<1>13. Reading(cli') => Reading(cli) /\ cli'.i = cli.i + One(m.key # "none")
  BY <1>8, <1>11, <1>12 DEF Reading
<1>14. Down(s2c', cli', srv)
  <2>1. Reading(cli') /\ cli'.key = "none" => cli.key = "none" /\ (m.cmd = "SRP6a4" => srv.key = "none")
    BY <1>3, <1>12
  <2> QED BY <1>1, <1>2, <1>3, <1>10, <1>13, <2>1, DownLess
<1>15. /\ Up(c2s', srv, cli'.o) /\ All(c2s', Asks) = All(c2s, Asks)
  <2>1. CASE c2s' = c2s BY <1>2, <1>11, <2>1
  <2>2. CASE c2s' = Append(c2s, Plain("B"))
    <3>1. PICK p \in Messages : p = Plain("B") /\ p.key = "none" /\ p.type = "B"
      BY PlainMessages DEF Plain
    <3>2. Up(c2s', srv, cli.o) /\ All(c2s', Asks) = All(c2s, Asks) BY <2>2, <3>1, SentUp
    <3> QED BY <1>11, <3>2
  <2> QED BY <2>1, <2>2
<1>16. PICK a \in Nat : a = All(c2s', Asks) /\ a = All(c2s, Asks) BY <1>1, <1>15
<1>17. PICK b \in Nat : b = All(s2c', Replies) /\ All(s2c, Replies) = b + 1 BY <1>3, <1>4
<1>18. asked \in Nat /\ cli.results \in Nat BY <1>2
<1>19. cli'.o + cli'.wq + asked <= cli.o + cli.wq + asked' BY <1>2, <1>11, <1>18
<1>20. a + cli'.wq + asked <= All(c2s, Asks) + cli.wq + asked' BY <1>1, <1>2, <1>11, <1>16, <1>18
<1>21. cli'.i + b <= cli.i + All(s2c, Replies) 
  <2>1. PICK c \in {0, 1} : c = One(m.key # "none") BY <1>6
  <2>2. cli'.i = cli.i + c BY <1>11, <2>1
  <2>3. cli.i \in Nat BY <1>2
  <2> QED BY <1>17, <2>2, <2>3
<1>22. cli'.fd = "open" =>
         /\ cli.fd = "open"
         /\ cli'.wq + a + b + cli.results <= cli.wq + All(c2s, Asks) + All(s2c, Replies) + cli'.results
  <2>1. cli'.wq = cli.wq /\ cli'.results = cli.results - 1 /\ cli.wq \in Nat BY <1>2, <1>11
  <2>2. All(c2s, Asks) \in Nat BY <1>1
  <2> QED BY <1>16, <1>17, <1>18, <2>1, <2>2
<1>23. /\ asked' \in asked..MaxQuests /\ cli'.results \in 0..asked' /\ cli'.key \in {"none", srv.key}
       /\ cli'.state \in ST_INIT..ST_ERROR /\ (s2c' = s2c \/ (s2c # <<>> /\ s2c' = Tail(s2c)))
  BY <1>2, <1>8, <1>9, <1>11, <1>12
<1> QED BY <1>3, <1>10, <1>12, <1>14, <1>15, <1>16, <1>17, <1>19, <1>20, <1>21, <1>22, <1>23, ClientStep, Zenon

LEMMA FailInStep ==
  ASSUME AuthInv, StepInv, CFails, clientOnly, asked' = asked,
         s2c' = s2c \/ (s2c # <<>> /\ s2c' = Tail(s2c))
  PROVE  StepInv'
<1>1. ST_ERROR \in ST_INIT..ST_ERROR BY DEF ST_INIT, ST_ERROR
<1>2. cli' = Gone([cli EXCEPT !.state = ST_ERROR]) /\ c2s' = c2s BY DEF CFails, Failed
<1> QED BY <1>1, <1>2, ClientFailsStep

\* handle_check() of the client.
LEMMA CheckInStep ==
  ASSUME AuthInv, StepInv, clientOnly, asked' = asked, s2c # <<>>, s2c' = Tail(s2c),
         NEW m, m = Head(s2c), m.type = "C", CCheck(m)
  PROVE  StepInv'
<1>1. cli \in Ends /\ setup.secret \in Keys BY Streams DEF Setups, Keys
<1>2. /\ m \in ToClient /\ srv.ck # "INIT" /\ (m.key # "none" => m.type = "A")
      /\ (m.cmd = "SRP6a4" => m.type = "C" /\ (setup.cipher => srv.key # "none"))
  BY Received
<1>3. m.key = "none" /\ (m.cmd = "SRP6a4" => setup.secret = "good") BY <1>2 DEF ToClient
<1>4. /\ cli.key \in {"none", srv.key} /\ srv.key \in {"none", "good"} /\ cli.state \in ST_INIT..ST_ERROR
      /\ (srv.key # "none" => setup.cipher)
  BY Known
<1>5. s2c' # s2c
  <2>1. s2c \in Seq(Messages) BY Streams
  <2>2. Len(s2c) = Len(s2c') + 1 /\ Len(s2c') \in Nat BY <2>1, IsLess DEF Less
  <2>3. PICK n \in Nat : n = Len(s2c') /\ Len(s2c) = n + 1 BY <2>2
  <2>4. n # n + 1 OBVIOUS
  <2> QED BY <2>3, <2>4
<1>6. ASSUME NEW x \in Checks, NEW d \in {"SRP6a1", "SRP6a3"}, cli' = [cli EXCEPT !.ck = x],
             c2s' = Append(c2s, Check(d, setup.secret)), m.cmd # "SRP6a4"
      PROVE  StepInv'
  <2>1. cli' \in Ends BY <1>1, <1>6, ZenonT(30) DEF Ends
  <2>2. Counters(cli', cli) /\ cli'.state = cli.state /\ cli'.key = cli.key BY <1>1, <1>6 DEF Counters, Ends
  <2>3. Reading(cli') => Reading(cli) BY <2>2 DEF Reading, Counters
  <2>4. SendsPlain
    <3>1. d \in Cmds BY DEF Cmds
    <3>2. Check(d, setup.secret) \in Messages /\ Check(d, setup.secret).type = "C" BY <1>1, <3>1, CheckMessages
    <3>3. Check(d, setup.secret).key = "none" BY DEF Check
    <3>4. PICK p \in Messages : p = Check(d, setup.secret) /\ p.type = "C" /\ p.key = "none" BY <3>2, <3>3
    <3> QED BY <1>2, <1>6, <3>4 DEF SendsPlain
  <2>5. cli'.state \in ST_INIT..ST_ERROR /\ cli'.key \in {"none", srv.key} BY <1>4, <2>2
  <2>6. Head(s2c).key = "none" /\ Head(s2c).cmd # "SRP6a4" BY <1>3, <1>6
  <2> QED BY <1>2, <2>1, <2>2, <2>3, <2>4, <2>5, <2>6, ClientPlain
<1>7. ASSUME m.cmd = "SRP6a4", c2s' = c2s,
             cli' = [cli EXCEPT !.ck = "FINISH", !.key = IF setup.cipher THEN setup.secret ELSE cli.key]
      PROVE  StepInv'
  <2>1. PICK k : k = IF setup.cipher THEN "good" ELSE cli.key OBVIOUS
  <2>2. k \in Keys /\ "FINISH" \in Checks /\ cli' = [cli EXCEPT !.ck = "FINISH", !.key = k]
    BY <1>1, <1>3, <1>7, <2>1, Fields DEF Keys, Checks
  <2>3. cli' \in Ends BY <1>1, <2>2, ZenonT(30) DEF Ends
  <2>4. Counters(cli', cli) /\ cli'.state = cli.state /\ cli'.key = k BY <1>1, <2>2 DEF Counters, Ends
  <2>5. Reading(cli') => Reading(cli) BY <2>4 DEF Reading, Counters
  <2>6. SendsPlain BY <1>7 DEF SendsPlain
  <2>7. k \in {"none", srv.key} /\ (k = "none" => cli.key = "none" /\ srv.key = "none")
    BY <1>2, <1>4, <1>7, <2>1
  <2>8. cli'.state \in ST_INIT..ST_ERROR BY <1>4, <2>4
  <2> QED BY <1>2, <1>3, <1>5, <2>3, <2>4, <2>5, <2>6, <2>7, <2>8, ClientPlain
<1>8. CASE CFails BY <1>8, FailInStep
<1>9. CASE ~CFails
  <2>1. \/ /\ m.cmd # "SRP6a4" /\ cli' = [cli EXCEPT !.ck = "S2"]
           /\ c2s' = Append(c2s, Check("SRP6a1", setup.secret))
        \/ /\ m.cmd # "SRP6a4" /\ cli' = [cli EXCEPT !.ck = "S4"]
           /\ c2s' = Append(c2s, Check("SRP6a3", setup.secret))
        \/ /\ m.cmd = "SRP6a4" /\ c2s' = c2s
           /\ cli' = [cli EXCEPT !.ck = "FINISH", !.key = IF setup.cipher THEN setup.secret ELSE cli.key]
    BY <1>9 DEF CCheck
  <2>2. "S2" \in Checks /\ "S4" \in Checks BY DEF Checks
  <2> QED BY <1>6, <1>7, <2>1, <2>2
<1> QED BY <1>8, <1>9

\* recv_msg() and do_read() of the client.
LEMMA ReadInStep ==
  ASSUME AuthInv, StepInv, CRecv
  PROVE  StepInv'
<1>1. /\ cli \in Ends /\ srv \in Ends BY Streams
<1>2. /\ cli.o \in Nat /\ cli.i \in Nat /\ cli.wq \in Nat /\ cli.key \in {"none", srv.key}
      /\ cli.state \in ST_INIT..ST_ERROR
  BY Known
<1>3. /\ clientOnly /\ asked' = asked /\ s2c # <<>> /\ s2c' = Tail(s2c) /\ cli.fd = "open"
  BY DEF CRecv
<1>4. PICK m : m = Head(s2c) OBVIOUS
<1>5. m \in ToClient /\ m \in Messages /\ srv.ck # "INIT" /\ (m.key # "none" => m.type = "A")
      /\ (m.cmd = "SRP6a4" => m.type = "C")
  BY <1>3, <1>4, Received
<1>6. m.type \in {"C", "H", "B", "A"} BY <1>5 DEF ToClient
<1>7. CASE CFails BY <1>3, <1>7, FailInStep
<1>8. CASE m.type = "H" /\ ~CFails
  <2>1. CASE /\ cli.state < ST_ACTIVE /\ cli' = [After(cli, "Q", cli.wq) EXCEPT !.state = ST_ACTIVE, !.wq = 0]
             /\ c2s' = c2s \o Burst(cli, "Q", cli.wq)
    <3>0. "Q" \in {"Q", "A"} /\ 0 \in Nat OBVIOUS
    <3>1. PICK a \in Ends : a = After(cli, "Q", cli.wq) /\ Wrote(a, cli, cli.wq)
      <4>1. Wrote(After(cli, "Q", cli.wq), cli, cli.wq) BY <1>1, <1>2, <3>0, AfterFields
      <4> QED BY <4>1 DEF Wrote
    <3>2. ST_ACTIVE \in Int /\ ST_ACTIVE \in ST_INIT..ST_ERROR /\ cli' = [a EXCEPT !.state = ST_ACTIVE, !.wq = 0]
      BY <2>1, <3>1 DEF ST_ACTIVE, ST_INIT, ST_ERROR
    <3>3. cli' \in Ends BY <3>0, <3>2, ZenonT(30) DEF Ends
    <3>4. /\ SameEnd(cli', cli) /\ cli'.o = a.o /\ cli'.i = cli.i /\ cli'.wq = 0 /\ cli'.results = cli.results
          /\ cli'.state = ST_ACTIVE
      BY <3>1, <3>2 DEF SameEnd, Ends, Wrote
    <3>5. Reading(cli') => Reading(cli) BY <1>2, <2>1, <3>4 DEF Reading, SameEnd, ST_ACTIVE, ST_CLOSE, ST_INIT, ST_ERROR
    <3>6. cli'.o = After(cli, "Q", cli.wq).o /\ cli'.state \in ST_INIT..ST_ERROR BY <3>1, <3>2, <3>4
    <3>7. c2s' = c2s \o Burst(cli, "Q", cli.wq) /\ Head(s2c).type = "H" BY <1>4, <1>8, <2>1
    <3> QED BY <1>1, <1>3, <3>3, <3>4, <3>5, <3>6, <3>7, ClientFlushes
  <2>2. CASE UNCHANGED <<cli, c2s>>
    <3>1. Counters(cli', cli) /\ cli' = cli BY <2>2 DEF Counters
    <3>2. SendsPlain BY <2>2 DEF SendsPlain
    <3>3. (Reading(cli') => Reading(cli)) /\ cli'.ck = cli.ck BY <3>1
    <3>4. Head(s2c).key = "none" /\ Head(s2c).cmd # "SRP6a4" BY <1>4, <1>5, <1>8
    <3> QED BY <1>1, <1>2, <1>3, <3>1, <3>2, <3>3, <3>4, ClientPlain
  <2> QED BY <1>4, <1>8, <2>1, <2>2 DEF CRecv
<1>9. CASE m.type = "B" /\ ~CFails
  <2>1. cli' = Gone([cli EXCEPT !.state = ST_CLOSED]) /\ c2s' = c2s BY <1>4, <1>9 DEF CRecv
  <2>2. ST_CLOSED \in ST_INIT..ST_ERROR BY DEF ST_INIT, ST_ERROR, ST_CLOSED
  <2> QED BY <1>3, <2>1, <2>2, ClientFailsStep
<1>10. CASE m.type = "C" /\ ~CFails
  <2>1. CCheck(m) BY <1>4, <1>10 DEF CRecv
  <2> QED BY <1>3, <1>4, <1>10, <2>1, CheckInStep
<1>11. CASE m.type = "A" /\ ~CFails
  <2>1. PICK e : e = Read(cli, m) OBVIOUS
  <2>2. \/ /\ cli.results = 1 /\ cli' = [e EXCEPT !.results = 0, !.state = ST_CLOSING]
           /\ c2s' = Append(c2s, Plain("B"))
        \/ cli' = [e EXCEPT !.results = e.results - 1] /\ c2s' = c2s
    BY <1>4, <1>11, <2>1 DEF CRecv
  <2> QED BY <1>3, <1>4, <1>11, <2>1, <2>2, AnswerInStep
<1> QED BY <1>6, <1>7, <1>8, <1>9, <1>10, <1>11

LEMMA ClientStays ==
  ASSUME AuthInv, StepInv, Client
  PROVE  StepInv'
<1>1. CASE CEnd
  <2>1. CFails /\ clientOnly /\ s2c' = s2c /\ asked' = asked BY <1>1 DEF CEnd
  <2> QED BY <2>1, FailInStep
<1> QED BY <1>1, WriteInStep, QuestInStep, CloseInStep, ReadInStep DEF Client

-----------------------------------------------------------------------------
(* The ciphers: the server. *)

\* The server has taken a message from its stream.
LEMMA Arrived ==
  ASSUME AuthInv, StepInv, c2s # <<>>, c2s' = Tail(c2s), NEW m, m = Head(c2s)
  PROVE  /\ Less(c2s, c2s', m) /\ m \in ToServer /\ m \in Messages
         /\ All(c2s, Asks) = All(c2s', Asks) + One(m \in Asks) /\ All(c2s', Asks) \in Nat
         /\ m.key # "none" => m.type = "Q"
         /\ srv.ck = "INIT" => m.type # "C" /\ \A k \in 1..Len(c2s') : c2s'[k].type # "C"
<1>1. c2s \in Seq(Messages) BY Streams
<1>2. Less(c2s, c2s', m) BY <1>1, IsLess
<1>3. m \in ToServer /\ m \in Messages
  <2>1. c2s \in Seq(ToServer) BY DEF AuthInv, Types
  <2>2. m \in ToServer BY <2>1
  <2> QED BY <2>2 DEF ToServer
<1>4. All(c2s, Asks) = All(c2s', Asks) + One(m \in Asks) BY <1>1, <1>2, Took
<1>5. All(c2s', Asks) \in Nat
  <2>1. c2s' \in Seq(Messages) BY <1>2 DEF Less
  <2> QED BY <2>1, CountsAll
<1>6. Keyed(c2s, "Q", srv.key) BY Known DEF Up
<1>7. srv.ck = "INIT" => \A k \in 1..Len(c2s) : c2s[k].type # "C" BY DEF StepInv, StartInv
<1>8. m = c2s[1] /\ 1 \in 1..Len(c2s) /\ \A k \in 1..Len(c2s') : k + 1 \in 1..Len(c2s) /\ c2s'[k] = c2s[k + 1]
  BY <1>1, <1>2 DEF Less
<1> QED BY <1>2, <1>3, <1>4, <1>5, <1>6, <1>7, <1>8 DEF Keyed

\* The server's proof is a Check message, and with it the cipher is on.
Proven(q, key) ==
  \A k \in 1..Len(q) : q[k].cmd = "SRP6a4" => q[k].type = "C" /\ (setup.cipher => key # "none")

\* The server sends a message without encryption; with its proof the cipher is switched on.
LEMMA SentDown ==
  ASSUME NEW q \in Seq(Messages), NEW r, NEW m \in Messages, m.key = "none", m.type \notin {"Q", "A"}, r = Append(q, m),
         NEW e \in Ends, NEW f \in Ends, NEW c \in Ends, Down(q, c, e), Proven(q, e.key), f.o = e.o,
         \/ f.key = e.key /\ m.cmd # "SRP6a4"
         \/ m.cmd = "SRP6a4" /\ m.type = "C" /\ (setup.cipher => f.key # "none") /\ e.key \in {"none", f.key}
  PROVE  /\ Down(r, c, f) /\ Proven(r, f.key)
         /\ r \in Seq(Messages) /\ All(r, Replies) = All(q, Replies)
<1>1. More(q, r, m) BY IsMore
<1>2. e.key = f.key \/ (e.key = "none" /\ m.cmd = "SRP6a4") OBVIOUS
<1>3. Down(r, c, f) BY <1>1, <1>2, DownMore
<1>4. All(r, Replies) = All(q, Replies)
  <2>1. 0 \in Nat OBVIOUS
  <2> QED BY <1>1, <2>1, PlainKept
<1>5. Proven(r, f.key)
  <2>1. PICK l \in Nat : l = Len(q) OBVIOUS
  <2>2. Len(r) = l + 1 /\ r[l + 1] = m /\ \A k \in 1..l : r[k] = q[k] BY <1>1, <2>1 DEF More
  <2>3. \A k \in 1..(l + 1) : k \in 1..l \/ k = l + 1 OBVIOUS
  <2>4. \A k \in 1..l : q[k].cmd = "SRP6a4" => q[k].type = "C" /\ (setup.cipher => e.key # "none")
    BY <2>1 DEF Proven
  <2>5. m.cmd = "SRP6a4" => m.type = "C" /\ (setup.cipher => f.key # "none") OBVIOUS
  <2>6. e.key # "none" => f.key # "none" OBVIOUS
  <2> QED BY <2>2, <2>3, <2>4, <2>5, <2>6 DEF Proven
<1> QED BY <1>1, <1>3, <1>4, <1>5 DEF More

\* What is still to be shown of a step of the server.
LEMMA ServerStep ==
  ASSUME AuthInv, StepInv, serverOnly, srv' \in Ends, srv'.wq = 0, srv'.results = 0,
         srv'.state \in ST_INIT..ST_ERROR, timer' \in {"off", "armed", "popped"}, dying' \in BOOLEAN,
         served' \in Nat, srv'.processing \in 0..served',
         srv'.key \in {"none", "good"}, cli.key \in {"none", srv'.key}, srv'.key # "none" => setup.cipher,
         Up(c2s', srv', cli.o), Down(s2c', cli, srv'), Proven(s2c', srv'.key), StartInv',
         NEW a \in Nat, a = All(c2s', Asks), NEW b \in Nat, b = All(s2c', Replies),
         served' + a <= served + All(c2s, Asks), srv'.i + a <= srv.i + All(c2s, Asks),
         srv'.o + srv'.processing + served <= srv.o + srv.processing + served',
         b + srv'.processing + served <= All(s2c, Replies) + srv.processing + served',
         a + srv'.processing + b <= All(c2s, Asks) + srv.processing + All(s2c, Replies)
  PROVE  StepInv'
<1>1. UNCHANGED <<cli, asked>> /\ UNCHANGED <<setup, cli>> BY DEF serverOnly
<1>2. CountInv' BY <1>1, ServerCounts
<1>3. \A k \in 1..Len(s2c') : s2c'[k].cmd = "SRP6a4" => s2c'[k].type = "C" /\ (setup.cipher => srv'.key # "none")
  BY DEF Proven
<1> QED BY <1>1, <1>2, <1>3, ServerInStep

\* A step that counts nothing: the server sends a message without encryption or
\* nothing, and reads one, or gives up.
Quiet(f, e) ==
  f.o = e.o /\ f.i = e.i /\ f.processing = e.processing /\ f.key = e.key /\ f.wq = 0 /\ f.results = 0

SaysPlain ==
  \/ s2c' = s2c
  \/ \E m \in Messages : /\ m.key = "none" /\ m.type \notin {"Q", "A"} /\ m.cmd # "SRP6a4" /\ s2c' = Append(s2c, m)
                         /\ srv'.ck # "INIT"

Hears ==
  c2s' = c2s \/ (c2s # <<>> /\ c2s' = Tail(c2s) /\ (Reading(srv') => Head(c2s).key = "none"))

LEMMA ServerQuiet ==
  ASSUME AuthInv, StepInv, serverOnly, served' = served, srv' \in Ends, Quiet(srv', srv),
         srv'.state \in ST_INIT..ST_ERROR, Reading(srv') => Reading(srv),
         timer' \in {"off", "armed", "popped"}, dying' \in BOOLEAN, Hears, SaysPlain,
         srv'.ck = "INIT" => srv.ck = "INIT" /\ (srv'.fd = "open" => srv.fd = "open" /\ srv'.state = srv.state)
  PROVE  StepInv'
<1>1. /\ cli \in Ends /\ srv \in Ends /\ served \in Nat /\ c2s \in Seq(Messages) /\ s2c \in Seq(Messages)
      /\ All(c2s, Asks) \in Nat /\ All(s2c, Replies) \in Nat
  BY Streams
<1>2. /\ srv.o \in Nat /\ srv.i \in Nat /\ srv.processing \in 0..served
      /\ srv.key \in {"none", "good"} /\ cli.key \in {"none", srv.key} /\ (srv.key # "none" => setup.cipher)
      /\ Up(c2s, srv, cli.o) /\ Down(s2c, cli, srv)
      /\ Proven(s2c, srv.key)
  BY Known DEF Proven
<1>3. /\ srv'.o = srv.o /\ srv'.i = srv.i /\ srv'.processing = srv.processing /\ srv'.key = srv.key
      /\ srv'.wq = 0 /\ srv'.results = 0
  BY DEF Quiet
<1>4. /\ Up(c2s', srv', cli.o) /\ All(c2s', Asks) \in Nat /\ All(c2s', Asks) <= All(c2s, Asks)
      /\ srv.ck = "INIT" => \A k \in 1..Len(c2s') : c2s'[k].type # "C"
  <2>1. CASE c2s' = c2s
    <3>1. Up(c2s, srv', cli.o) BY <1>2, <1>3, UpSame
    <3>2. srv.ck = "INIT" => \A k \in 1..Len(c2s) : c2s[k].type # "C" BY DEF StepInv, StartInv
    <3> QED BY <1>1, <2>1, <3>1, <3>2
  <2>2. CASE c2s # <<>> /\ c2s' = Tail(c2s) /\ (Reading(srv') => Head(c2s).key = "none")
    <3>1. PICK m : m = Head(c2s) OBVIOUS
    <3>2. /\ Less(c2s, c2s', m) /\ m \in Messages
          /\ All(c2s, Asks) = All(c2s', Asks) + One(m \in Asks) /\ All(c2s', Asks) \in Nat
          /\ srv.ck = "INIT" => \A k \in 1..Len(c2s') : c2s'[k].type # "C"
      BY <2>2, <3>1, Arrived
    <3>3. One(m \in Asks) \in Nat BY DEF One
    <3>4. Reading(srv') => Reading(srv) /\ srv'.i = srv.i + One(m.key # "none")
      <4>1. Reading(srv') => One(m.key # "none") = 0 BY <2>2, <3>1 DEF One
      <4> QED BY <1>2, <1>3, <4>1
    <3>5. srv.key \in {"none", srv'.key} BY <1>3
    <3>6. Up(c2s', srv', cli.o) BY <1>1, <1>2, <3>2, <3>4, <3>5, UpLess
    <3> QED BY <1>1, <3>2, <3>3, <3>6
  <2> QED BY <2>1, <2>2 DEF Hears
<1>5. /\ Down(s2c', cli, srv') /\ Proven(s2c', srv'.key) /\ All(s2c', Replies) = All(s2c, Replies)
      /\ srv'.ck = "INIT" => s2c' = s2c
  <2>1. CASE s2c' = s2c
    <3>1. Down(s2c, cli, srv') BY <1>2, <1>3, DownSame
    <3> QED BY <1>2, <1>3, <2>1, <3>1
  <2>2. CASE s2c' # s2c
    <3>1. PICK m \in Messages : /\ m.key = "none" /\ m.type \notin {"Q", "A"} /\ m.cmd # "SRP6a4"
                                /\ s2c' = Append(s2c, m) /\ srv'.ck # "INIT"
      BY <2>2, Zenon DEF SaysPlain
    <3>2. Down(s2c', cli, srv') /\ Proven(s2c', srv'.key) /\ All(s2c', Replies) = All(s2c, Replies)
      BY <1>1, <1>2, <1>3, <3>1, SentDown
    <3> QED BY <3>1, <3>2
  <2> QED BY <2>1, <2>2
<1>6. StartInv'
  <2>1. cli' = cli BY DEF serverOnly
  <2>2. srv.ck = "INIT" =>
          /\ s2c = <<>> /\ cli.ck = "INIT" /\ srv.processing = 0
          /\ (srv.fd = "open" => srv.state = ST_WAITING_HELLO)
    BY DEF StepInv, StartInv
  <2> QED BY <1>3, <1>4, <1>5, <2>1, <2>2 DEF StartInv
<1>7. PICK a \in Nat : a = All(c2s', Asks) /\ a <= All(c2s, Asks) BY <1>4
<1>8. PICK b \in Nat : b = All(s2c', Replies) /\ b = All(s2c, Replies) BY <1>1, <1>5
<1>9. PICK p \in Nat : p = srv.processing /\ srv'.processing = p /\ p \in 0..served BY <1>1, <1>2, <1>3
<1>10. /\ served' + a <= served + All(c2s, Asks) /\ srv'.i + a <= srv.i + All(c2s, Asks)
  BY <1>1, <1>2, <1>3, <1>7
<1>11. srv'.o + srv'.processing + served <= srv.o + srv.processing + served' BY <1>1, <1>2, <1>3, <1>9
<1>12. b + srv'.processing + served <= All(s2c, Replies) + srv.processing + served' BY <1>1, <1>8, <1>9
<1>13. a + srv'.processing + b <= All(c2s, Asks) + srv.processing + All(s2c, Replies) BY <1>1, <1>7, <1>8, <1>9
<1>14. /\ served' \in Nat /\ srv'.processing \in 0..served' /\ srv'.key \in {"none", "good"}
       /\ cli.key \in {"none", srv'.key} /\ (srv'.key # "none" => setup.cipher)
  BY <1>1, <1>2, <1>3, <1>9
<1> QED BY <1>3, <1>4, <1>5, <1>6, <1>7, <1>8, <1>10, <1>11, <1>12, <1>13, <1>14, ServerStep, Zenon

\* The server's end is gone: no event of its socket is handled any more.
LEMMA ServerLeaves ==
  ASSUME AuthInv, StepInv, serverOnly, served' = served, NEW x \in Int, x \in ST_INIT..ST_ERROR,
         srv' = Gone([srv EXCEPT !.state = x]) \/ (srv' = Gone(srv) /\ x = srv.state),
         timer' \in {"off", "armed", "popped"}, dying' \in BOOLEAN, s2c' = s2c,
         c2s' = c2s \/ (c2s # <<>> /\ c2s' = Tail(c2s))
  PROVE  StepInv'
<1>1. srv \in Ends BY Streams
<1>2. /\ srv' \in Ends /\ srv'.fd = "closed" /\ srv'.wq = 0 /\ srv'.results = 0 /\ srv'.state \in {x, ST_CLOSED}
      /\ srv'.ck = srv.ck /\ srv'.key = srv.key /\ srv'.o = srv.o /\ srv'.i = srv.i
      /\ srv'.processing = srv.processing
  BY <1>1, GoneFields
<1>3. srv'.state \in ST_INIT..ST_ERROR BY <1>2 DEF ST_INIT, ST_ERROR, ST_CLOSED
<1>4. ~Reading(srv') BY <1>2 DEF Reading
<1>5. Quiet(srv', srv) BY <1>2 DEF Quiet
<1>6. Hears BY <1>4 DEF Hears
<1>7. SaysPlain BY DEF SaysPlain
<1>8. srv'.ck = "INIT" => srv.ck = "INIT" /\ (srv'.fd = "open" => srv.fd = "open" /\ srv'.state = srv.state)
  BY <1>2
<1> QED BY <1>2, <1>3, <1>4, <1>5, <1>6, <1>7, <1>8, ServerQuiet

LEMMA ServerFailsStep ==
  ASSUME AuthInv, StepInv, serverOnly, served' = served, SFails,
         c2s' = c2s \/ (c2s # <<>> /\ c2s' = Tail(c2s))
  PROVE  StepInv'
<1>1. ST_ERROR \in Int /\ ST_ERROR \in ST_INIT..ST_ERROR BY DEF ST_INIT, ST_ERROR
<1>2. srv' = Gone([srv EXCEPT !.state = ST_ERROR]) /\ timer' = "off" /\ s2c' = s2c /\ dying' = dying
  BY DEF SFails, Failed
<1>3. dying \in BOOLEAN BY DEF StepInv, CountInv
<1>4. timer' \in {"off", "armed", "popped"} /\ dying' \in BOOLEAN BY <1>2, <1>3
<1> QED BY <1>1, <1>2, <1>4, ServerLeaves

\* The state, the step of the handshake and the descriptor change, and no message is read.
LEMMA ServerTurns ==
  ASSUME AuthInv, StepInv, serverOnly, served' = served, NEW c \in Checks, NEW x \in Int, NEW f \in Fds,
         x \in ST_INIT..ST_ERROR, srv' = [srv EXCEPT !.ck = c, !.state = x, !.fd = f],
         timer' \in {"off", "armed", "popped"}, dying' \in BOOLEAN,
         x < ST_CLOSE /\ f = "open" => Reading(srv), SaysPlain,
         Hears, c # "INIT"
  PROVE  StepInv'
<1>1. srv \in Ends /\ srv.wq = 0 /\ srv.results = 0 BY Streams, Known
<1>2. srv' \in Ends BY <1>1, ZenonT(30) DEF Ends
<1>3. /\ srv'.ck = c /\ srv'.state = x /\ srv'.fd = f /\ srv'.wq = 0 /\ srv'.results = 0
      /\ srv'.key = srv.key /\ srv'.o = srv.o /\ srv'.i = srv.i /\ srv'.processing = srv.processing
  BY <1>1 DEF Ends
<1>4. Quiet(srv', srv) BY <1>3 DEF Quiet
<1>5. Reading(srv') => Reading(srv) BY <1>3 DEF Reading
<1>6. srv'.ck # "INIT" BY <1>3
<1> QED BY <1>2, <1>3, <1>4, <1>5, <1>6, ServerQuiet

LEMMA Says ==
  ASSUME NEW m \in Messages, m.key = "none", m.type \notin {"Q", "A"}, m.cmd # "SRP6a4", s2c' = Append(s2c, m),
         srv'.ck # "INIT"
  PROVE  SaysPlain
BY DEF SaysPlain

\* Hello, Bye and the Check messages but the proof.
LEMMA PlainSays ==
  /\ \A t \in {"H", "B"} : /\ Plain(t) \in Messages /\ Plain(t).key = "none" /\ Plain(t).type = t
                           /\ Plain(t).cmd # "SRP6a4"
  /\ \A c \in Cmds : \A d \in {"", "good"} :
       /\ Check(c, d) \in Messages /\ Check(c, d).key = "none" /\ Check(c, d).type = "C" /\ Check(c, d).cmd = c
<1>1. \A t \in {"H", "B"} : Plain(t) \in Messages /\ Plain(t).type = t BY PlainMessages
<1>2. \A t \in {"H", "B"} : Plain(t).key = "none" /\ Plain(t).cmd # "SRP6a4" BY DEF Plain
<1>3. \A c \in Cmds : \A d \in {"", "good"} :
        Check(c, d) \in Messages /\ Check(c, d).type = "C" /\ Check(c, d).cmd = c
  <2>1. {"", "good"} \subseteq Keys \cup {""} BY DEF Keys
  <2> QED BY <2>1, CheckMessages
<1>4. \A c \in Cmds : \A d \in {"", "good"} : Check(c, d).key = "none" BY DEF Check
<1> QED BY <1>1, <1>2, <1>3, <1>4

\* start()
LEMMA StartInStep ==
  ASSUME AuthInv, StepInv, SStart
  PROVE  StepInv'
<1>1. srv \in Ends /\ srv.state \in Int /\ srv.fd \in Fds BY Streams, Fields
<1>2. /\ srv.state \in ST_INIT..ST_ERROR /\ timer \in {"off", "armed", "popped"} /\ dying \in BOOLEAN
  BY DEF StepInv, CountInv
<1>3. serverOnly /\ served' = served /\ c2s' = c2s /\ dying' = dying /\ srv.ck = "INIT" BY DEF SStart
<1>4. Hears BY <1>3 DEF Hears
<1>5. "S1" \in Checks /\ "FINISH" \in Checks /\ Fds = {"open", "stray", "closed"} BY DEF Checks, Fds
<1>6. srv.fd = "open" => Reading(srv)
  BY <1>3 DEF StepInv, StartInv, Reading, ST_CLOSE, ST_WAITING_HELLO
<1>7. ST_ACTIVE \in ST_INIT..ST_ERROR /\ ST_ERROR \in ST_INIT..ST_ERROR /\ ST_ACTIVE \in Int /\ ST_ERROR \in Int
      /\ ~(ST_ERROR < ST_CLOSE)
  BY DEF ST_INIT, ST_ACTIVE, ST_ERROR, ST_CLOSE
<1>8. CASE StartSends /\ setup.shadow
  <2>1. /\ srv' = [srv EXCEPT !.ck = "S1"] /\ timer' = "armed" /\ s2c' = Append(s2c, Check("AUTHENTICATE", ""))
    BY <1>8 DEF StartSends
  <2>2. srv' = [srv EXCEPT !.ck = "S1", !.state = srv.state, !.fd = srv.fd] BY <1>1, <2>1 DEF Ends
  <2>3. srv'.ck # "INIT" BY <1>1, <2>1 DEF Ends
  <2>4. PICK m \in Messages : /\ m = Check("AUTHENTICATE", "") /\ m.key = "none" /\ m.type \notin {"Q", "A"}
                              /\ m.cmd # "SRP6a4"
    BY PlainSays DEF Cmds
  <2>5. SaysPlain BY <2>1, <2>3, <2>4, Says
  <2>6. "S1" # "INIT" /\ timer' \in {"off", "armed", "popped"} /\ dying' \in BOOLEAN BY <1>2, <1>3, <2>1
  <2>7. srv.state < ST_CLOSE /\ srv.fd = "open" => Reading(srv) BY DEF Reading
  <2> QED BY <1>1, <1>2, <1>3, <1>4, <1>5, <2>2, <2>5, <2>6, <2>7, ServerTurns
<1>9. CASE StartSends /\ ~setup.shadow
  <2>1. /\ srv' = [srv EXCEPT !.ck = "FINISH", !.state = ST_ACTIVE] /\ timer' = timer
        /\ s2c' = Append(s2c, Plain("H")) /\ srv.fd = "open"
    BY <1>9 DEF StartSends
  <2>2. srv' = [srv EXCEPT !.ck = "FINISH", !.state = ST_ACTIVE, !.fd = srv.fd] BY <1>1, <2>1 DEF Ends
  <2>3. srv'.ck # "INIT" BY <1>1, <2>1 DEF Ends
  <2>4. PICK m \in Messages : /\ m = Plain("H") /\ m.key = "none" /\ m.type \notin {"Q", "A"} /\ m.cmd # "SRP6a4"
    BY PlainSays
  <2>5. SaysPlain BY <2>1, <2>3, <2>4, Says
  <2>6. "FINISH" # "INIT" /\ timer' \in {"off", "armed", "popped"} /\ dying' \in BOOLEAN BY <1>2, <1>3, <2>1
  <2>7. ST_ACTIVE < ST_CLOSE /\ srv.fd = "open" => Reading(srv) BY <1>6
  <2> QED BY <1>1, <1>3, <1>4, <1>5, <1>7, <2>2, <2>5, <2>6, <2>7, ServerTurns
<1>10. CASE StartThrows
  <2>1. PICK c \in {"S1", "FINISH"}, f \in Fds, x \in {srv.state, ST_ERROR} :
          /\ srv' = [srv EXCEPT !.ck = c, !.state = x, !.fd = f]
          /\ x = ST_ERROR \/ f = "closed"
    <3>1. CASE setup.shadow /\ srv.fd = "closed"
      <4>1. srv' = [srv EXCEPT !.ck = "S1", !.state = srv.state, !.fd = srv.fd]
        BY <1>1, <1>10, <3>1 DEF StartThrows, Ends
      <4> QED BY <1>1, <3>1, <4>1
    <3>2. CASE ~(setup.shadow /\ srv.fd = "closed")
      <4>1. srv' = [srv EXCEPT !.ck = IF setup.shadow THEN "S1" ELSE "FINISH", !.state = ST_ERROR,
                               !.fd = IF srv.fd = "open" THEN "stray" ELSE srv.fd]
        BY <1>10, <3>2 DEF StartThrows
      <4>2. (IF srv.fd = "open" THEN "stray" ELSE srv.fd) \in Fds BY <1>1, <1>5
      <4>3. (IF setup.shadow THEN "S1" ELSE "FINISH") \in {"S1", "FINISH"} OBVIOUS
      <4> QED BY <4>1, <4>2, <4>3
    <3> QED BY <3>1, <3>2
  <2>2. s2c' = s2c /\ timer' = timer BY <1>10 DEF StartThrows
  <2>3. c \in Checks /\ x \in Int /\ x \in ST_INIT..ST_ERROR /\ c # "INIT" BY <1>1, <1>2, <1>5, <1>7, <2>1
  <2>4. x < ST_CLOSE /\ f = "open" => Reading(srv) BY <1>7, <2>1
  <2>5. SaysPlain BY <2>2 DEF SaysPlain
  <2>6. timer' \in {"off", "armed", "popped"} /\ dying' \in BOOLEAN BY <1>2, <1>3, <2>2
  <2> QED BY <1>3, <1>4, <2>1, <2>3, <2>4, <2>5, <2>6, ServerTurns
<1> QED BY <1>8, <1>9, <1>10 DEF SStart

\* close(false) of the server.
LEMMA CloseServerInStep ==
  ASSUME AuthInv, StepInv, SClose
  PROVE  StepInv'
<1>1. srv \in Ends /\ srv.fd \in Fds /\ srv.ck \in Checks BY Streams, Fields
<1>2. timer \in {"off", "armed", "popped"} /\ dying \in BOOLEAN BY DEF StepInv, CountInv
<1>3. /\ serverOnly /\ served' = served /\ c2s' = c2s /\ dying' = dying /\ srv.ck # "INIT" BY DEF SClose
<1>4. PICK x \in {ST_CLOSE, ST_CLOSING} : srv' = [srv EXCEPT !.state = x] BY DEF SClose
<1>5. x \in Int /\ x \in ST_INIT..ST_ERROR /\ ~(x < ST_CLOSE)
  BY DEF ST_CLOSE, ST_CLOSING, ST_INIT, ST_ERROR
<1>6. srv' = [srv EXCEPT !.ck = srv.ck, !.state = x, !.fd = srv.fd] /\ srv'.ck = srv.ck BY <1>1, <1>4 DEF Ends
<1>7. Hears BY <1>3 DEF Hears
<1>8. SaysPlain
  <2>1. CASE s2c' = s2c BY <2>1 DEF SaysPlain
  <2>2. CASE s2c' = Append(s2c, Plain("B"))
    <3>1. PICK m \in Messages : m = Plain("B") /\ m.key = "none" /\ m.type \notin {"Q", "A"} /\ m.cmd # "SRP6a4"
      BY PlainSays
    <3> QED BY <1>3, <1>6, <2>2, <3>1, Says
  <2> QED BY <2>1, <2>2 DEF SClose
<1>9. timer' \in {"off", "armed", "popped"} /\ dying' \in BOOLEAN BY <1>2, <1>3 DEF SClose
<1> QED BY <1>1, <1>3, <1>5, <1>6, <1>7, <1>8, <1>9, ServerTurns

\* The server is sure of its peer: it sends its proof and Hello, and switches its cipher on.
LEMMA AcceptInStep ==
  ASSUME AuthInv, StepInv, serverOnly, served' = served, dying' = dying, c2s # <<>>, c2s' = Tail(c2s),
         NEW m, m = Head(c2s), m.type = "C", srv.fd = "open", srv.state = ST_WAITING_HELLO,
         timer' \in {"off", "armed", "popped"},
         s2c' = s2c \o <<Check("SRP6a4", "good"), Plain("H")>>,
         srv' = [srv EXCEPT !.ck = "FINISH", !.state = ST_ACTIVE,
                            !.key = IF setup.cipher THEN "good" ELSE srv.key]
  PROVE  StepInv'
<1>1. /\ cli \in Ends /\ srv \in Ends /\ served \in Nat /\ c2s \in Seq(Messages) /\ s2c \in Seq(Messages)
      /\ All(c2s, Asks) \in Nat /\ All(s2c, Replies) \in Nat
  BY Streams
<1>2. /\ srv.o \in Nat /\ srv.i \in Nat /\ srv.processing \in 0..served /\ srv.wq = 0 /\ srv.results = 0
      /\ srv.key \in {"none", "good"} /\ cli.key \in {"none", srv.key} /\ (srv.key # "none" => setup.cipher)
      /\ Up(c2s, srv, cli.o) /\ Down(s2c, cli, srv) /\ Proven(s2c, srv.key)
  BY Known DEF Proven
<1>3. PICK k : k = IF setup.cipher THEN "good" ELSE srv.key OBVIOUS
<1>4. /\ k \in Keys /\ k \in {"none", "good"} /\ srv.key \in {"none", k} /\ (k # "none" => setup.cipher)
      /\ (setup.cipher => k # "none") /\ srv' = [srv EXCEPT !.ck = "FINISH", !.state = ST_ACTIVE, !.key = k]
  BY <1>2, <1>3 DEF Keys
<1>5. "FINISH" \in Checks /\ ST_ACTIVE \in Int /\ ST_ACTIVE \in ST_INIT..ST_ERROR
  BY DEF Checks, ST_ACTIVE, ST_INIT, ST_ERROR
<1>6. srv' \in Ends BY <1>1, <1>4, <1>5, ZenonT(30) DEF Ends
<1>7. /\ srv'.ck = "FINISH" /\ srv'.state = ST_ACTIVE /\ srv'.key = k /\ srv'.fd = srv.fd /\ srv'.o = srv.o
      /\ srv'.i = srv.i /\ srv'.processing = srv.processing /\ srv'.wq = 0 /\ srv'.results = 0
  BY <1>1, <1>2, <1>4 DEF Ends
<1>8. PICK p \in Messages : p = Check("SRP6a4", "good") /\ p.key = "none" /\ p.type = "C" /\ p.cmd = "SRP6a4"
  BY PlainSays DEF Cmds
<1>9. PICK h \in Messages : h = Plain("H") /\ h.key = "none" /\ h.type = "H" /\ h.cmd # "SRP6a4"
  BY PlainSays
<1>10. PICK q \in Seq(Messages) : q = Append(s2c, p)
  <2>1. More(s2c, Append(s2c, p), p) BY <1>1, IsMore, Zenon
  <2> QED BY <2>1 DEF More
<1>11. s2c' = Append(q, h) BY <1>1, <1>8, <1>9, <1>10
<1>12. PICK f \in Ends : f = srv' BY <1>6
<1>13. Down(q, cli, f) /\ Proven(q, f.key) /\ All(q, Replies) = All(s2c, Replies)
  <2>1. f.o = srv.o /\ p.type \notin {"Q", "A"} BY <1>7, <1>8, <1>12
  <2>2. p.cmd = "SRP6a4" /\ p.type = "C" /\ (setup.cipher => f.key # "none") /\ srv.key \in {"none", f.key}
    BY <1>4, <1>7, <1>8, <1>12
  <2>3. \/ f.key = srv.key /\ p.cmd # "SRP6a4"
        \/ p.cmd = "SRP6a4" /\ p.type = "C" /\ (setup.cipher => f.key # "none") /\ srv.key \in {"none", f.key}
    BY <2>2
  <2>4. cli \in Ends /\ srv \in Ends /\ s2c \in Seq(Messages) /\ Down(s2c, cli, srv) /\ Proven(s2c, srv.key)
    BY <1>1, <1>2
  <2>5. p.key = "none" BY <1>8
  <2> QED BY <1>10, <2>1, <2>3, <2>4, <2>5, SentDown, Zenon
<1>14. Down(s2c', cli, f) /\ Proven(s2c', f.key) /\ All(s2c', Replies) = All(q, Replies)
  <2>1. h.type \notin {"Q", "A"} /\ f.key = f.key /\ f.o = f.o BY <1>9
  <2> QED BY <1>1, <1>9, <1>10, <1>11, <1>13, <2>1, SentDown
<1>15. /\ Less(c2s, c2s', m) /\ m \in Messages /\ All(c2s, Asks) = All(c2s', Asks) + One(m \in Asks)
       /\ All(c2s', Asks) \in Nat /\ m.key = "none"
  BY Arrived
<1>16. Up(c2s', srv', cli.o)
  <2>1. One(m.key # "none") = 0 BY <1>15 DEF One
  <2>2. Reading(srv) BY DEF Reading, ST_WAITING_HELLO, ST_CLOSE
  <2>3. Reading(srv') => Reading(srv) /\ srv'.i = srv.i + One(m.key # "none") BY <1>2, <1>7, <2>1, <2>2
  <2>4. srv.key \in {"none", srv'.key} BY <1>4, <1>7
  <2>5. c2s \in Seq(Messages) /\ srv \in Ends /\ Up(c2s, srv, cli.o) /\ Less(c2s, c2s', m) BY <1>1, <1>2, <1>15
  <2> QED BY <1>6, <2>3, <2>4, <2>5, UpLess, Zenon
<1>17. One(m \in Asks) = 0 BY DEF One, Asks
<1>18. PICK a \in Nat : a = All(c2s', Asks) /\ a = All(c2s, Asks) BY <1>1, <1>15, <1>17
<1>19. PICK b \in Nat : b = All(s2c', Replies) /\ b = All(s2c, Replies) BY <1>1, <1>13, <1>14
<1>20. PICK n \in Nat : n = srv.processing /\ srv'.processing = n /\ n \in 0..served BY <1>1, <1>2, <1>7
<1>21. served' + a <= served + All(c2s, Asks) /\ srv'.i + a <= srv.i + All(c2s, Asks)
  BY <1>1, <1>2, <1>7, <1>18
<1>22. srv'.o + srv'.processing + served <= srv.o + srv.processing + served' BY <1>1, <1>2, <1>7, <1>20
<1>23. b + srv'.processing + served <= All(s2c, Replies) + srv.processing + served' BY <1>1, <1>19, <1>20
<1>24. a + srv'.processing + b <= All(c2s, Asks) + srv.processing + All(s2c, Replies) BY <1>1, <1>18, <1>19, <1>20
<1>25. StartInv' BY <1>7 DEF StartInv
<1>26. dying' \in BOOLEAN BY DEF StepInv, CountInv
<1>27. /\ served' \in Nat /\ srv'.processing \in 0..served' /\ srv'.key \in {"none", "good"}
       /\ cli.key \in {"none", srv'.key} /\ (srv'.key # "none" => setup.cipher)
       /\ srv'.state \in ST_INIT..ST_ERROR
  BY <1>1, <1>2, <1>4, <1>5, <1>7, <1>20
<1>28. Down(s2c', cli, srv') /\ Proven(s2c', srv'.key) BY <1>12, <1>14
<1> QED BY <1>6, <1>7, <1>16, <1>18, <1>19, <1>21, <1>22, <1>23, <1>24, <1>25, <1>26, <1>27, <1>28, ServerStep, Zenon

\* handle_check() of the server, and its failures.
LEMMA ServerCheckInStep ==
  ASSUME AuthInv, StepInv, serverOnly, served' = served, c2s # <<>>, c2s' = Tail(c2s),
         NEW m, m = Head(c2s), m.type = "C", srv.fd = "open", srv.state = ST_WAITING_HELLO,
         SCheck(m) \/ SCheckUnsent
  PROVE  StepInv'
<1>1. srv \in Ends /\ srv.fd \in Fds /\ srv.ck \in Checks /\ srv.state \in Int BY Streams, Fields
<1>2. timer \in {"off", "armed", "popped"} /\ dying \in BOOLEAN /\ srv.state \in ST_INIT..ST_ERROR
  BY DEF StepInv, CountInv
<1>3. m.key = "none" /\ srv.ck # "INIT" BY Arrived
<1>4. Hears BY <1>3 DEF Hears
<1>5. Reading(srv) BY DEF Reading, ST_WAITING_HELLO, ST_CLOSE
<1>6. ST_ERROR \in Int /\ ST_ERROR \in ST_INIT..ST_ERROR BY DEF ST_INIT, ST_ERROR
<1>7. ASSUME srv' = Failed(srv), dying' = TRUE, timer' = timer, SaysPlain
      PROVE  StepInv'
  <2>1. srv' = [srv EXCEPT !.ck = srv.ck, !.state = ST_ERROR, !.fd = srv.fd] BY <1>1, <1>7 DEF Failed, Ends
  <2>2. timer' \in {"off", "armed", "popped"} /\ dying' \in BOOLEAN BY <1>2, <1>7
  <2> QED BY <1>1, <1>3, <1>4, <1>5, <1>6, <1>7, <2>1, <2>2, ServerTurns
<1>8. CASE SForbidden
  <2>1. /\ srv' = Failed(srv) /\ dying' = TRUE /\ timer' = timer /\ s2c' = Append(s2c, Check("FORBIDDEN", ""))
    BY <1>8 DEF SForbidden
  <2>2. PICK p \in Messages : p = Check("FORBIDDEN", "") /\ p.key = "none" /\ p.type \notin {"Q", "A"} /\ p.cmd # "SRP6a4"
    BY PlainSays DEF Cmds
  <2>3. srv'.ck # "INIT" BY <1>1, <1>3, <2>1 DEF Failed, Ends
  <2>4. SaysPlain BY <2>1, <2>2, <2>3, Says
  <2> QED BY <1>7, <2>1, <2>4
<1>9. CASE SCheckUnsent
  <2>1. srv' = Failed(srv) /\ dying' = TRUE /\ timer' = timer /\ s2c' = s2c BY <1>9 DEF SCheckUnsent
  <2>2. SaysPlain BY <2>1 DEF SaysPlain
  <2> QED BY <1>7, <2>1, <2>2
<1>10. CASE srv' = [srv EXCEPT !.ck = "S3"] /\ s2c' = Append(s2c, Check("SRP6a2", "")) /\ UNCHANGED <<timer, dying>>
  <2>1. srv' = [srv EXCEPT !.ck = "S3", !.state = srv.state, !.fd = srv.fd] /\ srv'.ck = "S3" BY <1>1, <1>10 DEF Ends
  <2>2. PICK p \in Messages : p = Check("SRP6a2", "") /\ p.key = "none" /\ p.type \notin {"Q", "A"} /\ p.cmd # "SRP6a4"
    BY PlainSays DEF Cmds
  <2>3. SaysPlain BY <1>10, <2>1, <2>2, Says
  <2>4. "S3" \in Checks /\ "S3" # "INIT" BY DEF Checks
  <2>5. timer' \in {"off", "armed", "popped"} /\ dying' \in BOOLEAN BY <1>2, <1>10
  <2> QED BY <1>1, <1>2, <1>4, <1>5, <2>1, <2>3, <2>4, <2>5, ServerTurns
<1>11. CASE /\ s2c' = s2c \o <<Check("SRP6a4", "good"), Plain("H")>> /\ UNCHANGED dying
            /\ timer' = (IF timer = "armed" THEN "off" ELSE timer)
            /\ srv' = [srv EXCEPT !.ck = "FINISH", !.state = ST_ACTIVE,
                                  !.key = IF setup.cipher THEN "good" ELSE srv.key]
  <2>1. timer' \in {"off", "armed", "popped"} BY <1>2, <1>11
  <2> QED BY <1>11, <2>1, AcceptInStep
<1> QED BY <1>8, <1>9, <1>10, <1>11 DEF SCheck

\* A quest arrives at a server that handles it, or is closing and drops it.
LEMMA ServeInStep ==
  ASSUME AuthInv, StepInv, serverOnly, c2s # <<>>, c2s' = Tail(c2s), s2c' = s2c, timer' = timer, dying' = dying,
         NEW m, m = Head(c2s), m.type = "Q", srv.fd = "open", ~(srv.state < ST_ACTIVE),
         NEW z \in {0, 1}, served' = served + z, NEW e, e = Read(srv, m),
         srv' = [e EXCEPT !.processing = e.processing + z]
  PROVE  StepInv'
<1>1. /\ cli \in Ends /\ srv \in Ends /\ served \in Nat /\ c2s \in Seq(Messages) /\ s2c \in Seq(Messages)
      /\ All(c2s, Asks) \in Nat /\ All(s2c, Replies) \in Nat
  BY Streams
<1>2. /\ srv.o \in Nat /\ srv.i \in Nat /\ srv.processing \in 0..served /\ srv.wq = 0 /\ srv.results = 0
      /\ srv.state \in ST_INIT..ST_ERROR
      /\ srv.key \in {"none", "good"} /\ cli.key \in {"none", srv.key} /\ (srv.key # "none" => setup.cipher)
      /\ Up(c2s, srv, cli.o) /\ Down(s2c, cli, srv) /\ Proven(s2c, srv.key)
  BY Known DEF Proven
<1>3. /\ Less(c2s, c2s', m) /\ m \in Messages /\ All(c2s, Asks) = All(c2s', Asks) + One(m \in Asks)
      /\ All(c2s', Asks) \in Nat
  BY Arrived
<1>4. One(m \in Asks) = 1 BY <1>3 DEF One, Asks
<1>5. /\ e \in Ends /\ SameEnd(e, srv) /\ e.state = srv.state /\ e.wq = srv.wq /\ e.o = srv.o
      /\ e.results = srv.results /\ e.i = srv.i + One(m.key # "none") /\ One(m.key # "none") \in {0, 1}
  <2>1. HasRead(e, srv, m) BY <1>1, <1>3, ReadFields
  <2> QED BY <2>1 DEF HasRead
<1>6. PICK n \in Nat : n = srv.processing /\ n \in 0..served /\ e.processing = n BY <1>1, <1>2, <1>5 DEF SameEnd
<1>7. n + z \in Int /\ n + z \in 0..(served + z) BY <1>1, <1>6
<1>8. srv' = [e EXCEPT !.processing = n + z] BY <1>6
<1>9. srv' \in Ends BY <1>5, <1>7, <1>8, ZenonT(30) DEF Ends
<1>10. /\ srv'.ck = srv.ck /\ srv'.key = srv.key /\ srv'.fd = srv.fd /\ srv'.state = srv.state /\ srv'.o = srv.o
       /\ srv'.wq = 0 /\ srv'.results = 0 /\ srv'.processing = n + z /\ srv'.i = srv.i + One(m.key # "none")
  BY <1>2, <1>5, <1>8 DEF Ends, SameEnd
<1>11. Up(c2s', srv', cli.o)
  <2>1. Reading(srv') => Reading(srv) /\ srv'.i = srv.i + One(m.key # "none") BY <1>10 DEF Reading
  <2>2. srv.key \in {"none", srv'.key} BY <1>10
  <2>3. c2s \in Seq(Messages) /\ srv \in Ends /\ Up(c2s, srv, cli.o) /\ Less(c2s, c2s', m) BY <1>1, <1>2, <1>3
  <2> QED BY <1>9, <2>1, <2>2, <2>3, UpLess, Zenon
<1>12. Down(s2c', cli, srv')
  <2>1. srv'.key = srv.key /\ srv'.o = srv.o /\ Down(s2c, cli, srv) BY <1>2, <1>10
  <2> QED BY <2>1 DEF Down
<1>13. Proven(s2c', srv'.key) BY <1>2, <1>10
<1>14. srv.ck # "INIT" BY DEF StepInv, StartInv, ST_WAITING_HELLO, ST_ACTIVE
<1>15. StartInv' BY <1>10, <1>14 DEF StartInv
<1>16. PICK a \in Nat : a = All(c2s', Asks) /\ All(c2s, Asks) = a + 1 BY <1>3, <1>4
<1>17. PICK b \in Nat : b = All(s2c', Replies) /\ b = All(s2c, Replies) BY <1>1
<1>18. served' + a <= served + All(c2s, Asks) BY <1>1, <1>16
<1>19. srv'.i + a <= srv.i + All(c2s, Asks)
  <2>1. PICK c \in {0, 1} : c = One(m.key # "none") BY <1>5
  <2>2. srv'.i = srv.i + c /\ srv.i \in Nat BY <1>2, <1>10, <2>1
  <2> QED BY <1>16, <2>2
<1>20. srv'.o + srv'.processing + served <= srv.o + srv.processing + served'
  <2>1. srv'.o = srv.o /\ srv.o \in Nat /\ srv'.processing = n + z /\ srv.processing = n BY <1>2, <1>6, <1>10
  <2>2. PICK o \in Nat, s \in Nat : o = srv.o /\ s = served BY <1>1, <2>1
  <2>3. o + (n + z) + s <= o + n + (s + z) OBVIOUS
  <2>4. served' = s + z BY <2>2
  <2> QED BY <2>1, <2>2, <2>3, <2>4, Zenon
<1>21. b + srv'.processing + served <= All(s2c, Replies) + srv.processing + served'
  <2>1. srv'.processing = n + z /\ srv.processing = n /\ All(s2c, Replies) = b BY <1>6, <1>10, <1>17
  <2>2. PICK s \in Nat : s = served BY <1>1
  <2>3. b + (n + z) + s <= b + n + (s + z) OBVIOUS
  <2>4. served' = s + z BY <2>2
  <2> QED BY <2>1, <2>2, <2>3, <2>4, Zenon
<1>22. a + srv'.processing + b <= All(c2s, Asks) + srv.processing + All(s2c, Replies)
  <2>1. srv'.processing = n + z /\ srv.processing = n /\ All(s2c, Replies) = b /\ All(c2s, Asks) = a + 1
    BY <1>6, <1>10, <1>16, <1>17
  <2>2. a + (n + z) + b <= (a + 1) + n + b OBVIOUS
  <2> QED BY <2>1, <2>2, Zenon
<1>23. timer' \in {"off", "armed", "popped"} /\ dying' \in BOOLEAN BY DEF StepInv, CountInv
<1>24. /\ served' \in Nat /\ srv'.processing \in 0..served' /\ srv'.key \in {"none", "good"}
       /\ cli.key \in {"none", srv'.key} /\ (srv'.key # "none" => setup.cipher)
       /\ srv'.state \in ST_INIT..ST_ERROR
  <2>1. served' \in Nat /\ srv'.processing \in 0..served' BY <1>1, <1>7, <1>10
  <2> QED BY <1>2, <1>10, <2>1, Zenon
<1> QED BY <1>9, <1>10, <1>11, <1>12, <1>13, <1>15, <1>16, <1>17, <1>18, <1>19, <1>20, <1>21, <1>22, <1>23, <1>24,
           ServerStep, Zenon

\* recv_msg() and do_read() of the server.
LEMMA ServerReadInStep ==
  ASSUME AuthInv, StepInv, SRecv
  PROVE  StepInv'
<1>1. PICK m : m = Head(c2s) OBVIOUS
<1>2. /\ c2s # <<>> /\ srv.fd = "open" /\ srv.state < ST_CLOSED /\ c2s' = Tail(c2s) /\ serverOnly BY DEF SRecv
<1>3. m \in ToServer BY <1>1, <1>2, Arrived
<1>4. m.type \in {"C", "B", "Q"} BY <1>3 DEF ToServer
<1>5. srv \in Ends /\ srv.state \in ST_INIT..ST_ERROR /\ timer \in {"off", "armed", "popped"} /\ dying \in BOOLEAN
  BY Streams DEF StepInv, CountInv
<1>6. CASE SFails /\ UNCHANGED served
  BY <1>2, <1>6, ServerFailsStep
<1>7. CASE m.type = "B" /\ ~(SFails /\ UNCHANGED served)
  <2>1. /\ srv' = Gone([srv EXCEPT !.state = ST_CLOSED]) /\ timer' = "off" /\ UNCHANGED <<s2c, dying, served>>
    BY <1>1, <1>7 DEF SRecv
  <2>2. ST_CLOSED \in Int /\ ST_CLOSED \in ST_INIT..ST_ERROR BY DEF ST_CLOSED, ST_INIT, ST_ERROR
  <2>3. timer' \in {"off", "armed", "popped"} /\ dying' \in BOOLEAN /\ s2c' = s2c /\ served' = served BY <1>5, <2>1
  <2> QED BY <1>2, <2>1, <2>2, <2>3, ServerLeaves
<1>8. CASE m.type = "C" /\ ~(SFails /\ UNCHANGED served)
  <2>1. served' = served /\ srv.state = ST_WAITING_HELLO /\ (SCheck(m) \/ SCheckUnsent) BY <1>1, <1>8 DEF SRecv
  <2> QED BY <1>1, <1>2, <1>8, <2>1, ServerCheckInStep
<1>9. CASE m.type = "Q" /\ ~(SFails /\ UNCHANGED served)
  <2>1. PICK e : e = Read(srv, m) OBVIOUS
  <2>2. /\ ~(srv.state < ST_ACTIVE) /\ UNCHANGED <<s2c, timer, dying>>
        /\ \/ srv' = [e EXCEPT !.processing = e.processing + 1] /\ served' = served + 1
           \/ srv' = e /\ served' = served
    BY <1>1, <1>9, <2>1 DEF SRecv
  <2>3. e \in Ends /\ e.processing \in Int
    <3>1. HasRead(e, srv, m) BY <1>3, <1>5, <2>1, ReadFields DEF ToServer
    <3> QED BY <3>1, Fields DEF HasRead
  <2>4. served \in Nat BY Streams
  <2>5. PICK z \in {0, 1} : served' = served + z /\ srv' = [e EXCEPT !.processing = e.processing + z]
    <3>1. CASE srv' = e /\ served' = served
      <4>1. e = [e EXCEPT !.processing = e.processing + 0] BY <2>3 DEF Ends
      <4> QED BY <2>4, <3>1, <4>1
    <3>2. CASE srv' = [e EXCEPT !.processing = e.processing + 1] /\ served' = served + 1 BY <3>2
    <3> QED BY <2>2, <3>1, <3>2
  <2>6. s2c' = s2c /\ timer' = timer /\ dying' = dying BY <2>2
  <2> QED BY <1>1, <1>2, <1>9, <2>1, <2>2, <2>5, <2>6, ServeInStep
<1> QED BY <1>4, <1>6, <1>7, <1>8, <1>9

\* An answer counts.
LEMMA Answered ==
  ASSUME NEW q \in Seq(Messages), NEW r, NEW e \in Ends, Grown(q, r, e, "A", 1)
  PROVE  All(r, Replies) = All(q, Replies) + 1
<1>1. 0 \in Nat /\ 1 \in Nat /\ "A" \in {"Q", "A"} OBVIOUS
<1> QED BY <1>1, BurstKept

\* replyAnswer()
LEMMA ReplyInStep ==
  ASSUME AuthInv, StepInv, SReply
  PROVE  StepInv'
<1>1. /\ cli \in Ends /\ srv \in Ends /\ served \in Nat /\ c2s \in Seq(Messages) /\ s2c \in Seq(Messages)
      /\ All(c2s, Asks) \in Nat /\ All(s2c, Replies) \in Nat
  BY Streams
<1>2. /\ srv.o \in Nat /\ srv.i \in Nat /\ srv.processing \in 0..served /\ srv.wq = 0 /\ srv.results = 0
      /\ srv.state \in ST_INIT..ST_ERROR
      /\ srv.key \in {"none", "good"} /\ cli.key \in {"none", srv.key} /\ (srv.key # "none" => setup.cipher)
      /\ Up(c2s, srv, cli.o) /\ Down(s2c, cli, srv) /\ Proven(s2c, srv.key)
  BY Known DEF Proven
<1>3. /\ serverOnly /\ c2s' = c2s /\ dying' = dying /\ served' = served /\ srv.processing > 0 BY DEF SReply
<1>4. PICK n \in 0..served : srv.processing = n + 1
  <2>1. PICK p \in 0..served : p = srv.processing /\ p > 0 BY <1>2, <1>3
  <2>2. p - 1 \in Int /\ p = (p - 1) + 1 /\ p - 1 \in 0..served BY <1>1, <2>1
  <2> QED BY <2>1, <2>2
<1>5. srv.ck # "INIT" BY <1>3 DEF StepInv, StartInv
<1>6. PICK w : w = After(srv, "A", 1) OBVIOUS
<1>7. /\ w \in Ends /\ SameEnd(w, srv) /\ w.state = srv.state /\ w.i = srv.i /\ w.wq = srv.wq
      /\ w.results = srv.results /\ w.o \in Nat /\ w.o <= srv.o + 1
  <2>1. Wrote(w, srv, 1) BY <1>1, <1>6, AfterFields
  <2> QED BY <2>1 DEF Wrote
<1>8. w.processing = n + 1 BY <1>4, <1>7 DEF SameEnd
<1>9. PICK b \in Nat : b = All(s2c', Replies) /\ b <= All(s2c, Replies) + 1 /\
        \E d \in {w, srv} : \E x \in {srv.state, ST_CLOSING} :
          /\ srv' = [d EXCEPT !.processing = n, !.state = x]
          /\ timer' \in {"off", "armed", "popped"}
          /\ Proven(s2c', srv.key)
          /\ \A f \in Ends : f.key = srv.key /\ f.o = d.o => Down(s2c', cli, f)
  <2>0. timer \in {"off", "armed", "popped"} BY DEF StepInv, CountInv
  <2>1. CASE srv.state >= ST_CLOSED
    <3>1. srv' = [srv EXCEPT !.processing = n, !.state = srv.state] /\ s2c' = s2c /\ timer' = timer
      <4>1. srv' = [srv EXCEPT !.processing = srv.processing - 1] /\ s2c' = s2c /\ timer' = timer BY <2>1 DEF SReply
      <4>2. srv.processing - 1 = n BY <1>4
      <4> QED BY <1>1, <4>1, <4>2 DEF Ends
    <3>3. \A f \in Ends : f.key = srv.key /\ f.o = srv.o => Down(s2c', cli, f)
      <4> SUFFICES ASSUME NEW f \in Ends, f.key = srv.key, f.o = srv.o PROVE Down(s2c', cli, f) OBVIOUS
      <4>1. Down(s2c, cli, srv) BY <1>2
      <4> QED BY <3>1, <4>1 DEF Down
    <3>4. Proven(s2c', srv.key) BY <1>2, <3>1
    <3>5. All(s2c', Replies) \in Nat /\ All(s2c', Replies) <= All(s2c, Replies) + 1 BY <1>1, <3>1
    <3>6. timer' \in {"off", "armed", "popped"} BY <2>0, <3>1
    <3> QED BY <3>1, <3>3, <3>4, <3>5, <3>6
  <2>2. CASE ~(srv.state >= ST_CLOSED)
    <3>1. PICK q : q = Append(s2c, Message(srv, "A", 1)) OBVIOUS
    <3>2. Grown(s2c, q, srv, "A", 1) BY <1>1, <3>1, SentMessage
    <3>3. q \in Seq(Messages) BY <3>2 DEF Grown
    <3>4. \A f \in Ends : f.key = srv.key /\ f.o = w.o => Down(q, cli, f)
      <4> SUFFICES ASSUME NEW f \in Ends, f.key = srv.key, f.o = w.o PROVE Down(q, cli, f) OBVIOUS
      <4>1. f.o = After(srv, "A", 1).o /\ 1 \in Nat BY <1>6
      <4>2. Down(s2c, cli, srv) /\ f.key = srv.key BY <1>2
      <4> QED BY <1>1, <3>2, <4>1, <4>2, DownGrown, Zenon
    <3>5. All(q, Replies) = All(s2c, Replies) + 1
      <4>1. s2c \in Seq(Messages) /\ srv \in Ends BY <1>1
      <4> QED BY <3>2, <4>1, Answered, Zenon
    <3>6. Proven(q, srv.key)
      <4>1. PICK l \in Nat : l = Len(s2c) BY <1>1
      <4>2. /\ Len(q) = l + 1 /\ (\A k \in 1..l : q[k] = s2c[k])
            /\ \A k \in (l + 1)..(l + 1) : q[k].cmd = ""
        BY <3>2, <4>1 DEF Grown
      <4>3. \A k \in 1..(l + 1) : k \in 1..l \/ k \in (l + 1)..(l + 1) OBVIOUS
      <4> QED BY <1>2, <4>1, <4>2, <4>3 DEF Proven
    <3>7. w.processing - 1 = n /\ srv.processing - 1 = n BY <1>4, <1>8
    <3>8. CASE srv.state = ST_CLOSE /\ srv.processing = 1
      <4>1. /\ srv' = [w EXCEPT !.processing = w.processing - 1, !.state = ST_CLOSING]
            /\ timer' = "armed" /\ s2c' = s2c \o <<Message(srv, "A", 1), Plain("B")>>
        <5>1. [[w EXCEPT !.processing = w.processing - 1] EXCEPT !.state = ST_CLOSING]
                = [w EXCEPT !.processing = w.processing - 1, !.state = ST_CLOSING]
          BY <1>7 DEF Ends
        <5> QED BY <1>6, <2>2, <3>8, <5>1 DEF SReply
      <4>2. PICK y \in Messages : y = Plain("B") /\ y.key = "none" /\ y.type = "B" /\ y.cmd # "SRP6a4" BY PlainSays
      <4>3. s2c' = Append(q, y)
        <5>1. Message(srv, "A", 1) \in Messages BY <1>1, Written
        <5>2. PICK z \in Messages : z = Message(srv, "A", 1) BY <5>1
        <5> QED BY <1>1, <3>1, <4>1, <4>2, <5>2
      <4>4. ASSUME NEW f \in Ends, f.key = srv.key, f.o = w.o
            PROVE  Down(s2c', cli, f) /\ Proven(s2c', f.key) /\ All(s2c', Replies) = All(q, Replies)
        <5>1. Down(q, cli, f) /\ Proven(q, f.key) /\ f.o = f.o BY <3>4, <3>6, <4>4
        <5>2. y.type \notin {"Q", "A"} /\ (f.key = f.key /\ y.cmd # "SRP6a4") BY <4>2
        <5> QED BY <1>1, <3>3, <4>2, <4>3, <5>1, <5>2, SentDown
      <4>5. w.key = srv.key BY <1>7 DEF SameEnd
      <4>6. Proven(s2c', srv.key) /\ All(s2c', Replies) = All(q, Replies) BY <1>7, <4>4, <4>5
      <4>7. srv' = [w EXCEPT !.processing = n, !.state = ST_CLOSING] BY <3>7, <4>1
      <4>8. timer' \in {"off", "armed", "popped"} BY <4>1
      <4>9. \A f \in Ends : f.key = srv.key /\ f.o = w.o => Down(s2c', cli, f) BY <4>4
      <4>10. All(s2c', Replies) \in Nat /\ All(s2c', Replies) <= All(s2c, Replies) + 1 BY <1>1, <3>5, <4>6
      <4> QED BY <4>6, <4>7, <4>8, <4>9, <4>10
    <3>9. CASE ~(srv.state = ST_CLOSE /\ srv.processing = 1)
      <4>1. srv' = [w EXCEPT !.processing = w.processing - 1] /\ timer' = timer /\ s2c' = q
        BY <1>6, <2>2, <3>1, <3>9 DEF SReply
      <4>2. srv' = [w EXCEPT !.processing = n, !.state = srv.state] BY <1>7, <3>7, <4>1 DEF Ends
      <4>3. \A f \in Ends : f.key = srv.key /\ f.o = w.o => Down(s2c', cli, f) BY <3>4, <4>1
      <4>4. Proven(s2c', srv.key) /\ timer' \in {"off", "armed", "popped"} BY <2>0, <3>6, <4>1
      <4>5. All(s2c', Replies) \in Nat /\ All(s2c', Replies) <= All(s2c, Replies) + 1 BY <1>1, <3>5, <4>1
      <4> QED BY <4>2, <4>3, <4>4, <4>5
    <3> QED BY <3>8, <3>9
  <2> QED BY <2>1, <2>2
<1>10. PICK d \in {w, srv}, x \in {srv.state, ST_CLOSING} :
         /\ srv' = [d EXCEPT !.processing = n, !.state = x]
         /\ timer' \in {"off", "armed", "popped"}
         /\ Proven(s2c', srv.key)
         /\ \A f \in Ends : f.key = srv.key /\ f.o = d.o => Down(s2c', cli, f)
  BY <1>9
<1>11. /\ d \in Ends /\ SameEnd(d, srv) /\ d.state = srv.state /\ d.i = srv.i /\ d.wq = 0 /\ d.results = 0
       /\ d.o \in Nat /\ d.o <= srv.o + 1
  <2>1. CASE d = w BY <1>2, <1>7, <2>1
  <2>2. CASE d = srv
    <3>1. srv.o <= srv.o + 1 BY <1>2
    <3> QED BY <1>1, <1>2, <2>2, <3>1 DEF SameEnd
  <2> QED BY <1>10, <2>1, <2>2
<1>12. x \in Int /\ x \in ST_INIT..ST_ERROR /\ (x < ST_CLOSE => srv.state < ST_CLOSE) /\ n \in Int
  BY <1>2, <1>4, <1>10 DEF ST_INIT, ST_ERROR, ST_CLOSING, ST_CLOSE
<1>13. srv' \in Ends BY <1>10, <1>11, <1>12, ZenonT(30) DEF Ends
<1>14. /\ srv'.ck = srv.ck /\ srv'.key = srv.key /\ srv'.fd = srv.fd /\ srv'.i = srv.i /\ srv'.o = d.o
       /\ srv'.wq = 0 /\ srv'.results = 0 /\ srv'.processing = n /\ srv'.state = x
  BY <1>10, <1>11 DEF Ends, SameEnd
<1>15. Down(s2c', cli, srv') BY <1>10, <1>13, <1>14
<1>16. Up(c2s', srv', cli.o)
  <2>1. srv.key = srv'.key /\ (Reading(srv') => Reading(srv) /\ srv'.i = srv.i) BY <1>12, <1>14 DEF Reading
  <2>2. Up(c2s, srv, cli.o) BY <1>2
  <2>3. Up(c2s, srv', cli.o) BY <2>1, <2>2, UpSame, Zenon
  <2> QED BY <1>3, <2>3
<1>17. StartInv' BY <1>5, <1>14 DEF StartInv
<1>18. Proven(s2c', srv'.key) BY <1>10, <1>14
<1>19. PICK a \in Nat : a = All(c2s', Asks) /\ a = All(c2s, Asks) BY <1>1, <1>3
<1>20. PICK o \in Nat : o = srv.o BY <1>2
<1>21. served' + a <= served + All(c2s, Asks) /\ srv'.i + a <= srv.i + All(c2s, Asks)
  BY <1>1, <1>2, <1>3, <1>14, <1>19
<1>22. srv'.o + srv'.processing + served <= srv.o + srv.processing + served'
  <2>1. srv'.o \in Nat /\ srv'.o <= o + 1 /\ srv'.processing = n BY <1>11, <1>14, <1>20
  <2>2. served' = served /\ srv.processing = n + 1 /\ served \in Nat BY <1>1, <1>3, <1>4
  <2>3. PICK z \in Nat : z = srv'.o /\ z <= o + 1 BY <2>1
  <2>4. z + n <= o + (n + 1) BY <1>4, <1>12, <1>20, <2>3
  <2>5. z + n + served <= o + (n + 1) + served BY <1>12, <2>2, <2>4
  <2> QED BY <1>20, <2>1, <2>2, <2>3, <2>5
<1>23. b + srv'.processing + served <= All(s2c, Replies) + srv.processing + served'
  BY <1>1, <1>3, <1>4, <1>9, <1>12, <1>14
<1>24. a + srv'.processing + b <= All(c2s, Asks) + srv.processing + All(s2c, Replies)
  BY <1>1, <1>4, <1>9, <1>12, <1>14, <1>19
<1>25. /\ served' \in Nat /\ srv'.processing \in 0..served' /\ srv'.key \in {"none", "good"}
       /\ cli.key \in {"none", srv'.key} /\ (srv'.key # "none" => setup.cipher)
       /\ srv'.state \in ST_INIT..ST_ERROR
  <2>1. served' \in Nat /\ srv'.processing \in 0..served' BY <1>1, <1>3, <1>4, <1>14
  <2>2. srv'.state \in ST_INIT..ST_ERROR BY <1>12, <1>14
  <2>3. srv'.key = srv.key BY <1>14
  <2> QED BY <1>2, <2>1, <2>2, <2>3, Zenon
<1>26. dying' \in BOOLEAN BY <1>3 DEF StepInv, CountInv
<1>27. b = All(s2c', Replies) BY <1>9
<1> QED BY <1>3, <1>10, <1>13, <1>14, <1>15, <1>16, <1>17, <1>18, <1>19, <1>21, <1>22, <1>23, <1>24, <1>25, <1>26,
           <1>27, ServerStep, Zenon

\* The other steps of the server: the end of the stream, the timer, the refused client.
LEMMA OtherInStep ==
  ASSUME AuthInv, StepInv, SEnd \/ SPop \/ STimeout \/ SDisconnect
  PROVE  StepInv'
<1>1. /\ srv \in Ends /\ srv.state \in ST_INIT..ST_ERROR /\ srv.state \in Int
      /\ timer \in {"off", "armed", "popped"} /\ dying \in BOOLEAN
  BY Streams, Fields DEF StepInv, CountInv
<1>2. serverOnly /\ served' = served /\ c2s' = c2s BY DEF SEnd, SPop, STimeout, SDisconnect
<1>3. CASE SEnd \/ STimeout
  <2>1. SFails BY <1>3 DEF SEnd, STimeout
  <2> QED BY <1>2, <2>1, ServerFailsStep
<1>4. CASE SPop
  <2>1. timer' = "popped" /\ srv' = srv /\ s2c' = s2c /\ dying' = dying BY <1>4 DEF SPop
  <2>2. Quiet(srv', srv) BY <2>1, Known DEF Quiet
  <2>3. Hears /\ SaysPlain BY <1>2, <2>1 DEF Hears, SaysPlain
  <2>4. timer' \in {"off", "armed", "popped"} /\ dying' \in BOOLEAN BY <1>1, <2>1
  <2>5. srv'.ck = "INIT" => srv.ck = "INIT" /\ (srv'.fd = "open" => srv.fd = "open" /\ srv'.state = srv.state)
    BY <2>1
  <2> QED BY <1>1, <1>2, <2>1, <2>2, <2>3, <2>4, <2>5, ServerQuiet
<1>5. CASE SDisconnect
  <2>1. srv' = Gone(srv) /\ timer' = "off" /\ s2c' = s2c /\ dying' = FALSE BY <1>5 DEF SDisconnect
  <2>2. timer' \in {"off", "armed", "popped"} /\ dying' \in BOOLEAN BY <2>1
  <2>3. PICK x \in Int : x = srv.state /\ x \in ST_INIT..ST_ERROR BY <1>1
  <2> QED BY <1>2, <2>1, <2>2, <2>3, ServerLeaves
<1> QED BY <1>3, <1>4, <1>5

LEMMA ServerStays ==
  ASSUME AuthInv, StepInv, Server
  PROVE  StepInv'
BY StartInStep, ServerReadInStep, ReplyInStep, CloseServerInStep, OtherInStep DEF Server

LEMMA StepInit == Init => StepInv
<1> SUFFICES ASSUME Init PROVE StepInv
  OBVIOUS
<1>1. /\ cli = Fresh(ST_INIT) /\ srv = Fresh(ST_WAITING_HELLO) /\ c2s = <<>> /\ s2c = <<>>
      /\ timer = "off" /\ dying = FALSE /\ asked = 0 /\ served = 0
  BY DEF Init
<1>2. /\ cli.state = 0 /\ cli.ck = "INIT" /\ cli.key = "none" /\ cli.o = 0 /\ cli.i = 0 /\ cli.wq = 0
      /\ cli.results = 0 /\ cli.processing = 0 /\ cli.fd = "open"
  BY <1>1 DEF Fresh, ST_INIT
<1>3. /\ srv.state = 1 /\ srv.ck = "INIT" /\ srv.key = "none" /\ srv.o = 0 /\ srv.i = 0 /\ srv.wq = 0
      /\ srv.results = 0 /\ srv.processing = 0 /\ srv.fd = "open"
  BY <1>1 DEF Fresh, ST_WAITING_HELLO
<1>4. Len(c2s) = 0 /\ Len(s2c) = 0 BY <1>1
<1>5. \A q : \A S : Num(q, S, 0) = 0
  <2>1. 0 \in Nat OBVIOUS
  <2> QED BY <2>1, NumIs
<1>6. /\ All(c2s, Asks) = 0 /\ All(s2c, Replies) = 0 /\ All(c2s, Coded) = 0 /\ All(s2c, Coded) = 0
  BY <1>4, <1>5 DEF All
<1>7. \A k : k \notin 1..Len(c2s) /\ k \notin 1..Len(s2c) BY <1>4
<1>8. CountInv
  <2>1. asked \in 0..MaxQuests /\ cli.results \in 0..asked /\ srv.processing \in 0..served
    BY <1>1, <1>2, <1>3, MaxQuestsAssumption
  <2>2. cli.state \in ST_INIT..ST_ERROR /\ srv.state \in ST_INIT..ST_ERROR
    BY <1>2, <1>3 DEF ST_INIT, ST_ERROR
  <2>3. timer \in {"off", "armed", "popped"} /\ dying \in BOOLEAN BY <1>1
  <2>4. /\ cli.o + cli.wq <= asked /\ srv.o + srv.processing <= served
        /\ served + All(c2s, Asks) + cli.wq <= asked /\ srv.i + All(c2s, Asks) + cli.wq <= asked
    <3>1. asked = 0 /\ served = 0 BY <1>1
    <3> QED BY <1>2, <1>3, <1>6, <3>1
  <2>5. /\ cli.i + All(s2c, Replies) + srv.processing <= served
        /\ cli.wq + All(c2s, Asks) + srv.processing + All(s2c, Replies) <= cli.results
    <3>1. served = 0 BY <1>1
    <3> QED BY <1>2, <1>3, <1>6, <3>1
  <2> QED BY <1>2, <1>3, <2>1, <2>2, <2>3, <2>4, <2>5 DEF CountInv
<1>9. KeyInv BY <1>2, <1>3, <1>7 DEF KeyInv
<1>10. StartInv BY <1>1, <1>2, <1>3, <1>7 DEF StartInv, ST_WAITING_HELLO
<1>11. Nonces(c2s, srv.i, cli.o) /\ Nonces(s2c, cli.i, srv.o) BY <1>2, <1>3, <1>6, <1>7 DEF Nonces
<1>12. Keyed(c2s, "Q", srv.key) /\ Keyed(s2c, "A", srv.key) BY <1>7 DEF Keyed
<1>13. Up(c2s, srv, cli.o) BY <1>11, <1>12 DEF Up
<1>14. Down(s2c, cli, srv) BY <1>3, <1>7, <1>11, <1>12 DEF Down
<1> QED BY <1>8, <1>9, <1>10, <1>13, <1>14 DEF StepInv

LEMMA StepStays == AuthInv /\ StepInv /\ [Next]_vars => StepInv'
<1> SUFFICES ASSUME AuthInv, StepInv, [Next]_vars PROVE StepInv'
  OBVIOUS
<1>1. CASE UNCHANGED vars
  <2>1. /\ setup' = setup /\ cli' = cli /\ srv' = srv /\ c2s' = c2s /\ s2c' = s2c /\ timer' = timer
        /\ dying' = dying /\ asked' = asked /\ served' = served
    BY <1>1 DEF vars
  <2>2. CountInv' BY <2>1 DEF StepInv, CountInv
  <2>3. KeyInv' BY <2>1 DEF StepInv, KeyInv
  <2>4. StartInv' BY <2>1 DEF StepInv, StartInv
  <2>5. Up(c2s', srv', cli'.o) /\ Down(s2c', cli', srv') BY <2>1 DEF StepInv
  <2> QED BY <2>2, <2>3, <2>4, <2>5 DEF StepInv
<1>2. CASE Next
  BY <1>2, ClientStays, ServerStays DEF Next
<1> QED BY <1>1, <1>2

-----------------------------------------------------------------------------
LEMMA StepTypes == AuthInv /\ StepInv => TypeOK
<1> SUFFICES ASSUME AuthInv, StepInv PROVE TypeOK
  OBVIOUS
<1>1. cli \in Ends /\ srv \in Ends /\ setup \in Setups /\ served \in Nat BY Streams
<1>2. /\ All(c2s, Asks) \in Nat /\ All(s2c, Replies) \in Nat BY Streams
<1>3. /\ asked \in 0..MaxQuests /\ MaxQuests \in Nat
      /\ cli.state \in ST_INIT..ST_ERROR /\ srv.state \in ST_INIT..ST_ERROR
      /\ timer \in {"off", "armed", "popped"} /\ dying \in BOOLEAN
      /\ srv.wq = 0 /\ srv.results = 0 /\ cli.processing = 0
      /\ cli.results \in 0..asked /\ srv.processing \in 0..served
      /\ cli.o + cli.wq <= asked
      /\ served + All(c2s, Asks) + cli.wq <= asked
      /\ srv.i + All(c2s, Asks) + cli.wq <= asked
      /\ srv.o + srv.processing <= served
      /\ cli.i + All(s2c, Replies) + srv.processing <= served
  BY MaxQuestsAssumption DEF StepInv, CountInv
<1>4. /\ cli.o \in Nat /\ cli.i \in Nat /\ cli.wq \in Nat /\ srv.o \in Nat /\ srv.i \in Nat BY <1>1, Fields
<1>5. served \in 0..asked BY <1>1, <1>2, <1>3, <1>4
<1>6. /\ cli.o \in 0..MaxQuests /\ cli.wq \in 0..MaxQuests /\ cli.results \in 0..MaxQuests
      /\ cli.processing \in 0..MaxQuests /\ cli.i \in 0..MaxQuests
  BY <1>1, <1>2, <1>3, <1>4, <1>5
<1>7. /\ srv.o \in 0..MaxQuests /\ srv.i \in 0..MaxQuests /\ srv.wq \in 0..MaxQuests
      /\ srv.results \in 0..MaxQuests /\ srv.processing \in 0..MaxQuests
  BY <1>1, <1>2, <1>3, <1>4, <1>5
<1>8. cli \in End BY <1>1, <1>3, <1>6 DEF Ends, End, Checks, Keys, Fds
<1>9. srv \in End BY <1>1, <1>3, <1>7 DEF Ends, End, Checks, Keys, Fds
<1> QED BY <1>1, <1>3, <1>5, <1>8, <1>9 DEF TypeOK

\* The two ways to count the encrypted messages.
LEMMA CodedNum ==
  ASSUME NEW q \in Seq(Messages), NEW k \in 1..Len(q)
  PROVE  Num(q, Coded, k) = Cardinality({j \in 1..k : q[j].key # "none"})
<1>1. \A j \in 1..k : j \in 1..Len(q) OBVIOUS
<1>2. \A j \in 1..k : q[j] \in Messages BY <1>1
<1>3. {j \in 1..k : q[j] \in Coded} = {j \in 1..k : q[j].key # "none"} BY <1>2 DEF Coded
<1> QED BY <1>3 DEF Num

LEMMA StepCiphers == AuthInv /\ StepInv => CiphersInStep
<1> SUFFICES ASSUME AuthInv, StepInv PROVE CiphersInStep
  OBVIOUS
<1>1. c2s \in Seq(Messages) /\ s2c \in Seq(Messages) BY Streams
<1>2. Up(c2s, srv, cli.o) /\ Down(s2c, cli, srv) /\ cli.key \in {"none", srv.key} BY Known
<1>3. ASSUME Reading(srv), NEW k \in 1..Len(c2s), c2s[k].key # "none"
      PROVE  c2s[k].key = srv.key /\ c2s[k].n = srv.i + Cardinality({j \in 1..k : c2s[j].key # "none"})
  <2>1. c2s[k].key = srv.key /\ c2s[k].n = srv.i + Num(c2s, Coded, k) BY <1>2, <1>3 DEF Up, Keyed, Nonces
  <2> QED BY <1>1, <2>1, CodedNum
<1>4. ASSUME Reading(cli), NEW k \in 1..Len(s2c), s2c[k].key # "none"
      PROVE  /\ \/ s2c[k].key = cli.key
                \/ cli.key = "none" /\ \E j \in 1..(k-1) : s2c[j].cmd = "SRP6a4"
             /\ s2c[k].n = cli.i + Cardinality({j \in 1..k : s2c[j].key # "none"})
  <2>1. s2c[k].key = srv.key /\ s2c[k].n = cli.i + Num(s2c, Coded, k) BY <1>2, <1>4 DEF Down, Keyed, Nonces
  <2>2. cli.key = "none" => Proof(s2c, k - 1) BY <1>2, <1>4 DEF Down
  <2>3. s2c[k].n = cli.i + Cardinality({j \in 1..k : s2c[j].key # "none"}) BY <1>1, <2>1, CodedNum
  <2> QED BY <1>2, <2>1, <2>2, <2>3 DEF Proof
<1>5. InStep(srv, c2s) BY <1>3 DEF InStep, Reading
<1>6. InStep(cli, s2c) BY <1>4 DEF InStep, Reading
<1> QED BY <1>5, <1>6 DEF CiphersInStep

\* The ends stay in their states, and no quest is queued, awaited, handled or
\* counted by a cipher more often than sendQuest() was called.
THEOREM HandshakeTypeCorrect == Spec => []TypeOK
<1>1. Init => AuthInv /\ StepInv
  BY AuthInit, StepInit
<1>2. AuthInv /\ StepInv /\ [Next]_vars => (AuthInv /\ StepInv)'
  BY AuthStep, StepStays
<1> QED BY <1>1, <1>2, StepTypes, PTL DEF Spec

\* The server switches its cipher on when it has sent its proof, the client when
\* it has checked it, and each counts what it encrypts and decrypts: recv_msg()
\* of an end that still reads never meets a message it has no cipher for, or one
\* out of step with its nonce.
THEOREM HandshakeCiphersInStep == Spec => []CiphersInStep
<1>1. Init => AuthInv /\ StepInv
  BY AuthInit, StepInit
<1>2. AuthInv /\ StepInv /\ [Next]_vars => (AuthInv /\ StepInv)'
  BY AuthStep, StepStays
<1> QED BY <1>1, <1>2, StepCiphers, PTL DEF Spec
=============================================================================
