------------------------------ MODULE Handshake ------------------------------
(***************************************************************************)
(* Authentication on a connection of the pthreads engine: the Check        *)
(* messages of ConnectionI::handle_check (EngineImp.cpp) with the code of  *)
(* PtConnection around it (start, recv_msg, send_kmsg, checkFinished,      *)
(* do_timeout), and the cipher that both ends switch on at its end.        *)
(*                                                                         *)
(* SRP6a is what its users rely on: both ends compute the same proofs and  *)
(* the same session key exactly when the client has the password of the    *)
(* verifier.  A connection is the TCP stream c2s to the server and s2c to  *)
(* the client.  What the two ends do once quests flow is PtConnection's:   *)
(* here disconnect() is one step and a quest is never retried.  Both ends  *)
(* run this code: what a peer that does not follow it may send is outside. *)
(***************************************************************************)
EXTENDS Integers, Sequences, FiniteSets

CONSTANT MaxQuests   \* quests of the client

ASSUME MaxQuestsAssumption == MaxQuests \in Nat

VARIABLES
  setup,     \* what the two processes are configured with
  cli, srv,  \* the two PtConnections
  c2s, s2c,  \* messages on the way
  timer,     \* the server's timer task `this': off, armed, or popped and about to run
  dying,     \* a task that will call disconnect() in a second
  asked,     \* quests the client has made
  served     \* quests given to handle_quest

vars == <<setup, cli, srv, c2s, s2c, timer, dying, asked, served>>

\* Connection::State and ConnectionI's CK_ states.
ST_INIT == 0
ST_WAITING_HELLO == 1
ST_ACTIVE == 2
ST_CLOSE == 3
ST_CLOSING == 4
ST_CLOSED == 5
ST_ERROR == 6

\* secret: what the client's SecretBox holds for this server.
Setups == [shadow : BOOLEAN, cipher : BOOLEAN, secret : {"good", "bad", "unknown", "none"}]

\* key: the session key of _cipher, or none; o, i: messages the cipher has
\* encrypted and decrypted, on which the nonces depend; wq: quests queued;
\* results: size of _resultMap; processing: _processing; fd: the descriptor
\* is in the dispatcher, after disconnect() it is "closed".
Fresh(state) ==
  [state |-> state, ck |-> "INIT", key |-> "none", o |-> 0, i |-> 0, wq |-> 0,
   results |-> 0, processing |-> 0, fd |-> "open"]

Init ==
  /\ setup \in Setups
  /\ cli = Fresh(ST_INIT) /\ srv = Fresh(ST_WAITING_HELLO)
  /\ c2s = <<>> /\ s2c = <<>>
  /\ timer = "off" /\ dying = FALSE /\ asked = 0 /\ served = 0

-----------------------------------------------------------------------------
(* Messages.  get_msg_iovec() encrypts quests and answers only. *)

Check(cmd, data) == [type |-> "C", cmd |-> cmd, data |-> data, key |-> "none", n |-> 0]
Plain(type) == [type |-> type, cmd |-> "", data |-> "", key |-> "none", n |-> 0]

Encrypted(type) == type \in {"Q", "A"}

\* Faulty variant: all messages of one write have the same nonce.
MessageSameNonce(e, type, k) ==
  IF Encrypted(type) /\ e.key # "none"
  THEN [Plain(type) EXCEPT !.key = e.key, !.n = e.o + 1]
  ELSE Plain(type)

\* The k-th message from now that end e writes, and e after n of them.
Message(e, type, k) ==
  IF Encrypted(type) /\ e.key # "none"
  THEN [Plain(type) EXCEPT !.key = e.key, !.n = e.o + k]
  ELSE Plain(type)
Burst(e, type, n) == [k \in 1..n |-> Message(e, type, k)]
After(e, type, n) == IF Encrypted(type) /\ e.key # "none" THEN [e EXCEPT !.o = @ + n] ELSE e

\* recv_msg: a message with the cipher flag needs the cipher, and the nonce of
\* the receiver must be the sender's.
Readable(e, msg) == msg.key = "none" \/ (msg.key = e.key /\ msg.n = e.i + 1)
Read(e, msg) == IF msg.key = "none" THEN e ELSE [e EXCEPT !.i = @ + 1]

\* disconnect()
Gone(e) ==
  [e EXCEPT !.fd = "closed", !.wq = 0, !.results = 0,
            !.state = IF @ < ST_CLOSED THEN ST_CLOSED ELSE @]
Failed(e) == [e EXCEPT !.state = ST_ERROR]

-----------------------------------------------------------------------------
(* The client.  It has one thread of its dispatcher. *)

clientOnly == UNCHANGED <<setup, srv, timer, dying, served>>

\* Faulty variant: what has been written stays in the queue.
CWriteAgain ==
  /\ cli.fd = "open" /\ cli.state \in ST_ACTIVE..ST_CLOSING /\ cli.wq > 0
  /\ cli' = After(cli, "Q", cli.wq) /\ c2s' = c2s \o Burst(cli, "Q", cli.wq)
  /\ clientOnly /\ UNCHANGED <<s2c, asked>>

\* do_write(), when the socket is or becomes writable.
CWrite ==
  LET e == [cli EXCEPT !.state = IF @ < ST_WAITING_HELLO THEN ST_WAITING_HELLO ELSE @]
  IN /\ cli.fd = "open" /\ cli.state < ST_CLOSED
     /\ IF e.state < ST_ACTIVE
        THEN cli' = e /\ UNCHANGED c2s
        ELSE /\ cli' = [After(e, "Q", e.wq) EXCEPT !.wq = 0]
             /\ c2s' = c2s \o Burst(e, "Q", e.wq)
     /\ cli' # cli
     /\ clientOnly /\ UNCHANGED <<s2c, asked>>

\* sendQuest()
CQuest ==
  /\ asked < MaxQuests /\ cli.state < ST_CLOSED /\ asked' = asked + 1
  /\ IF cli.state < ST_ACTIVE \/ cli.wq > 0
     THEN cli' = [cli EXCEPT !.wq = @ + 1, !.results = @ + 1] /\ UNCHANGED c2s
     ELSE /\ cli' = [After(cli, "Q", 1) EXCEPT !.results = @ + 1]
          /\ c2s' = Append(c2s, Message(cli, "Q", 1))
  /\ clientOnly /\ UNCHANGED s2c

\* close(false): _grace()
CClose ==
  /\ cli.state < ST_CLOSE
  /\ IF cli.results > 0
     THEN cli' = [cli EXCEPT !.state = ST_CLOSE] /\ UNCHANGED c2s
     ELSE cli' = [cli EXCEPT !.state = ST_CLOSING] /\ c2s' = Append(c2s, Plain("B"))
  /\ clientOnly /\ UNCHANGED <<s2c, asked>>

\* An exception in recv_msg or do_read, a timeout: set_exception and disconnect.
CFails == cli' = Gone(Failed(cli)) /\ UNCHANGED c2s

\* handle_check() of the client.
CCheck(msg) ==
  CASE msg.cmd = "AUTHENTICATE" /\ cli.ck = "INIT" /\ setup.secret # "none" ->
         /\ cli' = [cli EXCEPT !.ck = "S2"]
         /\ c2s' = Append(c2s, Check("SRP6a1", setup.secret))
    [] msg.cmd = "SRP6a2" /\ cli.ck = "S2" ->
         /\ cli' = [cli EXCEPT !.ck = "S4"]
         /\ c2s' = Append(c2s, Check("SRP6a3", setup.secret))
    [] msg.cmd = "SRP6a4" /\ cli.ck = "S4" /\ msg.data = setup.secret ->
         /\ cli' = [cli EXCEPT !.ck = "FINISH",
                               !.key = IF setup.cipher THEN setup.secret ELSE @]
         /\ UNCHANGED c2s
    [] OTHER -> CFails   \* FORBIDDEN too

\* recv_msg() and do_read() of one message.
CRecv ==
  LET msg == Head(s2c)
      e == Read(cli, msg)
  IN /\ s2c # <<>> /\ cli.fd = "open" /\ cli.state \in ST_WAITING_HELLO..ST_CLOSING
     /\ s2c' = Tail(s2c)
     /\ CASE ~Readable(cli, msg) -> CFails
          [] Readable(cli, msg) /\ msg.type = "H" ->
               IF cli.state < ST_ACTIVE
               THEN /\ cli' = [After(cli, "Q", cli.wq) EXCEPT !.state = ST_ACTIVE, !.wq = 0]
                    /\ c2s' = c2s \o Burst(cli, "Q", cli.wq)
               ELSE UNCHANGED <<cli, c2s>>
          [] Readable(cli, msg) /\ msg.type = "B" ->
               cli' = Gone([cli EXCEPT !.state = ST_CLOSED]) /\ UNCHANGED c2s
          [] Readable(cli, msg) /\ msg.type = "C" ->
               IF cli.state = ST_WAITING_HELLO THEN CCheck(msg) ELSE CFails
          [] Readable(cli, msg) /\ msg.type = "A" ->
               IF cli.state = ST_CLOSE /\ cli.results = 1
               THEN /\ cli' = [e EXCEPT !.results = 0, !.state = ST_CLOSING]
                    /\ c2s' = Append(c2s, Plain("B"))
               ELSE cli' = [e EXCEPT !.results = @ - 1] /\ UNCHANGED c2s
     /\ clientOnly /\ UNCHANGED asked

\* The end of the stream, a timeout of the client, or its process is killed.
CEnd ==
  /\ cli.fd = "open"
  /\ CFails /\ clientOnly /\ UNCHANGED <<s2c, asked>>

-----------------------------------------------------------------------------
(* The server. *)

serverOnly == UNCHANGED <<setup, cli, asked>>

\* start(), after addFd().  The reading thread may have seen the end of the
\* stream and disconnected already: then the send throws, as it does when the
\* write fails, and the listener closes the socket under the connection, from
\* which no event comes any more.
StartThrows ==
  /\ srv' = IF setup.shadow /\ srv.fd = "closed"
            THEN [srv EXCEPT !.ck = "S1"]
            ELSE [srv EXCEPT !.ck = IF setup.shadow THEN "S1" ELSE "FINISH",
                             !.state = ST_ERROR, !.fd = IF @ = "open" THEN "stray" ELSE @]
  /\ UNCHANGED <<s2c, timer>>

StartSends ==
  /\ srv.fd = "open"
  /\ IF setup.shadow
     THEN /\ srv' = [srv EXCEPT !.ck = "S1"] /\ timer' = "armed"
          /\ s2c' = Append(s2c, Check("AUTHENTICATE", ""))
     ELSE /\ srv' = [srv EXCEPT !.ck = "FINISH", !.state = ST_ACTIVE]
          /\ s2c' = Append(s2c, Plain("H")) /\ UNCHANGED timer

\* Faulty variant: the client may take its time.
SStartNoTimer ==
  /\ srv.ck = "INIT" /\ srv.fd = "open" /\ setup.shadow
  /\ srv' = [srv EXCEPT !.ck = "S1"] /\ s2c' = Append(s2c, Check("AUTHENTICATE", ""))
  /\ serverOnly /\ UNCHANGED <<timer, c2s, dying, served>>

SStart ==
  /\ srv.ck = "INIT"
  /\ StartSends \/ StartThrows
  /\ serverOnly /\ UNCHANGED <<c2s, dying, served>>

SFails == srv' = Gone(Failed(srv)) /\ timer' = "off" /\ UNCHANGED <<s2c, dying>>

\* The peer is told why and is given a second to read it; the loop reads on.
SForbidden ==
  /\ srv' = Failed(srv) /\ dying' = TRUE
  /\ s2c' = Append(s2c, Check("FORBIDDEN", ""))
  /\ UNCHANGED timer

\* handle_check() of the server, the lock held from its look at _state.
\* Faulty variant: the proof of the client is not compared.
SCheckNoM1(msg) ==
  IF msg.cmd = "SRP6a1"
  THEN /\ srv' = [srv EXCEPT !.ck = "S3"]
       /\ s2c' = Append(s2c, Check("SRP6a2", "")) /\ UNCHANGED <<timer, dying>>
  ELSE /\ srv' = [srv EXCEPT !.ck = "FINISH", !.state = ST_ACTIVE,
                             !.key = IF setup.cipher THEN "good" ELSE @]
       /\ s2c' = s2c \o <<Check("SRP6a4", "good"), Plain("H")>>
       /\ timer' = "off" /\ UNCHANGED dying

SCheck(msg) ==
  CASE msg.cmd = "SRP6a1" /\ srv.ck = "S1" /\ msg.data # "unknown" ->
         /\ srv' = [srv EXCEPT !.ck = "S3"]
         /\ s2c' = Append(s2c, Check("SRP6a2", "")) /\ UNCHANGED <<timer, dying>>
    [] msg.cmd = "SRP6a3" /\ srv.ck = "S3" /\ msg.data = "good" ->
         /\ srv' = [srv EXCEPT !.ck = "FINISH", !.state = ST_ACTIVE,
                               !.key = IF setup.cipher THEN "good" ELSE @]
         /\ s2c' = s2c \o <<Check("SRP6a4", "good"), Plain("H")>>
         /\ timer' = (IF timer = "armed" THEN "off" ELSE timer)   \* checkFinished
         /\ UNCHANGED dying
    [] OTHER -> SForbidden

\* send_kmsg() fails: so does the one for FORBIDDEN, as _state is ST_ERROR by then.
SCheckUnsent ==
  srv' = Failed(srv) /\ dying' = TRUE /\ UNCHANGED <<s2c, timer>>

\* recv_msg() takes Hello on either end, and without a look at _ck_state; to a
\* server nobody who runs this code sends one.
SHello ==
  /\ IF srv.state < ST_ACTIVE
     THEN /\ srv' = [srv EXCEPT !.state = ST_ACTIVE]
          /\ timer' = (IF timer = "armed" THEN "off" ELSE timer)
     ELSE UNCHANGED <<srv, timer>>
  /\ UNCHANGED <<s2c, dying, served>>

SRecv ==
  LET msg == Head(c2s)
  IN /\ c2s # <<>> /\ srv.fd = "open" /\ srv.state < ST_CLOSED
     /\ c2s' = Tail(c2s)
     /\ CASE ~Readable(srv, msg) -> SFails /\ UNCHANGED served
          [] Readable(srv, msg) /\ msg.type = "B" ->
               /\ srv' = Gone([srv EXCEPT !.state = ST_CLOSED]) /\ timer' = "off"
               /\ UNCHANGED <<s2c, dying, served>>
          [] Readable(srv, msg) /\ msg.type = "H" -> SHello
          [] Readable(srv, msg) /\ msg.type = "C" ->
               /\ IF srv.state = ST_WAITING_HELLO THEN SCheck(msg) \/ SCheckUnsent ELSE SFails
               /\ UNCHANGED served
          [] Readable(srv, msg) /\ msg.type = "Q" ->
               IF srv.state < ST_ACTIVE
               THEN SFails /\ UNCHANGED served
               ELSE /\ IF srv.state = ST_ACTIVE
                       THEN srv' = [Read(srv, msg) EXCEPT !.processing = @ + 1]
                            /\ served' = served + 1
                       ELSE srv' = Read(srv, msg) /\ UNCHANGED served
                    /\ UNCHANGED <<s2c, timer, dying>>
     /\ serverOnly

\* The end of the stream.  After SForbidden the same call of recv_msg reads on,
\* and what it finds may end the connection before the second is over.
SEnd ==
  /\ srv.fd = "open"
  /\ \/ srv.state < ST_CLOSED /\ cli.fd = "closed" /\ c2s = <<>>
     \/ dying /\ (cli.fd = "closed" \/ c2s # <<>>)
  /\ SFails /\ serverOnly /\ UNCHANGED <<c2s, served>>

\* replyAnswer()
SReply ==
  /\ srv.processing > 0
  /\ LET last == srv.state = ST_CLOSE /\ srv.processing = 1
         e == [After(srv, "A", 1) EXCEPT !.processing = @ - 1]
     IN IF srv.state >= ST_CLOSED
        THEN srv' = [srv EXCEPT !.processing = @ - 1] /\ UNCHANGED <<s2c, timer>>
        ELSE IF last
        THEN /\ srv' = [e EXCEPT !.state = ST_CLOSING] /\ timer' = "armed"
             /\ s2c' = s2c \o <<Message(srv, "A", 1), Plain("B")>>
        ELSE srv' = e /\ s2c' = Append(s2c, Message(srv, "A", 1)) /\ UNCHANGED timer
  /\ serverOnly /\ UNCHANGED <<c2s, dying, served>>

\* close(false) by the reaper or shutdown(), which know it after start().
SClose ==
  /\ srv.ck # "INIT" /\ srv.fd = "open" /\ srv.state < ST_CLOSE
  /\ IF srv.processing > 0
     THEN srv' = [srv EXCEPT !.state = ST_CLOSE] /\ UNCHANGED <<s2c, timer>>
     ELSE srv' = [srv EXCEPT !.state = ST_CLOSING] /\ s2c' = Append(s2c, Plain("B"))
          /\ timer' = "armed"
  /\ serverOnly /\ UNCHANGED <<c2s, dying, served>>

\* do_timeout(): the task is popped, then set_exception() takes the lock.
SPop ==
  /\ timer = "armed" /\ timer' = "popped"
  /\ serverOnly /\ UNCHANGED <<srv, c2s, s2c, dying, served>>
STimeout ==
  /\ timer = "popped"
  /\ SFails /\ serverOnly /\ UNCHANGED <<c2s, served>>

\* The task that recv_msg leaves behind for a client that was refused.
SDisconnect ==
  /\ dying /\ dying' = FALSE
  /\ srv' = Gone(srv) /\ timer' = "off"
  /\ serverOnly /\ UNCHANGED <<c2s, s2c, served>>

-----------------------------------------------------------------------------
Client == CWrite \/ CQuest \/ CClose \/ CRecv \/ CEnd
Server == SStart \/ SRecv \/ SEnd \/ SReply \/ SClose \/ SPop \/ STimeout \/ SDisconnect
Next == Client \/ Server

Spec == Init /\ [][Next]_vars

\* start() returns and the timer thread runs its tasks.  Nothing is assumed of
\* the client, the network or the servants.
Fairness == WF_vars(SStart) /\ WF_vars(SPop) /\ WF_vars(STimeout) /\ WF_vars(SDisconnect)
FairSpec == Spec /\ Fairness

-----------------------------------------------------------------------------
(* Properties. *)

End ==
  [state : ST_INIT..ST_ERROR, ck : {"INIT", "S1", "S2", "S3", "S4", "FINISH"},
   key : {"none", "good", "bad", "unknown"}, o : 0..MaxQuests, i : 0..MaxQuests,
   wq : 0..MaxQuests, results : 0..MaxQuests, processing : 0..MaxQuests,
   fd : {"open", "stray", "closed"}]

TypeOK ==
  /\ setup \in Setups /\ cli \in End /\ srv \in End
  /\ timer \in {"off", "armed", "popped"} /\ dying \in BOOLEAN
  /\ asked \in 0..MaxQuests /\ served \in 0..asked

\* handle_check and do_read of two ends that run this code, against each other,
\* the timers and close(): if the client was configured with a wrong password, an
\* unknown name or none, a server with a shadow file runs none of its quests, and
\* a client that was asked to authenticate never takes itself for active.  The
\* guarantee is that of the pair: recv_msg makes an end active on any Hello, but a
\* client sends none, and a server only after start() or after the proof.
WrongPasswordUnserved ==
  setup.secret # "good" =>
    /\ setup.shadow => served = 0 /\ srv.state # ST_ACTIVE
    /\ cli.ck # "INIT" => cli.state # ST_ACTIVE /\ cli.ck # "FINISH"

\* Each end switches its cipher on by itself and counts its messages: whatever
\* is on the way to an end that nobody has asked to close can be decrypted in the
\* order it comes.
InStep(e, q) ==
  (e.fd = "open" /\ e.state < ST_CLOSE) => \A k \in 1..Len(q) :
    q[k].key # "none" =>
      /\ \/ q[k].key = e.key
         \/ e.key = "none" /\ \E j \in 1..(k-1) : q[j].cmd = "SRP6a4"
      /\ q[k].n = e.i + Cardinality({j \in 1..k : q[j].key # "none"})
CiphersInStep == InStep(cli, s2c) /\ InStep(srv, c2s)

\* Liveness: an authentication that was begun comes to an end, in an active
\* connection or in one that is closed, whatever the client does.
HandshakeEnds == (srv.ck = "S1") ~> (srv.state = ST_ACTIVE \/ srv.fd # "open")
=============================================================================
