---------------------------- MODULE PtConnection ----------------------------
(***************************************************************************)
(* The connection of the pthreads engine, xic/PtEngineImp.cpp, seen from   *)
(* the client: how a twoway quest is given a connection and a transaction  *)
(* id, written, answered, failed or retried, and how a connection is       *)
(* closed, by either side, gracefully (Bye) or not.                        *)
(*                                                                         *)
(* One proxy with one endpoint.  Every connection has a client end, the    *)
(* record conn[c], and a server end, the record srv[c]; the two directions *)
(* of the socket are the sequences s2c[c] and c2s[c].  An action is one    *)
(* critical section of the code: it starts where the connection's mutex is *)
(* taken and ends where it is given back, so that what a thread carries    *)
(* from one section to the next is state of its own (at, writing, reader,  *)
(* disc, taken, failing, firing, giving) and any other thread may run in   *)
(* between.  The server's end is coarser: a step there is a whole message. *)
(***************************************************************************)
EXTENDS Integers, Sequences, FiniteSets

CONSTANTS
  Quests,       \* the twoway quests; a quest and its PtResult are one thing
  Conns,        \* connections the engine may make (bound on makeConnection)
  Readers,      \* threads of the client dispatcher's pool
  None,         \* no quest, no connection
  LB,           \* Proxy::LoadBalance: "normal" or "random"
  MsgTimeout,   \* is _msg_timeout > 0?
  Env           \* what the surroundings may do, a subset of EnvEvents

(* close/sclose: the application, the reaper or shutdown() calls           *)
(* close(false) on the client's or the server's end; force/sforce:         *)
(* close(true) or the death of the process; reset: the TCP connection      *)
(* breaks; huge: a quest larger than xic_message_size is emitted; refuse:  *)
(* makeConnection() throws; timeout: a timeout expires (a run without it   *)
(* looks at what happens faster than every timeout).                       *)
EnvEvents == {"close", "sclose", "force", "sforce", "reset", "huge", "refuse",
              "timeout"}

ASSUME ConstantsAssumption ==
  /\ None \notin Quests \cup Conns \cup Readers
  /\ None \notin Conns \X [type : {"A"}, id : Nat, q : Quests]
  /\ Quests \cap Readers = {}
  /\ "grace" \notin Quests \cup Readers \cup {None}
  /\ "again" \notin Quests \cup {None}
  /\ "null" \notin Quests \cup {None}
  /\ LB \in {"normal", "random"}
  /\ MsgTimeout \in BOOLEAN
  /\ Env \subseteq EnvEvents

(* Connection::State, in the order the code compares.                      *)
ST_INIT          == 0
ST_WAITING_HELLO == 1
ST_ACTIVE        == 2
ST_CLOSE         == 3
ST_CLOSING       == 4
ST_CLOSED        == 5
ST_ERROR         == 6

VARIABLES
  conn,     \* [Conns -> record]: the client ends
  made,     \* the connections makeConnection has created
  cur,      \* ProxyI::_cons[0]
  writing,  \* writing[c][w]: thread w is inside _write_q(c) without the lock:
            \*   the result whose questSent() it is about to call, "again", or
            \*   "null" when no result was found: the call ends the process
  disc,     \* disconnect(): "no", "called", or "begun" (timers removed)
  taken,    \* taken[c]: results disconnect() took from the map, not yet handled
  reader,   \* reader[r]: the connection and answer a do_read() carries, or None
  failing,  \* <<c, q>>: the sender of q has left c's lock with an exception
  firing,   \* the connection whose do_timeout() the timer thread is in, or None
  at,       \* at[q]: the thread that sends q: "new", "pick", "start", "send",
            \*   or "out" once sendQuest is over
  con,      \* con[q]: the connection pickConnection returned for q
  txid,     \* Quest::txid, 0 for the -1 of a quest never sent
  retries,  \* PtResult::_retryNumber
  isSent,   \* PtResult::_isSent
  giving,   \* results on whose giveAnswer/giveError a thread is about to call
  outcome,  \* PtResult::_answer / _ex
  srv,      \* [Conns -> record]: the server ends
  sread,    \* sread[c]: quests the server has read and not yet looked at
  executing,\* executing[c]: quests whose servant runs, <<txid, quest>>
  executed, \* executed[c]: quests a servant of c's server end has begun
  c2s, s2c, \* the bytes in flight, as whole messages
  broken    \* broken[c]: the TCP connection was reset

connVars == <<conn, made, cur>>
thrVars  == <<writing, disc, taken, reader, failing, firing>>
resVars  == <<at, con, txid, retries, isSent, giving, outcome>>
srvVars  == <<srv, sread, executing, executed>>
netVars  == <<c2s, s2c, broken>>
vars     == <<connVars, thrVars, resVars, srvVars, netVars>>

(* Whoever may be inside _write_q: the sender of a quest, a dispatcher     *)
(* thread, the caller of close(false).                                     *)
Writers == Quests \cup Readers \cup {"grace"}

Msg(t, id, q) == [type |-> t, id |-> id, q |-> q]
Hello == Msg("H", 0, None)
Bye   == Msg("B", 0, None)

\* What the constructor and init() leave in a PtConnection.
FreshConn == [st |-> ST_INIT, graceful |-> FALSE, wq |-> <<>>, map |-> {},
              next |-> 1, rt |-> FALSE, wt |-> FALSE, fd |-> FALSE,
              halt |-> FALSE]
FreshSrv  == [st |-> ST_WAITING_HELLO, wq |-> <<>>, processing |-> 0,
              rt |-> FALSE, fd |-> FALSE, up |-> FALSE, started |-> FALSE]

Init ==
  /\ conn = [c \in Conns |-> FreshConn]
  /\ made = {}
  /\ cur = None
  /\ writing = [c \in Conns |-> [w \in Writers |-> None]]
  /\ disc = [c \in Conns |-> "no"]
  /\ taken = [c \in Conns |-> {}]
  /\ reader = [r \in Readers |-> None]
  /\ failing = {}
  /\ firing = None
  /\ at = [q \in Quests |-> "new"]
  /\ con = [q \in Quests |-> None]
  /\ txid = [q \in Quests |-> 0]
  /\ retries = [q \in Quests |-> 0]
  /\ isSent = [q \in Quests |-> FALSE]
  /\ giving = {}
  /\ outcome = [q \in Quests |-> "none"]
  /\ srv = [c \in Conns |-> FreshSrv]
  /\ sread = [c \in Conns |-> {}]
  /\ executing = [c \in Conns |-> {}]
  /\ executed = [c \in Conns |-> {}]
  /\ c2s = [c \in Conns |-> <<>>]
  /\ s2c = [c \in Conns |-> <<>>]
  /\ broken = [c \in Conns |-> FALSE]

-----------------------------------------------------------------------------
(* _write_q(lock), from where the lock is held to where it is released.    *)

\* writev() may fail once the connection is reset or either end has closed it.
\* After one failure _oloc is halted and every later call fails at once.
WriteMayFail(c, k) ==
  \/ k.halt
  \/ /\ k.st >= ST_ACTIVE /\ k.wq # <<>>
     /\ ~k.fd \/ broken[c] \/ (srv[c].up /\ ~srv[c].fd)

\* Nothing more can be written now: the queue is empty (or the state allows
\* only Check messages), or the socket would block.
Paused(k) ==
  [k EXCEPT !.wt = IF MsgTimeout THEN k.st >= ST_ACTIVE /\ k.wq # <<>> ELSE @]

EntriesOf(k, id) == {p \in k.map : p[1] = id}
QuestsOf(entries) == {p[2] : p \in entries}

\* _resultMap.findResult(txid)
findResult(k, id) ==
  IF EntriesOf(k, id) = {} THEN "null" ELSE CHOOSE q \in QuestsOf(EntriesOf(k, id)) : TRUE

\* The loop ran and the caller gets 0, or it was left with the lock released
\* to call questSent() of the result of the quest just written.
WriteOK(c, w, k) ==
  \/ /\ ~k.halt
     /\ conn' = [conn EXCEPT ![c] = Paused(k)]
     /\ writing' = [writing EXCEPT ![c][w] = None]
     /\ UNCHANGED c2s
  \/ /\ ~k.halt
     /\ k.st >= ST_ACTIVE
     /\ k.wq # <<>>
     /\ k.fd /\ srv[c].up /\ ~broken[c]
     /\ c2s' = [c2s EXCEPT ![c] = IF srv[c].fd THEN Append(@, Head(k.wq)) ELSE @]
     /\ IF Head(k.wq).type = "Q"
        THEN /\ conn' = [conn EXCEPT ![c] = [k EXCEPT !.wq = Tail(@)]]
             /\ writing' = [writing EXCEPT ![c][w] = findResult(k, Head(k.wq).id)]
        ELSE /\ conn' = [conn EXCEPT ![c] = Paused([k EXCEPT !.wq = Tail(@)])]
             /\ writing' = [writing EXCEPT ![c][w] = None]

\* The call returns -1 and leaves FailedWrite(k); what follows is the caller's.
WriteFails(c, w, k) ==
  /\ WriteMayFail(c, k)
  /\ writing' = [writing EXCEPT ![c][w] = None]
  /\ UNCHANGED c2s

SetException(k) == [k EXCEPT !.st = ST_ERROR]
FailedWrite(k) == [SetException(k) EXCEPT !.halt = TRUE]

\* _send_qmsg(): queue the message, and write it at once unless the queue was
\* already being drained.  SendFails leaves conn to its caller.
Queued(k, m) == [k EXCEPT !.wq = Append(@, m)]
MustWrite(k) == k.st >= ST_ACTIVE /\ k.wq = <<>>

SendOK(c, w, k, m) ==
  IF MustWrite(k) THEN WriteOK(c, w, Queued(k, m))
  ELSE /\ conn' = [conn EXCEPT ![c] = Queued(k, m)]
       /\ UNCHANGED <<writing, c2s>>

SendFails(c, w, k, m) == MustWrite(k) /\ WriteFails(c, w, Queued(k, m))

\* Some thread is about to run disconnect().
Call(c) == [disc EXCEPT ![c] = IF @ = "begun" THEN @ ELSE "called"]

-----------------------------------------------------------------------------
(* PtProxy::emitQuest and retryQuest: pick a connection.                   *)

\* pickConnection() returns the connection it has.  LB_RANDOM (and LB_HASH)
\* also keep a connection in ST_ERROR, until 3 seconds after the error.
MayReuse == /\ cur # None
            /\ \/ conn[cur].st < ST_CLOSE
               \/ LB = "random" /\ conn[cur].st = ST_ERROR
MustReuse == cur # None /\ conn[cur].st < ST_CLOSE

\* The proxy's mutex is held from here until start() of a new connection ends.
Picking(q) == at[q] \in {"new", "pick"} /\ \A x \in Quests : at[x] # "start"

PickExisting(q) ==
  /\ Picking(q)
  /\ MayReuse
  /\ at' = [at EXCEPT ![q] = "send"]
  /\ con' = [con EXCEPT ![q] = cur]
  /\ UNCHANGED <<connVars, thrVars, txid, retries, isSent, giving, outcome,
                 srvVars, netVars>>

\* makeConnection(): the constructor's nonblocking connect(), then start(),
\* which gives the fd to the dispatcher before it arms the connect timeout.
PickNew(q, c) ==
  /\ Picking(q)
  /\ ~MustReuse
  /\ c \notin made
  /\ made' = made \cup {c}
  /\ conn' = [conn EXCEPT ![c] = [FreshConn EXCEPT !.fd = TRUE]]
  /\ at' = [at EXCEPT ![q] = "start"]
  /\ con' = [con EXCEPT ![q] = c]
  /\ UNCHANGED <<cur, thrVars, txid, retries, isSent, giving, outcome, srvVars,
                 netVars>>

\* The timer's addTask() refuses the task that a disconnect() has reset.
StartTimer(q) ==
  /\ at[q] = "start"
  /\ conn' = [conn EXCEPT ![con[q]].wt = conn[con[q]].fd]
  /\ cur' = con[q]
  /\ at' = [at EXCEPT ![q] = "send"]
  /\ UNCHANGED <<made, thrVars, con, txid, retries, isSent, giving, outcome,
                 srvVars, netVars>>

\* makeConnection() throws (connect() failed at once, the engine is stopped):
\* emitQuest gives the error; retryQuest returns false and disconnect gives it.
\* It is also what happens when the bound Conns is reached.
PickThrows(q) ==
  /\ Picking(q)
  /\ ~MustReuse
  /\ "refuse" \in Env \/ made = Conns
  /\ at' = [at EXCEPT ![q] = "out"]
  /\ giving' = giving \cup {<<q, "error">>}
  /\ UNCHANGED <<connVars, thrVars, con, txid, retries, isSent, outcome,
                 srvVars, netVars>>

-----------------------------------------------------------------------------
(* PtConnection::sendQuest(quest, r)                                       *)

\* The connection was closed between pickConnection and here.  The handler
\* takes a positive txid for a sign that the result is in the map.
SendQuestClosed(q) ==
  LET c == con[q]
      k == conn[c]
      found == EntriesOf(k, txid[q])
  IN /\ at[q] = "send"
     /\ k.st >= ST_CLOSED
     /\ at' = [at EXCEPT ![q] = "out"]
     /\ IF txid[q] > 0
        THEN /\ conn' = [conn EXCEPT ![c].map = @ \ found]
             /\ giving' = giving \cup {<<x, "error">> : x \in QuestsOf(found)}
        ELSE /\ giving' = giving \cup {<<q, "error">>}
             /\ UNCHANGED conn
     /\ UNCHANGED <<made, cur, thrVars, con, txid, retries, isSent, outcome,
                    srvVars, netVars>>

\* Faulty variants of the next definition: the message timer is not armed; the
\* transaction id is not advanced; the result goes in under the next id.
AddedNoTimer(k, q) == [k EXCEPT !.map = @ \cup {<<k.next, q>>}, !.next = @ + 1]
AddedSameTxid(k, q) ==
  [k EXCEPT !.map = @ \cup {<<k.next, q>>}, !.rt = @ \/ (MsgTimeout /\ k.map = {})]
AddedUnderNextTxid(k, q) ==
  [k EXCEPT !.map = @ \cup {<<k.next + 1, q>>}, !.next = @ + 1,
            !.rt = @ \/ (MsgTimeout /\ k.map = {})]

\* addResult, setTxid, the message timer; the quest is not yet queued.
Added(k, q) ==
  [k EXCEPT !.map = @ \cup {<<k.next, q>>},
            !.next = @ + 1,
            !.rt = @ \/ (MsgTimeout /\ k.map = {})]

\* The lock is left with the quest queued and written as far as possible, or
\* with the exception of a failed write.
SendQuest(q) ==
  LET c == con[q]
      k == conn[c]
      k1 == Added(k, q)
      quest == Msg("Q", k.next, q)
  IN /\ at[q] = "send"
     /\ k.st < ST_CLOSED
     /\ at' = [at EXCEPT ![q] = "out"]
     /\ txid' = [txid EXCEPT ![q] = k.next]
     /\ \/ /\ SendOK(c, q, k1, quest)
           /\ UNCHANGED failing
        \/ /\ SendFails(c, q, k1, quest)
           /\ conn' = [conn EXCEPT ![c] = FailedWrite(Queued(k1, quest))]
           /\ failing' = failing \cup {<<c, q>>}
     /\ UNCHANGED <<made, cur, disc, taken, reader, firing, con, retries, isSent,
                    giving, outcome, srvVars, s2c, broken>>

\* _send_qmsg throws MessageSizeException before it queues the quest.
SendQuestHuge(q) ==
  LET c == con[q]
      k == conn[c]
  IN /\ "huge" \in Env
     /\ at[q] = "send"
     /\ k.st < ST_CLOSED
     /\ at' = [at EXCEPT ![q] = "out"]
     /\ txid' = [txid EXCEPT ![q] = k.next]
     /\ conn' = [conn EXCEPT ![c] = Added(k, q)]
     /\ failing' = failing \cup {<<c, q>>}
     /\ UNCHANGED <<made, cur, writing, disc, taken, reader, firing, con, retries,
                    isSent, giving, outcome, srvVars, netVars>>

\* Faulty variant: the handler gives the error but leaves the result in the map.
DroppedNot(k, id) == k

\* removeResult(txid)
Dropped(k, id) == [k EXCEPT !.map = @ \ EntriesOf(k, id)]

\* The catch clause, once the result has been added: it takes the lock again
\* and fails the result, unless a disconnect() has taken it meanwhile.
SendQuestCatch(c, q) ==
  /\ <<c, q>> \in failing
  /\ failing' = failing \ {<<c, q>>}
  /\ conn' = [conn EXCEPT ![c] = Dropped(conn[c], txid[q])]
  /\ giving' = giving \cup {<<x, "error">> : x \in QuestsOf(EntriesOf(conn[c], txid[q]))}
  /\ UNCHANGED <<made, cur, writing, disc, taken, reader, firing, at, con, txid,
                 retries, isSent, outcome, srvVars, netVars>>

-----------------------------------------------------------------------------
(* The rest of _write_q, for a thread that had released the lock.          *)

QuestSent(c, w) ==
  /\ writing[c][w] \in Quests
  /\ isSent' = [isSent EXCEPT ![writing[c][w]] = TRUE]
  /\ writing' = [writing EXCEPT ![c][w] = "again"]
  /\ UNCHANGED <<connVars, disc, taken, reader, failing, firing, at, con, txid,
                 retries, giving, outcome, srvVars, netVars>>

\* The lock is taken again and the loop continues.  When it fails, sendQuest
\* has an exception, a dispatcher thread disconnects, close() ignores it.
WriteAgain(c, w) ==
  LET k == conn[c]
  IN /\ writing[c][w] = "again"
     /\ \/ /\ WriteOK(c, w, k)
           /\ UNCHANGED <<failing, disc>>
        \/ /\ WriteFails(c, w, k)
           /\ conn' = [conn EXCEPT ![c] = FailedWrite(k)]
           /\ failing' = IF w \in Quests THEN failing \cup {<<c, w>>} ELSE failing
           /\ disc' = IF w \in Readers THEN Call(c) ELSE disc
     /\ UNCHANGED <<made, cur, taken, reader, firing, resVars, srvVars, s2c, broken>>

-----------------------------------------------------------------------------
(* The client dispatcher: event_on_fd, do_write, recv_msg, do_read.        *)

IdleReader(r) == reader[r] = None /\ \A c \in Conns : writing[c][r] = None

DoWrite(c, r) ==
  LET k == conn[c]
      k1 == IF k.st < ST_WAITING_HELLO
            THEN [k EXCEPT !.st = ST_WAITING_HELLO, !.wt = FALSE] ELSE k
  IN /\ IdleReader(r)
     /\ c \in made
     /\ srv[c].up \/ broken[c]
     /\ k.fd
     /\ k.st < ST_CLOSED
     /\ \/ /\ WriteOK(c, r, k1)
           /\ UNCHANGED disc
        \/ /\ WriteFails(c, r, k1)
           /\ conn' = [conn EXCEPT ![c] = FailedWrite(k1)]
           /\ disc' = Call(c)
     /\ UNCHANGED <<made, cur, taken, reader, failing, firing, resVars, srvVars, s2c,
                    broken>>

Readable(c, r) ==
  /\ IdleReader(r)
  /\ c \in made
  /\ conn[c].fd
  /\ conn[c].st \in ST_WAITING_HELLO .. ST_CLOSING

\* Faulty variant: the timer is removed although results are outstanding.
RecvHelloDisarms(c, r) ==
  /\ Readable(c, r)
  /\ s2c[c] # <<>> /\ Head(s2c[c]).type = "H" /\ conn[c].st < ST_ACTIVE
  /\ s2c' = [s2c EXCEPT ![c] = Tail(@)]
  /\ WriteOK(c, r, [conn[c] EXCEPT !.st = ST_ACTIVE, !.rt = FALSE])
  /\ UNCHANGED <<made, cur, disc, taken, reader, failing, firing, resVars, srvVars,
                 broken>>

\* recv_msg: a Hello makes the connection active and the queue is flushed.
RecvHello(c, r) ==
  LET k == conn[c]
      k1 == [k EXCEPT !.st = ST_ACTIVE, !.rt = IF k.map = {} THEN FALSE ELSE @]
  IN /\ Readable(c, r)
     /\ s2c[c] # <<>>
     /\ Head(s2c[c]).type = "H"
     /\ s2c' = [s2c EXCEPT ![c] = Tail(@)]
     /\ \/ /\ k.st >= ST_ACTIVE
           /\ UNCHANGED <<conn, writing, c2s, disc>>
        \/ /\ k.st < ST_ACTIVE
           /\ WriteOK(c, r, k1)
           /\ UNCHANGED disc
        \/ /\ k.st < ST_ACTIVE
           /\ WriteFails(c, r, k1)
           /\ conn' = [conn EXCEPT ![c] = FailedWrite(k1)]
           /\ disc' = Call(c)
     /\ UNCHANGED <<made, cur, taken, reader, failing, firing, resVars, srvVars,
                    broken>>

RecvBye(c, r) ==
  /\ Readable(c, r)
  /\ s2c[c] # <<>>
  /\ Head(s2c[c]).type = "B"
  /\ s2c' = [s2c EXCEPT ![c] = Tail(@)]
  /\ conn' = [conn EXCEPT ![c].st = ST_CLOSED, ![c].graceful = TRUE]
  /\ disc' = Call(c)
  /\ UNCHANGED <<made, cur, writing, taken, reader, failing, firing, resVars,
                 srvVars, c2s, broken>>

\* recv_msg returns an Answer; the lock is released before do_read uses it.
RecvAnswer(c, r) ==
  /\ Readable(c, r)
  /\ s2c[c] # <<>>
  /\ Head(s2c[c]).type = "A"
  /\ s2c' = [s2c EXCEPT ![c] = Tail(@)]
  /\ reader' = [reader EXCEPT ![r] = <<c, Head(s2c[c])>>]
  /\ UNCHANGED <<connVars, writing, disc, taken, failing, firing, resVars, srvVars,
                 c2s, broken>>

\* End of file or a socket error: an exception, except for an end of file
\* after Bye was sent.
RecvFails(c, r) ==
  LET k == conn[c]
      eof == srv[c].up /\ ~srv[c].fd /\ s2c[c] = <<>>
  IN /\ Readable(c, r)
     /\ eof \/ broken[c]
     /\ conn' = [conn EXCEPT ![c] =
                   IF k.st >= ST_CLOSING /\ ~broken[c] THEN k ELSE SetException(k)]
     /\ disc' = Call(c)
     /\ UNCHANGED <<made, cur, writing, taken, reader, failing, firing, resVars,
                    srvVars, netVars>>

\* do_read, case 'A', and handle_answer.  The last answer of a connection in
\* ST_CLOSE sends Bye; when that write fails the result in hand is dropped.
\* (`last' implies that the result was found: an answer is in flight for a result
\* that is in the map, or that a disconnect() took, which leaves ST_CLOSE.)
ReadAnswer(r) ==
  LET c == reader[r][1]
      k == conn[c]
      found == EntriesOf(k, reader[r][2].id)
      left == [k EXCEPT !.map = @ \ found]
      last == left.map = {} /\ k.st = ST_CLOSE
      timed == [left EXCEPT !.rt = IF MsgTimeout THEN left.map # {} ELSE @]
      closing == [left EXCEPT !.st = ST_CLOSING, !.graceful = TRUE]
      HandleAnswer == /\ giving' = giving \cup {<<x, "answer">> : x \in QuestsOf(found)}
                      /\ UNCHANGED disc
  IN /\ reader[r] # None
     /\ reader' = [reader EXCEPT ![r] = None]
     /\ \/ /\ ~last /\ found # {}
           /\ conn' = [conn EXCEPT ![c] = timed]
           /\ HandleAnswer
           /\ UNCHANGED <<writing, c2s>>
        \/ /\ ~last /\ found = {}      \* "Unknown answer"
           /\ conn' = [conn EXCEPT ![c] = SetException(timed)]
           /\ disc' = Call(c)
           /\ UNCHANGED <<writing, c2s, giving>>
        \/ /\ last
           /\ SendOK(c, r, [closing EXCEPT !.rt = TRUE], Bye)
           /\ HandleAnswer
        \/ /\ last
           /\ SendFails(c, r, closing, Bye)
           /\ conn' = [conn EXCEPT ![c] = FailedWrite(Queued(closing, Bye))]
           /\ disc' = Call(c)
           /\ UNCHANGED giving
     /\ UNCHANGED <<made, cur, taken, failing, firing, at, con, txid, retries,
                    isSent, outcome, srvVars, s2c, broken>>

\* PtResult::giveAnswer and giveError.
Give(q, kind) ==
  /\ <<q, kind>> \in giving
  /\ giving' = giving \ {<<q, kind>>}
  /\ outcome' = [outcome EXCEPT ![q] = kind]
  /\ UNCHANGED <<connVars, thrVars, at, con, txid, retries, isSent, srvVars,
                 netVars>>

-----------------------------------------------------------------------------
(* Closing a connection from the client's side.                            *)

\* Faulty variants of Close: Bye is sent while results are outstanding; no close
\* timeout is armed with it.
CloseAtOnce(c) ==
  /\ "close" \in Env /\ c \in made /\ conn[c].st < ST_CLOSE
  /\ SendOK(c, "grace", [conn[c] EXCEPT !.st = ST_CLOSING, !.graceful = TRUE, !.rt = TRUE], Bye)
  /\ UNCHANGED <<made, cur, disc, taken, reader, failing, firing, resVars, srvVars,
                 s2c, broken>>
CloseNoTimer(c) ==
  /\ "close" \in Env /\ c \in made /\ conn[c].st < ST_CLOSE /\ conn[c].map = {}
  /\ SendOK(c, "grace", [conn[c] EXCEPT !.st = ST_CLOSING, !.graceful = TRUE], Bye)
  /\ UNCHANGED <<made, cur, disc, taken, reader, failing, firing, resVars, srvVars,
                 s2c, broken>>

\* close(false), also what the reaper and shutdown() call: _grace(lock).  The
\* exception of a Bye that cannot be written is swallowed.
Close(c) ==
  LET k == conn[c]
      closing == [k EXCEPT !.st = ST_CLOSING, !.graceful = TRUE, !.rt = TRUE]
  IN /\ "close" \in Env
     /\ c \in made
     /\ k.st < ST_CLOSE
     /\ \/ /\ k.map # {}
           /\ conn' = [conn EXCEPT ![c].st = ST_CLOSE]
           /\ UNCHANGED <<writing, c2s>>
        \/ /\ k.map = {}
           /\ SendOK(c, "grace", closing, Bye)
        \/ /\ k.map = {}
           /\ SendFails(c, "grace", closing, Bye)
           /\ conn' = [conn EXCEPT ![c] = FailedWrite(Queued(closing, Bye))]
     /\ UNCHANGED <<made, cur, disc, taken, reader, failing, firing, resVars, srvVars,
                 s2c, broken>>

\* close(true)
CloseForce(c) ==
  /\ "force" \in Env
  /\ c \in made
  /\ conn[c].fd
  /\ disc' = Call(c)
  /\ UNCHANGED <<connVars, writing, taken, reader, failing, firing, resVars, srvVars,
                 netVars>>

\* The timer takes the connection's task or its write task from the heap and
\* runs it...
Timeout(c) ==
  /\ "timeout" \in Env
  /\ firing = None
  /\ firing' = c
  /\ \/ conn[c].rt /\ conn' = [conn EXCEPT ![c].rt = FALSE]
     \/ conn[c].wt /\ conn' = [conn EXCEPT ![c].wt = FALSE]
  /\ UNCHANGED <<made, cur, writing, disc, taken, reader, failing, resVars, srvVars,
                 netVars>>

\* ...and do_timeout() sets the exception, whatever has happened meanwhile, and
\* disconnects.
DoTimeout(c) ==
  /\ firing = c
  /\ firing' = None
  /\ conn' = [conn EXCEPT ![c] = SetException(conn[c])]
  /\ disc' = Call(c)
  /\ UNCHANGED <<made, cur, writing, taken, reader, failing, resVars, srvVars, netVars>>

\* disconnect(), before the lock: the timers' tasks and the fd are removed.
DisconnectBegin(c) ==
  /\ disc[c] = "called"
  /\ disc' = [disc EXCEPT ![c] = "begun"]
  /\ conn' = [conn EXCEPT ![c].rt = FALSE, ![c].wt = FALSE]
  /\ UNCHANGED <<made, cur, writing, taken, reader, failing, firing, resVars, srvVars,
                 netVars>>

\* Faulty variant: the results are taken and left in the map as well.
DisconnectTakeCopies(c) ==
  /\ disc[c] = "begun"
  /\ disc' = [disc EXCEPT ![c] = "no"]
  /\ conn' = [conn EXCEPT ![c].st = ST_CLOSED, ![c].fd = FALSE]
  /\ taken' = [taken EXCEPT ![c] = @ \cup QuestsOf(conn[c].map)]
  /\ UNCHANGED <<made, cur, writing, reader, failing, firing, resVars, srvVars, netVars>>

\* disconnect(), under the lock.
DisconnectTake(c) ==
  LET k == conn[c]
  IN /\ disc[c] = "begun"
     /\ disc' = [disc EXCEPT ![c] = "no"]
     /\ conn' = [conn EXCEPT ![c] =
                   [k EXCEPT !.st = IF @ < ST_CLOSED THEN ST_CLOSED ELSE @,
                             !.fd = FALSE, !.wq = <<>>, !.map = {}]]
     /\ taken' = [taken EXCEPT ![c] = @ \cup QuestsOf(k.map)]
     /\ s2c' = [s2c EXCEPT ![c] = <<>>]     \* what close(fd) left unread
     /\ UNCHANGED <<made, cur, writing, reader, failing, firing, resVars, srvVars,
                    c2s, broken>>

\* Faulty variant: _retryNumber is not looked at.
MayRetryAlways(c, q) == conn[c].graceful \/ ~isSent[q]

\* The condition in disconnect(), and the one in retry().
MayRetry(c, q) == (conn[c].graceful \/ ~isSent[q]) /\ retries[q] = 0

\* Faulty variant: a result that is retried is given the error as well.
DisconnectResultBoth(c, q) ==
  /\ q \in taken[c]
  /\ taken' = [taken EXCEPT ![c] = @ \ {q}]
  /\ IF MayRetry(c, q)
     THEN /\ retries' = [retries EXCEPT ![q] = @ + 1]
          /\ isSent' = [isSent EXCEPT ![q] = FALSE]
          /\ at' = [at EXCEPT ![q] = "pick"]
     ELSE UNCHANGED <<retries, isSent, at>>
  /\ giving' = giving \cup {<<q, "error">>}
  /\ UNCHANGED <<connVars, writing, disc, reader, failing, firing, con, txid, outcome,
                 srvVars, netVars>>

\* disconnect(), after the lock, for one of the results: retry or giveError.
DisconnectResult(c, q) ==
  /\ q \in taken[c]
  /\ taken' = [taken EXCEPT ![c] = @ \ {q}]
  /\ \/ /\ MayRetry(c, q)
        /\ retries' = [retries EXCEPT ![q] = @ + 1]
        /\ isSent' = [isSent EXCEPT ![q] = FALSE]
        /\ at' = [at EXCEPT ![q] = "pick"]
        /\ UNCHANGED giving
     \/ /\ ~MayRetry(c, q)
        /\ giving' = giving \cup {<<q, "error">>}
        /\ UNCHANGED <<retries, isSent, at>>
  /\ UNCHANGED <<connVars, writing, disc, reader, failing, firing, con, txid, outcome,
                 srvVars, netVars>>

-----------------------------------------------------------------------------
(* The server's end: the same class, with _incoming true and an empty      *)
(* result map, so that only the quests it processes hold up its Bye.       *)

\* start() of the accepted connection gives the fd to the dispatcher...
SAccept(c) ==
  /\ c \in made
  /\ ~srv[c].up
  /\ ~broken[c]
  /\ srv' = [srv EXCEPT ![c].up = TRUE, ![c].fd = TRUE]
  /\ UNCHANGED <<connVars, thrVars, resVars, sread, executing, executed, netVars>>

\* ...and then, no Check messages being configured, queues Hello, whatever has
\* become of the connection by then.
SHello(c) ==
  LET k == srv[c]
  IN /\ k.up
     /\ ~k.started
     /\ srv' = [srv EXCEPT ![c] =
                  [k EXCEPT !.started = TRUE,
                            !.st = IF k.fd THEN ST_ACTIVE ELSE ST_ERROR,
                            !.wq = IF k.fd THEN Append(@, Hello) ELSE @]]
     /\ UNCHANGED <<connVars, thrVars, resVars, sread, executing, executed, netVars>>

\* disconnect() of the server's end, which was in k before.
SDisconnect(c, k) ==
  /\ srv' = [srv EXCEPT ![c] = [k EXCEPT !.st = IF @ < ST_CLOSED THEN ST_CLOSED ELSE @,
                                         !.fd = FALSE, !.wq = <<>>, !.rt = FALSE]]
  /\ c2s' = [c2s EXCEPT ![c] = <<>>]       \* what close(fd) left unread

\* _write_q writes the first message of the queue, or fails.
SWrite(c) ==
  LET k == srv[c]
  IN /\ k.fd
     /\ k.wq # <<>>
     /\ \/ /\ ~broken[c]
           /\ s2c' = [s2c EXCEPT ![c] = IF conn[c].fd THEN Append(@, Head(k.wq)) ELSE @]
           /\ srv' = [srv EXCEPT ![c].wq = Tail(@)]
           /\ UNCHANGED c2s
        \/ /\ broken[c] \/ ~conn[c].fd
           /\ SDisconnect(c, SetException(k))
           /\ UNCHANGED s2c
     /\ UNCHANGED <<connVars, thrVars, resVars, sread, executing, executed, broken>>

SReadable(c) == srv[c].fd /\ srv[c].st < ST_CLOSED

SRecvQuest(c) ==
  /\ SReadable(c)
  /\ c2s[c] # <<>>
  /\ Head(c2s[c]).type = "Q"
  /\ c2s' = [c2s EXCEPT ![c] = Tail(@)]
  /\ sread' = [sread EXCEPT ![c] = @ \cup {Head(c2s[c])}]
  /\ UNCHANGED <<connVars, thrVars, resVars, srv, executing, executed, s2c, broken>>

SRecvBye(c) ==
  /\ SReadable(c)
  /\ c2s[c] # <<>>
  /\ Head(c2s[c]).type = "B"
  /\ SDisconnect(c, srv[c])
  /\ UNCHANGED <<connVars, thrVars, resVars, sread, executing, executed, s2c, broken>>

SRecvFails(c) ==
  LET k == srv[c]
      eof == ~conn[c].fd /\ c2s[c] = <<>>
  IN /\ SReadable(c)
     /\ eof \/ broken[c]
     /\ SDisconnect(c, IF k.st >= ST_CLOSING /\ ~broken[c] THEN k ELSE SetException(k))
     /\ UNCHANGED <<connVars, thrVars, resVars, sread, executing, executed, s2c, broken>>

\* Faulty variant: quests are run whatever the state.
SDispatchAlways(c, m) ==
  /\ m \in sread[c]
  /\ sread' = [sread EXCEPT ![c] = @ \ {m}]
  /\ srv' = [srv EXCEPT ![c].processing = @ + 1]
  /\ executing' = [executing EXCEPT ![c] = @ \cup {<<m.id, m.q>>}]
  /\ executed' = [executed EXCEPT ![c] = @ \cup {m.q}]
  /\ UNCHANGED <<connVars, thrVars, resVars, netVars>>

\* do_read, case 'Q': discarded once the end is closing, a ProtocolException
\* before Hello, else processed.
SDispatch(c, m) ==
  LET k == srv[c]
  IN /\ m \in sread[c]
     /\ sread' = [sread EXCEPT ![c] = @ \ {m}]
     /\ \/ /\ k.st >= ST_CLOSE
           /\ UNCHANGED <<srv, executing, executed, c2s>>
        \/ /\ k.st < ST_ACTIVE
           /\ SDisconnect(c, SetException(k))
           /\ UNCHANGED <<executing, executed>>
        \/ /\ k.st = ST_ACTIVE
           /\ srv' = [srv EXCEPT ![c].processing = @ + 1]
           /\ executing' = [executing EXCEPT ![c] = @ \cup {<<m.id, m.q>>}]
           /\ executed' = [executed EXCEPT ![c] = @ \cup {m.q}]
           /\ UNCHANGED c2s
     /\ UNCHANGED <<connVars, thrVars, resVars, s2c, broken>>

\* Faulty variant: the last answer is not followed by the Bye.
SReplyNoBye(c, e) ==
  LET k == srv[c]
      k1 == IF k.st < ST_CLOSED THEN Queued(k, Msg("A", e[1], e[2])) ELSE k
  IN /\ e \in executing[c]
     /\ executing' = [executing EXCEPT ![c] = @ \ {e}]
     /\ srv' = [srv EXCEPT ![c] = [k1 EXCEPT !.processing = @ - 1]]
     /\ UNCHANGED <<connVars, thrVars, resVars, sread, executed, netVars>>

\* replyAnswer: queue the answer, and the Bye that was waiting for it.
SReply(c, e) ==
  LET k == srv[c]
      k1 == IF k.st < ST_CLOSED THEN Queued(k, Msg("A", e[1], e[2])) ELSE k
      k2 == [k1 EXCEPT !.processing = @ - 1]
  IN /\ e \in executing[c]
     /\ executing' = [executing EXCEPT ![c] = @ \ {e}]
     /\ srv' = [srv EXCEPT ![c] =
                  IF k2.st = ST_CLOSE /\ k2.processing = 0
                  THEN Queued([k2 EXCEPT !.st = ST_CLOSING, !.rt = TRUE], Bye)
                  ELSE k2]
     /\ UNCHANGED <<connVars, thrVars, resVars, sread, executed, netVars>>

\* replyAnswer throws: the answer could not be written.  _processing keeps
\* its value; a servant's own thread disconnects in do_read, the thread of an
\* asynchronous Waiter does not.
SReplyFails(c, e) ==
  LET k == SetException(srv[c])
  IN /\ e \in executing[c]
     /\ srv[c].fd /\ srv[c].st < ST_CLOSED /\ srv[c].wq = <<>>
     /\ broken[c] \/ ~conn[c].fd
     /\ executing' = [executing EXCEPT ![c] = @ \ {e}]
     /\ \/ SDisconnect(c, k)
        \/ srv' = [srv EXCEPT ![c] = k] /\ UNCHANGED c2s
     /\ UNCHANGED <<connVars, thrVars, resVars, sread, executed, s2c, broken>>

\* Faulty variant: Bye is sent while quests are in process.
SCloseAtOnce(c) ==
  /\ "sclose" \in Env
  /\ srv[c].st = ST_ACTIVE
  /\ srv' = [srv EXCEPT ![c] = Queued([srv[c] EXCEPT !.st = ST_CLOSING, !.rt = TRUE], Bye)]
  /\ UNCHANGED <<connVars, thrVars, resVars, sread, executing, executed, netVars>>

\* close(false) on the server's end: _grace(lock).
SClose(c) ==
  LET k == srv[c]
  IN /\ "sclose" \in Env
     /\ k.st = ST_ACTIVE
     /\ srv' = [srv EXCEPT ![c] =
                  IF k.processing = 0
                  THEN Queued([k EXCEPT !.st = ST_CLOSING, !.rt = TRUE], Bye)
                  ELSE [k EXCEPT !.st = ST_CLOSE]]
     /\ UNCHANGED <<connVars, thrVars, resVars, sread, executing, executed, netVars>>

STimeout(c) ==
  /\ "timeout" \in Env
  /\ srv[c].rt
  /\ SDisconnect(c, SetException(srv[c]))
  /\ UNCHANGED <<connVars, thrVars, resVars, sread, executing, executed, s2c, broken>>

\* close(true), or the process is gone.
SCloseForce(c) ==
  /\ "sforce" \in Env
  /\ srv[c].fd
  /\ SDisconnect(c, srv[c])
  /\ UNCHANGED <<connVars, thrVars, resVars, sread, executing, executed, s2c, broken>>

\* The TCP connection is reset, or refused; what was in flight is lost.
Reset(c) ==
  /\ "reset" \in Env
  /\ c \in made
  /\ ~broken[c]
  /\ conn[c].fd \/ srv[c].fd
  /\ broken' = [broken EXCEPT ![c] = TRUE]
  /\ c2s' = [c2s EXCEPT ![c] = <<>>]
  /\ s2c' = [s2c EXCEPT ![c] = <<>>]
  /\ UNCHANGED <<connVars, thrVars, resVars, srvVars>>

-----------------------------------------------------------------------------
\* What the threads of the two engines do.
ClientStep ==
  \/ \E q \in Quests :
       \/ at[q] = "pick" /\ (PickExisting(q) \/ PickThrows(q))
       \/ at[q] = "pick" /\ \E c \in Conns : PickNew(q, c)
       \/ StartTimer(q)
       \/ SendQuestClosed(q) \/ SendQuest(q) \/ SendQuestHuge(q)
       \/ \E kind \in {"answer", "error"} : Give(q, kind)
  \/ \E r \in Readers : ReadAnswer(r)
  \/ \E c \in Conns :
       \/ \E w \in Writers : QuestSent(c, w) \/ WriteAgain(c, w)
       \/ \E r \in Readers :
            \/ DoWrite(c, r) \/ RecvHello(c, r) \/ RecvBye(c, r)
            \/ RecvAnswer(c, r) \/ RecvFails(c, r)
       \/ Timeout(c) \/ DoTimeout(c) \/ DisconnectBegin(c) \/ DisconnectTake(c)
       \/ \E q \in Quests : SendQuestCatch(c, q) \/ DisconnectResult(c, q)

ServerStep ==
  \E c \in Conns :
    \/ SAccept(c) \/ SHello(c) \/ SWrite(c) \/ SRecvQuest(c) \/ SRecvBye(c) \/ SRecvFails(c)
    \/ \E m \in sread[c] : SDispatch(c, m)
    \/ \E e \in executing[c] : SReply(c, e) \/ SReplyFails(c, e)
    \/ STimeout(c)

\* What the applications and the network may do, or not do.
EnvStep ==
  \/ \E q \in Quests :
       /\ at[q] = "new"
       /\ PickExisting(q) \/ PickThrows(q) \/ \E c \in Conns : PickNew(q, c)
  \/ \E c \in Conns :
       Close(c) \/ CloseForce(c) \/ SClose(c) \/ SCloseForce(c) \/ Reset(c)

Next == ClientStep \/ ServerStep \/ EnvStep

Spec == Init /\ [][Next]_vars

(* What the client's engine does without waiting for anyone else: threads  *)
(* that are inside it go on, and the timer runs the tasks that are due.    *)
EngineProgress ==
  \/ \E q \in Quests :
       \/ at[q] = "pick" /\ (PickExisting(q) \/ PickThrows(q)
                               \/ \E c \in Conns : PickNew(q, c))
       \/ StartTimer(q) \/ SendQuestClosed(q) \/ SendQuest(q)
       \/ \E kind \in {"answer", "error"} : Give(q, kind)
  \/ \E r \in Readers : ReadAnswer(r)
  \/ \E c \in Conns :
       \/ \E w \in Writers : QuestSent(c, w) \/ WriteAgain(c, w)
       \/ Timeout(c) \/ DoTimeout(c) \/ DisconnectBegin(c) \/ DisconnectTake(c)
       \/ \E q \in Quests : SendQuestCatch(c, q) \/ DisconnectResult(c, q)

(* No thread stays blocked on the mutex for ever and the timer thread is   *)
(* scheduled: as long as one of them can go on, one of them does.  Nothing *)
(* is assumed of the server, the network, the applications, or of the      *)
(* dispatcher ever reporting a socket ready.                               *)
Fairness == WF_vars(EngineProgress)

FairSpec == Spec /\ Fairness

-----------------------------------------------------------------------------
MsgSet == [type : {"Q", "A"}, id : Nat, q : Quests] \cup {Hello, Bye}
ConnSet == [st : ST_INIT .. ST_ERROR, graceful : BOOLEAN, wq : Seq(MsgSet),
            map : SUBSET (Nat \X Quests), next : Nat, rt : BOOLEAN,
            wt : BOOLEAN, fd : BOOLEAN, halt : BOOLEAN]
SrvSet == [st : ST_INIT .. ST_ERROR, wq : Seq(MsgSet), processing : Int,
           rt : BOOLEAN, fd : BOOLEAN, up : BOOLEAN, started : BOOLEAN]

(* Every variable has its type.                                            *)
TypeOK ==
  /\ conn \in [Conns -> ConnSet]
  /\ made \in SUBSET Conns
  /\ cur \in Conns \cup {None}
  /\ writing \in [Conns -> [Writers -> Quests \cup {"again", "null", None}]]
  /\ disc \in [Conns -> {"no", "called", "begun"}]
  /\ taken \in [Conns -> SUBSET Quests]
  /\ reader \in [Readers -> (Conns \X [type : {"A"}, id : Nat, q : Quests]) \cup {None}]
  /\ failing \in SUBSET (Conns \X Quests)
  /\ firing \in Conns \cup {None}
  /\ at \in [Quests -> {"new", "pick", "start", "send", "out"}]
  /\ con \in [Quests -> Conns \cup {None}]
  /\ txid \in [Quests -> Nat]
  /\ retries \in [Quests -> 0 .. 1]
  /\ isSent \in [Quests -> BOOLEAN]
  /\ giving \in SUBSET (Quests \X {"answer", "error"})
  /\ outcome \in [Quests -> {"none", "answer", "error"}]
  /\ srv \in [Conns -> SrvSet]
  /\ sread \in [Conns -> SUBSET [type : {"Q"}, id : Nat, q : Quests]]
  /\ executing \in [Conns -> SUBSET (Nat \X Quests)]
  /\ executed \in [Conns -> SUBSET Quests]
  /\ c2s \in [Conns -> Seq(MsgSet)]
  /\ s2c \in [Conns -> Seq(MsgSet)]
  /\ broken \in [Conns -> BOOLEAN]

InSeq(s) == {s[i] : i \in DOMAIN s}

\* Where the result of q is, on its way to be completed.
Sending(q) == at[q] # "out"
InMap(q, c) == \E p \in conn[c].map : p[2] = q
Given(q) == \E kind \in {"answer", "error"} : <<q, kind>> \in giving
Done(q) == outcome[q] # "none"

OwnedOnce(q) ==
  /\ Sending(q) => /\ ~Given(q) /\ ~Done(q)
                   /\ \A c \in Conns : ~InMap(q, c) /\ q \notin taken[c]
  /\ \A c \in Conns :
       InMap(q, c) => /\ ~Given(q) /\ ~Done(q)
                      /\ \A d \in Conns : q \notin taken[d] /\ (InMap(q, d) => d = c)
  /\ \A c \in Conns :
       q \in taken[c] => /\ ~Given(q) /\ ~Done(q)
                         /\ \A d \in Conns : q \in taken[d] => d = c
  /\ Given(q) => ~Done(q) /\ ~(<<q, "answer">> \in giving /\ <<q, "error">> \in giving)

(* A result has at most one owner: no two threads complete it, and none    *)
(* completes it twice.  This is what the assertions of giveAnswer and      *)
(* giveError (PtEngineImp.cpp:142, 166, 184, 192, 198, 216) demand of the  *)
(* map, of disconnect(), of sendQuest's handler and of retry().            *)
OneOwner == \A q \in Quests : OwnedOnce(q)

(* What OneOwner needs to be inductive: a quest that is being sent has its *)
(* connection, and a result is in a map under one transaction id.          *)
SendsOnConnection == \A q \in Quests : at[q] \in {"start", "send"} => con[q] \in Conns
OneEntry == \A c \in Conns : \A p1, p2 \in conn[c].map : p1[2] = p2[2] => p1 = p2
OwnerInv == TypeOK /\ SendsOnConnection /\ OneEntry /\ OneOwner

(* What _write_q finds for a quest it has written: findResult() at 1145,   *)
(* whose value 1150 dereferences.  The result of a queued quest is in the  *)
(* map, unless the connection is over and sendQuest's handler has failed   *)
(* that very result (PtEngineImp.cpp:886-889): the handler of its sender,  *)
(* or of a retried quest whose txid, of another connection, is the same.   *)
(* The queue is still written then, because 1153 goes on without a look at *)
(* _state, so that a null pointer is possible, but on no connection that   *)
(* is not in ST_CLOSED or ST_ERROR.                                        *)
HandlerFailed(q) == <<q, "error">> \in giving \/ outcome[q] = "error"
QueuedHasResult ==
  \A c \in Conns :
    /\ \A m \in InSeq(conn[c].wq) : m.type = "Q" =>
         \/ <<m.id, m.q>> \in conn[c].map
         \/ conn[c].st >= ST_CLOSED /\ HandlerFailed(m.q)
    /\ \A w \in Writers : writing[c][w] = "null" => conn[c].st >= ST_CLOSED

(* With a message timeout, results outstanding on a connection are watched *)
(* as long as they are there: the connection's timer is armed, or runs, or *)
(* somebody is disconnecting.  The timer is armed for the first quest only *)
(* (PtEngineImp.cpp:838) and is removed, moved and armed again by others   *)
(* (619, 1017, 1028, 479).                                                 *)
OutstandingWatched ==
  \A c \in Conns : MsgTimeout /\ conn[c].map # {} =>
    conn[c].rt \/ firing = c \/ disc[c] # "no"

(* A connection that waits in ST_CLOSE has something to wait for: an       *)
(* outstanding result, or on the server a quest in process.  Nothing else  *)
(* would ever send its Bye (_grace, do_read, replyAnswer).                 *)
CloseWaitsForSomething ==
  \A c \in Conns : /\ conn[c].st = ST_CLOSE => conn[c].map # {}
                   /\ srv[c].st = ST_CLOSE => executing[c] # {}

(* An answer on its way carries the txid of the quest it answers, and a    *)
(* result completed with an answer belongs to a quest a servant ran.       *)
Answers(c) == {m \in InSeq(s2c[c]) \cup InSeq(srv[c].wq) : m.type = "A"}
AnswersOwnQuest ==
  /\ \A c \in Conns : \A m \in Answers(c) :
       \A p \in conn[c].map : p[1] = m.id => p[2] = m.q
  /\ \A q \in Quests : outcome[q] = "answer" => \E c \in Conns : q \in executed[c]

(* doc/xic.rst:190-193: a client that closes gracefully waits until all    *)
(* its quests have returned, a server until all quests in process have.    *)
(* When the client's Bye is in flight the server has nothing read, in      *)
(* process or unsent for this connection; when the server's Bye is queued  *)
(* or in flight no servant runs.                                           *)
ByeDrained ==
  \A c \in Conns :
    /\ Bye \in InSeq(c2s[c]) /\ ~broken[c] /\ srv[c].fd =>
         sread[c] = {} /\ executing[c] = {} /\ Answers(c) = {}
    /\ Bye \in InSeq(srv[c].wq) \cup InSeq(s2c[c]) => executing[c] = {}

(* A quest that a graceful close gives back for retry (PtEngineImp.cpp:525)*)
(* was not run by the server of that connection: the retry does not run it *)
(* a second time.                                                          *)
GracefulRetrySafe ==
  \A c \in Conns : conn[c].graceful /\ conn[c].st >= ST_CLOSED =>
    (QuestsOf(conn[c].map) \cup taken[c]) \cap executed[c] = {}

(* And none of them is run later: once the client's end is closed          *)
(* gracefully no servant starts on this connection.                        *)
NoExecutionAfterGracefulClose ==
  [][\A c \in Conns : conn[c].graceful /\ conn[c].st >= ST_CLOSED
                        => executed'[c] = executed[c]]_vars

(* The engine keeps the promise of RpcResult: a result is pending from the *)
(* emission to giveAnswer or giveError, which happens once, and an answer  *)
(* comes from a servant (PtEngineImp.cpp:140-223).                         *)
Rpc == INSTANCE RpcResult WITH
         phase <- [q \in Quests |-> IF at[q] = "new" THEN "new"
                                    ELSE IF outcome[q] = "none" THEN "pending"
                                    ELSE outcome[q]],
         ran <- UNION {executed[c] : c \in Conns}
KeepsRpcPromise == Rpc!Spec

(* With a message timeout, every twoway quest that is emitted is completed *)
(* in the end, although the server and the network may stop answering at   *)
(* any point.  The run makes one connection, which nobody closes or        *)
(* resets.  With more of them it would not hold: the handler that takes a  *)
(* txid of an earlier connection for its own (PtEngineImp.cpp:882) finds   *)
(* no result and gives the error to nobody.                                *)
EventuallyCompleted ==
  \A q \in Quests : (at[q] # "new") ~> (outcome[q] # "none")

(* A graceful close comes to an end, whatever the peer does: a connection  *)
(* that waits for its answers or for the peer after its Bye is closed by   *)
(* the peer's Bye, by a timer, or ends in ST_ERROR.                        *)
GracefulCloseEnds ==
  \A c \in Conns : (conn[c].st \in ST_CLOSE .. ST_CLOSED)
                      ~> (~conn[c].fd \/ conn[c].st = ST_ERROR)

(* PtResult::questSent() asserts !_isSent (PtEngineImp.cpp:227).           *)
QuestSentAssertion ==
  \A c \in Conns : \A w \in Writers :
    writing[c][w] \in Quests => ~isSent[writing[c][w]]

=============================================================================
