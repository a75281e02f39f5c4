----------------------------- MODULE FcgiClient -----------------------------
(***************************************************************************)
(* The pool of connections to a FastCGI server in the x4fcgi gateway       *)
(* (FcgiClient and FcgiConnection in x4fcgi/FcgiClient.cpp): the queue of  *)
(* quests, the stack of idle connections, retries, timeouts, the reaper    *)
(* and shutdown.                                                           *)
(*                                                                         *)
(* Each connection has a mutex and the client has one; a connection's is   *)
(* taken first.  An event of a connection is one step, or two when it has  *)
(* to wait for the client's mutex in between: pc says what the holder of   *)
(* the connection's mutex still has to do.  The client's mutex is recursive *)
(* and is kept through calls of _new_connection(), each of which is a step *)
(* of its own; nobody else takes it meanwhile.  The server answers a       *)
(* request when it has all of it.                                          *)
(***************************************************************************)
EXTENDS Integers, Sequences, SequencesExt, FiniteSets

CONSTANTS
  Quests, Conns, None,
  ConMax,      \* FcgiConfig::conmax
  ReqMax,      \* FcgiConfig::reqmax
  AutoRetry    \* FcgiConfig::autoretry

ASSUME FcgiAssumption ==
  /\ ConMax \in Nat \ {0} /\ ReqMax \in Nat \ {0} /\ AutoRetry \in BOOLEAN
  /\ None \notin Quests \cup Conns
  /\ IsFiniteSet(Conns)  \* a place is used again by the next connection

VARIABLES
  con,        \* FcgiConnection, as a record (see Fresh)
  cons, idlestack, queue, idle, errCount, conCount, shut,   \* FcgiClient
  trying,     \* calls of _new_connection() that the holder of the mutex has yet to make
  toShut,     \* taken from _cons by the reaper or shutdown(), to be told
  arrived,    \* quests process() has been called with
  picked,     \* quest: the idle connection process() has picked for it
  retry,      \* quest: _retry, until it is finished
  finished    \* quest: calls of finish()

poolVars == <<cons, idlestack, queue, idle, errCount, conCount, shut, trying, toShut>>
questVars == <<arrived, picked, retry, finished>>
vars == <<con, poolVars, questVars>>

\* state: _state, CLOSED also when there is no connection; armed: its task is in
\* the dispatcher; popped: a thread is about to run it.
Fresh ==
  [state |-> "CLOSED", quest |-> None, reqseq |-> 0, shut |-> FALSE,
   armed |-> FALSE, popped |-> FALSE, pc |-> "free"]

Init ==
  /\ con = [c \in Conns |-> Fresh] /\ cons = {} /\ toShut = {}
  /\ idlestack = <<>> /\ queue = <<>> /\ idle = 0
  /\ errCount = 0 /\ conCount = 0 /\ trying = 0 /\ shut = FALSE
  /\ arrived = {} /\ picked = [q \in Quests |-> None]
  /\ retry = [q \in Quests |-> FALSE]
  /\ finished = [q \in Quests |-> 0]

Finish(qs) ==
  /\ finished' = [q \in Quests |-> IF q \in qs THEN finished[q] + 1 ELSE finished[q]]
  /\ retry' = [q \in Quests |-> retry[q] /\ q \notin qs]
Open(c) == con[c].state \in {"CONNECT", "IDLE", "WRITE", "READ"}

-----------------------------------------------------------------------------
(* FcgiClient, under its mutex.                                             *)

Unlocked == trying = 0

\* Connections that may be made for n quests when there are m.
Room(m, n) == IF m >= ConMax THEN 0 ELSE IF ConMax - m < n THEN ConMax - m ELSE n

\* The end of releaseClosed(), with left in _cons and q the queue, when n calls of
\* _new_connection() are still to be made: with too many errors all quests fail,
\* else there are calls to be made for them.
released(left, q, n) ==
  /\ cons' = left
  /\ \/ /\ errCount >= conCount
        /\ errCount' = 0 /\ conCount' = 0 /\ queue' = <<>> /\ trying' = n
        /\ Finish(ToSet(q))
     \/ /\ errCount < conCount
        /\ errCount' = errCount + 1 /\ queue' = q
        /\ trying' = n + Room(Cardinality(left), Len(q))
        /\ UNCHANGED <<conCount, finished, retry>>

\* Faulty variant: a connection without a quest gives its null pointer back.
PutBackNull(q) == <<q>> \o queue
PutBack(q) == IF q = None THEN queue ELSE <<q>> \o queue

\* Faulty variant: nobody looks after the quests that wait.
releaseClosedOnly(c, k, q) ==
  /\ con' = k /\ cons' = cons \ {c} /\ queue' = PutBack(q)
  /\ errCount' = errCount + 1 /\ UNCHANGED <<conCount, trying, finished, retry>>

\* releaseClosed(): k is what becomes of the connections; q, if it is a quest,
\* goes back to the front of the queue.
releaseClosed(c, k, q) == Unlocked /\ con' = k /\ released(cons \ {c}, PutBack(q), 0)

\* ~FcgiConnection(): nobody refers to it, and its place is used again.
Unused(c) ==
  /\ con[c].state = "CLOSED" /\ con[c].pc = "free" /\ ~con[c].popped
  /\ c \notin cons \cup toShut \cup ToSet(idlestack) /\ \A q \in Quests : picked[q] # c

\* _new_connection(): the number of calls was fixed before, so that the pool may
\* grow beyond ConMax when calls in between have made connections of their own.
_new_connection(c) ==
  /\ trying > 0 /\ trying' = trying - 1 /\ Unused(c)
  /\ con' = [con EXCEPT ![c] = [Fresh EXCEPT !.state = "CONNECT", !.armed = TRUE]]
  /\ cons' = cons \cup {c}
  /\ UNCHANGED <<idlestack, queue, idle, errCount, conCount, shut, toShut, questVars>>

\* connect() throws, and releaseClosed() is called again under the same mutex.
_new_connectionFails ==
  /\ trying > 0 /\ released(cons, queue, trying - 1)
  /\ UNCHANGED <<con, idlestack, idle, shut, toShut, arrived, picked>>

\* getQuestOrPutback(); NextQuest is what it returns.
NextQuest == IF queue = <<>> THEN None ELSE Head(queue)

getQuestOrPutback(c) ==
  /\ Unlocked
  /\ errCount' = 0 /\ conCount' = Cardinality(cons)
  /\ queue' = IF queue = <<>> THEN queue ELSE Tail(queue)
  /\ idlestack' = IF queue = <<>> /\ ~shut THEN Append(idlestack, c) ELSE idlestack

\* process(): connections that are not ok() are popped off the stack.
Ok(c) == ~con[c].shut /\ con[c].state = "IDLE"
Top == LET good == {k \in 1..Len(idlestack) : Ok(idlestack[k])}
       IN IF good = {} THEN 0 ELSE CHOOSE k \in good : \A j \in good : j <= k

processIdle(q) ==
  /\ Unlocked /\ q \notin arrived /\ ~shut /\ Top > 0
  /\ arrived' = arrived \cup {q}
  /\ picked' = [picked EXCEPT ![q] = idlestack[Top]]
  /\ idlestack' = SubSeq(idlestack, 1, Top - 1)
  /\ idle' = IF idle > Top - 1 THEN Top - 1 ELSE idle
  /\ UNCHANGED <<con, cons, queue, errCount, conCount, shut, trying, toShut, retry,
                 finished>>

processQueue(q) ==
  /\ Unlocked /\ q \notin arrived /\ ~shut /\ Top = 0
  /\ arrived' = arrived \cup {q} /\ idlestack' = <<>> /\ idle' = 0
  /\ queue' = Append(queue, q)
  /\ trying' = Room(Cardinality(cons), 1)
  /\ UNCHANGED <<con, cons, errCount, conCount, shut, toShut, picked, retry, finished>>

processShut(q) ==
  /\ Unlocked /\ q \notin arrived /\ shut
  /\ arrived' = arrived \cup {q} /\ Finish({q})
  /\ UNCHANGED <<con, poolVars, picked>>

\* shutdown() and on_reap_timer(): the connections are told without the mutex.
\* The reaper runs a last time after shutdown(); then it would find nothing to do.
shutdown ==
  /\ Unlocked /\ ~shut /\ shut' = TRUE /\ idlestack' = <<>>
  /\ cons' = {} /\ toShut' = toShut \cup cons
  /\ UNCHANGED <<con, queue, idle, errCount, conCount, trying, questVars>>

on_reap_timer ==
  /\ Unlocked /\ idle' = Len(idlestack)
  /\ IF idle > 0 /\ Cardinality(cons) > 1
     THEN \E c \in cons : cons' = cons \ {c} /\ toShut' = toShut \cup {c}
     ELSE UNCHANGED <<cons, toShut>>
  /\ UNCHANGED <<con, idlestack, queue, errCount, conCount, shut, trying, questVars>>

-----------------------------------------------------------------------------
(* FcgiConnection, under its mutex. *)

Free(c) == con[c].pc = "free"
Set(c, r) == con' = [con EXCEPT ![c] = r]

\* do_close(): the quest is still to be given to releaseClosed().  reqseq and
\* shut do not matter any more.
Closed(r) ==
  [r EXCEPT !.state = "CLOSED", !.armed = FALSE, !.pc = "release", !.reqseq = 0, !.shut = FALSE]

release(c) ==
  /\ con[c].pc = "release"
  /\ releaseClosed(c, [con EXCEPT ![c].quest = None, ![c].pc = "free"], con[c].quest)
  /\ UNCHANGED <<idlestack, idle, shut, toShut, arrived, picked>>

\* do_write() of the quest in hand: all of it, some of it, or an error.
Written(r) ==
  {[r EXCEPT !.state = "READ"], [r EXCEPT !.state = "WRITE"],
   Closed([r EXCEPT !.state = "WRITE"])}

\* _operate(): the task is armed when the write has gone well.
Operated(r, q) ==
  {[w EXCEPT !.armed = w.pc = "free"] : w \in Written([r EXCEPT !.quest = q, !.pc = "free"])}

operate(q) ==
  LET c == picked[q]
  IN /\ c # None /\ Free(c)
     /\ picked' = [picked EXCEPT ![q] = None]
     /\ IF con[c].state = "CLOSED"
        THEN releaseClosed(c, con, q)
        ELSE /\ \E r \in Operated(con[c], q) : Set(c, r)
             /\ UNCHANGED <<cons, queue, errCount, conCount, trying, finished, retry>>
     /\ UNCHANGED <<idlestack, idle, shut, toShut, arrived>>

\* Writable: a new connection asks for a quest; it is put on the stack if there is none.
evWritable(c) ==
  /\ Free(c) /\ con[c].state \in {"CONNECT", "WRITE"}
  /\ IF con[c].state = "WRITE"
     THEN (\E r \in Written(con[c]) : Set(c, r)) /\ UNCHANGED <<idlestack, queue, errCount, conCount>>
     ELSE /\ getQuestOrPutback(c)
          /\ IF NextQuest # None
             THEN \E r \in Written([con[c] EXCEPT !.quest = NextQuest, !.armed = TRUE]) : Set(c, r)
             ELSE Set(c, [con[c] EXCEPT !.state = "IDLE", !.armed = @ /\ shut])
  /\ UNCHANGED <<cons, idle, shut, trying, toShut, questVars>>

\* do_read() has the whole answer.
evAnswer(c) ==
  LET r == [con[c] EXCEPT !.quest = None, !.state = "IDLE", !.reqseq = @ + 1]
  IN /\ Free(c) /\ con[c].state = "READ"
     /\ Finish({con[c].quest})
     /\ Set(c, IF r.reqseq >= ReqMax THEN Closed(r) ELSE [r EXCEPT !.pc = "next"])
     /\ UNCHANGED <<poolVars, arrived, picked>>

next(c) ==
  /\ con[c].pc = "next" /\ getQuestOrPutback(c)
  /\ IF NextQuest # None
     THEN \E r \in Operated(con[c], NextQuest) : Set(c, r)
     ELSE Set(c, [con[c] EXCEPT !.pc = "free", !.armed = @ /\ shut])
  /\ UNCHANGED <<cons, idle, shut, trying, toShut, questVars>>

\* do_read() fails, after it has read some bytes (_ibytes > 0) or none.
MayRetry(c, bytes) ==
  con[c].state # "READ" /\ ~bytes /\ ~retry[con[c].quest] /\ AutoRetry

evError(c, bytes) ==
  LET q == con[c].quest
  IN /\ Free(c) /\ Open(c)
     /\ CASE q = None -> Set(c, Closed(con[c])) /\ UNCHANGED <<retry, finished>>
          [] q # None /\ MayRetry(c, bytes) ->
               Set(c, Closed(con[c])) /\ retry' = [retry EXCEPT ![q] = TRUE] /\ UNCHANGED finished
          [] OTHER -> Set(c, Closed([con[c] EXCEPT !.quest = None])) /\ Finish({q})
     /\ UNCHANGED <<poolVars, arrived, picked>>

\* CLOSE_EVENT that do_read() has not met, and on_shutdown_timeout().
evClose(c) ==
  /\ Free(c) /\ Open(c) /\ Set(c, Closed(con[c]))
  /\ UNCHANGED <<poolVars, questVars>>

conShutdown(c) ==
  /\ c \in toShut /\ Free(c)
  /\ toShut' = toShut \ {c} /\ Set(c, [con[c] EXCEPT !.shut = Open(c)])
  /\ UNCHANGED <<cons, idlestack, queue, idle, errCount, conCount, shut, trying, questVars>>

\* The task of the connection: taken from the dispatcher, then run.
popTask(c) ==
  /\ con[c].armed /\ ~con[c].popped
  /\ Set(c, [con[c] EXCEPT !.armed = FALSE, !.popped = TRUE])
  /\ UNCHANGED <<poolVars, questVars>>

\* Faulty variant: the quest that has failed is kept.
event_on_taskKeeps(c) ==
  LET r == [con[c] EXCEPT !.popped = FALSE]
  IN /\ con[c].popped /\ Free(c)
     /\ Finish({con[c].quest})
     /\ Set(c, IF Open(c) THEN Closed(r) ELSE r)
     /\ UNCHANGED <<poolVars, arrived, picked>>

event_on_task(c) ==
  LET r == [con[c] EXCEPT !.popped = FALSE, !.quest = None]
  IN /\ con[c].popped /\ Free(c)
     /\ Finish({con[c].quest})
     /\ Set(c, IF Open(c) THEN Closed(r) ELSE r)
     /\ UNCHANGED <<poolVars, arrived, picked>>

-----------------------------------------------------------------------------
Next ==
  \/ \E q \in Quests : processIdle(q) \/ processQueue(q) \/ processShut(q) \/ operate(q)
  \/ \E c \in Conns :
       \/ evWritable(c) \/ evAnswer(c) \/ next(c) \/ evClose(c)
       \/ \E bytes \in BOOLEAN : evError(c, bytes)
       \/ release(c) \/ _new_connection(c) \/ conShutdown(c) \/ popTask(c) \/ event_on_task(c)
  \/ _new_connectionFails \/ shutdown \/ on_reap_timer

Spec == Init /\ [][Next]_vars

-----------------------------------------------------------------------------
(* Properties. *)

TypeOK ==
  /\ con \in [Conns -> [state : {"CONNECT", "IDLE", "WRITE", "READ", "CLOSED"},
                        quest : Quests \cup {None}, reqseq : 0..ReqMax,
                        shut : BOOLEAN, armed : BOOLEAN, popped : BOOLEAN,
                        pc : {"free", "next", "release"}]]
  /\ cons \subseteq Conns /\ trying \in Nat /\ errCount \in 0..conCount
  /\ ToSet(idlestack) \subseteq Conns /\ ToSet(queue) \subseteq Quests
  /\ picked \in [Quests -> Conns \cup {None}]

\* process, operate, do_read, do_close, releaseClosed and the timeout hand a
\* quest around, some of them after they have let go of a mutex: it is in the
\* queue once, with one connection, picked for one, or has been finished once.
\* And (the assertions of _operate()) a connection that is picked may be closed
\* before it is used, but is not given another quest.
FinishedOnce ==
  \A q \in arrived :
    /\ finished[q] + Cardinality({k \in 1..Len(queue) : queue[k] = q})
         + Cardinality({c \in Conns : con[c].quest = q}) + (IF picked[q] # None THEN 1 ELSE 0) = 1
    /\ picked[q] # None =>
         /\ con[picked[q]].state = "CLOSED" \/ (con[picked[q]].state = "IDLE" /\ con[picked[q]].quest = None)
         /\ \A p \in Quests \ {q} : picked[p] # picked[q]

\* getQuestOrPutback, process, releaseClosed and the calls of it that a failing
\* _new_connection() makes: while quests wait somebody is making a connection, or
\* there is one that is being made, is busy or is being closed, and so will look
\* at the queue, or at least an idle one that its timeout or shutdown() will
\* close or that the next quest takes.
QueueServed ==
  queue # <<>> =>
    \/ trying > 0
    \/ \E c \in Conns : con[c].state \in {"CONNECT", "WRITE", "READ"} \/ ~Free(c)
    \/ \E c \in Conns : Open(c) /\ (con[c].shut \/ c \in toShut \/ con[c].armed \/ con[c].popped)
    \/ \E q \in Quests : picked[q] # None
    \/ Top > 0
=============================================================================
