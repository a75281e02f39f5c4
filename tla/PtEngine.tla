------------------------------ MODULE PtEngine ------------------------------
(***************************************************************************)
(* The engine of the pthreads implementation (PtEngine, PtAdapter and      *)
(* PtListener in PtEngineImp.cpp): adapters and their listeners, the lists *)
(* of incoming and outgoing connections, the reaper, and shutdown().       *)
(*                                                                         *)
(* A connection is here what the engine sees of it: whether its descriptor *)
(* is in a dispatcher, whether it has been asked to close, and whether a   *)
(* timer is set that ends it then.  An adapter has one listener, a slack   *)
(* one has none.                                                           *)
(***************************************************************************)
EXTENDS Integers, FiniteSets

CONSTANTS
  Adapters, Endpoints,
  Incoming, Outgoing,   \* identities for connections
  None

Conns == Incoming \cup Outgoing

ASSUME PtEngineAssumption ==
  /\ Incoming \cap Outgoing = {} /\ IsFiniteSet(Incoming \cup Outgoing)
  /\ IsFiniteSet(Adapters)
  /\ {None, "loop", "failed"} \cap Conns = {} /\ None \notin {"loop", "failed"}

VARIABLES
  stopped,      \* _stopped
  adapterMap,   \* _adapterMap
  astate,       \* PtAdapter::_state; "none" before it is created
  listeners,    \* PtAdapter::_listeners is not empty
  lreg,         \* the listener's descriptor is in the dispatcher
  hand,         \* event_on_fd of the listener: None, "loop", the connection accepted, "failed"
  con,          \* connection: none, made, up, broken, waiting, closing, ending, down
  incomingCons, conMap,
  sd, sdAdapters, sdCons,   \* shutdown(): where it is; what is left in its local lists
  taken,        \* history: the connections that shutdown() took from the engine
  reaper, reaperCons,       \* runTimerTask(): where it is; the list it took
  checkTask,    \* check_stop is a task of the timer
  canceled,     \* the timer is canceled: waitForShutdown() returns
  doom          \* _doom(): none, sleeping, exited

adapterVars == <<adapterMap, astate, listeners, lreg>>
sdVars == <<sd, sdAdapters, sdCons, taken, doom>>
reapVars == <<reaper, reaperCons>>
stopVars == <<checkTask, canceled>>
conVars == <<con, incomingCons, conMap>>
vars == <<stopped, adapterVars, hand, conVars, sdVars, reapVars, stopVars>>

Init ==
  /\ stopped = FALSE
  /\ adapterMap = {}
  /\ astate = [a \in Adapters |-> "none"]
  /\ listeners = [a \in Adapters |-> FALSE]
  /\ lreg = [a \in Adapters |-> FALSE]
  /\ hand = [a \in Adapters |-> None]
  /\ con = [c \in Conns |-> "none"]
  /\ incomingCons = {} /\ conMap = [e \in Endpoints |-> None]
  /\ sd = "idle" /\ sdAdapters = {} /\ sdCons = {} /\ taken = {}
  /\ reaper = "idle" /\ reaperCons = {}
  /\ checkTask = FALSE /\ canceled = FALSE /\ doom = "none"

-----------------------------------------------------------------------------
(* Connections, as far as the engine is concerned. *)

\* Descriptors counted by countFd(): of connections and of listeners.
Registered == {c \in Conns : con[c] \in {"up", "broken", "waiting", "closing"}}
\* Faulty variant: the client's dispatcher is forgotten.
numFdServer ==
  Cardinality(Registered \cap Incoming) + Cardinality({a \in Adapters : lreg[a]})


numFd == Cardinality(Registered) + Cardinality({a \in Adapters : lreg[a]})

\* _grace(): only a live connection changes.  One with nothing to wait for says
\* Bye and sets the close timer; results that an outgoing one waits for may have
\* the message timer.  Quests that a servant has yet to answer have no timer,
\* nor have results without a message timeout: in ST_CLOSE it waits for them.
Asked(cons) ==
  \E timed \in SUBSET cons :
    con' = [c \in Conns |-> IF c \in cons /\ con[c] = "up"
                            THEN IF c \in timed THEN "closing" ELSE "waiting"
                            ELSE con[c]]

\* The last answer, or the last reply: the connection says Bye after all.
finish(c) ==
  /\ con[c] = "waiting"
  /\ con' = [con EXCEPT ![c] = "closing"]
  /\ UNCHANGED <<stopped, adapterVars, hand, incomingCons, conMap, sdVars, reapVars, stopVars>>

\* What check_stop() does: the timer is canceled when the last one is gone.
check_stop == canceled' = (canceled \/ (stopped /\ numFd = 0))

\* disconnect(): the descriptor leaves the dispatcher; at the end check_stop().
\* A connection whose start() failed may have an event on the way, or not.
disconnect(c) ==
  /\ c \in Registered
  /\ con' = [con EXCEPT ![c] = "ending"]
  /\ UNCHANGED <<stopped, adapterVars, hand, incomingCons, conMap, sdVars, reapVars, stopVars>>

disconnected(c) ==
  /\ con[c] = "ending"
  /\ con' = [con EXCEPT ![c] = "down"]
  /\ check_stop
  /\ UNCHANGED <<stopped, adapterVars, hand, incomingCons, conMap, sdVars, reapVars, checkTask>>

\* makeConnection(), all of it under the engine's lock.
MustMake(e) == \A c \in Conns : conMap[e] = c => con[c] # "up"

makeConnection(e, c) ==
  /\ ~stopped /\ MustMake(e)
  /\ c \in Outgoing /\ con[c] = "none"
  /\ conMap' = [conMap EXCEPT ![e] = c]
  /\ con' = [con EXCEPT ![c] = "up"]
  /\ UNCHANGED <<stopped, adapterVars, hand, incomingCons, sdVars, reapVars, stopVars>>

-----------------------------------------------------------------------------
(* Adapters and listeners. *)

\* Faulty variant: _stopped is looked at before the lock only.
createAdapterLate(a) ==
  /\ astate[a] = "none"
  /\ adapterMap' = adapterMap \cup {a}
  /\ astate' = [astate EXCEPT ![a] = "INIT"]
  /\ listeners' = [listeners EXCEPT ![a] = TRUE]
  /\ UNCHANGED <<stopped, lreg, hand, conVars, sdVars, reapVars, stopVars>>

createAdapter(a) ==
  /\ ~stopped /\ astate[a] = "none"
  /\ adapterMap' = adapterMap \cup {a}
  /\ astate' = [astate EXCEPT ![a] = "INIT"]
  /\ listeners' = [listeners EXCEPT ![a] = TRUE]
  /\ UNCHANGED <<stopped, lreg, hand, conVars, sdVars, reapVars, stopVars>>

\* createSlackAdapter(): it has no endpoints and is active from the start.
createSlackAdapter(a) ==
  /\ ~stopped /\ astate[a] = "none"
  /\ adapterMap' = adapterMap \cup {a}
  /\ astate' = [astate EXCEPT ![a] = "ACTIVE"]
  /\ UNCHANGED <<stopped, listeners, lreg, hand, conVars, sdVars, reapVars, stopVars>>

\* activate() throws only while there are listeners: after deactivate() it
\* makes the adapter active again, without a listener.
activate(a) ==
  /\ astate[a] # "none"
  /\ ~(astate[a] \in {"ACTIVE", "FINISHED"} /\ listeners[a])
  /\ astate' = [astate EXCEPT ![a] = "ACTIVE"]
  /\ lreg' = [lreg EXCEPT ![a] = listeners[a]]
  /\ UNCHANGED <<stopped, adapterMap, listeners, hand, conVars, sdVars, reapVars, stopVars>>

Deactivated(a) ==
  /\ astate' = [astate EXCEPT ![a] = "FINISHED"]
  /\ lreg' = [lreg EXCEPT ![a] = FALSE]
  /\ listeners' = [listeners EXCEPT ![a] = FALSE]

\* deactivate(), called by the application.
deactivate(a) ==
  /\ astate[a] \in {"INIT", "ACTIVE"}
  /\ Deactivated(a)
  /\ UNCHANGED <<stopped, adapterMap, hand, conVars, sdVars, reapVars, stopVars>>

\* The listener's event_on_fd() runs in one thread at a time and accepts until
\* there is nobody left, also when the listener leaves the dispatcher meanwhile.
event_on_fd(a) ==
  /\ lreg[a] /\ hand[a] = None
  /\ hand' = [hand EXCEPT ![a] = "loop"]
  /\ UNCHANGED <<stopped, adapterVars, conVars, sdVars, reapVars, stopVars>>

acceptNone(a) ==
  /\ hand[a] = "loop"
  /\ hand' = [hand EXCEPT ![a] = None]
  /\ UNCHANGED <<stopped, adapterVars, conVars, sdVars, reapVars, stopVars>>

\* accept() and new PtConnection; start() puts it into the dispatcher and sends
\* Hello or Check, which may fail; incomingConnection().
accept(a, c) ==
  /\ hand[a] = "loop"
  /\ c \in Incoming /\ con[c] = "none"
  /\ hand' = [hand EXCEPT ![a] = c]
  /\ con' = [con EXCEPT ![c] = "made"]
  /\ UNCHANGED <<stopped, adapterVars, incomingCons, conMap, sdVars, reapVars, stopVars>>

startAccepted(a) ==
  LET c == hand[a]
  IN /\ c \in Incoming /\ con[c] = "made"
     /\ \/ con' = [con EXCEPT ![c] = "up"] /\ UNCHANGED hand
        \/ con' = [con EXCEPT ![c] = "broken"] /\ hand' = [hand EXCEPT ![a] = "loop"]
     /\ UNCHANGED <<stopped, adapterVars, incomingCons, conMap, sdVars, reapVars, stopVars>>

incomingConnection(a) ==
  LET c == hand[a]
  IN /\ c \in Incoming /\ con[c] # "made"
     /\ incomingCons' = incomingCons \cup {c}
     /\ hand' = [hand EXCEPT ![a] = "loop"]
     /\ UNCHANGED <<stopped, adapterVars, con, conMap, sdVars, reapVars, stopVars>>

\* accept() fails for good: the listener shuts the engine down itself.
acceptFails(a) ==
  /\ hand[a] = "loop"
  /\ hand' = [hand EXCEPT ![a] = "failed"]
  /\ UNCHANGED <<stopped, adapterVars, conVars, sdVars, reapVars, stopVars>>

-----------------------------------------------------------------------------
(* shutdown(), by the application or by a listener. *)

\* Faulty variant: places in the map that hold no connection are not skipped.
InMapNull == {conMap[e] : e \in Endpoints}
InMap == {conMap[e] : e \in Endpoints} \ {None}

shutdown ==
  /\ ~stopped /\ stopped' = TRUE
  /\ sd' = "adapters" /\ sdAdapters' = adapterMap /\ sdCons' = incomingCons \cup InMap
  /\ taken' = sdCons'
  /\ adapterMap' = {} /\ incomingCons' = {} /\ conMap' = [e \in Endpoints |-> None]
  /\ hand' = [a \in Adapters |-> IF hand[a] = "failed" THEN None ELSE hand[a]]
  /\ UNCHANGED <<doom, astate, listeners, lreg, con, reapVars, stopVars>>

\* A listener that finds the engine stopped already returns.
shutdownAgain(a) ==
  /\ stopped /\ hand[a] = "failed"
  /\ hand' = [hand EXCEPT ![a] = None]
  /\ UNCHANGED <<stopped, adapterVars, conVars, sdVars, reapVars, stopVars>>

\* deactivate() of one adapter.
shutdownAdapter(a) ==
  /\ sd = "adapters" /\ a \in sdAdapters /\ astate[a] # "FINISHED"
  /\ sdAdapters' = sdAdapters \ {a}
  /\ Deactivated(a)
  /\ UNCHANGED <<stopped, adapterMap, hand, conVars, sd, sdCons, taken, doom, reapVars, stopVars>>

\* deactivate() throws if the adapter has been deactivated before.  The exception
\* leaves shutdown() and its local lists with it: the adapters that are left stay
\* active and no connection is asked to close.
shutdownThrows(a) ==
  /\ sd = "adapters" /\ a \in sdAdapters /\ astate[a] = "FINISHED"
  /\ sd' = "threw" /\ sdAdapters' = {} /\ sdCons' = {}
  /\ UNCHANGED <<stopped, adapterVars, hand, conVars, taken, doom, reapVars, stopVars>>

\* close(false) of one connection
shutdownCon(c) ==
  /\ sd = "adapters" /\ sdAdapters = {} /\ c \in sdCons
  /\ sdCons' = sdCons \ {c}
  /\ Asked({c})
  /\ UNCHANGED <<stopped, adapterVars, hand, incomingCons, conMap, sd, sdAdapters, taken, doom,
                 reapVars, stopVars>>

shutdownCheck ==
  /\ sd = "adapters" /\ sdAdapters = {} /\ sdCons = {}
  /\ sd' = "done" /\ doom' = "sleeping"
  /\ check_stop
  /\ checkTask' = (numFd > 0)
  /\ UNCHANGED <<stopped, adapterVars, hand, conVars, sdAdapters, sdCons, taken, reapVars>>

\* The task: check_stop() again, and again after 919 ms if it is too early.
runCheckStop ==
  /\ checkTask /\ ~canceled /\ reaper = "idle"
  /\ check_stop
  /\ checkTask' = (numFd > 0)
  /\ UNCHANGED <<stopped, adapterVars, hand, conVars, sdVars, reapVars>>

\* exit(1) of the thread that _doom() made.  The rest goes on here, to show what
\* shutdown() does without its help.
doomExit ==
  /\ doom = "sleeping" /\ doom' = "exited"
  /\ UNCHANGED <<stopped, adapterVars, hand, conVars, sd, sdAdapters, sdCons, taken, reapVars, stopVars>>

-----------------------------------------------------------------------------
(* runTimerTask(): the reaper, in the timer's thread.  reap_idle() tells of *)
(* each connection whether it is to be forgotten: one that is not live any  *)
(* more, or one that has been idle too long and is asked to close for it,   *)
(* but none that still has a quest or a result.                             *)

\* Faulty variant: idle connections are forgotten and not asked to close.
ReapedOnly(cons) == UNCHANGED con

Reaped(cons) == con' = [c \in Conns |-> IF c \in cons /\ con[c] = "up" THEN "closing" ELSE con[c]]

Busy == {c \in Conns : con[c] = "waiting"}

reap ==
  /\ ~canceled /\ reaper = "idle"
  /\ \E gone \in SUBSET ((incomingCons \cup InMap) \ Busy) :
       /\ Reaped(gone)
       /\ incomingCons' = incomingCons \ gone
       /\ conMap' = [e \in Endpoints |-> IF conMap[e] \in gone THEN None ELSE conMap[e]]
  /\ UNCHANGED <<stopped, adapterVars, hand, sdVars, reapVars, stopVars>>

\* The shadow box has changed: every incoming connection has to log in again.
\* The list is taken under the lock and the connections are closed after it.
reapAll ==
  /\ ~canceled /\ reaper = "idle" /\ incomingCons # {}
  /\ \E gone \in SUBSET (InMap \ Busy) :
       /\ Reaped(gone)
       /\ conMap' = [e \in Endpoints |-> IF conMap[e] \in gone THEN None ELSE conMap[e]]
  /\ reaper' = "closing" /\ reaperCons' = incomingCons
  /\ incomingCons' = {}
  /\ UNCHANGED <<stopped, adapterVars, hand, sdVars, stopVars>>

reapClose ==
  /\ reaper = "closing"
  /\ \/ \E c \in reaperCons :
          Asked({c}) /\ reaperCons' = reaperCons \ {c} /\ UNCHANGED reaper
     \/ reaperCons = {} /\ reaper' = "idle" /\ UNCHANGED <<con, reaperCons>>
  /\ UNCHANGED <<stopped, adapterVars, hand, incomingCons, conMap, sdVars, stopVars>>

-----------------------------------------------------------------------------
listen(a) ==
  acceptNone(a) \/ startAccepted(a) \/ incomingConnection(a) \/ shutdownAgain(a)
shutdownStep ==
  \/ \E a \in Adapters : shutdownAdapter(a) \/ shutdownThrows(a)
  \/ \E c \in Conns : shutdownCon(c)
  \/ shutdownCheck

Next ==
  \/ \E c \in Conns : finish(c) \/ disconnect(c) \/ disconnected(c)
  \/ \E e \in Endpoints, c \in Outgoing : makeConnection(e, c)
  \/ \E a \in Adapters :
       \/ createAdapter(a) \/ createSlackAdapter(a) \/ activate(a) \/ deactivate(a)
       \/ event_on_fd(a) \/ acceptFails(a) \/ listen(a)
  \/ \E a \in Adapters, c \in Incoming : accept(a, c)
  \/ shutdown \/ shutdownStep \/ runCheckStop \/ doomExit
  \/ reap \/ reapAll \/ reapClose

Spec == Init /\ [][Next]_vars

\* A connection that is closing has a timer, which ends it if nothing else does,
\* as long as the timer is not canceled; one that is waiting has none and may
\* wait for ever.  A disconnect() that has begun returns, threads and the timer
\* go on.
Fairness ==
  /\ \A c \in Conns :
       /\ WF_vars(con[c] = "closing" /\ ~canceled /\ disconnect(c))
       /\ WF_vars(disconnected(c))
  /\ \A a \in Adapters : WF_vars(listen(a))
  /\ WF_vars(shutdownStep) /\ WF_vars(runCheckStop) /\ WF_vars(reapClose) /\ WF_vars(doomExit)

FairSpec == Spec /\ Fairness

-----------------------------------------------------------------------------
(* Properties. *)

TypeOK ==
  /\ stopped \in BOOLEAN /\ adapterMap \subseteq Adapters
  /\ astate \in [Adapters -> {"none", "INIT", "ACTIVE", "FINISHED"}]
  /\ listeners \in [Adapters -> BOOLEAN] /\ lreg \in [Adapters -> BOOLEAN]
  /\ hand \in [Adapters -> Incoming \cup {None, "loop", "failed"}]
  /\ con \in [Conns -> {"none", "made", "up", "broken", "waiting", "closing", "ending", "down"}]
  /\ incomingCons \subseteq Incoming /\ conMap \in [Endpoints -> Outgoing \cup {None}]
  /\ sd \in {"idle", "adapters", "threw", "done"}
  /\ sdAdapters \subseteq Adapters /\ sdCons \subseteq taken /\ taken \subseteq Conns
  /\ reaper \in {"idle", "closing"} /\ reaperCons \subseteq Incoming
  /\ checkTask \in BOOLEAN /\ canceled \in BOOLEAN
  /\ doom \in {"none", "sleeping", "exited"}

\* makeConnection, incomingConnection, reap_idle and shutdown() move
\* connections between lists: a live connection is in a list of the engine, of
\* shutdown() or of the reaper, or in a listener's hand, so that someone can ask
\* it to close; unless it is one that shutdown() took and lost, with its lists,
\* to the exception of deactivate().
NoConnForgotten ==
  \A c \in Conns : con[c] = "up" =>
    \/ c \in incomingCons \cup InMap \cup sdCons \cup reaperCons
    \/ \E a \in Adapters : hand[a] = c
    \/ sd = "threw" /\ c \in taken

\* createAdapter, activate and deactivate against shutdown(): once it has been
\* through the adapters no listener is, or comes again, in the dispatcher.
NoListenerLeft ==
  (stopped /\ sd # "threw" /\ sdAdapters = {}) => \A a \in Adapters : ~lreg[a]

\* check_stop: when the timer has been canceled, and with it every timeout,
\* neither an outgoing connection nor one that shutdown() took is in a
\* dispatcher: what is left was put into the list after shutdown() took it.
QuietAfterCancel == canceled => Registered \cap (Outgoing \cup taken) = {}

\* Liveness: shutdown() comes to the end of waitForShutdown() without the help of
\* _doom(), unless it threw or something holds it from some time on for ever: a
\* connection that waits, in ST_CLOSE without a timer, for a servant or for a
\* reply; one that came into the list after it was taken; or one whose start()
\* failed.
Held ==
  \/ \E c \in Conns : con[c] = "waiting"
  \/ \E c \in Incoming : con[c] = "broken" \/ (con[c] = "up" /\ c \notin taken)
=============================================================================
