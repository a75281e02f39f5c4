--------------------------- MODULE PtEngineProofs ---------------------------
(***************************************************************************)
(* TypeOK, NoConnForgotten, NoListenerLeft and QuietAfterCancel of the     *)
(* engine, for any number of adapters, endpoints and connections.          *)
(***************************************************************************)
EXTENDS PtEngine, FiniteSetTheorems, TLAPS

\* shutdown() runs once, and until then it has taken nothing.
ShutdownOnce ==
  /\ stopped => adapterMap = {} /\ sd # "idle"
  /\ ~stopped => sd = "idle" /\ sdAdapters = {} /\ sdCons = {} /\ taken = {}

\* A listener in the dispatcher belongs to an adapter that is still in the map
\* or that shutdown() still has to deactivate, unless shutdown() threw.
ListenersKnown ==
  \A a \in Adapters :
    /\ lreg[a] => listeners[a]
    /\ listeners[a] => a \in adapterMap \cup sdAdapters \/ sd = "threw"

\* The reaper has a list only while it closes what is on it.
ReaperList == reaper = "idle" => reaperCons = {}

EngineInv == TypeOK /\ ShutdownOnce /\ ListenersKnown /\ ReaperList /\ NoConnForgotten

\* A connection that waited says Bye.
LEMMA FinishStep ==
  ASSUME EngineInv, NEW c \in Conns, finish(c)
  PROVE  EngineInv'
<1> USE PtEngineAssumption
    DEF EngineInv, TypeOK, Conns, adapterVars, conVars, sdVars, reapVars, stopVars, finish
<1>1. TypeOK'
  OBVIOUS
<1>2. ShutdownOnce'
  BY DEF ShutdownOnce
<1>3. ListenersKnown'
  BY DEF ListenersKnown, ShutdownOnce
<1>4. ReaperList'
  BY DEF ReaperList
<1>5. NoConnForgotten'
  BY DEF NoConnForgotten, InMap, ReaperList, ShutdownOnce
<1> QED BY <1>1, <1>2, <1>3, <1>4, <1>5

\* disconnect() takes the descriptor out of the dispatcher.
LEMMA DisconnectStep ==
  ASSUME EngineInv, NEW c \in Conns, disconnect(c)
  PROVE  EngineInv'
<1> USE PtEngineAssumption
    DEF EngineInv, TypeOK, Conns, adapterVars, conVars, sdVars, reapVars, stopVars, disconnect, Registered
<1>1. TypeOK'
  OBVIOUS
<1>2. ShutdownOnce'
  BY DEF ShutdownOnce
<1>3. ListenersKnown'
  BY DEF ListenersKnown, ShutdownOnce
<1>4. ReaperList'
  BY DEF ReaperList
<1>5. NoConnForgotten'
  BY DEF NoConnForgotten, InMap, ReaperList, ShutdownOnce
<1> QED BY <1>1, <1>2, <1>3, <1>4, <1>5

\* disconnect() has come to its end.
LEMMA DisconnectedStep ==
  ASSUME EngineInv, NEW c \in Conns, disconnected(c)
  PROVE  EngineInv'
<1> USE PtEngineAssumption
    DEF EngineInv, TypeOK, Conns, adapterVars, conVars, sdVars, reapVars, stopVars, disconnected, check_stop
<1>1. TypeOK'
  OBVIOUS
<1>2. ShutdownOnce'
  BY DEF ShutdownOnce
<1>3. ListenersKnown'
  BY DEF ListenersKnown, ShutdownOnce
<1>4. ReaperList'
  BY DEF ReaperList
<1>5. NoConnForgotten'
  BY DEF NoConnForgotten, InMap, ReaperList, ShutdownOnce
<1> QED BY <1>1, <1>2, <1>3, <1>4, <1>5

\* A new outgoing connection replaces one that is not live.
LEMMA MakeConnectionStep ==
  ASSUME EngineInv, NEW e \in Endpoints, NEW c \in Outgoing, makeConnection(e, c)
  PROVE  EngineInv'
<1> USE PtEngineAssumption
    DEF EngineInv, TypeOK, Conns, adapterVars, conVars, sdVars, reapVars, stopVars, makeConnection, MustMake
<1>1. TypeOK'
  OBVIOUS
<1>2. ShutdownOnce'
  BY DEF ShutdownOnce
<1>3. ListenersKnown'
  BY DEF ListenersKnown, ShutdownOnce
<1>4. ReaperList'
  BY DEF ReaperList
<1>5. NoConnForgotten'
  BY DEF NoConnForgotten, InMap, ReaperList, ShutdownOnce
<1> QED BY <1>1, <1>2, <1>3, <1>4, <1>5

\* An adapter enters the map, unless the engine is stopped.
LEMMA CreateAdapterStep ==
  ASSUME EngineInv, NEW a \in Adapters, createAdapter(a)
  PROVE  EngineInv'
<1> USE PtEngineAssumption
    DEF EngineInv, TypeOK, Conns, adapterVars, conVars, sdVars, reapVars, stopVars, createAdapter
<1>1. TypeOK'
  OBVIOUS
<1>2. ShutdownOnce'
  BY DEF ShutdownOnce
<1>3. ListenersKnown'
  BY DEF ListenersKnown, ShutdownOnce
<1>4. ReaperList'
  BY DEF ReaperList
<1>5. NoConnForgotten'
  BY DEF NoConnForgotten, InMap, ReaperList, ShutdownOnce
<1> QED BY <1>1, <1>2, <1>3, <1>4, <1>5

\* An adapter without listeners enters the map.
LEMMA CreateSlackAdapterStep ==
  ASSUME EngineInv, NEW a \in Adapters, createSlackAdapter(a)
  PROVE  EngineInv'
<1> USE PtEngineAssumption
    DEF EngineInv, TypeOK, Conns, adapterVars, conVars, sdVars, reapVars, stopVars, createSlackAdapter
<1>1. TypeOK'
  OBVIOUS
<1>2. ShutdownOnce'
  BY DEF ShutdownOnce
<1>3. ListenersKnown'
  BY DEF ListenersKnown, ShutdownOnce
<1>4. ReaperList'
  BY DEF ReaperList
<1>5. NoConnForgotten'
  BY DEF NoConnForgotten, InMap, ReaperList, ShutdownOnce
<1> QED BY <1>1, <1>2, <1>3, <1>4, <1>5

\* activate() puts the listener into the dispatcher.
LEMMA ActivateStep ==
  ASSUME EngineInv, NEW a \in Adapters, activate(a)
  PROVE  EngineInv'
<1> USE PtEngineAssumption
    DEF EngineInv, TypeOK, Conns, adapterVars, conVars, sdVars, reapVars, stopVars, activate
<1>1. TypeOK'
  OBVIOUS
<1>2. ShutdownOnce'
  BY DEF ShutdownOnce
<1>3. ListenersKnown'
  BY DEF ListenersKnown, ShutdownOnce
<1>4. ReaperList'
  BY DEF ReaperList
<1>5. NoConnForgotten'
  BY DEF NoConnForgotten, InMap, ReaperList, ShutdownOnce
<1> QED BY <1>1, <1>2, <1>3, <1>4, <1>5

\* deactivate() by the application.
LEMMA DeactivateStep ==
  ASSUME EngineInv, NEW a \in Adapters, deactivate(a)
  PROVE  EngineInv'
<1> USE PtEngineAssumption
    DEF EngineInv, TypeOK, Conns, adapterVars, conVars, sdVars, reapVars, stopVars, deactivate, Deactivated
<1>1. TypeOK'
  OBVIOUS
<1>2. ShutdownOnce'
  BY DEF ShutdownOnce
<1>3. ListenersKnown'
  BY DEF ListenersKnown, ShutdownOnce
<1>4. ReaperList'
  BY DEF ReaperList
<1>5. NoConnForgotten'
  BY DEF NoConnForgotten, InMap, ReaperList, ShutdownOnce
<1> QED BY <1>1, <1>2, <1>3, <1>4, <1>5

\* The listener begins to accept.
LEMMA Event_on_fdStep ==
  ASSUME EngineInv, NEW a \in Adapters, event_on_fd(a)
  PROVE  EngineInv'
<1> USE PtEngineAssumption
    DEF EngineInv, TypeOK, Conns, adapterVars, conVars, sdVars, reapVars, stopVars, event_on_fd
<1>1. TypeOK'
  OBVIOUS
<1>2. ShutdownOnce'
  BY DEF ShutdownOnce
<1>3. ListenersKnown'
  BY DEF ListenersKnown, ShutdownOnce
<1>4. ReaperList'
  BY DEF ReaperList
<1>5. NoConnForgotten'
  BY DEF NoConnForgotten, InMap, ReaperList, ShutdownOnce
<1> QED BY <1>1, <1>2, <1>3, <1>4, <1>5

\* accept() fails.
LEMMA AcceptFailsStep ==
  ASSUME EngineInv, NEW a \in Adapters, acceptFails(a)
  PROVE  EngineInv'
<1> USE PtEngineAssumption
    DEF EngineInv, TypeOK, Conns, adapterVars, conVars, sdVars, reapVars, stopVars, acceptFails
<1>1. TypeOK'
  OBVIOUS
<1>2. ShutdownOnce'
  BY DEF ShutdownOnce
<1>3. ListenersKnown'
  BY DEF ListenersKnown, ShutdownOnce
<1>4. ReaperList'
  BY DEF ReaperList
<1>5. NoConnForgotten'
  BY DEF NoConnForgotten, InMap, ReaperList, ShutdownOnce
<1> QED BY <1>1, <1>2, <1>3, <1>4, <1>5

\* There is nobody left to accept.
LEMMA AcceptNoneStep ==
  ASSUME EngineInv, NEW a \in Adapters, acceptNone(a)
  PROVE  EngineInv'
<1> USE PtEngineAssumption
    DEF EngineInv, TypeOK, Conns, adapterVars, conVars, sdVars, reapVars, stopVars, acceptNone
<1>1. TypeOK'
  OBVIOUS
<1>2. ShutdownOnce'
  BY DEF ShutdownOnce
<1>3. ListenersKnown'
  BY DEF ListenersKnown, ShutdownOnce
<1>4. ReaperList'
  BY DEF ReaperList
<1>5. NoConnForgotten'
  BY DEF NoConnForgotten, InMap, ReaperList, ShutdownOnce
<1> QED BY <1>1, <1>2, <1>3, <1>4, <1>5

\* start() of an accepted connection.
LEMMA StartAcceptedStep ==
  ASSUME EngineInv, NEW a \in Adapters, startAccepted(a)
  PROVE  EngineInv'
<1> USE PtEngineAssumption
    DEF EngineInv, TypeOK, Conns, adapterVars, conVars, sdVars, reapVars, stopVars, startAccepted
<1>1. TypeOK'
  OBVIOUS
<1>2. ShutdownOnce'
  BY DEF ShutdownOnce
<1>3. ListenersKnown'
  BY DEF ListenersKnown, ShutdownOnce
<1>4. ReaperList'
  BY DEF ReaperList
<1>5. NoConnForgotten'
  BY DEF NoConnForgotten, InMap, ReaperList, ShutdownOnce
<1> QED BY <1>1, <1>2, <1>3, <1>4, <1>5

\* The connection goes from the listener to the engine's list.
LEMMA IncomingConnectionStep ==
  ASSUME EngineInv, NEW a \in Adapters, incomingConnection(a)
  PROVE  EngineInv'
<1> USE PtEngineAssumption
    DEF EngineInv, TypeOK, Conns, adapterVars, conVars, sdVars, reapVars, stopVars, incomingConnection
<1>1. TypeOK'
  OBVIOUS
<1>2. ShutdownOnce'
  BY DEF ShutdownOnce
<1>3. ListenersKnown'
  BY DEF ListenersKnown, ShutdownOnce
<1>4. ReaperList'
  BY DEF ReaperList
<1>5. NoConnForgotten'
  BY DEF NoConnForgotten, InMap, ReaperList, ShutdownOnce
<1> QED BY <1>1, <1>2, <1>3, <1>4, <1>5

\* A listener finds the engine stopped.
LEMMA ShutdownAgainStep ==
  ASSUME EngineInv, NEW a \in Adapters, shutdownAgain(a)
  PROVE  EngineInv'
<1> USE PtEngineAssumption
    DEF EngineInv, TypeOK, Conns, adapterVars, conVars, sdVars, reapVars, stopVars, shutdownAgain
<1>1. TypeOK'
  OBVIOUS
<1>2. ShutdownOnce'
  BY DEF ShutdownOnce
<1>3. ListenersKnown'
  BY DEF ListenersKnown, ShutdownOnce
<1>4. ReaperList'
  BY DEF ReaperList
<1>5. NoConnForgotten'
  BY DEF NoConnForgotten, InMap, ReaperList, ShutdownOnce
<1> QED BY <1>1, <1>2, <1>3, <1>4, <1>5

\* A connection is accepted.
LEMMA AcceptStep ==
  ASSUME EngineInv, NEW a \in Adapters, NEW c \in Incoming, accept(a, c)
  PROVE  EngineInv'
<1> USE PtEngineAssumption
    DEF EngineInv, TypeOK, Conns, adapterVars, conVars, sdVars, reapVars, stopVars, accept
<1>1. TypeOK'
  OBVIOUS
<1>2. ShutdownOnce'
  BY DEF ShutdownOnce
<1>3. ListenersKnown'
  BY DEF ListenersKnown, ShutdownOnce
<1>4. ReaperList'
  BY DEF ReaperList
<1>5. NoConnForgotten'
  BY DEF NoConnForgotten, InMap, ReaperList, ShutdownOnce
<1> QED BY <1>1, <1>2, <1>3, <1>4, <1>5

\* shutdown() takes the lists.
LEMMA ShutdownStep ==
  ASSUME EngineInv, shutdown
  PROVE  EngineInv'
<1> USE PtEngineAssumption
    DEF EngineInv, TypeOK, Conns, adapterVars, conVars, sdVars, reapVars, stopVars, shutdown, InMap
<1>1. TypeOK'
  OBVIOUS
<1>2. ShutdownOnce'
  BY DEF ShutdownOnce
<1>3. ListenersKnown'
  BY DEF ListenersKnown, ShutdownOnce
<1>4. ReaperList'
  BY DEF ReaperList
<1>5. NoConnForgotten'
  BY DEF NoConnForgotten, InMap, ReaperList, ShutdownOnce
<1> QED BY <1>1, <1>2, <1>3, <1>4, <1>5

\* shutdown() deactivates an adapter.
LEMMA ShutdownAdapterStep ==
  ASSUME EngineInv, NEW a \in Adapters, shutdownAdapter(a)
  PROVE  EngineInv'
<1> USE PtEngineAssumption
    DEF EngineInv, TypeOK, Conns, adapterVars, conVars, sdVars, reapVars, stopVars, shutdownAdapter, Deactivated
<1>1. TypeOK'
  OBVIOUS
<1>2. ShutdownOnce'
  BY DEF ShutdownOnce
<1>3. ListenersKnown'
  BY DEF ListenersKnown, ShutdownOnce
<1>4. ReaperList'
  BY DEF ReaperList
<1>5. NoConnForgotten'
  BY DEF NoConnForgotten, InMap, ReaperList, ShutdownOnce
<1> QED BY <1>1, <1>2, <1>3, <1>4, <1>5

\* shutdown() throws, and its lists are gone.
LEMMA ShutdownThrowsStep ==
  ASSUME EngineInv, NEW a \in Adapters, shutdownThrows(a)
  PROVE  EngineInv'
<1> USE PtEngineAssumption
    DEF EngineInv, TypeOK, Conns, adapterVars, conVars, sdVars, reapVars, stopVars, shutdownThrows
<1>1. TypeOK'
  OBVIOUS
<1>2. ShutdownOnce'
  BY DEF ShutdownOnce
<1>3. ListenersKnown'
  BY DEF ListenersKnown, ShutdownOnce
<1>4. ReaperList'
  BY DEF ReaperList
<1>5. NoConnForgotten'
  BY DEF NoConnForgotten, InMap, ReaperList, ShutdownOnce
<1> QED BY <1>1, <1>2, <1>3, <1>4, <1>5

\* shutdown() closes a connection.
LEMMA ShutdownConStep ==
  ASSUME EngineInv, NEW c \in Conns, shutdownCon(c)
  PROVE  EngineInv'
<1> USE PtEngineAssumption
    DEF EngineInv, TypeOK, Conns, adapterVars, conVars, sdVars, reapVars, stopVars, shutdownCon, Asked
<1>1. TypeOK'
  OBVIOUS
<1>2. ShutdownOnce'
  BY DEF ShutdownOnce
<1>3. ListenersKnown'
  BY DEF ListenersKnown, ShutdownOnce
<1>4. ReaperList'
  BY DEF ReaperList
<1>5. NoConnForgotten'
  BY DEF NoConnForgotten, InMap, ReaperList, ShutdownOnce
<1> QED BY <1>1, <1>2, <1>3, <1>4, <1>5

\* shutdown() looks whether it is over.
LEMMA ShutdownCheckStep ==
  ASSUME EngineInv, shutdownCheck
  PROVE  EngineInv'
<1> USE PtEngineAssumption
    DEF EngineInv, TypeOK, Conns, adapterVars, conVars, sdVars, reapVars, stopVars, shutdownCheck, check_stop
<1>1. TypeOK'
  OBVIOUS
<1>2. ShutdownOnce'
  BY DEF ShutdownOnce
<1>3. ListenersKnown'
  BY DEF ListenersKnown, ShutdownOnce
<1>4. ReaperList'
  BY DEF ReaperList
<1>5. NoConnForgotten'
  BY DEF NoConnForgotten, InMap, ReaperList, ShutdownOnce
<1> QED BY <1>1, <1>2, <1>3, <1>4, <1>5

\* The task that looks again.
LEMMA RunCheckStopStep ==
  ASSUME EngineInv, runCheckStop
  PROVE  EngineInv'
<1> USE PtEngineAssumption
    DEF EngineInv, TypeOK, Conns, adapterVars, conVars, sdVars, reapVars, stopVars, runCheckStop, check_stop
<1>1. TypeOK'
  OBVIOUS
<1>2. ShutdownOnce'
  BY DEF ShutdownOnce
<1>3. ListenersKnown'
  BY DEF ListenersKnown, ShutdownOnce
<1>4. ReaperList'
  BY DEF ReaperList
<1>5. NoConnForgotten'
  BY DEF NoConnForgotten, InMap, ReaperList, ShutdownOnce
<1> QED BY <1>1, <1>2, <1>3, <1>4, <1>5

\* The end of _doom().
LEMMA DoomExitStep ==
  ASSUME EngineInv, doomExit
  PROVE  EngineInv'
<1> USE PtEngineAssumption
    DEF EngineInv, TypeOK, Conns, adapterVars, conVars, sdVars, reapVars, stopVars, doomExit
<1>1. TypeOK'
  OBVIOUS
<1>2. ShutdownOnce'
  BY DEF ShutdownOnce
<1>3. ListenersKnown'
  BY DEF ListenersKnown, ShutdownOnce
<1>4. ReaperList'
  BY DEF ReaperList
<1>5. NoConnForgotten'
  BY DEF NoConnForgotten, InMap, ReaperList, ShutdownOnce
<1> QED BY <1>1, <1>2, <1>3, <1>4, <1>5

\* The reaper takes idle and dead connections out of the lists.
LEMMA ReapStep ==
  ASSUME EngineInv, reap
  PROVE  EngineInv'
<1> USE PtEngineAssumption
    DEF EngineInv, TypeOK, Conns, adapterVars, conVars, sdVars, reapVars, stopVars, reap, InMap, Reaped, Asked
<1>1. TypeOK'
  OBVIOUS
<1>2. ShutdownOnce'
  BY DEF ShutdownOnce
<1>3. ListenersKnown'
  BY DEF ListenersKnown, ShutdownOnce
<1>4. ReaperList'
  BY DEF ReaperList
<1>5. NoConnForgotten'
  BY DEF NoConnForgotten, InMap, ReaperList, ShutdownOnce
<1> QED BY <1>1, <1>2, <1>3, <1>4, <1>5

\* The reaper takes the list of incoming connections.
LEMMA ReapAllStep ==
  ASSUME EngineInv, reapAll
  PROVE  EngineInv'
<1> USE PtEngineAssumption
    DEF EngineInv, TypeOK, Conns, adapterVars, conVars, sdVars, reapVars, stopVars, reapAll, InMap, Reaped, Asked
<1>1. TypeOK'
  OBVIOUS
<1>2. ShutdownOnce'
  BY DEF ShutdownOnce
<1>3. ListenersKnown'
  BY DEF ListenersKnown, ShutdownOnce
<1>4. ReaperList'
  BY DEF ReaperList
<1>5. NoConnForgotten'
  BY DEF NoConnForgotten, InMap, ReaperList, ShutdownOnce
<1> QED BY <1>1, <1>2, <1>3, <1>4, <1>5

\* The reaper closes one of them.
LEMMA ReapCloseStep ==
  ASSUME EngineInv, reapClose
  PROVE  EngineInv'
<1> USE PtEngineAssumption
    DEF EngineInv, TypeOK, Conns, adapterVars, conVars, sdVars, reapVars, stopVars, reapClose, Asked
<1>1. TypeOK'
  OBVIOUS
<1>2. ShutdownOnce'
  BY DEF ShutdownOnce
<1>3. ListenersKnown'
  BY DEF ListenersKnown, ShutdownOnce
<1>4. ReaperList'
  BY DEF ReaperList
<1>5. NoConnForgotten'
  BY DEF NoConnForgotten, InMap, ReaperList, ShutdownOnce
<1> QED BY <1>1, <1>2, <1>3, <1>4, <1>5

LEMMA EngineInit == Init => EngineInv
BY PtEngineAssumption
 DEF Init, EngineInv, TypeOK, Conns, ShutdownOnce, ListenersKnown, ReaperList, NoConnForgotten

LEMMA EngineStep == EngineInv /\ [Next]_vars => EngineInv'
<1> SUFFICES ASSUME EngineInv, [Next]_vars PROVE EngineInv'
  OBVIOUS
<1>1. CASE UNCHANGED vars
  BY <1>1 DEF vars, adapterVars, conVars, sdVars, reapVars, stopVars, EngineInv, TypeOK, Conns,
     ShutdownOnce, ListenersKnown, ReaperList, NoConnForgotten, InMap
<1>2. CASE Next
  BY <1>2, FinishStep, DisconnectStep, DisconnectedStep, MakeConnectionStep, CreateAdapterStep,
     CreateSlackAdapterStep,
     ActivateStep, DeactivateStep, Event_on_fdStep, AcceptFailsStep,
     AcceptNoneStep, StartAcceptedStep, IncomingConnectionStep, ShutdownAgainStep,
     AcceptStep, ShutdownStep, ShutdownAdapterStep, ShutdownThrowsStep, ShutdownConStep,
     ShutdownCheckStep, RunCheckStopStep, DoomExitStep, ReapStep,
     ReapAllStep, ReapCloseStep
  DEF Next, listen, shutdownStep
<1> QED BY <1>1, <1>2

\* The types of the engine.
THEOREM EngineTypeCorrect == Spec => []TypeOK
<1>1. EngineInv => TypeOK
  BY DEF EngineInv
<1> QED BY <1>1, EngineInit, EngineStep, PTL DEF Spec

\* A live connection is in a list of the engine, of shutdown() or of the reaper,
\* or in a listener's hand, so that someone can ask it to close, unless it is one
\* that shutdown() took and lost to the exception of deactivate().
THEOREM EngineForgetsNoConn == Spec => []NoConnForgotten
<1>1. EngineInv => NoConnForgotten
  BY DEF EngineInv
<1> QED BY <1>1, EngineInit, EngineStep, PTL DEF Spec

\* Once shutdown() has been through the adapters, no listener is or comes again
\* into the dispatcher.
THEOREM EngineStopsListening == Spec => []NoListenerLeft
<1>1. EngineInv => NoListenerLeft
  BY DEF EngineInv, TypeOK, ShutdownOnce, ListenersKnown, NoListenerLeft
<1> QED BY <1>1, EngineInit, EngineStep, PTL DEF Spec

-----------------------------------------------------------------------------
(* QuietAfterCancel.  A list only ever holds connections that have been     *)
(* started, and none becomes live again: once check_stop() has found no     *)
(* descriptor left, those that shutdown() took and the outgoing ones stay   *)
(* out of the dispatchers, whatever is accepted meanwhile.                  *)

\* What is in a list has been through start().
Listed == incomingCons \cup taken \cup reaperCons \cup InMap
Started == \A c \in Listed : con[c] \notin {"none", "made"}

\* Only a listener has a connection that has not been started.
MadeIncoming == \A c \in Outgoing : con[c] # "made"

\* A listener has accepted what it has in hand.
HandMade == \A a \in Adapters : hand[a] \in Incoming => con[hand[a]] # "none"

QuietInv ==
  /\ EngineInv /\ Started /\ MadeIncoming /\ HandMade
  /\ QuietAfterCancel /\ (canceled => stopped)

\* countFd(): with no descriptor counted there is none.
LEMMA NoFd ==
  ASSUME TypeOK, numFd = 0
  PROVE  Registered = {}
<1>1. IsFiniteSet(Registered) /\ IsFiniteSet({a \in Adapters : lreg[a]})
  <2>1. Registered \subseteq Incoming \cup Outgoing
    BY DEF Registered, Conns
  <2> QED BY <2>1, PtEngineAssumption, FS_Subset
<1>2. Cardinality(Registered) \in Nat /\ Cardinality({a \in Adapters : lreg[a]}) \in Nat
  BY <1>1, FS_CardinalityType
<1>3. Cardinality(Registered) = 0
  BY <1>2 DEF numFd
<1> QED BY <1>1, <1>3, FS_EmptySet

\* What a step may do to the connections without disturbing the calm.
Calm ==
  /\ Listed' \subseteq Listed \cup {c \in Conns : con'[c] \notin {"none", "made"}}
  /\ \A c \in Conns : con[c] \notin {"none", "made"} => con'[c] \notin {"none", "made"}
  /\ \A c \in Conns : con[c] # "none" => con'[c] # "none"
  /\ \A c \in Outgoing : con[c] # "made" => con'[c] # "made"
  /\ \A c \in Conns : c \in Registered' =>
       c \in Registered \/ con[c] = "made" \/ (~stopped /\ ~canceled')
  /\ canceled' => canceled \/ (stopped /\ Registered' \subseteq Registered /\ numFd = 0)
  /\ stopped => stopped' /\ taken' = taken
  /\ \A a \in Adapters : hand'[a] \in Incoming => hand'[a] = hand[a] \/ con'[hand'[a]] # "none"

LEMMA CalmKeeps ==
  ASSUME QuietInv, EngineInv', Calm
  PROVE  QuietInv'
<1>0. TypeOK /\ TypeOK' BY DEF QuietInv, EngineInv
<1>1. Started'
  BY <1>0 DEF Calm, QuietInv, Started, Listed, TypeOK, Conns, InMap
<1>2. MadeIncoming'
  BY DEF Calm, QuietInv, MadeIncoming
<1>3. (canceled => stopped)'
  BY DEF Calm, QuietInv
<1>4. QuietAfterCancel'
  <2> SUFFICES ASSUME canceled', NEW c \in Registered', c \in Outgoing \cup taken' PROVE FALSE
    BY DEF QuietAfterCancel
  <2>0. c \in Conns BY DEF Registered
  <2>1. stopped /\ (c \in Outgoing \/ c \in taken) BY DEF Calm, QuietInv
  <2>2. con[c] # "made"
    BY <2>0, <2>1 DEF QuietInv, Started, Listed, MadeIncoming
  <2>3. c \in Registered BY <2>0, <2>1, <2>2 DEF Calm
  <2>4. CASE canceled BY <2>1, <2>3, <2>4 DEF QuietInv, QuietAfterCancel
  <2>5. CASE numFd = 0 BY <1>0, <2>3, <2>5, NoFd
  <2> QED BY <2>4, <2>5 DEF Calm
<1>5. HandMade'
  BY <1>0 DEF Calm, QuietInv, HandMade, TypeOK, Conns
<1> QED BY <1>1, <1>2, <1>3, <1>4, <1>5 DEF QuietInv

LEMMA CalmStep == ASSUME QuietInv, [Next]_vars PROVE Calm
<1> USE PtEngineAssumption
    DEF QuietInv, EngineInv, TypeOK, Conns, adapterVars, conVars, sdVars, reapVars, stopVars, Calm, Registered, Listed, InMap
<1>1. CASE UNCHANGED vars BY <1>1 DEF vars
<1>2. ASSUME NEW c \in Conns, disconnect(c) \/ finish(c) PROVE Calm
  BY <1>2 DEF disconnect, finish
<1>3. ASSUME NEW c \in Conns, disconnected(c) PROVE Calm BY <1>3 DEF disconnected, check_stop
<1>4. ASSUME NEW e \in Endpoints, NEW c \in Outgoing, makeConnection(e, c) PROVE Calm
  BY <1>4 DEF makeConnection
<1>5. ASSUME NEW a \in Adapters, createAdapter(a) \/ createSlackAdapter(a) \/ activate(a)
               \/ deactivate(a) \/ event_on_fd(a) \/ acceptFails(a) \/ acceptNone(a) \/ shutdownAgain(a)
      PROVE Calm
  BY <1>5 DEF createAdapter, createSlackAdapter, activate, deactivate, event_on_fd, acceptFails,
              acceptNone, shutdownAgain, Deactivated
<1>6. ASSUME NEW a \in Adapters, startAccepted(a) PROVE Calm BY <1>6 DEF startAccepted
<1>7. ASSUME NEW a \in Adapters, incomingConnection(a) PROVE Calm
  BY <1>7 DEF incomingConnection, HandMade
<1>8. ASSUME NEW a \in Adapters, NEW c \in Incoming, accept(a, c) PROVE Calm BY <1>8 DEF accept
<1>9. CASE shutdown BY <1>9 DEF shutdown
<1>10. ASSUME NEW a \in Adapters, shutdownAdapter(a) \/ shutdownThrows(a) PROVE Calm
  BY <1>10 DEF shutdownAdapter, shutdownThrows, Deactivated
<1>11. ASSUME NEW c \in Conns, shutdownCon(c) PROVE Calm BY <1>11 DEF shutdownCon, Asked
<1>12. CASE shutdownCheck \/ runCheckStop BY <1>12 DEF shutdownCheck, runCheckStop, check_stop
<1>13. CASE doomExit BY <1>13 DEF doomExit
<1>14. CASE reap BY <1>14 DEF reap, Reaped, Asked
<1>15. CASE reapAll BY <1>15 DEF reapAll, Reaped, Asked
<1>16. CASE reapClose BY <1>16 DEF reapClose, Asked
<1> QED BY <1>1, <1>2, <1>3, <1>4, <1>5, <1>6, <1>7, <1>8, <1>9, <1>10, <1>11, <1>12, <1>13,
           <1>14, <1>15, <1>16 DEF Next, listen, shutdownStep

\* When check_stop() has canceled the timer, and with it every timeout, neither
\* an outgoing connection nor one that shutdown() took from the lists is in a
\* dispatcher, then or later.
THEOREM EngineQuietAfterCancel == Spec => []QuietAfterCancel
<1>1. Init => QuietInv
  BY EngineInit, PtEngineAssumption
  DEF Init, QuietInv, Started, Listed, MadeIncoming, HandMade, QuietAfterCancel, InMap, Conns
<1>2. QuietInv /\ [Next]_vars => QuietInv'
  <2> SUFFICES ASSUME QuietInv, [Next]_vars PROVE QuietInv' OBVIOUS
  <2>1. EngineInv' BY EngineStep DEF QuietInv
  <2> QED BY <2>1, CalmStep, CalmKeeps
<1>3. QuietInv => QuietAfterCancel BY DEF QuietInv
<1> QED BY <1>1, <1>2, <1>3, PTL DEF Spec
=============================================================================
