------------------------- MODULE PtConnectionProofs -------------------------
(***************************************************************************)
(* Type correctness and OneOwner of the connection, for every set of       *)
(* quests, connections and threads, both load balances, with and without a *)
(* message timeout, and whatever the environment does.                     *)
(***************************************************************************)
EXTENDS PtConnection, TLAPS

(* The record of a connection keeps its type under the steps the code is   *)
(* made of.                                                                *)
LEMMA MessageTypes ==
  /\ Hello \in MsgSet /\ Bye \in MsgSet
  /\ \A id \in Nat, q \in Quests : Msg("Q", id, q) \in MsgSet /\ Msg("A", id, q) \in MsgSet
BY DEF MsgSet, Hello, Bye, Msg

LEMMA FreshTypes == FreshConn \in ConnSet /\ FreshSrv \in SrvSet
BY DEF FreshConn, FreshSrv, ConnSet, SrvSet, ST_INIT, ST_WAITING_HELLO, ST_ERROR

LEMMA RecordTypes ==
  ASSUME NEW k \in ConnSet
  PROVE  /\ Paused(k) \in ConnSet
         /\ SetException(k) \in ConnSet
         /\ FailedWrite(k) \in ConnSet
         /\ \A m \in MsgSet : Queued(k, m) \in ConnSet
         /\ \A q \in Quests : Added(k, q) \in ConnSet
         /\ \A id \in Nat : Dropped(k, id) \in ConnSet
         /\ k.wq # <<>> => /\ Head(k.wq) \in MsgSet
                           /\ Tail(k.wq) \in Seq(MsgSet)
                           /\ [k EXCEPT !.wq = Tail(@)] \in ConnSet
         /\ \A id \in Nat : QuestsOf(EntriesOf(k, id)) \in SUBSET Quests
         /\ QuestsOf(k.map) \in SUBSET Quests
<1> USE ConstantsAssumption DEF ConnSet, ST_INIT, ST_ERROR
<1>1. Paused(k) \in ConnSet
  BY DEF Paused, ST_ACTIVE
<1>2. SetException(k) \in ConnSet /\ FailedWrite(k) \in ConnSet
  <2>1. SetException(k) \in ConnSet BY DEF SetException
  <2>2. FailedWrite(k) \in ConnSet BY <2>1 DEF FailedWrite
  <2> QED BY <2>1, <2>2
<1>3. ASSUME NEW m \in MsgSet PROVE Queued(k, m) \in ConnSet
  <2>1. Append(k.wq, m) \in Seq(MsgSet) OBVIOUS
  <2> QED BY <2>1 DEF Queued
<1>4. ASSUME NEW q \in Quests PROVE Added(k, q) \in ConnSet
  <2>1. k.map \cup {<<k.next, q>>} \in SUBSET (Nat \X Quests) OBVIOUS
  <2>2. (k.rt \/ (MsgTimeout /\ k.map = {})) \in BOOLEAN OBVIOUS
  <2>3. k.next + 1 \in Nat OBVIOUS
  <2> QED BY <2>1, <2>2, <2>3 DEF Added
<1>5. ASSUME NEW id \in Nat PROVE Dropped(k, id) \in ConnSet
  <2>1. k.map \ EntriesOf(k, id) \in SUBSET (Nat \X Quests)
    BY DEF EntriesOf
  <2> QED BY <2>1 DEF Dropped
<1>6. ASSUME k.wq # <<>> PROVE /\ Head(k.wq) \in MsgSet
                               /\ Tail(k.wq) \in Seq(MsgSet)
                               /\ [k EXCEPT !.wq = Tail(@)] \in ConnSet
  <2> k.wq \in Seq(MsgSet) OBVIOUS
  <2>1. Head(k.wq) \in MsgSet /\ Tail(k.wq) \in Seq(MsgSet)
    BY <1>6
  <2> QED BY <2>1
<1>7. /\ \A id \in Nat : QuestsOf(EntriesOf(k, id)) \in SUBSET Quests
      /\ QuestsOf(k.map) \in SUBSET Quests
  BY DEF QuestsOf, EntriesOf
<1> QED BY <1>1, <1>2, <1>3, <1>4, <1>5, <1>6, <1>7

(* One field at a time.                                                    *)
LEMMA SetField ==
  ASSUME NEW k \in ConnSet
  PROVE  /\ \A s \in ST_INIT .. ST_ERROR :
              [k EXCEPT !.st = s] \in ConnSet /\ [k EXCEPT !.st = s].map = k.map
         /\ \A b \in BOOLEAN :
              /\ [k EXCEPT !.graceful = b] \in ConnSet /\ [k EXCEPT !.graceful = b].map = k.map
              /\ [k EXCEPT !.rt = b] \in ConnSet /\ [k EXCEPT !.rt = b].map = k.map
              /\ [k EXCEPT !.wt = b] \in ConnSet /\ [k EXCEPT !.wt = b].map = k.map
              /\ [k EXCEPT !.fd = b] \in ConnSet /\ [k EXCEPT !.fd = b].map = k.map
         /\ \A M \in SUBSET k.map : [k EXCEPT !.map = M] \in ConnSet /\ [k EXCEPT !.map = M].map = M
         /\ \A s \in Seq(MsgSet) : [k EXCEPT !.wq = s] \in ConnSet
<1>1. \A s \in ST_INIT .. ST_ERROR :
        [k EXCEPT !.st = s] \in ConnSet /\ [k EXCEPT !.st = s].map = k.map
  BY DEF ConnSet
<1>2. \A b \in BOOLEAN :
        /\ [k EXCEPT !.graceful = b] \in ConnSet /\ [k EXCEPT !.graceful = b].map = k.map
        /\ [k EXCEPT !.rt = b] \in ConnSet /\ [k EXCEPT !.rt = b].map = k.map
  BY DEF ConnSet
<1>3. \A b \in BOOLEAN :
        /\ [k EXCEPT !.wt = b] \in ConnSet /\ [k EXCEPT !.wt = b].map = k.map
        /\ [k EXCEPT !.fd = b] \in ConnSet /\ [k EXCEPT !.fd = b].map = k.map
  BY DEF ConnSet
<1>4. \A M \in SUBSET k.map : [k EXCEPT !.map = M] \in ConnSet /\ [k EXCEPT !.map = M].map = M
  BY DEF ConnSet
<1>5. \A s \in Seq(MsgSet) : [k EXCEPT !.wq = s] \in ConnSet
  BY DEF ConnSet
<1> QED BY <1>1, <1>2, <1>3, <1>4, <1>5

LEMMA States ==
  /\ ST_WAITING_HELLO \in ST_INIT .. ST_ERROR
  /\ ST_ACTIVE \in ST_INIT .. ST_ERROR
  /\ ST_CLOSE \in ST_INIT .. ST_ERROR
  /\ ST_CLOSING \in ST_INIT .. ST_ERROR
  /\ ST_CLOSED \in ST_INIT .. ST_ERROR
BY DEF ST_INIT, ST_WAITING_HELLO, ST_ACTIVE, ST_CLOSE, ST_CLOSING, ST_CLOSED, ST_ERROR

LEMMA FieldTypes ==
  ASSUME NEW k \in ConnSet
  PROVE  /\ k.next \in Nat /\ k.map \in SUBSET (Nat \X Quests) /\ k.wq \in Seq(MsgSet)
         /\ k.st \in ST_INIT .. ST_ERROR
BY DEF ConnSet

LEMMA FoundTypes ==
  ASSUME NEW k \in ConnSet, NEW id PROVE findResult(k, id) \in Quests \cup {"null"}
<1>1. QuestsOf(EntriesOf(k, id)) \in SUBSET Quests BY DEF QuestsOf, EntriesOf, ConnSet
<1>2. CASE EntriesOf(k, id) = {} BY <1>2 DEF findResult
<1>3. CASE EntriesOf(k, id) # {}
  <2>1. QuestsOf(EntriesOf(k, id)) # {} BY <1>3 DEF QuestsOf
  <2> QED BY <1>1, <1>3, <2>1 DEF findResult
<1> QED BY <1>2, <1>3

(* The calls that write leave the queue, the writers and the socket well   *)
(* typed, and touch no result map.                                         *)
LEMMA WriteTypes ==
  ASSUME TypeOK, NEW c \in Conns, NEW w \in Writers, NEW k \in ConnSet, WriteOK(c, w, k)
  PROVE  /\ conn' \in [Conns -> ConnSet]
         /\ writing' \in [Conns -> [Writers -> Quests \cup {"again", "null", None}]]
         /\ c2s' \in [Conns -> Seq(MsgSet)]
         /\ conn'[c].map = k.map
         /\ \A d \in Conns \ {c} : conn'[d] = conn[d]
<1> USE DEF TypeOK
<1>1. CASE /\ conn' = [conn EXCEPT ![c] = Paused(k)]
           /\ writing' = [writing EXCEPT ![c][w] = None]
           /\ UNCHANGED c2s
  <2>1. Paused(k).map = k.map BY DEF Paused, ConnSet
  <2> QED BY <1>1, <2>1, RecordTypes
<1>2. CASE /\ k.wq # <<>>
           /\ c2s' = [c2s EXCEPT ![c] = IF srv[c].fd THEN Append(@, Head(k.wq)) ELSE @]
           /\ IF Head(k.wq).type = "Q"
              THEN /\ conn' = [conn EXCEPT ![c] = [k EXCEPT !.wq = Tail(@)]]
                   /\ writing' = [writing EXCEPT ![c][w] = findResult(k, Head(k.wq).id)]
              ELSE /\ conn' = [conn EXCEPT ![c] = Paused([k EXCEPT !.wq = Tail(@)])]
                   /\ writing' = [writing EXCEPT ![c][w] = None]
  <2> DEFINE k1 == [k EXCEPT !.wq = Tail(@)]
  <2>1. Head(k.wq) \in MsgSet /\ k1 \in ConnSet BY <1>2, RecordTypes
  <2>2. k1.map = k.map BY DEF ConnSet
  <2>3. Paused(k1) \in ConnSet BY <2>1, RecordTypes
  <2>4. Paused(k1).map = k.map BY <2>1, <2>2 DEF Paused, ConnSet
  <2>5. c2s' \in [Conns -> Seq(MsgSet)] BY <1>2, <2>1
  <2>6. findResult(k, Head(k.wq).id) \in Quests \cup {"null"} BY FoundTypes
  <2> HIDE DEF k1
  <2>7. CASE Head(k.wq).type = "Q"
    <3>1. conn' = [conn EXCEPT ![c] = k1] BY <1>2, <2>7 DEF k1
    <3>2. writing' = [writing EXCEPT ![c][w] = findResult(k, Head(k.wq).id)] BY <1>2, <2>7
    <3> QED BY <2>1, <2>2, <2>5, <2>6, <2>7, <3>1, <3>2
  <2>8. CASE Head(k.wq).type # "Q"
    <3>1. conn' = [conn EXCEPT ![c] = Paused(k1)] BY <1>2, <2>8 DEF k1
    <3>2. writing' = [writing EXCEPT ![c][w] = None] BY <1>2, <2>8
    <3> QED BY <2>3, <2>4, <2>5, <3>1, <3>2
  <2> QED BY <2>7, <2>8
<1> QED BY <1>1, <1>2 DEF WriteOK

LEMMA SendTypes ==
  ASSUME TypeOK, NEW c \in Conns, NEW w \in Writers, NEW k \in ConnSet, NEW m \in MsgSet,
         SendOK(c, w, k, m)
  PROVE  /\ conn' \in [Conns -> ConnSet]
         /\ writing' \in [Conns -> [Writers -> Quests \cup {"again", "null", None}]]
         /\ c2s' \in [Conns -> Seq(MsgSet)]
         /\ conn'[c].map = k.map
         /\ \A d \in Conns \ {c} : conn'[d] = conn[d]
<1>1. Queued(k, m) \in ConnSet BY RecordTypes
<1>2. Queued(k, m).map = k.map BY DEF Queued, ConnSet
<1>3. CASE WriteOK(c, w, Queued(k, m)) BY <1>1, <1>2, <1>3, WriteTypes
<1>4. CASE conn' = [conn EXCEPT ![c] = Queued(k, m)] /\ UNCHANGED <<writing, c2s>>
  BY <1>1, <1>2, <1>4 DEF TypeOK
<1> QED BY <1>3, <1>4 DEF SendOK

LEMMA WriteFailsTypes ==
  ASSUME TypeOK, NEW c \in Conns, NEW w \in Writers, NEW k, WriteFails(c, w, k)
  PROVE  /\ writing' \in [Conns -> [Writers -> Quests \cup {"again", "null", None}]]
         /\ c2s' \in [Conns -> Seq(MsgSet)]
BY DEF WriteFails, TypeOK

LEMMA MapFields ==
  ASSUME NEW k \in ConnSet
  PROVE  /\ SetException(k).map = k.map
         /\ FailedWrite(k).map = k.map
         /\ \A m \in MsgSet : Queued(k, m).map = k.map
         /\ \A q \in Quests : Added(k, q).map = k.map \cup {<<k.next, q>>}
         /\ \A id \in Nat : Dropped(k, id).map = k.map \ EntriesOf(k, id)
BY DEF SetException, FailedWrite, Queued, Added, Dropped, ConnSet

(* A step that gives no result to a new owner.                             *)
LEMMA OwnersKept ==
  ASSUME OwnerInv,
         \A q \in Quests : at'[q] = "out" <=> at[q] = "out",
         \A c \in Conns : conn'[c].map \subseteq conn[c].map,
         UNCHANGED <<taken, giving, outcome>>
  PROVE  OneEntry' /\ OneOwner'
<1>1. OneEntry' BY DEF OwnerInv, OneEntry
<1>2. ASSUME NEW q \in Quests
      PROVE  /\ Sending(q)' => Sending(q)
             /\ \A c \in Conns : InMap(q, c)' => InMap(q, c)
             /\ Given(q)' => Given(q)
             /\ Done(q)' => Done(q)
  BY DEF Sending, InMap, Given, Done
<1>3. OneOwner' BY <1>2 DEF OwnerInv, OneOwner, OwnedOnce
<1> QED BY <1>1, <1>3

(* A step that takes the quests S from their owners in order to give them  *)
(* an answer or an error.                                                  *)
LEMMA GivenAway ==
  ASSUME OwnerInv, NEW S \in SUBSET Quests, NEW kind \in {"answer", "error"},
         giving' = giving \cup {<<x, kind>> : x \in S},
         outcome' = outcome,
         \A x \in S : \/ Sending(x)
                      \/ \E c \in Conns : InMap(x, c) \/ x \in taken[c],
         \A x \in S : ~Sending(x)' /\ \A c \in Conns : ~InMap(x, c)' /\ x \notin taken'[c],
         \A x \in Quests :
           /\ Sending(x)' => Sending(x)
           /\ \A c \in Conns : InMap(x, c)' => InMap(x, c),
         \A c \in Conns : taken'[c] \subseteq taken[c]
  PROVE  OneOwner'
<1>1. \A x \in S : ~Given(x) /\ ~Done(x) BY DEF OwnerInv, OneOwner, OwnedOnce
<1>2. ASSUME NEW x \in Quests
      PROVE  /\ Given(x)' <=> Given(x) \/ x \in S
             /\ Done(x)' <=> Done(x)
             /\ x \notin S => \A l \in {"answer", "error"} :
                                <<x, l>> \in giving' <=> <<x, l>> \in giving
             /\ x \in S => \A l \in {"answer", "error"} :
                             <<x, l>> \in giving' => l = kind
  BY <1>1 DEF Given, Done
<1> QED BY <1>1, <1>2 DEF OwnerInv, OneOwner, OwnedOnce

(* The sender of q completes it with an error itself.                      *)
LEMMA SenderFails ==
  ASSUME OwnerInv, NEW q \in Quests, Sending(q), at' = [at EXCEPT ![q] = "out"],
         giving' = giving \cup {<<q, "error">>}, UNCHANGED <<taken, outcome>>,
         \A c \in Conns : conn'[c].map \subseteq conn[c].map
  PROVE  OneOwner'
<1>1. PICK S \in SUBSET Quests : S = {q} OBVIOUS
<1>2. giving' = giving \cup {<<x, "error">> : x \in S} BY <1>1
<1>3. \A x \in Quests : /\ Sending(x)' => Sending(x)
                        /\ \A c \in Conns : InMap(x, c)' => InMap(x, c)
  BY DEF OwnerInv, TypeOK, Sending, InMap
<1>4. ~Sending(q)' /\ \A c \in Conns : ~InMap(q, c)' /\ q \notin taken'[c]
  <2>1. ~Sending(q)' BY DEF OwnerInv, TypeOK, Sending
  <2>2. \A c \in Conns : ~InMap(q, c) /\ q \notin taken[c] BY DEF OwnerInv, OneOwner, OwnedOnce
  <2> QED BY <1>3, <2>1, <2>2
<1> QED BY <1>1, <1>2, <1>3, <1>4, GivenAway

(* The results found in the map of c under an id are completed.            *)
LEMMA FoundGiven ==
  ASSUME OwnerInv, NEW c \in Conns, NEW id \in Nat, NEW kind \in {"answer", "error"},
         conn'[c].map = conn[c].map \ EntriesOf(conn[c], id),
         \A d \in Conns \ {c} : conn'[d].map = conn[d].map,
         giving' = giving \cup {<<x, kind>> : x \in QuestsOf(EntriesOf(conn[c], id))},
         \A x \in Quests : Sending(x)' => Sending(x),
         UNCHANGED <<taken, outcome>>
  PROVE  OneOwner'
<1>1. conn[c] \in ConnSet BY DEF OwnerInv, TypeOK
<1>2. PICK S \in SUBSET Quests : S = QuestsOf(EntriesOf(conn[c], id))
  BY <1>1, RecordTypes
<1>3. \A x \in Quests, d \in Conns : InMap(x, d)' => InMap(x, d)
  BY DEF InMap
<1>4. ASSUME NEW x \in S
      PROVE  InMap(x, c) /\ ~Sending(x)' /\ \A d \in Conns : ~InMap(x, d)' /\ x \notin taken'[d]
  <2>1. PICK p \in EntriesOf(conn[c], id) : p[2] = x BY <1>2, <1>4 DEF QuestsOf
  <2>2. p \in conn[c].map /\ x \in Quests BY <1>2, <1>4 DEF EntriesOf
  <2>3. InMap(x, c) BY <2>1, <2>2 DEF InMap
  <2>4. ~InMap(x, c)' BY <2>1, <2>2 DEF OwnerInv, OneEntry, InMap
  <2> QED BY <1>3, <2>2, <2>3, <2>4 DEF OwnerInv, OneOwner, OwnedOnce
<1>5. giving' = giving \cup {<<x, kind>> : x \in S} BY <1>2
<1>6. \A x \in S : Sending(x) \/ \E d \in Conns : InMap(x, d) \/ x \in taken[d] BY <1>4
<1>7. \A x \in S : ~Sending(x)' /\ \A d \in Conns : ~InMap(x, d)' /\ x \notin taken'[d]
  BY <1>4
<1>8. \A x \in Quests : /\ Sending(x)' => Sending(x)
                        /\ \A d \in Conns : InMap(x, d)' => InMap(x, d)
  BY <1>3
<1>9. outcome' = outcome /\ \A d \in Conns : taken'[d] \subseteq taken[d] OBVIOUS
<1> QED BY ONLY OwnerInv, S \in SUBSET Quests, kind \in {"answer", "error"},
                <1>5, <1>6, <1>7, <1>8, <1>9, GivenAway

(* Entries that leave a map, or one that enters it for a quest that was in *)
(* none, leave one entry per quest.                                        *)
LEMMA EntriesKept ==
  ASSUME OwnerInv, \A c \in Conns : conn'[c].map \subseteq conn[c].map PROVE OneEntry'
BY DEF OwnerInv, OneEntry

(* A step of the sockets, the queues or the server: no result moves.       *)
LEMMA QuietStep ==
  ASSUME OwnerInv, UNCHANGED <<resVars, taken>>,
         \A c \in Conns : conn'[c].map \subseteq conn[c].map
  PROVE  SendsOnConnection' /\ OneEntry' /\ OneOwner'
<1>1. SendsOnConnection' BY DEF OwnerInv, SendsOnConnection, resVars
<1> QED BY <1>1, OwnersKept DEF resVars

LEMMA CallType == ASSUME TypeOK, NEW c \in Conns PROVE Call(c) \in [Conns -> {"no", "called", "begun"}]
BY DEF TypeOK, Call

-----------------------------------------------------------------------------
(* emitQuest and retryQuest: the sender keeps the quest, or gives its      *)
(* error.                                                                  *)
LEMMA PickExistingInv == ASSUME OwnerInv, NEW q \in Quests, PickExisting(q) PROVE OwnerInv'
<1> USE DEF PickExisting, connVars, thrVars, srvVars, netVars
<1>1. TypeOK' /\ SendsOnConnection'
  BY ConstantsAssumption DEF OwnerInv, TypeOK, SendsOnConnection, MayReuse
<1>2. OneEntry' /\ OneOwner'
  BY OwnersKept DEF OwnerInv, TypeOK, Picking
<1> QED BY <1>1, <1>2 DEF OwnerInv

LEMMA PickNewInv ==
  ASSUME OwnerInv, NEW q \in Quests, NEW c \in Conns, PickNew(q, c) PROVE OwnerInv'
<1> USE DEF PickNew, thrVars, srvVars, netVars
<1> DEFINE k == [FreshConn EXCEPT !.fd = TRUE]
<1>1. k \in ConnSet /\ k.map = {}
  BY FreshTypes DEF FreshConn, ConnSet, ST_INIT, ST_ERROR
<1>2. conn' = [conn EXCEPT ![c] = k] OBVIOUS
<1> HIDE DEF k
<1>3. TypeOK' /\ SendsOnConnection'
  <2>1. conn' \in [Conns -> ConnSet] BY <1>1, <1>2 DEF OwnerInv, TypeOK
  <2>2. TypeOK' BY <2>1 DEF OwnerInv, TypeOK
  <2>3. SendsOnConnection' BY DEF OwnerInv, TypeOK, SendsOnConnection
  <2> QED BY <2>2, <2>3
<1>4. OneEntry' /\ OneOwner'
  BY <1>1, <1>2, OwnersKept DEF OwnerInv, TypeOK, Picking
<1> QED BY <1>3, <1>4 DEF OwnerInv

LEMMA StartTimerInv == ASSUME OwnerInv, NEW q \in Quests, StartTimer(q) PROVE OwnerInv'
<1> USE DEF StartTimer, thrVars, srvVars, netVars
<1> DEFINE c == con[q]
           k == [conn[c] EXCEPT !.wt = conn[c].fd]
<1>1. c \in Conns /\ conn[c] \in ConnSet
  BY DEF OwnerInv, SendsOnConnection, TypeOK
<1>2. k \in ConnSet /\ k.map = conn[c].map
  BY <1>1 DEF ConnSet
<1>3. conn' = [conn EXCEPT ![c] = k]
  OBVIOUS
<1> HIDE DEF k
<1>4. TypeOK' /\ SendsOnConnection'
  <2>1. conn' \in [Conns -> ConnSet] BY <1>1, <1>2, <1>3 DEF OwnerInv, TypeOK
  <2>2. TypeOK' BY <1>1, <2>1 DEF OwnerInv, TypeOK
  <2>3. SendsOnConnection' BY DEF OwnerInv, TypeOK, SendsOnConnection
  <2> QED BY <2>2, <2>3
<1>5. OneEntry' /\ OneOwner'
  BY <1>1, <1>2, <1>3, OwnersKept DEF OwnerInv, TypeOK
<1> QED BY <1>4, <1>5 DEF OwnerInv

LEMMA PickThrowsInv == ASSUME OwnerInv, NEW q \in Quests, PickThrows(q) PROVE OwnerInv'
<1> USE DEF PickThrows, connVars, thrVars, srvVars, netVars
<1>1. TypeOK' /\ SendsOnConnection'
  BY DEF OwnerInv, TypeOK, SendsOnConnection
<1>2. OneEntry' /\ OneOwner'
  BY EntriesKept, SenderFails DEF Picking, Sending
<1> QED BY <1>1, <1>2 DEF OwnerInv

-----------------------------------------------------------------------------
(* sendQuest: the quest goes into the map, or its error is given.          *)
LEMMA SendQuestClosedInv ==
  ASSUME OwnerInv, NEW q \in Quests, SendQuestClosed(q) PROVE OwnerInv'
<1>1. PICK c \in Conns : c = con[q]
  BY DEF OwnerInv, SendsOnConnection, SendQuestClosed
<1>2. PICK id \in Nat : id = txid[q]
  BY DEF OwnerInv, TypeOK
<1> DEFINE k == conn[c]
           found == EntriesOf(k, id)
<1>3. k \in ConnSet
  BY DEF OwnerInv, TypeOK
<1>4. /\ at[q] = "send" /\ at' = [at EXCEPT ![q] = "out"]
      /\ UNCHANGED <<made, cur, thrVars, con, txid, retries, isSent, outcome,
                     srvVars, netVars>>
  BY DEF SendQuestClosed
<1>5. Sending(q) /\ \A x \in Quests : Sending(x)' => Sending(x)
  BY <1>4 DEF OwnerInv, TypeOK, Sending
<1>6. SendsOnConnection'
  BY <1>4 DEF OwnerInv, TypeOK, SendsOnConnection
<1>7. CASE id > 0
  <2>1. /\ conn' = [conn EXCEPT ![c] = Dropped(k, id)]
        /\ giving' = giving \cup {<<x, "error">> : x \in QuestsOf(found)}
    BY <1>1, <1>2, <1>7 DEF SendQuestClosed, Dropped, OwnerInv, TypeOK
  <2>2. Dropped(k, id) \in ConnSet /\ QuestsOf(found) \in SUBSET Quests
    BY <1>3, RecordTypes
  <2>3. conn'[c].map = k.map \ found /\ \A d \in Conns \ {c} : conn'[d].map = conn[d].map
    BY <1>3, <2>1, MapFields DEF OwnerInv, TypeOK
  <2> HIDE DEF k, found
  <2>4. conn' \in [Conns -> ConnSet] /\ giving' \in SUBSET (Quests \X {"answer", "error"})
    BY <2>1, <2>2 DEF OwnerInv, TypeOK
  <2>5. TypeOK'
    BY <1>4, <2>4 DEF OwnerInv, TypeOK, thrVars, srvVars, netVars
  <2>6. OneEntry'
    BY <2>3, EntriesKept DEF k
  <2>7. OneOwner'
    BY <1>4, <1>5, <2>1, <2>3, FoundGiven DEF k, found, thrVars
  <2> QED BY <1>6, <2>5, <2>6, <2>7 DEF OwnerInv
<1>8. CASE ~(id > 0)
  <2>1. conn' = conn /\ giving' = giving \cup {<<q, "error">>}
    BY <1>2, <1>8 DEF SendQuestClosed
  <2>2. TypeOK'
    BY <1>4, <2>1 DEF OwnerInv, TypeOK, thrVars, srvVars, netVars
  <2>3. OneEntry' /\ OneOwner'
    BY <1>4, <1>5, <2>1, EntriesKept, SenderFails DEF thrVars
  <2> QED BY <1>6, <2>2, <2>3 DEF OwnerInv
<1> QED BY <1>7, <1>8

(* The quest leaves its sender for the map of its connection.              *)
LEMMA QuestAdded ==
  ASSUME OwnerInv, NEW q \in Quests, NEW c \in Conns, NEW id \in Nat,
         at[q] = "send", at' = [at EXCEPT ![q] = "out"],
         conn'[c].map = conn[c].map \cup {<<id, q>>},
         \A d \in Conns \ {c} : conn'[d] = conn[d],
         UNCHANGED <<con, taken, giving, outcome>>
  PROVE  SendsOnConnection' /\ OneEntry' /\ OneOwner'
<1>1. Sending(q) /\ ~Sending(q)' /\ \A x \in Quests : Sending(x)' => Sending(x)
  BY DEF OwnerInv, TypeOK, Sending
<1>2. SendsOnConnection'
  BY DEF OwnerInv, TypeOK, SendsOnConnection
<1>3. \A d \in Conns : ~InMap(q, d) /\ q \notin taken[d]
  BY <1>1 DEF OwnerInv, OneOwner, OwnedOnce
<1>4. OneEntry'
  <2>1. SUFFICES ASSUME NEW d \in Conns, NEW p1 \in conn'[d].map, NEW p2 \in conn'[d].map,
                        p1[2] = p2[2]
                 PROVE  p1 = p2
    BY DEF OneEntry
  <2>2. ASSUME NEW p \in conn'[d].map PROVE p \in conn[d].map \/ p = <<id, q>>
    OBVIOUS
  <2>3. \A p \in conn[d].map : p[2] # q BY <1>3 DEF InMap
  <2> QED BY <2>1, <2>2, <2>3 DEF OwnerInv, OneEntry
<1>5. ASSUME NEW x \in Quests
      PROVE  /\ Given(x)' <=> Given(x)
             /\ Done(x)' <=> Done(x)
             /\ \A d \in Conns : InMap(x, d)' => InMap(x, d) \/ (x = q /\ d = c)
  BY DEF Given, Done, InMap
<1>6. ASSUME NEW x \in Quests PROVE OwnedOnce(x)'
  <2>1. OwnedOnce(x) BY DEF OwnerInv, OneOwner
  <2>2. taken' = taken /\ giving' = giving OBVIOUS
  <2>3. CASE x = q
    <3>1. ~Sending(x)' /\ ~Given(x)' /\ ~Done(x)'
      BY <1>1, <1>5, <2>1, <2>3 DEF OwnedOnce
    <3>2. \A d \in Conns : x \notin taken'[d] /\ (InMap(x, d)' => d = c)
      BY <1>3, <1>5, <2>2, <2>3
    <3> QED BY <3>1, <3>2 DEF OwnedOnce
  <2>4. CASE x # q
    BY <1>1, <1>5, <2>1, <2>2, <2>4 DEF OwnedOnce
  <2> QED BY <2>3, <2>4
<1>7. OneOwner'
  BY <1>6 DEF OneOwner
<1> QED BY <1>2, <1>4, <1>7

LEMMA SendQuestInv ==
  ASSUME OwnerInv, NEW q \in Quests, SendQuest(q) PROVE OwnerInv'
<1>1. PICK c \in Conns : c = con[q]
  BY DEF OwnerInv, SendsOnConnection, SendQuest
<1> DEFINE k == conn[c]
           k1 == Added(k, q)
           quest == Msg("Q", k.next, q)
<1>2. k \in ConnSet /\ k.next \in Nat /\ k1 \in ConnSet /\ quest \in MsgSet /\ q \in Writers
  BY RecordTypes, FieldTypes, MessageTypes DEF OwnerInv, TypeOK, Writers
<1>3. k1.map = k.map \cup {<<k.next, q>>}
  BY <1>2, MapFields
<1>4. /\ at[q] = "send" /\ at' = [at EXCEPT ![q] = "out"]
      /\ txid' = [txid EXCEPT ![q] = k.next]
      /\ UNCHANGED <<made, cur, disc, taken, reader, firing, con, retries, isSent,
                     giving, outcome, srvVars, s2c, broken>>
  BY <1>1 DEF SendQuest
<1>5. ASSUME conn' \in [Conns -> ConnSet],
             writing' \in [Conns -> [Writers -> Quests \cup {"again", "null", None}]],
             c2s' \in [Conns -> Seq(MsgSet)],
             failing' \in SUBSET (Conns \X Quests),
             conn'[c].map = k.map \cup {<<k.next, q>>},
             \A d \in Conns \ {c} : conn'[d] = conn[d]
      PROVE  OwnerInv'
  <2>1. TypeOK' BY <1>2, <1>4, <1>5 DEF OwnerInv, TypeOK, srvVars
  <2> QED BY <1>2, <1>4, <1>5, <2>1, QuestAdded DEF OwnerInv
<1>6. CASE SendOK(c, q, k1, quest) /\ UNCHANGED failing
  <2> HIDE DEF k1, quest
  <2>1. failing' \in SUBSET (Conns \X Quests) BY <1>6 DEF OwnerInv, TypeOK
  <2> QED BY <1>2, <1>3, <1>5, <1>6, <2>1, SendTypes DEF OwnerInv
<1>7. CASE /\ SendFails(c, q, k1, quest)
           /\ conn' = [conn EXCEPT ![c] = FailedWrite(Queued(k1, quest))]
           /\ failing' = failing \cup {<<c, q>>}
  <2> DEFINE k2 == FailedWrite(Queued(k1, quest))
  <2>1. k2 \in ConnSet /\ k2.map = k1.map
    BY <1>2, RecordTypes, MapFields
  <2>2. /\ writing' \in [Conns -> [Writers -> Quests \cup {"again", "null", None}]]
        /\ c2s' \in [Conns -> Seq(MsgSet)]
    BY <1>2, <1>7, WriteFailsTypes DEF OwnerInv, SendFails
  <2>3. conn' = [conn EXCEPT ![c] = k2] BY <1>7
  <2> HIDE DEF k2, k1, quest
  <2>4. /\ conn' \in [Conns -> ConnSet]
        /\ conn'[c].map = k.map \cup {<<k.next, q>>}
        /\ \A d \in Conns \ {c} : conn'[d] = conn[d]
    BY <1>3, <2>1, <2>3 DEF OwnerInv, TypeOK
  <2>5. failing' \in SUBSET (Conns \X Quests) BY <1>7 DEF OwnerInv, TypeOK
  <2> QED BY <1>5, <2>2, <2>4, <2>5
<1> QED BY <1>1, <1>6, <1>7 DEF SendQuest

LEMMA SendQuestHugeInv ==
  ASSUME OwnerInv, NEW q \in Quests, SendQuestHuge(q) PROVE OwnerInv'
<1>1. PICK c \in Conns : c = con[q]
  BY DEF OwnerInv, SendsOnConnection, SendQuestHuge
<1> DEFINE k == conn[c]
           k1 == Added(k, q)
<1>2. /\ k \in ConnSet /\ k.next \in Nat /\ k1 \in ConnSet
      /\ k1.map = k.map \cup {<<k.next, q>>}
  BY RecordTypes, FieldTypes, MapFields DEF OwnerInv, TypeOK
<1>3. /\ at[q] = "send" /\ at' = [at EXCEPT ![q] = "out"]
      /\ txid' = [txid EXCEPT ![q] = k.next]
      /\ conn' = [conn EXCEPT ![c] = k1]
      /\ failing' = failing \cup {<<c, q>>}
      /\ UNCHANGED <<made, cur, writing, disc, taken, reader, firing, con, retries,
                     isSent, giving, outcome, srvVars, netVars>>
  BY <1>1 DEF SendQuestHuge
<1> HIDE DEF k1
<1>4. /\ conn' \in [Conns -> ConnSet]
      /\ conn'[c].map = k.map \cup {<<k.next, q>>}
      /\ \A d \in Conns \ {c} : conn'[d] = conn[d]
  BY <1>2, <1>3 DEF OwnerInv, TypeOK
<1>5. TypeOK'
  BY <1>2, <1>3, <1>4 DEF OwnerInv, TypeOK, srvVars, netVars
<1> QED BY <1>2, <1>3, <1>4, <1>5, QuestAdded DEF OwnerInv

LEMMA SendQuestCatchInv ==
  ASSUME OwnerInv, NEW c \in Conns, NEW q \in Quests, SendQuestCatch(c, q) PROVE OwnerInv'
<1>1. PICK id \in Nat : id = txid[q] BY DEF OwnerInv, TypeOK
<1> DEFINE k == conn[c]
           found == EntriesOf(k, id)
           k1 == Dropped(k, id)
<1>2. /\ conn' = [conn EXCEPT ![c] = k1]
      /\ giving' = giving \cup {<<x, "error">> : x \in QuestsOf(found)}
      /\ failing' = failing \ {<<c, q>>}
      /\ UNCHANGED <<made, cur, writing, disc, taken, reader, firing, at, con, txid,
                     retries, isSent, outcome, srvVars, netVars>>
  BY <1>1 DEF SendQuestCatch
<1>3. /\ k1 \in ConnSet /\ k1.map = k.map \ found
      /\ QuestsOf(found) \in SUBSET Quests
  BY RecordTypes, MapFields DEF OwnerInv, TypeOK
<1> HIDE DEF k1, found
<1>4. conn' \in [Conns -> ConnSet] /\ giving' \in SUBSET (Quests \X {"answer", "error"})
  BY <1>2, <1>3 DEF OwnerInv, TypeOK
<1>5. TypeOK' BY <1>2, <1>4 DEF OwnerInv, TypeOK, srvVars, netVars
<1>6. conn'[c].map = conn[c].map \ found /\ \A d \in Conns \ {c} : conn'[d].map = conn[d].map
  BY <1>2, <1>3 DEF OwnerInv, TypeOK
<1>7. OneEntry' BY <1>6, EntriesKept
<1>8. \A x \in Quests : Sending(x)' => Sending(x) BY <1>2 DEF Sending
<1>9. SendsOnConnection' BY <1>2 DEF OwnerInv, SendsOnConnection
<1>10. OneOwner' BY <1>2, <1>6, <1>8, FoundGiven DEF found
<1> QED BY <1>5, <1>7, <1>9, <1>10 DEF OwnerInv

-----------------------------------------------------------------------------
(* _write_q and the client's dispatcher.                                   *)
LEMMA QuestSentInv ==
  ASSUME OwnerInv, NEW c \in Conns, NEW w \in Writers, QuestSent(c, w) PROVE OwnerInv'
<1> USE DEF QuestSent, connVars, srvVars, netVars
<1>1. TypeOK' BY DEF OwnerInv, TypeOK
<1>2. SendsOnConnection' BY DEF OwnerInv, SendsOnConnection
<1>3. OneEntry' /\ OneOwner' BY OwnersKept
<1> QED BY <1>1, <1>2, <1>3 DEF OwnerInv

LEMMA WriteAgainInv ==
  ASSUME OwnerInv, NEW c \in Conns, NEW w \in Writers, WriteAgain(c, w) PROVE OwnerInv'
<1> DEFINE k == conn[c]
<1>1. k \in ConnSet BY DEF OwnerInv, TypeOK
<1>2. UNCHANGED <<made, cur, taken, reader, firing, resVars, srvVars, s2c, broken>>
  BY DEF WriteAgain
<1>3. CASE WriteOK(c, w, k) /\ UNCHANGED <<failing, disc>>
  <2>1. /\ conn' \in [Conns -> ConnSet]
        /\ writing' \in [Conns -> [Writers -> Quests \cup {"again", "null", None}]]
        /\ c2s' \in [Conns -> Seq(MsgSet)]
        /\ \A d \in Conns : conn'[d].map \subseteq conn[d].map
    BY <1>1, <1>3, WriteTypes DEF OwnerInv
  <2>2. TypeOK' BY <1>2, <1>3, <2>1 DEF OwnerInv, TypeOK, srvVars, resVars
  <2> QED BY <1>2, <2>1, <2>2, QuietStep DEF OwnerInv
<1>4. CASE /\ WriteFails(c, w, k)
           /\ conn' = [conn EXCEPT ![c] = FailedWrite(k)]
           /\ failing' = IF w \in Quests THEN failing \cup {<<c, w>>} ELSE failing
           /\ disc' = IF w \in Readers THEN Call(c) ELSE disc
  <2>1. /\ writing' \in [Conns -> [Writers -> Quests \cup {"again", "null", None}]]
        /\ c2s' \in [Conns -> Seq(MsgSet)]
        /\ disc' \in [Conns -> {"no", "called", "begun"}]
    BY <1>4, WriteFailsTypes, CallType DEF OwnerInv, TypeOK
  <2>2. failing' \in SUBSET (Conns \X Quests) BY <1>4 DEF OwnerInv, TypeOK
  <2>3. conn' \in [Conns -> ConnSet] /\ \A d \in Conns : conn'[d].map \subseteq conn[d].map
    BY <1>1, <1>4, RecordTypes, MapFields DEF OwnerInv, TypeOK
  <2>4. TypeOK' BY <1>2, <2>1, <2>2, <2>3 DEF OwnerInv, TypeOK, srvVars, resVars
  <2> QED BY <1>2, <2>3, <2>4, QuietStep DEF OwnerInv
<1> QED BY <1>3, <1>4 DEF WriteAgain

LEMMA DoWriteInv ==
  ASSUME OwnerInv, NEW c \in Conns, NEW r \in Readers, DoWrite(c, r) PROVE OwnerInv'
<1> DEFINE k == conn[c]
           k1 == IF k.st < ST_WAITING_HELLO
                 THEN [k EXCEPT !.st = ST_WAITING_HELLO, !.wt = FALSE] ELSE k
<1>1. k \in ConnSet /\ r \in Writers BY DEF OwnerInv, TypeOK, Writers
<1>2. k1 \in ConnSet /\ k1.map = k.map
  <2> DEFINE k0 == [k EXCEPT !.st = ST_WAITING_HELLO]
  <2>1. k0 \in ConnSet /\ k0.map = k.map BY <1>1, SetField, States
  <2>2. [k EXCEPT !.st = ST_WAITING_HELLO, !.wt = FALSE] = [k0 EXCEPT !.wt = FALSE]
    OBVIOUS
  <2> HIDE DEF k0
  <2>3. [k0 EXCEPT !.wt = FALSE] \in ConnSet /\ [k0 EXCEPT !.wt = FALSE].map = k.map
    BY <2>1, SetField
  <2> QED BY <1>1, <2>2, <2>3
<1>3. UNCHANGED <<made, cur, taken, reader, failing, firing, resVars, srvVars, s2c, broken>>
  BY DEF DoWrite
<1>4. CASE WriteOK(c, r, k1) /\ UNCHANGED disc
  <2> HIDE DEF k1
  <2>1. /\ conn' \in [Conns -> ConnSet]
        /\ writing' \in [Conns -> [Writers -> Quests \cup {"again", "null", None}]]
        /\ c2s' \in [Conns -> Seq(MsgSet)]
        /\ \A d \in Conns : conn'[d].map \subseteq conn[d].map
    BY <1>1, <1>2, <1>4, WriteTypes DEF OwnerInv
  <2>2. TypeOK' BY <1>3, <1>4, <2>1 DEF OwnerInv, TypeOK, srvVars, resVars
  <2> QED BY <1>3, <2>1, <2>2, QuietStep DEF OwnerInv
<1>5. CASE /\ WriteFails(c, r, k1)
           /\ conn' = [conn EXCEPT ![c] = FailedWrite(k1)]
           /\ disc' = Call(c)
  <2> HIDE DEF k1
  <2>1. /\ writing' \in [Conns -> [Writers -> Quests \cup {"again", "null", None}]]
        /\ c2s' \in [Conns -> Seq(MsgSet)]
        /\ disc' \in [Conns -> {"no", "called", "begun"}]
    BY <1>1, <1>5, WriteFailsTypes, CallType DEF OwnerInv
  <2>2. conn' \in [Conns -> ConnSet] /\ \A d \in Conns : conn'[d].map \subseteq conn[d].map
    BY <1>2, <1>5, RecordTypes, MapFields DEF OwnerInv, TypeOK
  <2>3. TypeOK' BY <1>3, <2>1, <2>2 DEF OwnerInv, TypeOK, srvVars, resVars
  <2> QED BY <1>3, <2>2, <2>3, QuietStep DEF OwnerInv
<1> QED BY <1>4, <1>5 DEF DoWrite

LEMMA RecvHelloInv ==
  ASSUME OwnerInv, NEW c \in Conns, NEW r \in Readers, RecvHello(c, r) PROVE OwnerInv'
<1> DEFINE k == conn[c]
           k1 == [k EXCEPT !.st = ST_ACTIVE, !.rt = IF k.map = {} THEN FALSE ELSE @]
<1>1. k \in ConnSet /\ r \in Writers BY DEF OwnerInv, TypeOK, Writers
<1>2. k1 \in ConnSet /\ k1.map = k.map
  <2> DEFINE k0 == [k EXCEPT !.st = ST_ACTIVE]
  <2>1. k0 \in ConnSet /\ k0.map = k.map BY <1>1, SetField, States
  <2>2. PICK b \in BOOLEAN : b = IF k.map = {} THEN FALSE ELSE k.rt
    BY <1>1 DEF ConnSet
  <2>3. k1 = [k0 EXCEPT !.rt = b] BY <1>1, <2>2 DEF ConnSet
  <2> HIDE DEF k0, k1
  <2>4. [k0 EXCEPT !.rt = b] \in ConnSet /\ [k0 EXCEPT !.rt = b].map = k0.map
    BY <2>1, SetField
  <2> QED BY <2>1, <2>3, <2>4
<1>3. /\ s2c' \in [Conns -> Seq(MsgSet)]
      /\ UNCHANGED <<made, cur, taken, reader, failing, firing, resVars, srvVars, broken>>
  BY DEF OwnerInv, TypeOK, RecvHello
<1>4. CASE UNCHANGED <<conn, writing, c2s, disc>>
  <2>1. TypeOK' BY <1>3, <1>4 DEF OwnerInv, TypeOK, srvVars, resVars
  <2> QED BY <1>3, <1>4, <2>1, QuietStep DEF OwnerInv
<1>5. CASE WriteOK(c, r, k1) /\ UNCHANGED disc
  <2> HIDE DEF k1
  <2>1. /\ conn' \in [Conns -> ConnSet]
        /\ writing' \in [Conns -> [Writers -> Quests \cup {"again", "null", None}]]
        /\ c2s' \in [Conns -> Seq(MsgSet)]
        /\ \A d \in Conns : conn'[d].map \subseteq conn[d].map
    BY <1>1, <1>2, <1>5, WriteTypes DEF OwnerInv
  <2>2. TypeOK' BY <1>3, <1>5, <2>1 DEF OwnerInv, TypeOK, srvVars, resVars
  <2> QED BY <1>3, <2>1, <2>2, QuietStep DEF OwnerInv
<1>6. CASE /\ WriteFails(c, r, k1)
           /\ conn' = [conn EXCEPT ![c] = FailedWrite(k1)]
           /\ disc' = Call(c)
  <2> HIDE DEF k1
  <2>1. /\ writing' \in [Conns -> [Writers -> Quests \cup {"again", "null", None}]]
        /\ c2s' \in [Conns -> Seq(MsgSet)]
        /\ disc' \in [Conns -> {"no", "called", "begun"}]
    BY <1>1, <1>6, WriteFailsTypes, CallType DEF OwnerInv
  <2>2. conn' \in [Conns -> ConnSet] /\ \A d \in Conns : conn'[d].map \subseteq conn[d].map
    BY <1>2, <1>6, RecordTypes, MapFields DEF OwnerInv, TypeOK
  <2>3. TypeOK' BY <1>3, <2>1, <2>2 DEF OwnerInv, TypeOK, srvVars, resVars
  <2> QED BY <1>3, <2>2, <2>3, QuietStep DEF OwnerInv
<1> QED BY <1>4, <1>5, <1>6 DEF RecvHello

(* A step that replaces the record of c by one with the same map, and may  *)
(* call disconnect().                                                      *)
LEMMA RecordStep ==
  ASSUME OwnerInv, NEW c \in Conns, NEW k \in ConnSet, k.map \subseteq conn[c].map,
         conn' = [conn EXCEPT ![c] = k],
         disc' \in [Conns -> {"no", "called", "begun"}],
         s2c' \in [Conns -> Seq(MsgSet)],
         firing' \in Conns \cup {None},
         UNCHANGED <<made, cur, writing, taken, reader, failing, resVars, srvVars, c2s, broken>>
  PROVE  OwnerInv'
<1>1. conn' \in [Conns -> ConnSet] /\ \A d \in Conns : conn'[d].map \subseteq conn[d].map
  BY DEF OwnerInv, TypeOK
<1>2. TypeOK' BY <1>1 DEF OwnerInv, TypeOK, srvVars, resVars
<1> QED BY <1>1, <1>2, QuietStep DEF OwnerInv

LEMMA RecvByeInv ==
  ASSUME OwnerInv, NEW c \in Conns, NEW r \in Readers, RecvBye(c, r) PROVE OwnerInv'
<1> DEFINE k == [[conn[c] EXCEPT !.st = ST_CLOSED] EXCEPT !.graceful = TRUE]
<1>1. conn[c] \in ConnSet BY DEF OwnerInv, TypeOK
<1>2. k \in ConnSet /\ k.map = conn[c].map
  <2> DEFINE k0 == [conn[c] EXCEPT !.st = ST_CLOSED]
  <2>1. k0 \in ConnSet /\ k0.map = conn[c].map BY <1>1, SetField, States
  <2> HIDE DEF k0
  <2>2. [k0 EXCEPT !.graceful = TRUE] \in ConnSet /\ [k0 EXCEPT !.graceful = TRUE].map = k0.map
    BY <2>1, SetField
  <2> QED BY <2>1, <2>2 DEF k0
<1>3. conn' = [conn EXCEPT ![c] = k] BY DEF RecvBye, OwnerInv, TypeOK
<1>4. s2c' \in [Conns -> Seq(MsgSet)] BY DEF OwnerInv, TypeOK, RecvBye
<1>5. disc' \in [Conns -> {"no", "called", "begun"}] BY CallType DEF OwnerInv, RecvBye
<1> HIDE DEF k
<1> QED BY <1>2, <1>3, <1>4, <1>5, RecordStep DEF RecvBye, OwnerInv, TypeOK

LEMMA RecvAnswerInv ==
  ASSUME OwnerInv, NEW c \in Conns, NEW r \in Readers, RecvAnswer(c, r) PROVE OwnerInv'
<1> USE DEF RecvAnswer, connVars
<1>1. Head(s2c[c]) \in [type : {"A"}, id : Nat, q : Quests]
  <2>1. Head(s2c[c]) \in MsgSet BY DEF OwnerInv, TypeOK
  <2> QED BY <2>1 DEF MsgSet, Hello, Bye, Msg
<1>2. /\ reader' \in [Readers -> (Conns \X [type : {"A"}, id : Nat, q : Quests]) \cup {None}]
      /\ s2c' \in [Conns -> Seq(MsgSet)]
  BY <1>1 DEF OwnerInv, TypeOK
<1>3. TypeOK' BY <1>2 DEF OwnerInv, TypeOK, srvVars, resVars
<1> QED BY <1>3, QuietStep DEF OwnerInv

LEMMA RecvFailsInv ==
  ASSUME OwnerInv, NEW c \in Conns, NEW r \in Readers, RecvFails(c, r) PROVE OwnerInv'
<1> DEFINE k == IF conn[c].st >= ST_CLOSING /\ ~broken[c] THEN conn[c]
                ELSE SetException(conn[c])
<1>1. conn[c] \in ConnSet BY DEF OwnerInv, TypeOK
<1>2. k \in ConnSet /\ k.map = conn[c].map BY <1>1, RecordTypes, MapFields
<1>3. conn' = [conn EXCEPT ![c] = k] BY DEF RecvFails
<1>4. disc' \in [Conns -> {"no", "called", "begun"}] BY CallType DEF OwnerInv, RecvFails
<1> HIDE DEF k
<1> QED BY <1>2, <1>3, <1>4, RecordStep DEF RecvFails, OwnerInv, TypeOK, netVars

(* do_read: what the answer's id finds in the map is completed, except when *)
(* the Bye that follows cannot be written; then it has no owner at all.    *)
LEMMA ReadAnswerInv == ASSUME OwnerInv, NEW r \in Readers, ReadAnswer(r) PROVE OwnerInv'
<1>1. reader[r] \in Conns \X [type : {"A"}, id : Nat, q : Quests]
  BY DEF OwnerInv, TypeOK, ReadAnswer
<1>2. PICK c \in Conns : c = reader[r][1] BY <1>1
<1>3. PICK id \in Nat : id = reader[r][2].id BY <1>1
<1> DEFINE k == conn[c]
           found == EntriesOf(k, id)
           left == Dropped(k, id)
           timed == [left EXCEPT !.rt = IF MsgTimeout THEN left.map # {} ELSE @]
           closing == [left EXCEPT !.st = ST_CLOSING, !.graceful = TRUE]
           timedClosing == [closing EXCEPT !.rt = TRUE]
<1>4. k \in ConnSet /\ left \in ConnSet /\ left.map = k.map \ found /\ r \in Writers
  BY RecordTypes, MapFields DEF OwnerInv, TypeOK, Writers
<1>5. timed \in ConnSet /\ timed.map = left.map
  <2> HIDE DEF left
  <2>1. PICK b \in BOOLEAN : b = IF MsgTimeout THEN left.map # {} ELSE left.rt
    BY <1>4 DEF ConnSet
  <2>2. timed = [left EXCEPT !.rt = b] BY <2>1
  <2> HIDE DEF timed
  <2> QED BY <1>4, <2>2, SetField
<1>6. /\ closing \in ConnSet /\ closing.map = left.map
      /\ timedClosing \in ConnSet /\ timedClosing.map = left.map
  <2> HIDE DEF left
  <2> DEFINE k0 == [left EXCEPT !.st = ST_CLOSING]
  <2>1. k0 \in ConnSet /\ k0.map = left.map BY <1>4, SetField, States
  <2>2. closing = [k0 EXCEPT !.graceful = TRUE] OBVIOUS
  <2> HIDE DEF closing, k0
  <2>3. closing \in ConnSet /\ closing.map = left.map BY <2>1, <2>2, SetField
  <2> QED BY <2>3, SetField
<1>7. QuestsOf(found) \in SUBSET Quests BY <1>4, RecordTypes
<1>8. /\ reader' = [reader EXCEPT ![r] = None]
      /\ UNCHANGED <<made, cur, taken, failing, firing, at, con, txid, retries, isSent,
                     outcome, srvVars, s2c, broken>>
  BY DEF ReadAnswer
<1>9. SendsOnConnection' BY <1>8 DEF OwnerInv, SendsOnConnection
<1>10. reader' \in [Readers -> (Conns \X [type : {"A"}, id : Nat, q : Quests]) \cup {None}]
  BY <1>8 DEF OwnerInv, TypeOK
<1>11. \/ /\ conn' = [conn EXCEPT ![c] = timed]
          /\ giving' = giving \cup {<<x, "answer">> : x \in QuestsOf(found)}
          /\ UNCHANGED <<disc, writing, c2s>>
       \/ /\ conn' = [conn EXCEPT ![c] = SetException(timed)]
          /\ disc' = Call(c)
          /\ UNCHANGED <<writing, c2s, giving>>
       \/ /\ SendOK(c, r, timedClosing, Bye)
          /\ giving' = giving \cup {<<x, "answer">> : x \in QuestsOf(found)}
          /\ UNCHANGED disc
       \/ /\ SendFails(c, r, closing, Bye)
          /\ conn' = [conn EXCEPT ![c] = FailedWrite(Queued(closing, Bye))]
          /\ disc' = Call(c)
          /\ UNCHANGED giving
  BY <1>2, <1>3 DEF ReadAnswer, Dropped
<1> HIDE DEF found, left, timed, closing, timedClosing
<1>12. ASSUME /\ conn' \in [Conns -> ConnSet]
              /\ writing' \in [Conns -> [Writers -> Quests \cup {"again", "null", None}]]
              /\ c2s' \in [Conns -> Seq(MsgSet)]
              /\ conn'[c].map = k.map \ found
              /\ \A d \in Conns \ {c} : conn'[d] = conn[d],
              giving' = giving \cup {<<x, "answer">> : x \in QuestsOf(found)},
              disc' = disc
       PROVE  OwnerInv'
  <2>1. giving' \in SUBSET (Quests \X {"answer", "error"})
    BY <1>7, <1>12 DEF OwnerInv, TypeOK
  <2>2. TypeOK' BY <1>8, <1>10, <1>12, <2>1 DEF OwnerInv, TypeOK, srvVars
  <2>3. OneEntry' BY <1>12, EntriesKept
  <2>4. \A x \in Quests : Sending(x)' => Sending(x) BY <1>8 DEF Sending
  <2>5. conn'[c].map = conn[c].map \ EntriesOf(conn[c], id) BY <1>12 DEF found
  <2>6. giving' = giving \cup {<<x, "answer">> : x \in QuestsOf(EntriesOf(conn[c], id))}
    BY <1>12 DEF found
  <2>7. OneOwner' BY <1>8, <1>12, <2>4, <2>5, <2>6, FoundGiven
  <2> QED BY <1>9, <2>2, <2>3, <2>7 DEF OwnerInv
<1>13. ASSUME NEW k1 \in ConnSet, conn' = [conn EXCEPT ![c] = k1], k1.map = k.map \ found,
              writing' \in [Conns -> [Writers -> Quests \cup {"again", "null", None}]],
              c2s' \in [Conns -> Seq(MsgSet)],
              disc' = Call(c), giving' = giving
       PROVE  OwnerInv'
  <2>1. conn' \in [Conns -> ConnSet] /\ \A d \in Conns : conn'[d].map \subseteq conn[d].map
    BY <1>13 DEF OwnerInv, TypeOK
  <2>2. disc' \in [Conns -> {"no", "called", "begun"}] BY <1>13, CallType DEF OwnerInv
  <2>3. TypeOK' BY <1>8, <1>10, <1>13, <2>1, <2>2 DEF OwnerInv, TypeOK, srvVars
  <2>4. OneEntry' /\ OneOwner' BY <1>8, <1>13, <2>1, OwnersKept
  <2> QED BY <1>9, <2>3, <2>4 DEF OwnerInv
<1>14. CASE /\ conn' = [conn EXCEPT ![c] = timed]
            /\ giving' = giving \cup {<<x, "answer">> : x \in QuestsOf(found)}
            /\ UNCHANGED <<disc, writing, c2s>>
  <2>1. /\ conn' \in [Conns -> ConnSet]
        /\ conn'[c].map = k.map \ found
        /\ \A d \in Conns \ {c} : conn'[d] = conn[d]
    BY <1>4, <1>5, <1>14 DEF OwnerInv, TypeOK
  <2>2. /\ writing' \in [Conns -> [Writers -> Quests \cup {"again", "null", None}]]
        /\ c2s' \in [Conns -> Seq(MsgSet)]
    BY <1>14 DEF OwnerInv, TypeOK
  <2> QED BY <1>12, <1>14, <2>1, <2>2
<1>15. CASE /\ conn' = [conn EXCEPT ![c] = SetException(timed)]
            /\ disc' = Call(c)
            /\ UNCHANGED <<writing, c2s, giving>>
  <2>1. SetException(timed) \in ConnSet /\ SetException(timed).map = k.map \ found
    BY <1>4, <1>5, RecordTypes, MapFields
  <2>2. /\ writing' \in [Conns -> [Writers -> Quests \cup {"again", "null", None}]]
        /\ c2s' \in [Conns -> Seq(MsgSet)]
    BY <1>15 DEF OwnerInv, TypeOK
  <2> QED BY <1>13, <1>15, <2>1, <2>2
<1>16. CASE /\ SendOK(c, r, timedClosing, Bye)
            /\ giving' = giving \cup {<<x, "answer">> : x \in QuestsOf(found)}
            /\ UNCHANGED disc
  BY <1>4, <1>6, <1>12, <1>16, SendTypes, MessageTypes DEF OwnerInv
<1>17. CASE /\ SendFails(c, r, closing, Bye)
            /\ conn' = [conn EXCEPT ![c] = FailedWrite(Queued(closing, Bye))]
            /\ disc' = Call(c)
            /\ UNCHANGED giving
  <2>1. Queued(closing, Bye) \in ConnSet /\ Queued(closing, Bye).map = k.map \ found
    BY <1>4, <1>6, RecordTypes, MapFields, MessageTypes
  <2>2. /\ FailedWrite(Queued(closing, Bye)) \in ConnSet
        /\ FailedWrite(Queued(closing, Bye)).map = k.map \ found
    BY <2>1, RecordTypes, MapFields
  <2>3. /\ writing' \in [Conns -> [Writers -> Quests \cup {"again", "null", None}]]
        /\ c2s' \in [Conns -> Seq(MsgSet)]
    BY <1>4, <1>17, WriteFailsTypes DEF OwnerInv, SendFails
  <2> QED BY <1>13, <1>17, <2>2, <2>3
<1> QED BY <1>11, <1>14, <1>15, <1>16, <1>17

(* giveAnswer and giveError: the last owner becomes the outcome.           *)
LEMMA GiveInv ==
  ASSUME OwnerInv, NEW q \in Quests, NEW kind \in {"answer", "error"}, Give(q, kind)
  PROVE  OwnerInv'
<1> USE DEF Give, connVars, thrVars, srvVars, netVars
<1>1. TypeOK' BY DEF OwnerInv, TypeOK
<1>2. SendsOnConnection' /\ OneEntry' BY DEF OwnerInv, SendsOnConnection, OneEntry
<1>3. Given(q) /\ ~Given(q)'
  <2>1. \A l \in {"answer", "error"} : <<q, l>> \in giving => l = kind
    BY DEF OwnerInv, OneOwner, OwnedOnce, Given
  <2> QED BY <2>1 DEF Given
<1>4. ASSUME NEW x \in Quests
      PROVE  /\ Sending(x)' <=> Sending(x)
             /\ \A c \in Conns : InMap(x, c)' <=> InMap(x, c)
             /\ x # q => (Done(x)' <=> Done(x))
             /\ Given(x)' => Given(x)
             /\ \A l \in {"answer", "error"} : <<x, l>> \in giving' => <<x, l>> \in giving
  BY DEF OwnerInv, TypeOK, Sending, InMap, Done, Given
<1>5. taken' = taken OBVIOUS
<1>6. OneOwner' BY <1>3, <1>4, <1>5 DEF OwnerInv, OneOwner, OwnedOnce
<1> QED BY <1>1, <1>2, <1>6 DEF OwnerInv

-----------------------------------------------------------------------------
(* Closing: only disconnect() moves results, from the map to its own list, *)
(* and from there back to a sender or to giveError.                        *)
LEMMA CloseInv == ASSUME OwnerInv, NEW c \in Conns, Close(c) PROVE OwnerInv'
<1> DEFINE k == conn[c]
           closing == [k EXCEPT !.st = ST_CLOSING, !.graceful = TRUE, !.rt = TRUE]
<1>1. k \in ConnSet /\ "grace" \in Writers BY DEF OwnerInv, TypeOK, Writers
<1>2. closing \in ConnSet /\ closing.map = k.map
  <2> DEFINE k0 == [k EXCEPT !.st = ST_CLOSING]
             k1 == [k0 EXCEPT !.graceful = TRUE]
  <2>1. k0 \in ConnSet /\ k0.map = k.map BY <1>1, SetField, States
  <2>2. closing = [k1 EXCEPT !.rt = TRUE] OBVIOUS
  <2> HIDE DEF k0, closing
  <2>3. k1 \in ConnSet /\ k1.map = k.map BY <2>1, SetField
  <2> HIDE DEF k1
  <2> QED BY <2>2, <2>3, SetField
<1>3. UNCHANGED <<made, cur, disc, taken, reader, failing, firing, resVars, srvVars, s2c,
                  broken>>
  BY DEF Close
<1>4. CASE conn' = [conn EXCEPT ![c].st = ST_CLOSE] /\ UNCHANGED <<writing, c2s>>
  <2> DEFINE k1 == [k EXCEPT !.st = ST_CLOSE]
  <2>1. k1 \in ConnSet /\ k1.map = k.map BY <1>1, SetField, States
  <2>2. conn' = [conn EXCEPT ![c] = k1] BY <1>4
  <2> HIDE DEF k1
  <2> QED BY <1>3, <1>4, <2>1, <2>2, RecordStep DEF OwnerInv, TypeOK
<1> HIDE DEF closing
<1>5. ASSUME conn' \in [Conns -> ConnSet],
             \A d \in Conns : conn'[d].map \subseteq conn[d].map,
             writing' \in [Conns -> [Writers -> Quests \cup {"again", "null", None}]],
             c2s' \in [Conns -> Seq(MsgSet)]
      PROVE  OwnerInv'
  <2>1. TypeOK' BY <1>3, <1>5 DEF OwnerInv, TypeOK, srvVars, resVars
  <2> QED BY <1>3, <1>5, <2>1, QuietStep DEF OwnerInv
<1>6. CASE SendOK(c, "grace", closing, Bye)
  BY <1>1, <1>2, <1>5, <1>6, SendTypes, MessageTypes DEF OwnerInv
<1>7. CASE /\ SendFails(c, "grace", closing, Bye)
           /\ conn' = [conn EXCEPT ![c] = FailedWrite(Queued(closing, Bye))]
  <2>1. Queued(closing, Bye) \in ConnSet /\ Queued(closing, Bye).map = k.map
    BY <1>2, RecordTypes, MapFields, MessageTypes
  <2>2. /\ FailedWrite(Queued(closing, Bye)) \in ConnSet
        /\ FailedWrite(Queued(closing, Bye)).map = k.map
    BY <2>1, RecordTypes, MapFields
  <2>3. conn' \in [Conns -> ConnSet] /\ \A d \in Conns : conn'[d].map \subseteq conn[d].map
    BY <1>7, <2>2 DEF OwnerInv, TypeOK
  <2>4. /\ writing' \in [Conns -> [Writers -> Quests \cup {"again", "null", None}]]
        /\ c2s' \in [Conns -> Seq(MsgSet)]
    BY <1>1, <1>7, WriteFailsTypes DEF OwnerInv, SendFails
  <2> QED BY <1>5, <2>3, <2>4
<1> QED BY <1>4, <1>6, <1>7 DEF Close, closing

LEMMA CloseForceInv == ASSUME OwnerInv, NEW c \in Conns, CloseForce(c) PROVE OwnerInv'
<1>1. disc' \in [Conns -> {"no", "called", "begun"}] BY CallType DEF OwnerInv, CloseForce
<1>2. TypeOK'
  BY <1>1 DEF OwnerInv, TypeOK, CloseForce, connVars, resVars, srvVars, netVars
<1> QED BY <1>2, QuietStep DEF OwnerInv, CloseForce, connVars

LEMMA TimeoutInv == ASSUME OwnerInv, NEW c \in Conns, Timeout(c) PROVE OwnerInv'
<1> DEFINE kr == [conn[c] EXCEPT !.rt = FALSE]
           kw == [conn[c] EXCEPT !.wt = FALSE]
<1>1. conn' = [conn EXCEPT ![c] = kr] \/ conn' = [conn EXCEPT ![c] = kw]
  BY DEF Timeout
<1>2. /\ kr \in ConnSet /\ kr.map = conn[c].map
      /\ kw \in ConnSet /\ kw.map = conn[c].map
  BY SetField DEF OwnerInv, TypeOK
<1> HIDE DEF kr, kw
<1> QED BY <1>1, <1>2, RecordStep DEF Timeout, OwnerInv, TypeOK, netVars

LEMMA DoTimeoutInv == ASSUME OwnerInv, NEW c \in Conns, DoTimeout(c) PROVE OwnerInv'
<1>1. SetException(conn[c]) \in ConnSet /\ SetException(conn[c]).map = conn[c].map
  BY RecordTypes, MapFields DEF OwnerInv, TypeOK
<1>2. disc' \in [Conns -> {"no", "called", "begun"}] BY CallType DEF OwnerInv, DoTimeout
<1> QED BY <1>1, <1>2, RecordStep DEF DoTimeout, OwnerInv, TypeOK, netVars

LEMMA DisconnectBeginInv ==
  ASSUME OwnerInv, NEW c \in Conns, DisconnectBegin(c) PROVE OwnerInv'
<1> DEFINE k0 == [conn[c] EXCEPT !.rt = FALSE]
           k == [k0 EXCEPT !.wt = FALSE]
<1>1. conn' = [conn EXCEPT ![c] = k] BY DEF DisconnectBegin, OwnerInv, TypeOK
<1>2. disc' \in [Conns -> {"no", "called", "begun"}]
  BY DEF DisconnectBegin, OwnerInv, TypeOK
<1>3. k0 \in ConnSet /\ k0.map = conn[c].map BY SetField DEF OwnerInv, TypeOK
<1> HIDE DEF k0
<1>4. k \in ConnSet /\ k.map = conn[c].map BY <1>3, SetField
<1> HIDE DEF k
<1> QED BY <1>1, <1>2, <1>4, RecordStep DEF DisconnectBegin, OwnerInv, TypeOK, netVars

LEMMA DisconnectTakeInv ==
  ASSUME OwnerInv, NEW c \in Conns, DisconnectTake(c) PROVE OwnerInv'
<1> DEFINE k == conn[c]
           s == IF k.st < ST_CLOSED THEN ST_CLOSED ELSE k.st
           k1 == [k EXCEPT !.st = IF @ < ST_CLOSED THEN ST_CLOSED ELSE @,
                           !.fd = FALSE, !.wq = <<>>, !.map = {}]
<1>1. k \in ConnSet BY DEF OwnerInv, TypeOK
<1>2. k1 \in ConnSet /\ k1.map = {}
  <2> DEFINE a1 == [k EXCEPT !.st = s]
             a2 == [a1 EXCEPT !.fd = FALSE]
             a3 == [a2 EXCEPT !.wq = <<>>]
  <2>1. s \in ST_INIT .. ST_ERROR BY <1>1, States, FieldTypes
  <2>2. k1 = [a3 EXCEPT !.map = {}] OBVIOUS
  <2> HIDE DEF s, k1
  <2>3. a1 \in ConnSet BY <1>1, <2>1, SetField
  <2> HIDE DEF a1
  <2>4. a2 \in ConnSet BY <2>3, SetField
  <2> HIDE DEF a2
  <2>5. a3 \in ConnSet
    <3>1. <<>> \in Seq(MsgSet) OBVIOUS
    <3> QED BY <2>4, <3>1, SetField
  <2> HIDE DEF a3
  <2> QED BY <2>2, <2>5, SetField
<1>3. conn' = [conn EXCEPT ![c] = k1] BY DEF DisconnectTake
<1>4. taken' = [taken EXCEPT ![c] = @ \cup QuestsOf(k.map)] BY DEF DisconnectTake
<1>5. UNCHANGED <<made, cur, writing, reader, failing, firing, resVars, srvVars, c2s, broken>>
  BY DEF DisconnectTake
<1> HIDE DEF k1
<1>6. TypeOK'
  <2>1. conn' \in [Conns -> ConnSet] BY <1>2, <1>3 DEF OwnerInv, TypeOK
  <2>2. taken' \in [Conns -> SUBSET Quests]
    BY <1>1, <1>4, RecordTypes DEF OwnerInv, TypeOK
  <2>3. /\ s2c' \in [Conns -> Seq(MsgSet)]
        /\ disc' \in [Conns -> {"no", "called", "begun"}]
    BY DEF OwnerInv, TypeOK, DisconnectTake
  <2> QED BY <1>5, <2>1, <2>2, <2>3 DEF OwnerInv, TypeOK, srvVars, resVars
<1>7. SendsOnConnection' BY <1>5 DEF OwnerInv, SendsOnConnection, resVars
<1>8. \A d \in Conns : conn'[d].map \subseteq conn[d].map
  BY <1>2, <1>3 DEF OwnerInv, TypeOK
<1>9. OneEntry' BY <1>8, EntriesKept
<1>10. ASSUME NEW x \in Quests
       PROVE  /\ Sending(x)' <=> Sending(x)
              /\ Given(x)' <=> Given(x)
              /\ Done(x)' <=> Done(x)
              /\ \A d \in Conns : InMap(x, d)' <=> InMap(x, d) /\ d # c
              /\ \A d \in Conns :
                   x \in taken'[d] <=> x \in taken[d] \/ (d = c /\ InMap(x, c))
              /\ giving' = giving
  <2>1. /\ Sending(x)' <=> Sending(x)
        /\ Given(x)' <=> Given(x)
        /\ Done(x)' <=> Done(x)
        /\ giving' = giving
    BY <1>5 DEF Sending, Given, Done, resVars
  <2>2. \A d \in Conns : InMap(x, d)' <=> InMap(x, d) /\ d # c
    BY <1>2, <1>3 DEF OwnerInv, TypeOK, InMap
  <2>3. x \in QuestsOf(k.map) <=> InMap(x, c) BY DEF QuestsOf, InMap
  <2>4. \A d \in Conns : x \in taken'[d] <=> x \in taken[d] \/ (d = c /\ InMap(x, c))
    BY <1>4, <2>3 DEF OwnerInv, TypeOK
  <2> QED BY <2>1, <2>2, <2>4
<1>11. ASSUME NEW x \in Quests PROVE OwnedOnce(x)'
  <2>1. OwnedOnce(x) BY DEF OwnerInv, OneOwner
  <2> QED BY <1>10, <2>1 DEF OwnedOnce
<1>12. OneOwner' BY <1>11 DEF OneOwner
<1> QED BY <1>6, <1>7, <1>9, <1>12 DEF OwnerInv

LEMMA DisconnectResultInv ==
  ASSUME OwnerInv, NEW c \in Conns, NEW q \in Quests, DisconnectResult(c, q) PROVE OwnerInv'
<1>1. /\ q \in taken[c] /\ taken' = [taken EXCEPT ![c] = @ \ {q}]
      /\ UNCHANGED <<connVars, writing, disc, reader, failing, firing, con, txid, outcome,
                     srvVars, netVars>>
  BY DEF DisconnectResult
<1>2. /\ taken' \in [Conns -> SUBSET Quests]
      /\ \A d \in Conns, x \in Quests :
            x \in taken'[d] <=> x \in taken[d] /\ ~(d = c /\ x = q)
  BY <1>1 DEF OwnerInv, TypeOK
<1>3. \A x \in Quests : /\ Done(x)' <=> Done(x)
                        /\ \A d \in Conns : InMap(x, d)' <=> InMap(x, d)
  BY <1>1 DEF Done, InMap, connVars
<1>4. OneEntry' BY <1>1, EntriesKept DEF connVars
<1>5. /\ ~Sending(q) /\ ~Given(q) /\ ~Done(q) /\ \A d \in Conns : ~InMap(q, d)
      /\ \A d \in Conns : q \notin taken'[d]
  BY <1>1, <1>2 DEF OwnerInv, OneOwner, OwnedOnce
<1>6. CASE /\ MayRetry(c, q)
           /\ retries' = [retries EXCEPT ![q] = @ + 1]
           /\ isSent' = [isSent EXCEPT ![q] = FALSE]
           /\ at' = [at EXCEPT ![q] = "pick"]
           /\ UNCHANGED giving
  <2>1. retries' \in [Quests -> 0 .. 1] BY <1>6 DEF MayRetry, OwnerInv, TypeOK
  <2>2. TypeOK'
    BY <1>1, <1>2, <1>6, <2>1 DEF OwnerInv, TypeOK, connVars, srvVars, netVars
  <2>3. SendsOnConnection' BY <1>1, <1>6 DEF OwnerInv, TypeOK, SendsOnConnection
  <2>4. \A x \in Quests : /\ Given(x)' <=> Given(x)
                          /\ x # q => (Sending(x)' <=> Sending(x))
    BY <1>6 DEF OwnerInv, TypeOK, Given, Sending
  <2>5. giving' = giving BY <1>6
  <2>6. ASSUME NEW x \in Quests PROVE OwnedOnce(x)'
    <3>1. OwnedOnce(x) BY DEF OwnerInv, OneOwner
    <3>2. CASE x = q BY <1>3, <1>5, <2>4, <3>2 DEF OwnedOnce
    <3>3. CASE x # q BY <1>2, <1>3, <2>4, <2>5, <3>1, <3>3 DEF OwnedOnce
    <3> QED BY <3>2, <3>3
  <2>7. OneOwner' BY <2>6 DEF OneOwner
  <2> QED BY <1>4, <2>2, <2>3, <2>7 DEF OwnerInv
<1>7. CASE /\ giving' = giving \cup {<<q, "error">>}
           /\ UNCHANGED <<retries, isSent, at>>
  <2>1. TypeOK'
    BY <1>1, <1>2, <1>7 DEF OwnerInv, TypeOK, connVars, srvVars, netVars
  <2>2. SendsOnConnection' BY <1>1, <1>7 DEF OwnerInv, SendsOnConnection
  <2>3. \A x \in Quests : /\ Sending(x)' <=> Sending(x)
                          /\ Given(x)' <=> Given(x) \/ x = q
                          /\ x # q => \A l \in {"answer", "error"} :
                                        <<x, l>> \in giving' <=> <<x, l>> \in giving
    BY <1>7 DEF Sending, Given
  <2>4. <<q, "answer">> \notin giving' BY <1>5, <1>7 DEF Given
  <2>5. ASSUME NEW x \in Quests PROVE OwnedOnce(x)'
    <3>1. OwnedOnce(x) BY DEF OwnerInv, OneOwner
    <3>2. CASE x = q BY <1>3, <1>5, <2>3, <2>4, <3>2 DEF OwnedOnce
    <3>3. CASE x # q BY <1>2, <1>3, <2>3, <3>1, <3>3 DEF OwnedOnce
    <3> QED BY <3>2, <3>3
  <2>6. OneOwner' BY <2>5 DEF OneOwner
  <2> QED BY <1>4, <2>1, <2>2, <2>6 DEF OwnerInv
<1> QED BY <1>6, <1>7 DEF DisconnectResult

-----------------------------------------------------------------------------
(* The server and the network touch no result of the client.               *)
LEMMA ServerStepInv ==
  ASSUME OwnerInv, UNCHANGED <<connVars, thrVars, resVars>>,
         srv' \in [Conns -> SrvSet],
         sread' \in [Conns -> SUBSET [type : {"Q"}, id : Nat, q : Quests]],
         executing' \in [Conns -> SUBSET (Nat \X Quests)],
         executed' \in [Conns -> SUBSET Quests],
         c2s' \in [Conns -> Seq(MsgSet)], s2c' \in [Conns -> Seq(MsgSet)],
         broken' \in [Conns -> BOOLEAN]
  PROVE  OwnerInv'
<1>1. TypeOK' BY DEF OwnerInv, TypeOK, connVars, thrVars, resVars
<1> QED BY <1>1, QuietStep DEF OwnerInv, connVars, thrVars

(* The server's record keeps its type.                                     *)
LEMMA SrvTypes ==
  ASSUME NEW k \in SrvSet
  PROVE  /\ SetException(k) \in SrvSet
         /\ \A m \in MsgSet : Queued(k, m) \in SrvSet
         /\ \A s \in ST_INIT .. ST_ERROR : [k EXCEPT !.st = s] \in SrvSet
         /\ \A b \in BOOLEAN : /\ [k EXCEPT !.fd = b] \in SrvSet
                               /\ [k EXCEPT !.rt = b] \in SrvSet
                               /\ [k EXCEPT !.up = b] \in SrvSet
                               /\ [k EXCEPT !.started = b] \in SrvSet
         /\ \A s \in Seq(MsgSet) : [k EXCEPT !.wq = s] \in SrvSet
         /\ \A n \in Int : [k EXCEPT !.processing = n] \in SrvSet
         /\ k.wq \in Seq(MsgSet) /\ k.processing \in Int
         /\ k.st \in ST_INIT .. ST_ERROR
<1>1. SetException(k) \in SrvSet BY DEF SetException, SrvSet, ST_INIT, ST_ERROR
<1>2. ASSUME NEW m \in MsgSet PROVE Queued(k, m) \in SrvSet
  <2>1. Append(k.wq, m) \in Seq(MsgSet) BY DEF SrvSet
  <2> QED BY <2>1 DEF Queued, SrvSet
<1>3. /\ \A s \in ST_INIT .. ST_ERROR : [k EXCEPT !.st = s] \in SrvSet
      /\ \A b \in BOOLEAN : [k EXCEPT !.fd = b] \in SrvSet /\ [k EXCEPT !.rt = b] \in SrvSet
  BY DEF SrvSet
<1>4. \A b \in BOOLEAN : [k EXCEPT !.up = b] \in SrvSet /\ [k EXCEPT !.started = b] \in SrvSet
  BY DEF SrvSet
<1>5. /\ \A s \in Seq(MsgSet) : [k EXCEPT !.wq = s] \in SrvSet
      /\ \A n \in Int : [k EXCEPT !.processing = n] \in SrvSet
  BY DEF SrvSet
<1>6. /\ k.wq \in Seq(MsgSet) /\ k.processing \in Int
      /\ k.st \in ST_INIT .. ST_ERROR
  BY DEF SrvSet
<1> QED BY <1>1, <1>2, <1>3, <1>4, <1>5, <1>6

LEMMA SDisconnectTypes ==
  ASSUME TypeOK, NEW c \in Conns, NEW k \in SrvSet, SDisconnect(c, k)
  PROVE  srv' \in [Conns -> SrvSet] /\ c2s' \in [Conns -> Seq(MsgSet)]
<1> DEFINE s == IF k.st < ST_CLOSED THEN ST_CLOSED ELSE k.st
           a1 == [k EXCEPT !.st = s]
           a2 == [a1 EXCEPT !.fd = FALSE]
           a3 == [a2 EXCEPT !.wq = <<>>]
           a4 == [a3 EXCEPT !.rt = FALSE]
<1>1. srv' = [srv EXCEPT ![c] = a4] BY DEF SDisconnect
<1>2. s \in ST_INIT .. ST_ERROR BY SrvTypes, States
<1>3. <<>> \in Seq(MsgSet) OBVIOUS
<1> HIDE DEF s
<1>4. a1 \in SrvSet BY <1>2, SrvTypes
<1> HIDE DEF a1
<1>5. a2 \in SrvSet BY <1>4, SrvTypes
<1> HIDE DEF a2
<1>6. a3 \in SrvSet BY <1>3, <1>5, SrvTypes
<1> HIDE DEF a3
<1>7. a4 \in SrvSet BY <1>6, SrvTypes
<1> HIDE DEF a4
<1>8. c2s' = [c2s EXCEPT ![c] = <<>>] BY DEF SDisconnect
<1> QED BY <1>1, <1>3, <1>7, <1>8 DEF TypeOK

LEMMA SAcceptInv == ASSUME OwnerInv, NEW c \in Conns, SAccept(c) PROVE OwnerInv'
<1> DEFINE a1 == [srv[c] EXCEPT !.up = TRUE]
           a2 == [a1 EXCEPT !.fd = TRUE]
<1>1. srv' = [srv EXCEPT ![c] = a2] BY DEF SAccept, OwnerInv, TypeOK
<1>2. a1 \in SrvSet BY SrvTypes DEF OwnerInv, TypeOK
<1> HIDE DEF a1
<1>3. a2 \in SrvSet BY <1>2, SrvTypes
<1> HIDE DEF a2
<1>4. srv' \in [Conns -> SrvSet] BY <1>1, <1>3 DEF OwnerInv, TypeOK
<1> QED BY <1>4, ServerStepInv DEF SAccept, OwnerInv, TypeOK, netVars

LEMMA SHelloInv == ASSUME OwnerInv, NEW c \in Conns, SHello(c) PROVE OwnerInv'
<1> DEFINE k == srv[c]
           s == IF k.fd THEN ST_ACTIVE ELSE ST_ERROR
           z == IF k.fd THEN Append(k.wq, Hello) ELSE k.wq
           a1 == [k EXCEPT !.started = TRUE]
           a2 == [a1 EXCEPT !.st = s]
           a3 == [a2 EXCEPT !.wq = z]
<1>1. k \in SrvSet BY DEF OwnerInv, TypeOK
<1>2. srv' = [srv EXCEPT ![c] = a3] BY <1>1 DEF SHello, SrvSet
<1>3. s \in ST_INIT .. ST_ERROR BY DEF ST_INIT, ST_ACTIVE, ST_ERROR
<1>4. z \in Seq(MsgSet) BY <1>1, SrvTypes, MessageTypes
<1> HIDE DEF s, z
<1>5. a1 \in SrvSet BY <1>1, SrvTypes
<1> HIDE DEF a1
<1>6. a2 \in SrvSet BY <1>3, <1>5, SrvTypes
<1> HIDE DEF a2
<1>7. a3 \in SrvSet BY <1>4, <1>6, SrvTypes
<1> HIDE DEF a3
<1>8. srv' \in [Conns -> SrvSet] BY <1>2, <1>7 DEF OwnerInv, TypeOK
<1> QED BY <1>8, ServerStepInv DEF SHello, OwnerInv, TypeOK, netVars

LEMMA SWriteInv == ASSUME OwnerInv, NEW c \in Conns, SWrite(c) PROVE OwnerInv'
<1> DEFINE k == srv[c]
<1>1. k \in SrvSet /\ k.wq \in Seq(MsgSet) /\ k.wq # <<>>
  BY SrvTypes DEF OwnerInv, TypeOK, SWrite
<1>2. Head(k.wq) \in MsgSet /\ Tail(k.wq) \in Seq(MsgSet) BY <1>1
<1>3. CASE /\ s2c' = [s2c EXCEPT ![c] = IF conn[c].fd THEN Append(@, Head(k.wq)) ELSE @]
           /\ srv' = [srv EXCEPT ![c].wq = Tail(@)]
           /\ UNCHANGED c2s
  <2> DEFINE k1 == [k EXCEPT !.wq = Tail(k.wq)]
  <2>1. k1 \in SrvSet BY <1>1, <1>2, SrvTypes
  <2>2. srv' = [srv EXCEPT ![c] = k1] BY <1>3
  <2> HIDE DEF k1
  <2>3. srv' \in [Conns -> SrvSet] BY <2>1, <2>2 DEF OwnerInv, TypeOK
  <2>4. s2c' \in [Conns -> Seq(MsgSet)] BY <1>2, <1>3 DEF OwnerInv, TypeOK
  <2> QED BY <1>3, <2>3, <2>4, ServerStepInv DEF SWrite, OwnerInv, TypeOK
<1>4. CASE SDisconnect(c, SetException(k)) /\ UNCHANGED s2c
  <2>1. srv' \in [Conns -> SrvSet] /\ c2s' \in [Conns -> Seq(MsgSet)]
    BY <1>1, <1>4, SrvTypes, SDisconnectTypes DEF OwnerInv
  <2> QED BY <1>4, <2>1, ServerStepInv DEF SWrite, OwnerInv, TypeOK
<1> QED BY <1>3, <1>4 DEF SWrite

LEMMA SRecvQuestInv == ASSUME OwnerInv, NEW c \in Conns, SRecvQuest(c) PROVE OwnerInv'
<1>1. Head(c2s[c]) \in [type : {"Q"}, id : Nat, q : Quests]
  <2>1. Head(c2s[c]) \in MsgSet BY DEF OwnerInv, TypeOK, SRecvQuest
  <2> QED BY <2>1 DEF MsgSet, Hello, Bye, Msg, SRecvQuest
<1>2. /\ c2s' \in [Conns -> Seq(MsgSet)]
      /\ sread' \in [Conns -> SUBSET [type : {"Q"}, id : Nat, q : Quests]]
  BY <1>1 DEF OwnerInv, TypeOK, SRecvQuest
<1> QED BY <1>2, ServerStepInv DEF SRecvQuest, OwnerInv, TypeOK

(* The steps of the server that only end in disconnect().                  *)
LEMMA SDisconnectInv ==
  ASSUME OwnerInv, NEW c \in Conns, NEW k \in SrvSet, SDisconnect(c, k),
         UNCHANGED <<connVars, thrVars, resVars, sread, executed, s2c, broken>>,
         executing' \in [Conns -> SUBSET (Nat \X Quests)]
  PROVE  OwnerInv'
<1>1. srv' \in [Conns -> SrvSet] /\ c2s' \in [Conns -> Seq(MsgSet)]
  BY SDisconnectTypes DEF OwnerInv
<1> QED BY <1>1, ServerStepInv DEF OwnerInv, TypeOK

LEMMA SStopsInv ==
  ASSUME OwnerInv, NEW c \in Conns,
         SRecvBye(c) \/ SRecvFails(c) \/ STimeout(c) \/ SCloseForce(c)
  PROVE  OwnerInv'
<1>1. srv[c] \in SrvSet /\ SetException(srv[c]) \in SrvSet
  BY SrvTypes DEF OwnerInv, TypeOK
<1>2. UNCHANGED <<connVars, thrVars, resVars, sread, executing, executed, s2c, broken>>
  BY DEF SRecvBye, SRecvFails, STimeout, SCloseForce
<1>3. executing' \in [Conns -> SUBSET (Nat \X Quests)] BY <1>2 DEF OwnerInv, TypeOK
<1>4. \/ SDisconnect(c, srv[c]) \/ SDisconnect(c, SetException(srv[c]))
  BY DEF SRecvBye, SRecvFails, STimeout, SCloseForce
<1> QED BY <1>1, <1>2, <1>3, <1>4, SDisconnectInv

LEMMA SDispatchInv ==
  ASSUME OwnerInv, NEW c \in Conns, NEW m \in sread[c], SDispatch(c, m) PROVE OwnerInv'
<1> DEFINE k == srv[c]
<1>1. k \in SrvSet /\ SetException(k) \in SrvSet BY SrvTypes DEF OwnerInv, TypeOK
<1>2. m \in [type : {"Q"}, id : Nat, q : Quests] BY DEF OwnerInv, TypeOK
<1>3. /\ sread' \in [Conns -> SUBSET [type : {"Q"}, id : Nat, q : Quests]]
      /\ UNCHANGED <<connVars, thrVars, resVars, s2c, broken>>
  BY DEF OwnerInv, TypeOK, SDispatch
<1>4. CASE UNCHANGED <<srv, executing, executed, c2s>>
  BY <1>3, <1>4, ServerStepInv DEF OwnerInv, TypeOK
<1>5. CASE SDisconnect(c, SetException(k)) /\ UNCHANGED <<executing, executed>>
  <2>1. srv' \in [Conns -> SrvSet] /\ c2s' \in [Conns -> Seq(MsgSet)]
    BY <1>1, <1>5, SDisconnectTypes DEF OwnerInv
  <2> QED BY <1>3, <1>5, <2>1, ServerStepInv DEF OwnerInv, TypeOK
<1>6. CASE /\ srv' = [srv EXCEPT ![c].processing = @ + 1]
           /\ executing' = [executing EXCEPT ![c] = @ \cup {<<m.id, m.q>>}]
           /\ executed' = [executed EXCEPT ![c] = @ \cup {m.q}]
           /\ UNCHANGED c2s
  <2> DEFINE k1 == [k EXCEPT !.processing = k.processing + 1]
  <2>1. k.processing + 1 \in Int BY <1>1, SrvTypes
  <2>2. k1 \in SrvSet BY <1>1, <2>1, SrvTypes
  <2>3. srv' = [srv EXCEPT ![c] = k1] BY <1>6
  <2> HIDE DEF k1
  <2>4. srv' \in [Conns -> SrvSet] BY <2>2, <2>3 DEF OwnerInv, TypeOK
  <2>5. /\ executing' \in [Conns -> SUBSET (Nat \X Quests)]
        /\ executed' \in [Conns -> SUBSET Quests]
    BY <1>2, <1>6 DEF OwnerInv, TypeOK
  <2> QED BY <1>3, <1>6, <2>4, <2>5, ServerStepInv DEF OwnerInv, TypeOK
<1> QED BY <1>4, <1>5, <1>6 DEF SDispatch

LEMMA SReplyInv ==
  ASSUME OwnerInv, NEW c \in Conns, NEW e \in executing[c], SReply(c, e) PROVE OwnerInv'
<1> DEFINE k == srv[c]
           k1 == IF k.st < ST_CLOSED THEN Queued(k, Msg("A", e[1], e[2])) ELSE k
           k2 == [k1 EXCEPT !.processing = @ - 1]
           k3 == [k2 EXCEPT !.st = ST_CLOSING]
           k4 == [k3 EXCEPT !.rt = TRUE]
           k5 == IF k2.st = ST_CLOSE /\ k2.processing = 0 THEN Queued(k4, Bye) ELSE k2
<1>1. k \in SrvSet /\ e \in Nat \X Quests BY DEF OwnerInv, TypeOK
<1>2. Msg("A", e[1], e[2]) \in MsgSet /\ Bye \in MsgSet BY <1>1, MessageTypes
<1>3. k1 \in SrvSet BY <1>1, <1>2, SrvTypes
<1>4. srv' = [srv EXCEPT ![c] = k5] BY DEF SReply
<1>5. executing' \in [Conns -> SUBSET (Nat \X Quests)] BY DEF SReply, OwnerInv, TypeOK
<1> HIDE DEF k1
<1>6. k1.processing - 1 \in Int BY <1>3, SrvTypes
<1>7. k2 \in SrvSet BY <1>3, <1>6, SrvTypes
<1> HIDE DEF k2
<1>8. k3 \in SrvSet BY <1>7, SrvTypes, States
<1> HIDE DEF k3
<1>9. k4 \in SrvSet BY <1>8, SrvTypes
<1> HIDE DEF k4
<1>10. k5 \in SrvSet BY <1>2, <1>7, <1>9, SrvTypes
<1> HIDE DEF k5
<1>11. srv' \in [Conns -> SrvSet] BY <1>4, <1>10 DEF OwnerInv, TypeOK
<1> QED BY <1>5, <1>11, ServerStepInv DEF SReply, OwnerInv, TypeOK, netVars

LEMMA SReplyFailsInv ==
  ASSUME OwnerInv, NEW c \in Conns, NEW e \in executing[c], SReplyFails(c, e) PROVE OwnerInv'
<1> DEFINE k == SetException(srv[c])
<1>1. k \in SrvSet BY SrvTypes DEF OwnerInv, TypeOK
<1>2. /\ executing' \in [Conns -> SUBSET (Nat \X Quests)]
      /\ UNCHANGED <<connVars, thrVars, resVars, sread, executed, s2c, broken>>
  BY DEF SReplyFails, OwnerInv, TypeOK
<1>3. CASE SDisconnect(c, k) BY <1>1, <1>2, <1>3, SDisconnectInv
<1>4. CASE srv' = [srv EXCEPT ![c] = k] /\ UNCHANGED c2s
  <2> HIDE DEF k
  <2>1. srv' \in [Conns -> SrvSet] BY <1>1, <1>4 DEF OwnerInv, TypeOK
  <2> QED BY <1>2, <1>4, <2>1, ServerStepInv DEF OwnerInv, TypeOK
<1> QED BY <1>3, <1>4 DEF SReplyFails

LEMMA SCloseInv == ASSUME OwnerInv, NEW c \in Conns, SClose(c) PROVE OwnerInv'
<1> DEFINE k == srv[c]
           k1 == [k EXCEPT !.st = ST_CLOSING]
           k2 == [k1 EXCEPT !.rt = TRUE]
           k3 == IF k.processing = 0 THEN Queued(k2, Bye) ELSE [k EXCEPT !.st = ST_CLOSE]
<1>1. k \in SrvSet BY DEF OwnerInv, TypeOK
<1>2. srv' = [srv EXCEPT ![c] = k3] BY DEF SClose
<1>3. k1 \in SrvSet /\ [k EXCEPT !.st = ST_CLOSE] \in SrvSet BY <1>1, SrvTypes, States
<1> HIDE DEF k1
<1>4. k2 \in SrvSet BY <1>3, SrvTypes
<1> HIDE DEF k2
<1>5. k3 \in SrvSet BY <1>3, <1>4, SrvTypes, MessageTypes
<1> HIDE DEF k3
<1>6. srv' \in [Conns -> SrvSet] BY <1>2, <1>5 DEF OwnerInv, TypeOK
<1> QED BY <1>6, ServerStepInv DEF SClose, OwnerInv, TypeOK, netVars

LEMMA ResetInv == ASSUME OwnerInv, NEW c \in Conns, Reset(c) PROVE OwnerInv'
<1>1. /\ broken' \in [Conns -> BOOLEAN]
      /\ c2s' \in [Conns -> Seq(MsgSet)] /\ s2c' \in [Conns -> Seq(MsgSet)]
  BY DEF Reset, OwnerInv, TypeOK
<1> QED BY <1>1, ServerStepInv DEF Reset, OwnerInv, TypeOK, srvVars

-----------------------------------------------------------------------------
LEMMA OwnerInvInit == Init => OwnerInv
<1> SUFFICES ASSUME Init PROVE OwnerInv OBVIOUS
<1>1. TypeOK
  <2>1. conn \in [Conns -> ConnSet] /\ srv \in [Conns -> SrvSet]
    BY FreshTypes DEF Init
  <2> QED BY <2>1 DEF Init, TypeOK
<1>2. \A c \in Conns : conn[c].map = {} BY DEF Init, FreshConn
<1>3. SendsOnConnection /\ OneEntry BY <1>2 DEF Init, SendsOnConnection, OneEntry
<1>4. \A q \in Quests : ~Given(q) /\ ~Done(q) /\ \A c \in Conns : ~InMap(q, c) /\ q \notin taken[c]
  BY <1>2 DEF Init, Given, Done, InMap
<1>5. OneOwner BY <1>4 DEF OneOwner, OwnedOnce
<1> QED BY <1>1, <1>3, <1>5 DEF OwnerInv

LEMMA OwnerInvStep == OwnerInv /\ [Next]_vars => OwnerInv'
<1> SUFFICES ASSUME OwnerInv, [Next]_vars PROVE OwnerInv' OBVIOUS
<1>1. CASE ClientStep
  <2>1. ASSUME NEW q \in Quests,
               \/ PickExisting(q) \/ PickThrows(q) \/ StartTimer(q)
               \/ SendQuestClosed(q) \/ SendQuest(q) \/ SendQuestHuge(q)
        PROVE  OwnerInv'
    BY <2>1, PickExistingInv, PickThrowsInv, StartTimerInv, SendQuestClosedInv,
       SendQuestInv, SendQuestHugeInv
  <2>2. ASSUME NEW q \in Quests, NEW c \in Conns,
               PickNew(q, c) \/ SendQuestCatch(c, q) \/ DisconnectResult(c, q)
        PROVE  OwnerInv'
    BY <2>2, PickNewInv, SendQuestCatchInv, DisconnectResultInv
  <2>3. ASSUME NEW q \in Quests, NEW kind \in {"answer", "error"}, Give(q, kind) PROVE OwnerInv'
    BY <2>3, GiveInv
  <2>4. ASSUME NEW r \in Readers, ReadAnswer(r) PROVE OwnerInv'
    BY <2>4, ReadAnswerInv
  <2>5. ASSUME NEW c \in Conns, NEW w \in Writers, QuestSent(c, w) \/ WriteAgain(c, w)
        PROVE  OwnerInv'
    BY <2>5, QuestSentInv, WriteAgainInv
  <2>6. ASSUME NEW c \in Conns, NEW r \in Readers,
               \/ DoWrite(c, r) \/ RecvHello(c, r) \/ RecvBye(c, r)
               \/ RecvAnswer(c, r) \/ RecvFails(c, r)
        PROVE  OwnerInv'
    BY <2>6, DoWriteInv, RecvHelloInv, RecvByeInv, RecvAnswerInv, RecvFailsInv
  <2>7. ASSUME NEW c \in Conns,
               Timeout(c) \/ DoTimeout(c) \/ DisconnectBegin(c) \/ DisconnectTake(c)
        PROVE  OwnerInv'
    BY <2>7, TimeoutInv, DoTimeoutInv, DisconnectBeginInv, DisconnectTakeInv
  <2> QED BY <1>1, <2>1, <2>2, <2>3, <2>4, <2>5, <2>6, <2>7 DEF ClientStep
<1>2. CASE ServerStep
  <2>1. ASSUME NEW c \in Conns, SAccept(c) \/ SHello(c) \/ SWrite(c) \/ SRecvQuest(c)
        PROVE  OwnerInv'
    BY <2>1, SAcceptInv, SHelloInv, SWriteInv, SRecvQuestInv
  <2>2. ASSUME NEW c \in Conns, SRecvBye(c) \/ SRecvFails(c) \/ STimeout(c) PROVE OwnerInv'
    BY <2>2, SStopsInv
  <2>3. ASSUME NEW c \in Conns, NEW m \in sread[c], SDispatch(c, m) PROVE OwnerInv'
    BY <2>3, SDispatchInv
  <2>4. ASSUME NEW c \in Conns, NEW e \in executing[c], SReply(c, e) \/ SReplyFails(c, e)
        PROVE  OwnerInv'
    BY <2>4, SReplyInv, SReplyFailsInv
  <2> QED BY <1>2, <2>1, <2>2, <2>3, <2>4 DEF ServerStep
<1>3. CASE EnvStep
  <2>1. ASSUME NEW q \in Quests, PickExisting(q) \/ PickThrows(q) PROVE OwnerInv'
    BY <2>1, PickExistingInv, PickThrowsInv
  <2>2. ASSUME NEW q \in Quests, NEW c \in Conns, PickNew(q, c) PROVE OwnerInv'
    BY <2>2, PickNewInv
  <2>3. ASSUME NEW c \in Conns,
               Close(c) \/ CloseForce(c) \/ SClose(c) \/ SCloseForce(c) \/ Reset(c)
        PROVE  OwnerInv'
    BY <2>3, CloseInv, CloseForceInv, SCloseInv, SStopsInv, ResetInv
  <2> QED BY <1>3, <2>1, <2>2, <2>3 DEF EnvStep
<1>4. CASE UNCHANGED vars
  <2>1. TypeOK' /\ SendsOnConnection' /\ OneEntry'
    BY <1>4 DEF OwnerInv, TypeOK, SendsOnConnection, OneEntry, vars, connVars, thrVars,
                resVars, srvVars, netVars
  <2>2. OneOwner' BY <1>4, OwnersKept DEF vars, connVars, thrVars, resVars
  <2> QED BY <2>1, <2>2 DEF OwnerInv
<1> QED BY <1>1, <1>2, <1>3, <1>4 DEF Next

(* Every variable of the connection keeps its type, in particular a quest  *)
(* is retried at most once (PtResult::retry, PtEngineImp.cpp:127-138).     *)
THEOREM ConnTypeCorrect == Spec => []TypeOK
<1>1. OwnerInv => TypeOK BY DEF OwnerInv
<1> QED BY <1>1, OwnerInvInit, OwnerInvStep, PTL DEF Spec

(* No result ever has two owners, whatever the number of quests,           *)
(* connections and dispatcher threads: the assertions of giveAnswer and    *)
(* giveError (PtEngineImp.cpp:142-216) hold.                               *)
THEOREM ConnOneOwner == Spec => []OneOwner
<1>1. OwnerInv => OneOwner BY DEF OwnerInv
<1> QED BY <1>1, OwnerInvInit, OwnerInvStep, PTL DEF Spec
=============================================================================
