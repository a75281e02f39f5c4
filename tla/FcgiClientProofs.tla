-------------------------- MODULE FcgiClientProofs --------------------------
(***************************************************************************)
(* The safety invariants of the FastCGI gateway's pool of connections, for *)
(* any number of quests and connections and any limits.                    *)
(***************************************************************************)
EXTENDS FcgiClient, FiniteSetTheorems, SequenceTheorems, WellFoundedInduction, NaturalsInduction, TLAPS

-----------------------------------------------------------------------------
(* The inductive invariant. *)

Record ==
  [state : {"CONNECT", "IDLE", "WRITE", "READ", "CLOSED"},
   quest : Quests \cup {None}, reqseq : 0..ReqMax,
   shut : BOOLEAN, armed : BOOLEAN, popped : BOOLEAN,
   pc : {"free", "next", "release"}]

Types ==
  /\ con \in [Conns -> Record]
  /\ cons \subseteq Conns /\ toShut \subseteq Conns
  /\ idlestack \in Seq(Conns) /\ queue \in Seq(Quests)
  /\ picked \in [Quests -> Conns \cup {None}] /\ arrived \subseteq Quests
  /\ finished \in [Quests -> Nat]

\* A connection has a quest only while it writes or reads, and until it has
\* been released; its timeout runs as long as it is not idle; it is closed
\* with its last request.
Busy(r) == r.state \in {"CONNECT", "WRITE", "READ"} \/ r.pc = "next"
ConOK(r) ==
  /\ r.quest # None => r.state \in {"WRITE", "READ"} \/ r.pc = "release"
  /\ r.pc = "release" => r.state = "CLOSED"
  /\ r.pc = "next" => r.state = "IDLE"
  /\ Busy(r) => r.armed \/ r.popped
  /\ r.reqseq < ReqMax
ConInv == \A c \in Conns : ConOK(con[c])

\* What process() takes off the stack is idle, or was closed meanwhile, and is
\* used by nobody else.
Resting(r) == r.state \in {"IDLE", "CLOSED"} /\ r.pc # "next"
StackInv ==
  /\ \A i, j \in DOMAIN idlestack : idlestack[i] = idlestack[j] => i = j
  /\ \A i \in DOMAIN idlestack :
       Resting(con[idlestack[i]]) /\ \A q \in Quests : picked[q] # idlestack[i]
PickInv ==
  /\ \A q \in Quests : picked[q] # None => Resting(con[picked[q]])
  /\ \A p, q \in Quests : picked[p] = picked[q] /\ picked[p] # None => p = q

\* Where quest q is, given the connections, the queue, ...: nowhere before it
\* has arrived, and from then on in exactly one place.
OnceIn(s, q) == \A i, j \in DOMAIN s : s[i] = q /\ s[j] = q => i = j
HeldIn(k, q) == \E c \in Conns : k[c].quest = q
HeldOnce(k, q) == \A c, d \in Conns : k[c].quest = q /\ k[d].quest = q => c = d
OnceFor(k, s, p, f, a, q) ==
  /\ OnceIn(s, q) /\ HeldOnce(k, q) /\ f[q] \in {0, 1}
  /\ q \in Range(s) => ~HeldIn(k, q) /\ p[q] = None /\ f[q] = 0
  /\ HeldIn(k, q) => p[q] = None /\ f[q] = 0
  /\ p[q] # None => f[q] = 0
  /\ q \in a <=> q \in Range(s) \/ HeldIn(k, q) \/ p[q] # None \/ f[q] = 1
OnceInv == \A q \in Quests : OnceFor(con, queue, picked, finished, arrived, q)

\* A connection that will look at the queue, close, or is ready to be taken.
Serving(c) ==
  \/ con[c].state \in {"CONNECT", "WRITE", "READ"} \/ ~Free(c)
  \/ Open(c) /\ (con[c].shut \/ c \in toShut \/ con[c].armed \/ con[c].popped)
  \/ \E q \in Quests : picked[q] = c
  \/ c \in Range(idlestack) /\ Ok(c)
ServeInv ==
  /\ \A c \in cons : Serving(c)
  /\ queue # <<>> => trying > 0 \/ \E c \in Conns : Serving(c)
  /\ \A c \in Conns : Open(c) => c \in cons \cup toShut \/ con[c].shut

FcgiInv == Types /\ ConInv /\ StackInv /\ PickInv /\ OnceInv /\ ServeInv

\* The quests fail as soon as there are more errors than connections.
CountInv == trying \in Nat /\ conCount \in Nat /\ errCount \in 0..conCount

-----------------------------------------------------------------------------
(* Sequences and sets. *)

\* One more at the end or at the front.
LEMMA Grown ==
  ASSUME NEW S, NEW s \in Seq(S), NEW y \in S, NEW z, z = Append(s, y) \/ z = <<y>> \o s
  PROVE  /\ z \in Seq(S) /\ z # <<>>
         /\ \A x : x \in Range(z) <=> x = y \/ x \in Range(s)
         /\ \A x : OnceIn(s, x) /\ (x = y => x \notin Range(s)) => OnceIn(z, x)
<1>0. Len(s) \in Nat /\ DOMAIN s = 1..Len(s) /\ \A i \in 1..Len(s) : s[i] \in S OBVIOUS
<1>1. CASE z = Append(s, y)
  <2>1. /\ z \in Seq(S) /\ Len(z) = Len(s) + 1 /\ DOMAIN z = 1..(Len(s) + 1) /\ z[Len(s) + 1] = y
        /\ \A i \in 1..Len(s) : z[i] = s[i]
    BY <1>0, <1>1
  <2>2. \A i \in DOMAIN z : i = Len(s) + 1 \/ (i \in DOMAIN s /\ z[i] = s[i]) BY <1>0, <2>1
  <2>3. \A i \in DOMAIN s : i \in DOMAIN z /\ z[i] = s[i] BY <1>0, <2>1
  <2>4. Len(s) + 1 \in DOMAIN z BY <1>0, <2>1
  <2>5. z # <<>> BY <1>0, <2>1
  <2>6. \A x : x \in Range(z) <=> x = y \/ x \in Range(s) BY <2>1, <2>2, <2>3, <2>4 DEF Range
  <2>7. \A x : OnceIn(s, x) /\ (x = y => x \notin Range(s)) => OnceIn(z, x)
    BY <2>1, <2>2 DEF OnceIn, Range
  <2> QED BY <2>1, <2>5, <2>6, <2>7
<1>2. CASE z = <<y>> \o s
  <2>1. /\ z \in Seq(S) /\ Len(z) = Len(s) + 1 /\ z[1] = y /\ \A i \in 1..Len(s) : z[i + 1] = s[i]
    BY <1>0, <1>2
  <2>2. DOMAIN z = 1..(Len(s) + 1)
    <3>1. DOMAIN z = 1..Len(z) BY <2>1
    <3> QED BY <2>1, <3>1
  <2>3. \A i \in DOMAIN z : i = 1 \/ (i - 1 \in DOMAIN s /\ z[i] = s[i - 1])
    <3> SUFFICES ASSUME NEW i \in 1..(Len(s) + 1), i # 1 PROVE i - 1 \in 1..Len(s) /\ z[i] = s[i - 1] BY <1>0, <2>2
    <3>1. i - 1 \in 1..Len(s) /\ (i - 1) + 1 = i BY <1>0
    <3> QED BY <2>1, <3>1
  <2>4. \A i \in DOMAIN s : i + 1 \in DOMAIN z /\ z[i + 1] = s[i] BY <1>0, <2>1, <2>2
  <2>5. 1 \in DOMAIN z BY <1>0, <2>2
  <2>6. z # <<>> BY <1>0, <2>1
  <2>7. \A x : x \in Range(z) <=> x = y \/ x \in Range(s)
    <3>1. \A i \in DOMAIN z : z[i] = y \/ z[i] \in Range(s) BY <2>1, <2>3 DEF Range
    <3>2. \A i \in DOMAIN s : s[i] \in Range(z) BY <2>4 DEF Range
    <3>3. y \in Range(z) BY <2>1, <2>5 DEF Range
    <3> QED BY <3>1, <3>2, <3>3 DEF Range
  <2>8. ASSUME NEW x, OnceIn(s, x), x = y => x \notin Range(s) PROVE OnceIn(z, x)
    <3> SUFFICES ASSUME NEW i \in DOMAIN z, NEW j \in DOMAIN z, z[i] = x, z[j] = x PROVE i = j BY DEF OnceIn
    <3>1. i = 1 \/ (i - 1 \in DOMAIN s /\ s[i - 1] = x) BY <2>3
    <3>2. j = 1 \/ (j - 1 \in DOMAIN s /\ s[j - 1] = x) BY <2>3
    <3>3. i = 1 \/ j = 1 => x = y BY <2>1
    <3>4. i - 1 \in DOMAIN s /\ s[i - 1] = x => x \in Range(s) BY DEF Range
    <3>5. j - 1 \in DOMAIN s /\ s[j - 1] = x => x \in Range(s) BY DEF Range
    <3>6. i \in Int /\ j \in Int BY <2>2
    <3>7. CASE i = 1 /\ j = 1 BY <3>7
    <3>8. CASE i # 1 /\ j # 1
      <4>1. i - 1 = j - 1 BY <2>8, <3>1, <3>2, <3>8 DEF OnceIn
      <4> QED BY <3>6, <4>1
    <3> QED BY <2>8, <3>1, <3>2, <3>3, <3>4, <3>5, <3>7, <3>8
  <2> QED BY <2>1, <2>6, <2>7, <2>8
<1> QED BY <1>1, <1>2

\* The first one gone.
LEMMA Shrunk ==
  ASSUME NEW S, NEW s \in Seq(S), s # <<>>
  PROVE  /\ Tail(s) \in Seq(S) /\ Head(s) \in S /\ Head(s) \in Range(s)
         /\ \A x : x \in Range(Tail(s)) => x \in Range(s)
         /\ \A x : x # Head(s) /\ x \in Range(s) => x \in Range(Tail(s))
         /\ \A x : OnceIn(s, x) => OnceIn(Tail(s), x) /\ (x = Head(s) => x \notin Range(Tail(s)))
<1>0. /\ Len(s) \in Nat \ {0} /\ DOMAIN s = 1..Len(s) /\ Tail(s) \in Seq(S) /\ Len(Tail(s)) = Len(s) - 1
      /\ Head(s) = s[1]
  OBVIOUS
<1> DEFINE z == Tail(s)
<1>1. DOMAIN z = 1..(Len(s) - 1) /\ \A i \in 1..(Len(s) - 1) : z[i] = s[i + 1] BY <1>0
<1> HIDE DEF z
<1>2. \A i \in DOMAIN z : i + 1 \in DOMAIN s /\ i + 1 # 1 /\ z[i] = s[i + 1] BY <1>0, <1>1
<1>3. \A i \in DOMAIN s : i = 1 \/ (i - 1 \in DOMAIN z /\ z[i - 1] = s[i])
  <2> SUFFICES ASSUME NEW i \in 1..Len(s), i # 1 PROVE i - 1 \in 1..(Len(s) - 1) /\ z[i - 1] = s[i] BY <1>0, <1>1
  <2>1. i - 1 \in 1..(Len(s) - 1) /\ (i - 1) + 1 = i BY <1>0
  <2> QED BY <1>1, <2>1
<1>4. 1 \in DOMAIN s BY <1>0
<1>5. \A x : x \in Range(z) => x \in Range(s) BY <1>2 DEF Range
<1>6. \A x : x # s[1] /\ x \in Range(s) => x \in Range(z) BY <1>3 DEF Range
<1>7. ASSUME NEW x, OnceIn(s, x) PROVE OnceIn(z, x) /\ (x = s[1] => x \notin Range(z))
  <2>1. ASSUME NEW i \in DOMAIN z, NEW j \in DOMAIN z, z[i] = x, z[j] = x PROVE i = j
    <3>1. i + 1 = j + 1 BY <1>2, <1>7, <2>1 DEF OnceIn
    <3>2. i \in Int /\ j \in Int BY <1>1
    <3> QED BY <3>1, <3>2
  <2>2. ASSUME x = s[1], NEW i \in DOMAIN z, z[i] = x PROVE FALSE
    <3>1. i + 1 = 1 BY <1>2, <1>4, <1>7, <2>2 DEF OnceIn
    <3> QED BY <1>2, <3>1
  <2> QED BY <2>1, <2>2 DEF OnceIn, Range
<1>8. s[1] \in S /\ s[1] \in Range(s) BY <1>0, <1>4 DEF Range
<1> QED BY <1>0, <1>5, <1>6, <1>7, <1>8 DEF z

\* Places are limited, so a set of connections has a size.
LEMMA Sizes ==
  ASSUME NEW L \in SUBSET Conns, NEW N \in SUBSET Conns
  PROVE  /\ IsFiniteSet(L) /\ Cardinality(L) \in Nat
         /\ Cardinality(L) = 0 <=> L = {}
         /\ Cardinality(L \cup N) \in Nat /\ Cardinality(L \cup N) <= Cardinality(L) + Cardinality(N)
         /\ L \subseteq N => Cardinality(L) <= Cardinality(N)
<1>0. IsFiniteSet(Conns) BY FcgiAssumption
<1>1. IsFiniteSet(L) /\ IsFiniteSet(N) BY <1>0, FS_Subset
<1>2. Cardinality(L) \in Nat /\ Cardinality(N) \in Nat BY <1>1, FS_CardinalityType
<1>3. Cardinality(L) = 0 <=> L = {} BY <1>1, FS_EmptySet
<1>4. IsFiniteSet(L \cap N) /\ Cardinality(L \cap N) \in Nat
  <2>1. IsFiniteSet(L \cap N) BY <1>1, FS_Subset
  <2> QED BY <2>1, FS_CardinalityType
<1>5. IsFiniteSet(L \cup N) /\ Cardinality(L \cup N) = Cardinality(L) + Cardinality(N) - Cardinality(L \cap N)
  BY <1>1, FS_Union
<1>6. Cardinality(L \cup N) \in Nat BY <1>5, FS_CardinalityType
<1>7. Cardinality(L \cup N) <= Cardinality(L) + Cardinality(N) BY <1>2, <1>4, <1>5
<1>8. L \subseteq N => Cardinality(L) <= Cardinality(N) BY <1>1, FS_Subset
<1> QED BY <1>1, <1>2, <1>3, <1>6, <1>7, <1>8

-----------------------------------------------------------------------------
(* A connection. *)

LEMMA FreshIs == Fresh \in Record /\ ConOK(Fresh) /\ Fresh.quest = None
<1>1. 0 \in 0..ReqMax /\ 0 < ReqMax BY FcgiAssumption
<1>2. None \in Quests \cup {None} /\ FALSE \in BOOLEAN OBVIOUS
<1>3. Fresh \in Record BY <1>1, <1>2 DEF Fresh, Record
<1> QED BY <1>1, <1>3 DEF Fresh, ConOK, Busy

LEMMA ClosedIs ==
  ASSUME NEW r \in Record
  PROVE  /\ Closed(r) \in Record /\ ConOK(Closed(r))
         /\ Closed(r).state = "CLOSED" /\ Closed(r).pc = "release" /\ Closed(r).quest = r.quest
<1>1. 0 \in 0..ReqMax /\ 0 < ReqMax BY FcgiAssumption
<1>2. /\ Closed(r) \in Record /\ Closed(r).reqseq = 0
      /\ Closed(r).state = "CLOSED" /\ Closed(r).pc = "release" /\ Closed(r).quest = r.quest
  BY <1>1 DEF Closed, Record
<1> QED BY <1>1, <1>2 DEF ConOK, Busy

LEMMA WrittenIs ==
  ASSUME NEW r \in Record, r.reqseq < ReqMax, r.pc = "free", NEW w \in Written(r)
  PROVE  /\ w \in Record /\ w.quest = r.quest /\ w.reqseq < ReqMax
         /\ \/ w.state \in {"READ", "WRITE"} /\ w.pc = "free" /\ w.armed = r.armed /\ w.popped = r.popped
            \/ w.state = "CLOSED" /\ w.pc = "release"
<1>1. CASE w = [r EXCEPT !.state = "READ"] BY <1>1 DEF Record
<1>2. CASE w = [r EXCEPT !.state = "WRITE"] BY <1>2 DEF Record
<1>3. CASE w = Closed([r EXCEPT !.state = "WRITE"])
  <2>1. PICK v : v = [r EXCEPT !.state = "WRITE"] OBVIOUS
  <2>2. v \in Record /\ v.quest = r.quest BY <2>1 DEF Record
  <2>3. w = Closed(v) BY <1>3, <2>1
  <2> QED BY <2>2, <2>3, ClosedIs DEF ConOK
<1> QED BY <1>1, <1>2, <1>3 DEF Written

LEMMA OperatedIs ==
  ASSUME NEW r \in Record, r.reqseq < ReqMax, NEW q \in Quests, NEW w \in Operated(r, q)
  PROVE  /\ w \in Record /\ ConOK(w) /\ w.quest = q
         /\ w.state \in {"READ", "WRITE"} \/ w.pc = "release"
<1>1. PICK v : v = [r EXCEPT !.quest = q, !.pc = "free"] OBVIOUS
<1>2. v \in Record /\ v.quest = q /\ v.pc = "free" /\ v.reqseq = r.reqseq BY <1>1 DEF Record
<1>3. PICK u \in Written(v) : w = [u EXCEPT !.armed = u.pc = "free"] BY <1>1 DEF Operated
<1>4. /\ u \in Record /\ u.quest = q /\ u.reqseq < ReqMax
      /\ (u.state \in {"READ", "WRITE"} /\ u.pc = "free") \/ (u.state = "CLOSED" /\ u.pc = "release")
  BY <1>2, WrittenIs
<1>5. /\ w.state = u.state /\ w.quest = u.quest /\ w.pc = u.pc /\ w.reqseq = u.reqseq
      /\ (w.armed <=> u.pc = "free")
  BY <1>3, <1>4 DEF Record
<1>6. w \in Record
  <2>1. PICK b \in BOOLEAN : b = (u.pc = "free") OBVIOUS
  <2> QED BY <1>3, <1>4, <2>1 DEF Record
<1> QED BY <1>4, <1>5, <1>6 DEF ConOK, Busy

LEMMA OperatedShut ==
  ASSUME NEW r \in Record, NEW q \in Quests, NEW w \in Operated(r, q), w.state # "CLOSED"
  PROVE  w.shut = r.shut
<1>1. PICK v : v = [r EXCEPT !.quest = q, !.pc = "free"] OBVIOUS
<1>2. v \in Record /\ v.shut = r.shut BY <1>1 DEF Record
<1>3. PICK u \in Written(v) : w = [u EXCEPT !.armed = u.pc = "free"] BY <1>1 DEF Operated
<1>4. (u.state # "CLOSED" => u.shut = v.shut) /\ w.state = u.state /\ w.shut = u.shut
  BY <1>2, <1>3 DEF Written, Closed, Record
<1> QED BY <1>2, <1>4

\* One connection changes.
LEMMA SetIs ==
  ASSUME Types, NEW c \in Conns, NEW r \in Record, Set(c, r)
  PROVE  /\ con' \in [Conns -> Record] /\ con'[c] = r
         /\ \A d \in Conns \ {c} : con'[d] = con[d]
BY DEF Types, Set

-----------------------------------------------------------------------------
(* Where a quest is. *)

\* Nothing that is about q changes.
LEMMA OnceSame ==
  ASSUME NEW k, NEW s, NEW p, NEW f, NEW a, NEW q, OnceFor(k, s, p, f, a, q),
         NEW k2, NEW s2, NEW p2, NEW f2, NEW a2,
         \A d \in Conns : k2[d].quest = q <=> k[d].quest = q,
         q \in Range(s2) <=> q \in Range(s), OnceIn(s2, q),
         p2[q] = p[q], f2[q] = f[q], q \in a2 <=> q \in a
  PROVE  OnceFor(k2, s2, p2, f2, a2, q)
<1>1. HeldIn(k2, q) <=> HeldIn(k, q) BY DEF HeldIn
<1>2. HeldOnce(k, q) => HeldOnce(k2, q) BY DEF HeldOnce
<1> QED BY <1>1, <1>2 DEF OnceFor

\* q, which nobody holds, is given to c.
LEMMA HeldTaken ==
  ASSUME NEW k, NEW q, ~HeldIn(k, q), NEW k2, NEW c \in Conns, k2[c].quest = q,
         \A d \in Conns \ {c} : k2[d].quest = k[d].quest
  PROVE  HeldIn(k2, q) /\ HeldOnce(k2, q)
BY DEF HeldIn, HeldOnce

\* c does not hold q any more.
LEMMA HeldLeft ==
  ASSUME NEW k, NEW q, HeldOnce(k, q), NEW k2, NEW c \in Conns, k[c].quest = q, k2[c].quest # q,
         \A d \in Conns \ {c} : k2[d].quest = k[d].quest
  PROVE  ~HeldIn(k2, q) /\ HeldOnce(k2, q) /\ HeldIn(k, q)
BY DEF HeldIn, HeldOnce

\* All quests of a queue are finished.
LEMMA OnceEmptied ==
  ASSUME NEW k, NEW s, NEW p, NEW a, NEW q \in Quests, OnceFor(k, s, p, finished, a, q), NEW k2,
         \A d \in Conns : k2[d].quest = k[d].quest, Finish(ToSet(s))
  PROVE  OnceFor(k2, <<>>, p, finished', a, q)
<1>1. ToSet(s) = Range(s) BY DEF ToSet, Range
<1>2. finished'[q] = IF q \in Range(s) THEN finished[q] + 1 ELSE finished[q] BY <1>1 DEF Finish
<1>3. HeldIn(k2, q) <=> HeldIn(k, q) BY DEF HeldIn
<1>4. HeldOnce(k, q) => HeldOnce(k2, q) BY DEF HeldOnce
<1>5. q \notin Range(<<>>) /\ OnceIn(<<>>, q) BY DEF Range, OnceIn
<1>6. q \in Range(s) => finished'[q] = 1 BY <1>2 DEF OnceFor
<1>7. q \notin Range(s) => finished'[q] = finished[q] BY <1>2
<1> HIDE DEF HeldIn, HeldOnce, OnceIn, Range
<1> QED BY <1>3, <1>4, <1>5, <1>6, <1>7 DEF OnceFor

\* The quest of connection c, if it has one, is finished.
LEMMA OnceFinished ==
  ASSUME Types, OnceInv, NEW c \in Conns, con'[c].quest = None, \A d \in Conns \ {c} : con'[d].quest = con[d].quest,
         Finish({con[c].quest}), UNCHANGED <<queue, picked, arrived>>
  PROVE  OnceInv'
<1> SUFFICES ASSUME NEW q \in Quests PROVE OnceFor(con', queue, picked, finished', arrived, q)
  BY DEF OnceInv
<1>0. q # None BY FcgiAssumption
<1>1. OnceFor(con, queue, picked, finished, arrived, q) BY DEF OnceInv
<1>2. CASE con[c].quest = q
  <2>1. ~HeldIn(con', q) /\ HeldOnce(con', q) /\ HeldIn(con, q) BY <1>0, <1>1, <1>2, HeldLeft DEF OnceFor
  <2>2. finished'[q] = finished[q] + 1 BY <1>2 DEF Finish
  <2>3. finished'[q] = 1 BY <1>1, <2>1, <2>2 DEF OnceFor
  <2> QED BY <1>1, <2>1, <2>3 DEF OnceFor
<1>3. CASE con[c].quest # q
  <2>1. finished'[q] = finished[q] BY <1>3 DEF Finish
  <2>2. \A d \in Conns : con'[d].quest = q <=> con[d].quest = q BY <1>0, <1>3
  <2>3. OnceIn(queue, q) BY <1>1 DEF OnceFor
  <2> QED BY <1>1, <2>1, <2>2, <2>3, OnceSame
<1> QED BY <1>2, <1>3

\* No quest goes anywhere.
LEMMA OnceKept ==
  ASSUME OnceInv, \A d \in Conns : con'[d].quest = con[d].quest, UNCHANGED <<queue, picked, arrived, finished>>
  PROVE  OnceInv'
<1> SUFFICES ASSUME NEW q \in Quests PROVE OnceFor(con', queue, picked, finished, arrived, q)
  BY DEF OnceInv
<1>1. OnceFor(con, queue, picked, finished, arrived, q) BY DEF OnceInv
<1>2. OnceIn(queue, q) BY <1>1 DEF OnceFor
<1> QED BY <1>1, <1>2, OnceSame

\* How many connections may be made.
LEMMA Rooms ==
  ASSUME NEW m \in Nat, NEW n \in Nat
  PROVE  Room(m, n) \in Nat /\ (Room(m, n) = 0 /\ n # 0 => m >= ConMax)
BY FcgiAssumption DEF Room

-----------------------------------------------------------------------------
(* The idle connections, and those that will look at the queue. *)

\* Those on the stack and those picked stay idle or closed.
LEMMA RestKept ==
  ASSUME StackInv, PickInv, UNCHANGED <<idlestack, picked>>, NEW D,
         \A i \in DOMAIN idlestack : idlestack[i] \in D, \A q \in Quests : picked[q] # None => picked[q] \in D,
         \A d \in D : Resting(con[d]) => Resting(con'[d])
  PROVE  StackInv' /\ PickInv'
BY DEF StackInv, PickInv

\* Only c changes.
LEMMA OneRests ==
  ASSUME Types, StackInv, PickInv, UNCHANGED <<idlestack, picked>>, NEW c,
         \A d \in Conns \ {c} : con'[d] = con[d],
         Resting(con[c]) => Resting(con'[c]) \/ (c \notin Range(idlestack) /\ \A q \in Quests : picked[q] # c)
  PROVE  StackInv' /\ PickInv'
<1>1. \A i \in DOMAIN idlestack : idlestack[i] \in Conns
  BY DEF Types
<1>2. \A q \in Quests : picked[q] # None => picked[q] \in Conns BY DEF Types
<1>3. CASE ~(Resting(con[c]) => Resting(con'[c]))
  <2>1. \A i \in DOMAIN idlestack : idlestack[i] # c BY <1>3 DEF Range
  <2> QED BY <1>1, <1>2, <1>3, <2>1 DEF StackInv, PickInv
<1>4. CASE Resting(con[c]) => Resting(con'[c])
  BY <1>1, <1>2, <1>4 DEF StackInv, PickInv
<1> QED BY <1>3, <1>4

LEMMA ServingKept ==
  ASSUME NEW d, Serving(d), con'[d] = con[d], d \in toShut => d \in toShut',
         \A q \in Quests : picked[q] = d => picked'[q] = d,
         d \in Range(idlestack) /\ Ok(d) => d \in Range(idlestack') \/ d \in toShut'
  PROVE  Serving(d)'
BY DEF Serving, Ok, Open, Free

\* Only c, or where it is, changes.
LEMMA OneServes ==
  ASSUME ServeInv, UNCHANGED <<trying, cons>>, NEW c \in Conns, \A d \in Conns \ {c} : con'[d] = con[d],
         \A d \in Conns \ {c} : d \in toShut => d \in toShut',
         \A q \in Quests : picked[q] # c => picked'[q] = picked[q] \/ picked[q] = None,
         \A d \in Conns \ {c} : d \in Range(idlestack) /\ Ok(d) => d \in Range(idlestack'),
         cons \subseteq Conns,
         Serving(c) => Serving(c)',
         queue' # <<>> => queue # <<>> \/ Serving(c)',
         Open(c)' => c \in cons \cup toShut' \/ con'[c].shut
  PROVE  ServeInv'
<1>0. \A q \in Quests, d \in Conns \ {c} : d # None /\ picked[q] = d => picked'[q] = d OBVIOUS
<1>1. \A d \in Conns \ {c} : Serving(d) => Serving(d)'
  <2> SUFFICES ASSUME NEW d \in Conns \ {c}, Serving(d) PROVE Serving(d)' OBVIOUS
  <2>1. d # None BY FcgiAssumption
  <2> QED BY <1>0, <2>1, ServingKept
<1>2. \A d \in cons : Serving(d)' BY <1>1 DEF ServeInv
<1>3. queue' # <<>> => trying' > 0 \/ \E d \in Conns : Serving(d)' BY <1>1 DEF ServeInv
<1>4. ASSUME NEW d \in Conns, Open(d)' PROVE d \in cons \cup toShut' \/ con'[d].shut
  <2>1. CASE d = c BY <1>4, <2>1
  <2>2. CASE d # c
    <3>1. con'[d] = con[d] BY <2>2
    <3>2. Open(d) BY <1>4, <3>1 DEF Open
    <3>3. d \in cons \cup toShut \/ con[d].shut BY <3>2 DEF ServeInv
    <3> QED BY <2>2, <3>1, <3>3
  <2> QED BY <2>1, <2>2
<1> QED BY <1>2, <1>3, <1>4 DEF ServeInv

-----------------------------------------------------------------------------
(* FcgiConnection: the events of a connection. *)

LEMMA FinishType ==
  ASSUME Types, NEW S, Finish(S)
  PROVE  finished' \in [Quests -> Nat]
BY DEF Types, Finish

\* Connection c becomes r, and is still where it was.
LEMMA OneChanged ==
  ASSUME FcgiInv, NEW c \in Conns, NEW r \in Record, Set(c, r), ConOK(r), UNCHANGED <<trying, cons, idlestack, picked, arrived>>,
         toShut' \subseteq Conns, \A d \in Conns \ {c} : d \in toShut => d \in toShut',
         queue' \in Seq(Quests), finished' \in [Quests -> Nat], OnceInv',
         Resting(con[c]) => Resting(r) \/ (c \notin Range(idlestack) /\ \A q \in Quests : picked[q] # c),
         Serving(c) => Serving(c)',
         queue' # <<>> => queue # <<>> \/ Serving(c)',
         Open(c)' => c \in cons \cup toShut' \/ r.shut
  PROVE  FcgiInv'
<1>0. Types /\ ConInv /\ StackInv /\ PickInv /\ ServeInv BY DEF FcgiInv
<1>1. con' \in [Conns -> Record] /\ con'[c] = r /\ \A d \in Conns \ {c} : con'[d] = con[d]
  BY <1>0, SetIs
<1>2. Types' BY <1>0, <1>1 DEF Types
<1>3. ConInv' BY <1>0, <1>1 DEF ConInv
<1>4. StackInv' /\ PickInv' BY <1>0, <1>1, OneRests
<1>5. cons \subseteq Conns BY <1>0 DEF Types
<1>6. ServeInv' BY <1>0, <1>1, <1>5, OneServes
<1> QED BY <1>2, <1>3, <1>4, <1>6 DEF FcgiInv

LEMMA evCloseStep ==
  ASSUME FcgiInv, NEW c \in Conns, evClose(c)
  PROVE  FcgiInv'
<1>0. Types /\ OnceInv BY DEF FcgiInv
<1>1. con[c] \in Record BY <1>0 DEF Types
<1>2. PICK r \in Record : r = Closed(con[c]) /\ ConOK(r) /\ r.state = "CLOSED" /\ r.pc = "release" /\ r.quest = con[c].quest
  BY <1>1, ClosedIs
<1>3. Set(c, r) /\ UNCHANGED <<trying, cons, idlestack, queue, toShut, picked, arrived, finished>>
  BY <1>2 DEF evClose, poolVars, questVars
<1>4. con'[c] = r /\ \A d \in Conns \ {c} : con'[d] = con[d] BY <1>0, <1>3, SetIs
<1>5. OnceInv' BY <1>0, <1>2, <1>3, <1>4, OnceKept
<1>6. Resting(r) BY <1>2 DEF Resting
<1>7. Serving(c)' /\ ~Open(c)' BY <1>2, <1>4 DEF Serving, Free, Open
<1>8. /\ toShut' \subseteq Conns /\ queue' \in Seq(Quests) /\ finished' \in [Quests -> Nat]
  BY <1>0, <1>3 DEF Types
<1> QED BY <1>2, <1>3, <1>5, <1>6, <1>7, <1>8, OneChanged

LEMMA evErrorStep ==
  ASSUME FcgiInv, NEW c \in Conns, NEW bytes \in BOOLEAN, evError(c, bytes)
  PROVE  FcgiInv'
<1>0. Types /\ OnceInv BY DEF FcgiInv
<1>1. con[c] \in Record BY <1>0 DEF Types
<1>2. UNCHANGED <<trying, cons, idlestack, queue, toShut, picked, arrived>> BY DEF evError, poolVars
<1>3. \/ Set(c, Closed(con[c])) /\ UNCHANGED finished
      \/ Set(c, Closed([con[c] EXCEPT !.quest = None])) /\ Finish({con[c].quest})
  BY DEF evError
<1>4. toShut' \subseteq Conns /\ queue' \in Seq(Quests) BY <1>0, <1>2 DEF Types
<1>5. CASE Set(c, Closed(con[c])) /\ UNCHANGED finished
  <2>2. PICK r \in Record : r = Closed(con[c]) /\ ConOK(r) /\ r.state = "CLOSED" /\ r.pc = "release" /\ r.quest = con[c].quest
    BY <1>1, ClosedIs
  <2>3. Set(c, r) BY <1>5, <2>2
  <2>4. con'[c] = r /\ \A d \in Conns \ {c} : con'[d] = con[d] BY <1>0, <2>3, SetIs
  <2>5. OnceInv' BY <1>0, <1>2, <1>5, <2>2, <2>4, OnceKept
  <2>6. Resting(r) BY <2>2 DEF Resting
  <2>7. Serving(c)' /\ ~Open(c)' BY <2>2, <2>4 DEF Serving, Free, Open
  <2>8. finished' \in [Quests -> Nat] BY <1>0, <1>5 DEF Types
  <2> QED BY <1>2, <1>4, <2>2, <2>3, <2>5, <2>6, <2>7, <2>8, OneChanged
<1>6. CASE Set(c, Closed([con[c] EXCEPT !.quest = None])) /\ Finish({con[c].quest})
  <2>1. PICK v : v = [con[c] EXCEPT !.quest = None] OBVIOUS
  <2>2. v \in Record /\ v.quest = None BY <1>1, <2>1 DEF Record
  <2>3. PICK r \in Record : r = Closed(v) /\ ConOK(r) /\ r.state = "CLOSED" /\ r.pc = "release" /\ r.quest = None
    BY <2>2, ClosedIs
  <2>4. Set(c, r) BY <1>6, <2>1, <2>3
  <2>5. con'[c] = r /\ \A d \in Conns \ {c} : con'[d] = con[d] BY <1>0, <2>4, SetIs
  <2>6. OnceInv' BY <1>0, <1>2, <1>6, <2>3, <2>5, OnceFinished
  <2>7. Resting(r) BY <2>3 DEF Resting
  <2>8. Serving(c)' /\ ~Open(c)' BY <2>3, <2>5 DEF Serving, Free, Open
  <2>9. finished' \in [Quests -> Nat] BY <1>0, <1>6, FinishType
  <2> QED BY <1>2, <1>4, <2>3, <2>4, <2>6, <2>7, <2>8, <2>9, OneChanged
<1> QED BY <1>3, <1>5, <1>6

LEMMA evAnswerStep ==
  ASSUME FcgiInv, NEW c \in Conns, evAnswer(c)
  PROVE  FcgiInv'
<1>0. Types /\ OnceInv /\ ConInv BY DEF FcgiInv
<1>1. con[c] \in Record /\ ConOK(con[c]) /\ con[c].state = "READ" BY <1>0 DEF Types, ConInv, evAnswer
<1>2. PICK v : v = [con[c] EXCEPT !.quest = None, !.state = "IDLE", !.reqseq = @ + 1] OBVIOUS
<1>3. con[c].reqseq \in 0..ReqMax /\ con[c].reqseq < ReqMax BY <1>1 DEF Record, ConOK
<1>4. con[c].reqseq + 1 \in 0..ReqMax BY <1>3, FcgiAssumption
<1>5. v \in Record /\ v.quest = None /\ v.state = "IDLE" /\ v.armed = con[c].armed /\ v.popped = con[c].popped
  BY <1>1, <1>2, <1>4 DEF Record
<1>6. PICK r : r = IF v.reqseq >= ReqMax THEN Closed(v) ELSE [v EXCEPT !.pc = "next"] OBVIOUS
<1>7. Set(c, r) /\ Finish({con[c].quest}) /\ UNCHANGED <<trying, cons, idlestack, queue, toShut, picked, arrived>>
  BY <1>2, <1>6 DEF evAnswer, poolVars
<1>8. r \in Record /\ ConOK(r) /\ r.quest = None /\ r.pc \in {"next", "release"}
  <2>1. CASE v.reqseq >= ReqMax BY <1>5, <1>6, <2>1, ClosedIs
  <2>2. CASE ~(v.reqseq >= ReqMax)
    <3>1. v.reqseq \in 0..ReqMax BY <1>5 DEF Record
    <3>2. v.reqseq < ReqMax BY <2>2, <3>1, FcgiAssumption
    <3>3. r = [v EXCEPT !.pc = "next"] BY <1>6, <2>2
    <3>4. r \in Record /\ r.quest = None /\ r.state = "IDLE" /\ r.pc = "next" /\ r.reqseq = v.reqseq
      BY <1>5, <3>3 DEF Record
    <3>5. r.armed = con[c].armed /\ r.popped = con[c].popped BY <1>5, <3>3 DEF Record
    <3>6. con[c].armed \/ con[c].popped BY <1>1 DEF ConOK, Busy
    <3> QED BY <3>2, <3>4, <3>5, <3>6 DEF ConOK
  <2> QED BY <2>1, <2>2
<1>9. con'[c] = r /\ \A d \in Conns \ {c} : con'[d] = con[d] BY <1>0, <1>7, <1>8, SetIs
<1>10. OnceInv' BY <1>0, <1>7, <1>8, <1>9, OnceFinished
<1>11. ~Resting(con[c]) BY <1>1 DEF Resting
<1>12. Serving(c)' BY <1>8, <1>9 DEF Serving, Free
<1>13. Open(c)' => c \in cons \cup toShut' \/ r.shut
  <2>1. c \in cons \cup toShut \/ con[c].shut BY <1>1 DEF FcgiInv, ServeInv, Open
  <2>2. Open(c)' => r = [v EXCEPT !.pc = "next"] BY <1>5, <1>6, <1>9, ClosedIs DEF Open
  <2>3. Open(c)' => r.shut = con[c].shut BY <1>1, <1>2, <1>5, <2>2 DEF Record
  <2> QED BY <1>7, <2>1, <2>3
<1>14. toShut' \subseteq Conns /\ queue' \in Seq(Quests) BY <1>0, <1>7 DEF Types
<1>15. finished' \in [Quests -> Nat] BY <1>0, <1>7, FinishType
<1> QED BY <1>7, <1>8, <1>10, <1>11, <1>12, <1>13, <1>14, <1>15, OneChanged

LEMMA conShutdownStep ==
  ASSUME FcgiInv, NEW c \in Conns, conShutdown(c)
  PROVE  FcgiInv'
<1>0. Types /\ OnceInv /\ ConInv /\ ServeInv BY DEF FcgiInv
<1>1. con[c] \in Record /\ ConOK(con[c]) BY <1>0 DEF Types, ConInv
<1>2. PICK b \in BOOLEAN : b <=> Open(c) OBVIOUS
<1>3. PICK r : r = [con[c] EXCEPT !.shut = b] OBVIOUS
<1>4. Set(c, r) /\ toShut' = toShut \ {c} /\ UNCHANGED <<trying, cons, idlestack, queue, picked, arrived, finished>>
  <2>1. b = Open(c) BY <1>2 DEF Open
  <2> QED BY <1>3, <2>1 DEF conShutdown, questVars
<1>5. /\ r \in Record /\ r.quest = con[c].quest /\ r.state = con[c].state /\ r.pc = con[c].pc
      /\ r.armed = con[c].armed /\ r.popped = con[c].popped /\ r.reqseq = con[c].reqseq
  BY <1>1, <1>3 DEF Record
<1>6. r.shut <=> b BY <1>1, <1>3 DEF Record
<1>7. ConOK(r) BY <1>1, <1>5 DEF ConOK, Busy
<1>8. con'[c] = r /\ \A d \in Conns \ {c} : con'[d] = con[d] BY <1>0, <1>4, <1>5, SetIs
<1>9. OnceInv' BY <1>0, <1>4, <1>5, <1>8, OnceKept
<1>10. Resting(con[c]) => Resting(r) BY <1>5 DEF Resting
<1>11. Open(c)' => r.shut BY <1>2, <1>5, <1>6, <1>8 DEF Open
<1>12. Serving(c) => Serving(c)' BY <1>2, <1>4, <1>5, <1>6, <1>8 DEF Serving, Free, Open, Ok
<1>13. toShut' \subseteq Conns /\ queue' \in Seq(Quests) /\ finished' \in [Quests -> Nat] BY <1>0, <1>4 DEF Types
<1> QED BY <1>4, <1>5, <1>7, <1>9, <1>10, <1>11, <1>12, <1>13, OneChanged

LEMMA popTaskStep ==
  ASSUME FcgiInv, NEW c \in Conns, popTask(c)
  PROVE  FcgiInv'
<1>0. Types /\ OnceInv /\ ConInv /\ ServeInv BY DEF FcgiInv
<1>1. con[c] \in Record /\ ConOK(con[c]) BY <1>0 DEF Types, ConInv
<1>2. PICK r : r = [con[c] EXCEPT !.armed = FALSE, !.popped = TRUE] OBVIOUS
<1>3. Set(c, r) /\ UNCHANGED <<trying, cons, idlestack, queue, toShut, picked, arrived, finished>>
  BY <1>2 DEF popTask, poolVars, questVars
<1>4. /\ r \in Record /\ r.quest = con[c].quest /\ r.state = con[c].state /\ r.pc = con[c].pc
      /\ r.reqseq = con[c].reqseq
  BY <1>1, <1>2 DEF Record
<1>5. r.popped /\ (r.shut <=> con[c].shut) BY <1>1, <1>2 DEF Record
<1>6. ConOK(r) BY <1>1, <1>4, <1>5 DEF ConOK
<1>7. con'[c] = r /\ \A d \in Conns \ {c} : con'[d] = con[d] BY <1>0, <1>3, <1>4, SetIs
<1>8. OnceInv' BY <1>0, <1>3, <1>4, <1>7, OnceKept
<1>9. Resting(con[c]) => Resting(r) BY <1>4 DEF Resting
<1>10. Open(c)' => c \in cons \cup toShut' \/ r.shut BY <1>0, <1>3, <1>4, <1>5, <1>7 DEF Open, ServeInv
<1>11. Serving(c) => Serving(c)' BY <1>3, <1>4, <1>5, <1>7 DEF Serving, Free, Open, Ok
<1>12. toShut' \subseteq Conns /\ queue' \in Seq(Quests) /\ finished' \in [Quests -> Nat] BY <1>0, <1>3 DEF Types
<1> QED BY <1>3, <1>4, <1>6, <1>8, <1>9, <1>10, <1>11, <1>12, OneChanged

LEMMA event_on_taskStep ==
  ASSUME FcgiInv, NEW c \in Conns, event_on_task(c)
  PROVE  FcgiInv'
<1>0. Types /\ OnceInv /\ ConInv /\ ServeInv BY DEF FcgiInv
<1>1. con[c] \in Record /\ ConOK(con[c]) /\ con[c].pc = "free" BY <1>0 DEF Types, ConInv, event_on_task, Free
<1>2. PICK v : v = [con[c] EXCEPT !.popped = FALSE, !.quest = None] OBVIOUS
<1>3. /\ v \in Record /\ v.quest = None /\ v.state = con[c].state /\ v.pc = con[c].pc /\ v.reqseq = con[c].reqseq
  BY <1>1, <1>2 DEF Record
<1>4. PICK r : r = IF Open(c) THEN Closed(v) ELSE v OBVIOUS
<1>5. Set(c, r) /\ Finish({con[c].quest}) /\ UNCHANGED <<trying, cons, idlestack, queue, toShut, picked, arrived>>
  BY <1>2, <1>4 DEF event_on_task, poolVars
<1>6. /\ r \in Record /\ ConOK(r) /\ r.quest = None
      /\ IF Open(c) THEN r.state = "CLOSED" /\ r.pc = "release" ELSE r.state = con[c].state /\ r.pc = con[c].pc
  <2>1. CASE Open(c) BY <1>3, <1>4, <2>1, ClosedIs
  <2>2. CASE ~Open(c)
    <3>1. r = v BY <1>4, <2>2
    <3>2. v.reqseq < ReqMax BY <1>1, <1>3 DEF ConOK
    <3> QED BY <1>1, <1>3, <2>2, <3>1, <3>2 DEF ConOK, Busy, Open
  <2> QED BY <2>1, <2>2
<1>7. con'[c] = r /\ \A d \in Conns \ {c} : con'[d] = con[d] BY <1>0, <1>5, <1>6, SetIs
<1>8. OnceInv' BY <1>0, <1>5, <1>6, <1>7, OnceFinished
<1>9. Resting(con[c]) => Resting(r) BY <1>6 DEF Resting
<1>10. ~Open(c)' BY <1>6, <1>7 DEF Open
<1>11. Serving(c) => Serving(c)'
  <2>1. CASE Open(c) BY <1>6, <1>7, <2>1 DEF Serving, Free
  <2>2. CASE ~Open(c) BY <1>1, <1>5, <1>6, <1>7, <2>2 DEF Serving, Free, Open, Ok
  <2> QED BY <2>1, <2>2
<1>12. toShut' \subseteq Conns /\ queue' \in Seq(Quests) BY <1>0, <1>5 DEF Types
<1>13. finished' \in [Quests -> Nat] BY <1>0, <1>5, FinishType
<1> QED BY <1>5, <1>6, <1>8, <1>9, <1>10, <1>11, <1>12, <1>13, OneChanged

LEMMA _new_connectionStep ==
  ASSUME FcgiInv, NEW c \in Conns, _new_connection(c)
  PROVE  FcgiInv'
<1>0. Types /\ OnceInv /\ ConInv /\ ServeInv /\ StackInv /\ PickInv BY DEF FcgiInv
<1>1. /\ con[c] \in Record /\ ConOK(con[c]) /\ con[c].state = "CLOSED" /\ con[c].pc = "free"
      /\ c \notin ToSet(idlestack) /\ \A q \in Quests : picked[q] # c
  BY <1>0 DEF Types, ConInv, _new_connection, Unused
<1>2. PICK r : r = [Fresh EXCEPT !.state = "CONNECT", !.armed = TRUE] OBVIOUS
<1>3. /\ Set(c, r) /\ cons' = cons \cup {c}
      /\ UNCHANGED <<idlestack, queue, toShut, picked, arrived, finished>>
  BY <1>2 DEF _new_connection, questVars, Set
<1>4. r.state = "CONNECT" /\ r.quest = None /\ r.pc = "free" /\ r.armed /\ r.reqseq = Fresh.reqseq
  BY <1>2 DEF Fresh
<1>5. r \in Record BY <1>2, FreshIs DEF Record
<1>6. ConOK(r) BY <1>4, FreshIs DEF ConOK
<1>7. con' \in [Conns -> Record] /\ con'[c] = r /\ \A d \in Conns \ {c} : con'[d] = con[d]
  BY <1>0, <1>3, <1>5, SetIs
<1>8. con[c].quest = None BY <1>1 DEF ConOK
<1>9. Types'
  <2>1. cons' \subseteq Conns BY <1>0, <1>3 DEF Types
  <2> QED BY <1>0, <1>3, <1>7, <2>1 DEF Types
<1>10. ConInv' BY <1>0, <1>6, <1>7 DEF ConInv
<1>11. c \notin Range(idlestack) BY <1>1 DEF ToSet, Range
<1>12. StackInv' /\ PickInv' BY <1>0, <1>1, <1>3, <1>7, <1>11, OneRests
<1>13. \A d \in Conns : con'[d].quest = con[d].quest BY <1>4, <1>7, <1>8
<1>14. OnceInv' BY <1>0, <1>3, <1>13, OnceKept
<1>15. Serving(c)' BY <1>4, <1>7 DEF Serving
<1>16. ServeInv'
  <2>1. ASSUME NEW d \in Conns \ {c}, Serving(d) PROVE Serving(d)'
    BY <1>3, <1>7, <2>1, ServingKept
  <2>2. \A d \in cons' : Serving(d)'
    <3>1. cons \subseteq Conns BY <1>0 DEF Types
    <3> QED BY <1>0, <1>3, <1>15, <2>1, <3>1 DEF ServeInv
  <2>3. ASSUME NEW d \in Conns, Open(d)' PROVE d \in cons' \cup toShut' \/ con'[d].shut
    <3>1. CASE d = c BY <1>3, <3>1
    <3>2. CASE d # c
      <4>1. con'[d] = con[d] BY <1>7, <3>2
      <4>2. Open(d) BY <2>3, <4>1 DEF Open
      <4>3. d \in cons \cup toShut \/ con[d].shut BY <1>0, <4>2 DEF ServeInv
      <4> QED BY <1>3, <4>1, <4>3
    <3> QED BY <3>1, <3>2
  <2> QED BY <1>15, <2>2, <2>3 DEF ServeInv
<1> QED BY <1>9, <1>10, <1>12, <1>14, <1>16 DEF FcgiInv

-----------------------------------------------------------------------------
(* getQuestOrPutback(). *)

\* c gets the first quest that waits.
LEMMA OnceGiven ==
  ASSUME Types, OnceInv, NEW c \in Conns, queue # <<>>, queue' = Tail(queue), con[c].quest = None,
         con'[c].quest = Head(queue), \A d \in Conns \ {c} : con'[d].quest = con[d].quest,
         UNCHANGED <<picked, arrived, finished>>
  PROVE  OnceInv'
<1> SUFFICES ASSUME NEW q \in Quests PROVE OnceFor(con', queue', picked, finished, arrived, q)
  BY DEF OnceInv
<1>0. q # None BY FcgiAssumption
<1>1. OnceFor(con, queue, picked, finished, arrived, q) BY DEF OnceInv
<1>2. OnceIn(queue, q) BY <1>1 DEF OnceFor
<1>3. queue \in Seq(Quests) BY DEF Types
<1>4. OnceIn(queue', q) /\ (q = Head(queue) => q \in Range(queue) /\ q \notin Range(queue'))
  BY <1>2, <1>3, Shrunk
<1>5. CASE q = Head(queue)
  <2>1. ~HeldIn(con, q) /\ picked[q] = None /\ finished[q] = 0 BY <1>1, <1>4, <1>5 DEF OnceFor
  <2>2. HeldIn(con', q) /\ HeldOnce(con', q) BY <1>5, <2>1, HeldTaken
  <2>3. q \in arrived BY <1>1, <1>4, <1>5 DEF OnceFor
  <2> QED BY <1>4, <1>5, <2>1, <2>2, <2>3 DEF OnceFor
<1>6. CASE q # Head(queue)
  <2>1. \A d \in Conns : con'[d].quest = q <=> con[d].quest = q BY <1>0, <1>6
  <2>2. q \in Range(queue') <=> q \in Range(queue) BY <1>3, <1>6, Shrunk
  <2> QED BY <1>1, <1>4, <2>1, <2>2, OnceSame
<1> QED BY <1>5, <1>6

\* c, which is not on the stack, is pushed.
LEMMA Pushed ==
  ASSUME Types, StackInv, PickInv, NEW c \in Conns, idlestack' = Append(idlestack, c), UNCHANGED picked,
         ~Resting(con[c]), Resting(con'[c]), \A d \in Conns \ {c} : con'[d] = con[d]
  PROVE  StackInv' /\ PickInv'
<1>1. /\ Len(idlestack) \in Nat /\ DOMAIN idlestack = 1..Len(idlestack)
      /\ \A i \in 1..Len(idlestack) : idlestack[i] \in Conns
  BY DEF Types
<1>2. /\ DOMAIN idlestack' = 1..(Len(idlestack) + 1) /\ idlestack'[Len(idlestack) + 1] = c
      /\ \A i \in 1..Len(idlestack) : idlestack'[i] = idlestack[i]
  BY <1>1 DEF Types
<1>3. \A i \in DOMAIN idlestack' : i = Len(idlestack) + 1 \/ (i \in DOMAIN idlestack /\ idlestack'[i] = idlestack[i])
  BY <1>1, <1>2
<1>4. \A i \in DOMAIN idlestack : idlestack[i] # c BY DEF StackInv
<1>5. \A q \in Quests : picked[q] # c
  <2>1. c # None BY FcgiAssumption
  <2> QED BY <2>1 DEF PickInv
<1>6. \A i, j \in DOMAIN idlestack' : idlestack'[i] = idlestack'[j] => i = j
  BY <1>2, <1>3, <1>4 DEF StackInv
<1>7. \A i \in DOMAIN idlestack' : Resting(con'[idlestack'[i]]) /\ \A q \in Quests : picked[q] # idlestack'[i]
  <2> SUFFICES ASSUME NEW i \in DOMAIN idlestack'
               PROVE  Resting(con'[idlestack'[i]]) /\ \A q \in Quests : picked[q] # idlestack'[i]
    OBVIOUS
  <2>1. CASE i = Len(idlestack) + 1 BY <1>2, <1>5, <2>1
  <2>2. CASE i \in DOMAIN idlestack /\ idlestack'[i] = idlestack[i]
    <3>1. idlestack[i] \in Conns \ {c} BY <1>1, <1>4, <2>2
    <3>2. con'[idlestack[i]] = con[idlestack[i]] BY <3>1
    <3> QED BY <2>2, <3>2 DEF StackInv
  <2> QED BY <1>3, <2>1, <2>2
<1>8. \A q \in Quests : picked[q] # None => Resting(con'[picked[q]])
  <2>1. \A q \in Quests : picked[q] # None => picked[q] \in Conns \ {c} BY <1>5 DEF Types
  <2> QED BY <2>1 DEF PickInv
<1>9. \A p, q \in Quests : picked[p] = picked[q] /\ picked[p] # None => p = q BY DEF PickInv
<1> QED BY <1>6, <1>7, <1>8, <1>9 DEF StackInv, PickInv

\* Nobody waits: c becomes idle.
LEMMA Idles ==
  ASSUME FcgiInv, NEW c \in Conns, NEW r \in Record, Set(c, r), ConOK(r), r.quest = con[c].quest,
         r.state = "IDLE", r.pc = "free", r.shut = con[c].shut, shut => r.armed \/ r.popped,
         ~Resting(con[c]), Open(c),
         queue = <<>>, idlestack' = (IF ~shut THEN Append(idlestack, c) ELSE idlestack),
         UNCHANGED <<trying, queue, cons, toShut, picked, arrived, finished>>
  PROVE  FcgiInv'
<1>0. Types /\ ConInv /\ StackInv /\ PickInv /\ OnceInv /\ ServeInv BY DEF FcgiInv
<1>1. con' \in [Conns -> Record] /\ con'[c] = r /\ \A d \in Conns \ {c} : con'[d] = con[d]
  BY <1>0, SetIs
<1>2. Resting(con'[c]) BY <1>1 DEF Resting
<1>3. StackInv' /\ PickInv'
  <2>1. CASE ~shut BY <1>0, <1>1, <1>2, <2>1, Pushed
  <2>2. CASE shut BY <1>0, <1>1, <1>2, <2>2, OneRests
  <2> QED BY <2>1, <2>2
<1>4. idlestack' \in Seq(Conns) /\ \A x \in Range(idlestack) : x \in Range(idlestack')
  <2>1. idlestack \in Seq(Conns) BY <1>0 DEF Types
  <2>2. CASE ~shut
    <3>1. PICK z : z = idlestack' OBVIOUS
    <3>2. z = Append(idlestack, c) \/ z = <<c>> \o idlestack BY <2>2, <3>1
    <3>3. z \in Seq(Conns) /\ \A x \in Range(idlestack) : x \in Range(z) BY <2>1, <3>2, Grown
    <3> QED BY <3>1, <3>3
  <2>3. CASE shut BY <2>1, <2>3
  <2> QED BY <2>2, <2>3
<1>5. Types' BY <1>0, <1>1, <1>4 DEF Types
<1>6. ConInv' BY <1>0, <1>1 DEF ConInv
<1>7. OnceInv' BY <1>0, <1>1, OnceKept
<1>8. Serving(c)'
  <2>1. Open(c)' /\ con'[c].state = "IDLE" BY <1>1 DEF Open
  <2>2. CASE shut BY <1>1, <2>1, <2>2 DEF Serving
  <2>3. CASE con[c].shut BY <1>1, <2>1, <2>3 DEF Serving
  <2>4. CASE ~shut /\ ~con[c].shut
    <3>1. idlestack \in Seq(Conns) BY <1>0 DEF Types
    <3>2. PICK z : z = idlestack' OBVIOUS
    <3>3. z = Append(idlestack, c) \/ z = <<c>> \o idlestack BY <2>4, <3>2
    <3>4. c \in Range(z) BY <3>1, <3>3, Grown
    <3>5. c \in Range(idlestack') BY <3>2, <3>4
    <3> QED BY <1>1, <2>1, <2>4, <3>5 DEF Serving, Ok
  <2> QED BY <2>2, <2>3, <2>4
<1>9. Open(c)' => c \in cons \cup toShut' \/ con'[c].shut BY <1>0, <1>1 DEF ServeInv
<1>10. cons \subseteq Conns BY <1>0 DEF Types
<1>11. ServeInv' BY <1>0, <1>1, <1>4, <1>8, <1>9, <1>10, OneServes
<1> QED BY <1>3, <1>5, <1>6, <1>7, <1>11 DEF FcgiInv

LEMMA evWritableStep ==
  ASSUME FcgiInv, NEW c \in Conns, evWritable(c)
  PROVE  FcgiInv'
<1>0. Types /\ OnceInv /\ ConInv /\ ServeInv BY DEF FcgiInv
<1>1. /\ con[c] \in Record /\ ConOK(con[c]) /\ con[c].pc = "free" /\ con[c].state \in {"CONNECT", "WRITE"}
  BY <1>0 DEF Types, ConInv, evWritable, Free
<1>2. con[c].reqseq < ReqMax /\ (con[c].armed \/ con[c].popped) BY <1>1 DEF ConOK, Busy
<1>3. UNCHANGED <<trying, cons, toShut, picked, arrived, finished>> BY DEF evWritable, questVars
<1>4. ~Resting(con[c]) /\ Open(c) BY <1>1 DEF Resting, Open
<1>5. queue \in Seq(Quests) /\ toShut \subseteq Conns /\ finished \in [Quests -> Nat] BY <1>0 DEF Types
<1>6. c \in cons \cup toShut \/ con[c].shut BY <1>0, <1>4 DEF ServeInv
<1>7. CASE con[c].state = "WRITE"
  <2>1. PICK r \in Written(con[c]) : Set(c, r) /\ UNCHANGED <<idlestack, queue>> BY <1>7 DEF evWritable
  <2>2. /\ r \in Record /\ r.quest = con[c].quest /\ r.reqseq < ReqMax
        /\ \/ r.state \in {"READ", "WRITE"} /\ r.pc = "free" /\ r.armed = con[c].armed /\ r.popped = con[c].popped
           \/ r.state = "CLOSED" /\ r.pc = "release"
    BY <1>1, <1>2, WrittenIs
  <2>3. ConOK(r) BY <1>2, <2>2 DEF ConOK, Busy
  <2>4. con'[c] = r /\ \A d \in Conns \ {c} : con'[d] = con[d] BY <1>0, <2>1, <2>2, SetIs
  <2>5. OnceInv' BY <1>0, <1>3, <2>1, <2>2, <2>4, OnceKept
  <2>6. Serving(c)' BY <2>2, <2>4 DEF Serving, Free
  <2>7. Open(c)' => c \in cons \cup toShut \/ r.shut
    <3>1. r.state # "CLOSED" => r.shut = con[c].shut
      BY <1>1, <2>1, ClosedIs DEF Written, Closed, Record
    <3> QED BY <1>6, <2>4, <3>1 DEF Open
  <2> QED BY <1>3, <1>4, <1>5, <2>1, <2>2, <2>3, <2>5, <2>6, <2>7, OneChanged
<1>8. CASE con[c].state = "CONNECT" /\ queue # <<>>
  <2>1. Head(queue) \in Quests /\ Tail(queue) \in Seq(Quests) BY <1>5, <1>8
  <2>2. Head(queue) # None BY <2>1, FcgiAssumption
  <2>3. NextQuest = Head(queue) BY <1>8 DEF NextQuest
  <2>4. queue' = Tail(queue) /\ idlestack' = idlestack BY <1>8 DEF evWritable, getQuestOrPutback
  <2>5. PICK v : v = [con[c] EXCEPT !.quest = Head(queue), !.armed = TRUE] OBVIOUS
  <2>6. v \in Record /\ v.quest = Head(queue) /\ v.pc = "free" /\ v.reqseq < ReqMax /\ v.shut = con[c].shut
    BY <1>1, <1>2, <2>1, <2>5 DEF Record
  <2>7. v.armed BY <1>1, <2>5 DEF Record
  <2>8. PICK r \in Written(v) : Set(c, r) BY <1>8, <2>2, <2>3, <2>5 DEF evWritable
  <2>9. /\ r \in Record /\ r.quest = Head(queue) /\ r.reqseq < ReqMax
        /\ \/ r.state \in {"READ", "WRITE"} /\ r.pc = "free" /\ r.armed = v.armed
           \/ r.state = "CLOSED" /\ r.pc = "release"
    BY <2>6, WrittenIs
  <2>10. ConOK(r) BY <2>7, <2>9 DEF ConOK, Busy
  <2>11. con'[c] = r /\ \A d \in Conns \ {c} : con'[d] = con[d] BY <1>0, <2>8, <2>9, SetIs
  <2>12. con[c].quest = None BY <1>1, <1>8 DEF ConOK
  <2>13. OnceInv' BY <1>0, <1>3, <1>8, <2>4, <2>9, <2>11, <2>12, OnceGiven
  <2>14. Serving(c)' BY <2>9, <2>11 DEF Serving, Free
  <2>15. Open(c)' => c \in cons \cup toShut \/ r.shut
    <3>1. r.state # "CLOSED" => r.shut = v.shut
      BY <2>6, <2>8, ClosedIs DEF Written, Closed, Record
    <3> QED BY <1>6, <2>6, <2>11, <3>1 DEF Open
  <2> QED BY <1>3, <1>4, <1>5, <2>1, <2>4, <2>8, <2>9, <2>10, <2>13, <2>14, <2>15, OneChanged
<1>9. CASE con[c].state = "CONNECT" /\ queue = <<>>
  <2>1. NextQuest = None BY <1>9 DEF NextQuest
  <2>2. PICK b \in BOOLEAN : b <=> con[c].armed /\ shut OBVIOUS
  <2>3. PICK r : r = [con[c] EXCEPT !.state = "IDLE", !.armed = b] OBVIOUS
  <2>4. Set(c, r)
    <3>1. b = (con[c].armed /\ shut) BY <2>2
    <3> QED BY <1>9, <2>1, <2>3, <3>1 DEF evWritable
  <2>5. queue' = queue /\ idlestack' = (IF ~shut THEN Append(idlestack, c) ELSE idlestack)
    BY <1>9 DEF evWritable, getQuestOrPutback
  <2>6. /\ r \in Record /\ r.quest = con[c].quest /\ r.state = "IDLE" /\ r.pc = "free" /\ r.shut = con[c].shut
        /\ r.popped = con[c].popped /\ r.reqseq = con[c].reqseq
    BY <1>1, <2>3 DEF Record
  <2>7. r.armed <=> b BY <1>1, <2>3 DEF Record
  <2>8. ConOK(r) BY <1>1, <1>2, <1>9, <2>6 DEF ConOK, Busy
  <2>9. shut => r.armed \/ r.popped BY <1>2, <2>2, <2>6, <2>7
  <2> QED BY <1>3, <1>4, <1>9, <2>4, <2>5, <2>6, <2>8, <2>9, Idles
<1> QED BY <1>1, <1>7, <1>8, <1>9

LEMMA nextStep ==
  ASSUME FcgiInv, NEW c \in Conns, next(c)
  PROVE  FcgiInv'
<1>0. Types /\ OnceInv /\ ConInv /\ ServeInv BY DEF FcgiInv
<1>1. con[c] \in Record /\ ConOK(con[c]) /\ con[c].pc = "next" BY <1>0 DEF Types, ConInv, next
<1>2. con[c].reqseq < ReqMax /\ (con[c].armed \/ con[c].popped) /\ con[c].state = "IDLE" /\ con[c].quest = None
  BY <1>1 DEF ConOK, Busy
<1>3. UNCHANGED <<trying, cons, toShut, picked, arrived, finished>> BY DEF next, questVars
<1>4. ~Resting(con[c]) /\ Open(c) BY <1>1, <1>2 DEF Resting, Open
<1>5. queue \in Seq(Quests) /\ toShut \subseteq Conns /\ finished \in [Quests -> Nat] BY <1>0 DEF Types
<1>6. c \in cons \cup toShut \/ con[c].shut BY <1>0, <1>4 DEF ServeInv
<1>7. CASE queue # <<>>
  <2>1. Head(queue) \in Quests /\ Tail(queue) \in Seq(Quests) BY <1>5, <1>7
  <2>2. Head(queue) # None BY <2>1, FcgiAssumption
  <2>3. NextQuest = Head(queue) BY <1>7 DEF NextQuest
  <2>4. queue' = Tail(queue) /\ idlestack' = idlestack BY <1>7 DEF next, getQuestOrPutback
  <2>5. PICK r \in Operated(con[c], Head(queue)) : Set(c, r) BY <2>2, <2>3 DEF next
  <2>6. r \in Record /\ ConOK(r) /\ r.quest = Head(queue) /\ (r.state \in {"READ", "WRITE"} \/ r.pc = "release")
    BY <1>1, <1>2, <2>1, OperatedIs
  <2>7. con'[c] = r /\ \A d \in Conns \ {c} : con'[d] = con[d] BY <1>0, <2>5, <2>6, SetIs
  <2>8. OnceInv' BY <1>0, <1>2, <1>3, <1>7, <2>4, <2>6, <2>7, OnceGiven
  <2>9. Serving(c)' BY <2>6, <2>7 DEF Serving, Free
  <2>10. Open(c)' => c \in cons \cup toShut \/ r.shut
    <3>1. r.state # "CLOSED" => r.shut = con[c].shut BY <1>1, <2>1, OperatedShut
    <3> QED BY <1>6, <2>7, <3>1 DEF Open
  <2> QED BY <1>3, <1>4, <1>5, <2>1, <2>4, <2>5, <2>6, <2>8, <2>9, <2>10, OneChanged
<1>8. CASE queue = <<>>
  <2>1. NextQuest = None BY <1>8 DEF NextQuest
  <2>2. PICK b \in BOOLEAN : b <=> con[c].armed /\ shut OBVIOUS
  <2>3. PICK r : r = [con[c] EXCEPT !.pc = "free", !.armed = b] OBVIOUS
  <2>4. Set(c, r)
    <3>1. b = (con[c].armed /\ shut) BY <2>2
    <3> QED BY <2>1, <2>3, <3>1 DEF next
  <2>5. queue' = queue /\ idlestack' = (IF ~shut THEN Append(idlestack, c) ELSE idlestack)
    BY <1>8 DEF next, getQuestOrPutback
  <2>6. /\ r \in Record /\ r.quest = con[c].quest /\ r.state = "IDLE" /\ r.pc = "free" /\ r.shut = con[c].shut
        /\ r.popped = con[c].popped /\ r.reqseq = con[c].reqseq
    BY <1>1, <1>2, <2>3 DEF Record
  <2>7. r.armed <=> b BY <1>1, <2>3 DEF Record
  <2>8. ConOK(r) BY <1>1, <1>2, <2>6 DEF ConOK, Busy
  <2>9. shut => r.armed \/ r.popped BY <1>2, <2>2, <2>6, <2>7
  <2> QED BY <1>3, <1>4, <1>8, <2>4, <2>5, <2>6, <2>8, <2>9, Idles
<1> QED BY <1>7, <1>8

-----------------------------------------------------------------------------
(* releaseClosed(). *)

\* The quests of s, given connections k, are queued or are all finished.
LEMMA OnceFilled ==
  ASSUME NEW k, NEW s, NEW p, NEW a, \A q \in Quests : OnceFor(k, s, p, finished, a, q),
         \A d \in Conns : con'[d].quest = k[d].quest,
         (queue' = s /\ UNCHANGED finished) \/ (queue' = <<>> /\ Finish(ToSet(s))),
         picked' = p, arrived' = a
  PROVE  OnceInv'
<1> SUFFICES ASSUME NEW q \in Quests PROVE OnceFor(con', queue', picked', finished', arrived', q)
  BY DEF OnceInv
<1>1. PICK k2 : k2 = con' OBVIOUS
<1>2. OnceFor(k, s, p, finished, a, q) /\ \A d \in Conns : k2[d].quest = k[d].quest BY <1>1
<1>3. CASE queue' = s /\ UNCHANGED finished
  <2>1. OnceIn(s, q) BY <1>2 DEF OnceFor
  <2>2. OnceFor(k2, s, p, finished, a, q) BY <1>2, <2>1, OnceSame
  <2> QED BY <1>1, <1>3, <2>2
<1>4. CASE queue' = <<>> /\ Finish(ToSet(s))
  <2>1. OnceFor(k2, <<>>, p, finished', a, q) BY <1>2, <1>4, OnceEmptied
  <2> QED BY <1>1, <1>4, <2>1
<1> QED BY <1>3, <1>4

\* What releaseClosed() does to the queue s when left stay.
LEMMA ReleasedIs ==
  ASSUME Types, CountInv, NEW left \in SUBSET Conns, NEW s \in Seq(Quests), NEW n \in Nat, released(left, s, n)
  PROVE  /\ cons' = left /\ trying' \in Nat /\ queue' \in Seq(Quests) /\ finished' \in [Quests -> Nat]
         /\ (queue' = s /\ UNCHANGED finished) \/ (queue' = <<>> /\ Finish(ToSet(s)))
         /\ queue' # <<>> => trying' > 0 \/ left # {}
<1>1. CASE trying' = n /\ queue' = <<>> /\ Finish(ToSet(s))
  <2>1. <<>> \in Seq(Quests) OBVIOUS
  <2>2. finished' \in [Quests -> Nat] BY <1>1, FinishType
  <2>3. cons' = left BY DEF released
  <2> QED BY <1>1, <2>1, <2>2, <2>3
<1>2. CASE queue' = s /\ trying' = n + Room(Cardinality(left), Len(s)) /\ UNCHANGED finished
  <2>1. Cardinality(left) \in Nat /\ (left = {} => Cardinality(left) = 0) BY Sizes
  <2>2. Len(s) \in Nat /\ (s # <<>> => Len(s) # 0) OBVIOUS
  <2>3. PICK m \in Nat : m = Room(Cardinality(left), Len(s)) /\ (m = 0 /\ Len(s) # 0 => Cardinality(left) >= ConMax)
    BY <2>1, <2>2, Rooms
  <2>4. trying' = n + m BY <1>2, <2>3
  <2>5. trying' \in Nat /\ (m # 0 => trying' > 0) BY <2>4
  <2>6. m = 0 /\ s # <<>> => left # {}
    <3>1. ~(0 >= ConMax) BY FcgiAssumption
    <3> QED BY <2>1, <2>2, <2>3, <3>1
  <2>7. cons' = left BY DEF released
  <2>8. finished' \in [Quests -> Nat] BY <1>2 DEF Types
  <2> QED BY <1>2, <2>5, <2>6, <2>7, <2>8
<1> QED BY <1>1, <1>2 DEF released

LEMMA PutBackIs ==
  ASSUME Types, NEW q \in Quests \cup {None}
  PROVE  PutBack(q) \in Seq(Quests)
<1>1. queue \in Seq(Quests) BY DEF Types
<1>2. CASE q = None BY <1>1, <1>2 DEF PutBack
<1>3. CASE q # None
  <2>1. q \in Quests BY <1>3
  <2>2. PutBack(q) = <<q>> \o queue BY <1>3 DEF PutBack
  <2> QED BY <1>1, <2>1, <2>2, Grown
<1> QED BY <1>2, <1>3

\* Those that stay in _cons still serve.
LEMMA LeftServes ==
  ASSUME Types, ServeInv, NEW left \in SUBSET cons, cons' = left,
         \A d \in Conns : con'[d] = con[d] \/ (con[d].state = "CLOSED" /\ con'[d].state = "CLOSED" /\ d \notin left),
         \A d \in cons : d \in left \/ con[d].state = "CLOSED",
         queue' # <<>> => trying' > 0 \/ left # {}, UNCHANGED toShut,
         \A q \in Quests, d \in left : picked[q] = d => picked'[q] = d,
         \A d \in left : d \in Range(idlestack) /\ Ok(d) => d \in Range(idlestack')
  PROVE  ServeInv'
<1>0. left \subseteq Conns BY DEF Types
<1>1. ASSUME NEW d \in left PROVE Serving(d)'
  <2>1. con'[d] = con[d] BY <1>0
  <2>2. Serving(d) BY DEF ServeInv
  <2> QED BY <2>1, <2>2, ServingKept
<1>2. queue' # <<>> => trying' > 0 \/ \E d \in Conns : Serving(d)' BY <1>0, <1>1
<1>3. ASSUME NEW d \in Conns, Open(d)' PROVE d \in left \cup toShut' \/ con'[d].shut
  <2>1. con'[d] = con[d] /\ con[d].state # "CLOSED" BY <1>3 DEF Open
  <2>2. Open(d) BY <1>3, <2>1 DEF Open
  <2> QED BY <2>1, <2>2 DEF ServeInv
<1> QED BY <1>1, <1>2, <1>3 DEF ServeInv

LEMMA releaseStep ==
  ASSUME FcgiInv, CountInv, NEW c \in Conns, release(c)
  PROVE  FcgiInv'
<1>0. Types /\ OnceInv /\ ConInv /\ ServeInv /\ StackInv /\ PickInv BY DEF FcgiInv
<1>1. con[c] \in Record /\ ConOK(con[c]) /\ con[c].pc = "release" /\ con[c].state = "CLOSED"
  BY <1>0 DEF Types, ConInv, release, ConOK
<1>2. PICK k : k = [con EXCEPT ![c].quest = None, ![c].pc = "free"] OBVIOUS
<1>3. PICK g : g = con[c].quest OBVIOUS
<1>4. releaseClosed(c, k, g) /\ UNCHANGED <<idlestack, toShut, arrived, picked>> BY <1>2, <1>3 DEF release
<1>5. PICK r : r = [con[c] EXCEPT !.quest = None, !.pc = "free"] OBVIOUS
<1>6. /\ r \in Record /\ r.quest = None /\ r.pc = "free" /\ r.state = "CLOSED" /\ r.reqseq = con[c].reqseq
  BY <1>1, <1>5 DEF Record
<1>7. k \in [Conns -> Record] /\ k[c] = r /\ \A d \in Conns \ {c} : k[d] = con[d]
  <2>1. con \in [Conns -> Record] BY <1>0 DEF Types
  <2>2. k = [con EXCEPT ![c] = r] BY <1>1, <1>2, <1>5, <2>1 DEF Record
  <2> QED BY <1>6, <2>1, <2>2
<1>8. ConOK(r) BY <1>1, <1>6 DEF ConOK, Busy
<1>9. \A d \in Conns : ConOK(k[d]) BY <1>0, <1>7, <1>8 DEF ConInv
<1>10. g \in Quests \cup {None} BY <1>1, <1>3 DEF Record
<1>11. PICK left \in SUBSET Conns : left = cons \ {c} BY <1>0 DEF Types
<1>12. PICK s \in Seq(Quests) : s = PutBack(g) BY <1>0, <1>10, PutBackIs
<1>13. con' = k /\ released(left, s, 0) BY <1>4, <1>11, <1>12 DEF releaseClosed
<1>14. /\ cons' = left /\ queue' \in Seq(Quests) /\ finished' \in [Quests -> Nat]
       /\ (queue' = s /\ UNCHANGED finished) \/ (queue' = <<>> /\ Finish(ToSet(s)))
       /\ queue' # <<>> => trying' > 0 \/ left # {}
  BY <1>0, <1>13, ReleasedIs
<1>15. Types' BY <1>0, <1>4, <1>7, <1>13, <1>14 DEF Types
<1>16. ConInv' BY <1>9, <1>13 DEF ConInv
<1>17. StackInv' /\ PickInv'
  <2>1. \A d \in Conns : Resting(con[d]) => Resting(con'[d]) BY <1>6, <1>7, <1>13 DEF Resting
  <2>2. \A i \in DOMAIN idlestack : idlestack[i] \in Conns BY <1>0 DEF Types
  <2>3. \A q \in Quests : picked[q] # None => picked[q] \in Conns BY <1>0 DEF Types
  <2> QED BY <1>0, <1>4, <2>1, <2>2, <2>3, RestKept
<1>18. ASSUME NEW q \in Quests PROVE OnceFor(k, s, picked, finished, arrived, q)
  <2>0. q # None /\ queue \in Seq(Quests) BY <1>0, FcgiAssumption DEF Types
  <2>1. OnceFor(con, queue, picked, finished, arrived, q) BY <1>0 DEF OnceInv
  <2>2. OnceIn(queue, q) BY <2>1 DEF OnceFor
  <2>3. CASE g = q
    <3>1. ~HeldIn(k, q) /\ HeldOnce(k, q) /\ HeldIn(con, q)
      <4>1. HeldOnce(con, q) BY <2>1 DEF OnceFor
      <4>2. con[c].quest = q /\ k[c].quest # q BY <1>3, <1>6, <1>7, <2>0, <2>3
      <4>3. \A d \in Conns \ {c} : k[d].quest = con[d].quest BY <1>7
      <4> QED BY <4>1, <4>2, <4>3, HeldLeft
    <3>2. s = Append(queue, q) \/ s = <<q>> \o queue BY <1>12, <2>0, <2>3 DEF PutBack
    <3>3. q \notin Range(queue) BY <2>1, <3>1 DEF OnceFor
    <3>4. q \in Range(s) /\ OnceIn(s, q) BY <2>0, <2>2, <3>2, <3>3, Grown
    <3> QED BY <2>1, <3>1, <3>4 DEF OnceFor
  <2>4. CASE g # q
    <3>1. \A d \in Conns : k[d].quest = q <=> con[d].quest = q BY <1>3, <1>6, <1>7, <2>0, <2>4
    <3>2. (q \in Range(s) <=> q \in Range(queue)) /\ OnceIn(s, q)
      <4>1. CASE g = None BY <1>12, <2>2, <4>1 DEF PutBack
      <4>2. CASE g # None
        <5>1. g \in Quests BY <1>10, <4>2
        <5>2. s = Append(queue, g) \/ s = <<g>> \o queue BY <1>12, <4>2 DEF PutBack
        <5> QED BY <2>0, <2>2, <2>4, <5>1, <5>2, Grown
      <4> QED BY <4>1, <4>2
    <3> QED BY <2>1, <3>1, <3>2, OnceSame
  <2> QED BY <2>3, <2>4
<1>19. OnceInv' BY <1>4, <1>13, <1>14, <1>18, OnceFilled
<1>20. ServeInv'
  <2>1. left \in SUBSET cons /\ c \notin left BY <1>11
  <2>2. \A d \in Conns : con'[d] = con[d] \/ (con[d].state = "CLOSED" /\ con'[d].state = "CLOSED" /\ d \notin left)
    BY <1>1, <1>6, <1>7, <1>13, <2>1
  <2>3. \A d \in cons : d \in left \/ con[d].state = "CLOSED" BY <1>1, <1>11
  <2> QED BY <1>0, <1>4, <1>14, <2>1, <2>2, <2>3, LeftServes
<1> QED BY <1>15, <1>16, <1>17, <1>19, <1>20 DEF FcgiInv

\* connect() throws: releaseClosed() with the same connections and queue.
LEMMA _new_connectionFailsStep ==
  ASSUME FcgiInv, CountInv, _new_connectionFails
  PROVE  FcgiInv'
<1>0. Types /\ OnceInv /\ ConInv /\ ServeInv /\ StackInv /\ PickInv BY DEF FcgiInv
<1>1. UNCHANGED <<con, idlestack, toShut, arrived, picked>> BY DEF _new_connectionFails
<1>2. PICK n \in Nat : n = trying - 1 BY DEF _new_connectionFails, CountInv
<1>3. PICK left \in SUBSET Conns : left = cons BY <1>0 DEF Types
<1>4. PICK s \in Seq(Quests) : s = queue BY <1>0 DEF Types
<1>5. released(left, s, n) BY <1>2, <1>3, <1>4 DEF _new_connectionFails
<1>6. /\ cons' = left /\ queue' \in Seq(Quests) /\ finished' \in [Quests -> Nat]
      /\ (queue' = s /\ UNCHANGED finished) \/ (queue' = <<>> /\ Finish(ToSet(s)))
      /\ queue' # <<>> => trying' > 0 \/ left # {}
  BY <1>0, <1>5, ReleasedIs
<1>7. Types' BY <1>0, <1>1, <1>3, <1>6 DEF Types
<1>8. ConInv' BY <1>0, <1>1 DEF ConInv
<1>9. StackInv' /\ PickInv' BY <1>0, <1>1 DEF StackInv, PickInv
<1>10. \A q \in Quests : OnceFor(con, s, picked, finished, arrived, q) BY <1>0, <1>4 DEF OnceInv
<1>11. OnceInv' BY <1>1, <1>6, <1>10, OnceFilled
<1>12. ServeInv'
  <2>1. left \in SUBSET cons /\ \A d \in cons : d \in left \/ con[d].state = "CLOSED" BY <1>3
  <2>2. \A d \in Conns : con'[d] = con[d] BY <1>1
  <2> QED BY <1>0, <1>1, <1>6, <2>1, <2>2, LeftServes
<1> QED BY <1>7, <1>8, <1>9, <1>11, <1>12 DEF FcgiInv

-----------------------------------------------------------------------------
(* A quest uses the connection that was picked for it. *)

LEMMA operateClosedStep ==
  ASSUME FcgiInv, CountInv, NEW q \in Quests, operate(q), con[picked[q]].state = "CLOSED"
  PROVE  FcgiInv'
<1>0. Types /\ OnceInv /\ ConInv /\ ServeInv /\ StackInv /\ PickInv BY DEF FcgiInv
<1>1. PICK c \in Conns : c = picked[q] BY <1>0 DEF Types, operate
<1>2. con[c] \in Record /\ con[c].state = "CLOSED" /\ con[c].pc = "free"
  BY <1>0, <1>1 DEF Types, operate, Free
<1>3. /\ releaseClosed(c, con, q) /\ picked' = [picked EXCEPT ![q] = None]
      /\ UNCHANGED <<idlestack, toShut, arrived>>
  BY <1>1, <1>2 DEF operate
<1>4. con \in [Conns -> Record] /\ \A d \in Conns : ConOK(con[d]) BY <1>0 DEF Types, ConInv
<1>5. PICK left \in SUBSET Conns : left = cons \ {c} BY <1>0 DEF Types
<1>6. q \in Quests \cup {None} /\ q # None BY FcgiAssumption
<1>7. PICK s \in Seq(Quests) : s = PutBack(q) BY <1>0, <1>6, PutBackIs
<1>8. con' = con /\ released(left, s, 0) BY <1>3, <1>5, <1>7 DEF releaseClosed
<1>9. /\ cons' = left /\ queue' \in Seq(Quests) /\ finished' \in [Quests -> Nat]
      /\ (queue' = s /\ UNCHANGED finished) \/ (queue' = <<>> /\ Finish(ToSet(s)))
      /\ queue' # <<>> => trying' > 0 \/ left # {}
  BY <1>0, <1>8, ReleasedIs
<1>10. PICK p : p = picked' OBVIOUS
<1>11. p \in [Quests -> Conns \cup {None}] /\ p[q] = None /\ \A o \in Quests \ {q} : p[o] = picked[o]
  BY <1>0, <1>3, <1>10 DEF Types
<1>12. Types' BY <1>0, <1>3, <1>8, <1>9, <1>10, <1>11 DEF Types
<1>13. ConInv' BY <1>4, <1>8 DEF ConInv
<1>14. StackInv' /\ PickInv'
  <2>1. \A d \in Conns : Resting(con[d]) => con'[d] = con[d] BY <1>8
  <2>2. \A i \in DOMAIN idlestack : idlestack[i] \in Conns /\ idlestack[i] # None BY <1>0, FcgiAssumption DEF Types
  <2>3. \A o \in Quests : p[o] = picked[o] \/ p[o] = None BY <1>11
  <2>4. StackInv' BY <1>0, <1>3, <1>10, <2>1, <2>2, <2>3 DEF StackInv
  <2>5. \A o \in Quests : picked[o] # None => picked[o] \in Conns BY <1>0 DEF Types
  <2>6. PickInv' BY <1>0, <1>10, <1>11, <2>1, <2>3, <2>5 DEF PickInv
  <2> QED BY <2>4, <2>6
<1>15. ASSUME NEW x \in Quests PROVE OnceFor(con, s, p, finished, arrived, x)
  <2>0. queue \in Seq(Quests) BY <1>0 DEF Types
  <2>1. OnceFor(con, queue, picked, finished, arrived, x) BY <1>0 DEF OnceInv
  <2>2. OnceIn(queue, x) BY <2>1 DEF OnceFor
  <2>3. s = Append(queue, q) \/ s = <<q>> \o queue BY <1>6, <1>7 DEF PutBack
  <2>4. CASE x = q
    <3>1. picked[q] # None BY <1>1, FcgiAssumption
    <3>2. q \notin Range(queue) /\ ~HeldIn(con, q) /\ finished[q] = 0 /\ HeldOnce(con, q)
      BY <2>1, <2>4, <3>1 DEF OnceFor
    <3>3. q \in Range(s) /\ OnceIn(s, q) BY <2>0, <2>2, <2>3, <2>4, <3>2, Grown
    <3>4. q \in arrived BY <2>1, <2>4, <3>1 DEF OnceFor
    <3> QED BY <1>11, <2>4, <3>2, <3>3, <3>4 DEF OnceFor
  <2>5. CASE x # q
    <3>1. (x \in Range(s) <=> x \in Range(queue)) /\ OnceIn(s, x) BY <2>0, <2>2, <2>3, <2>5, Grown
    <3>2. p[x] = picked[x] BY <1>11, <2>5
    <3> QED BY <2>1, <3>1, <3>2, OnceSame
  <2> QED BY <2>4, <2>5
<1>16. OnceInv' BY <1>3, <1>8, <1>9, <1>10, <1>15, OnceFilled
<1>17. ServeInv'
  <2>1. left \in SUBSET cons /\ c \notin left BY <1>5
  <2>2. \A d \in cons : d \in left \/ con[d].state = "CLOSED" BY <1>2, <1>5
  <2>3. \A o \in Quests, d \in left : picked[o] = d => picked'[o] = d BY <1>1, <1>10, <1>11, <2>1
  <2>4. \A d \in Conns : con'[d] = con[d] BY <1>8
  <2>5. \A d \in left : d \in Range(idlestack) /\ Ok(d) => d \in Range(idlestack') BY <1>3
  <2> QED BY <1>0, <1>3, <1>9, <2>1, <2>2, <2>3, <2>4, <2>5, LeftServes
<1> QED BY <1>12, <1>13, <1>14, <1>16, <1>17 DEF FcgiInv

LEMMA operateStep ==
  ASSUME FcgiInv, CountInv, NEW q \in Quests, operate(q)
  PROVE  FcgiInv'
<1>0. Types /\ OnceInv /\ ConInv /\ ServeInv /\ StackInv /\ PickInv BY DEF FcgiInv
<1>1. PICK c \in Conns : c = picked[q] BY <1>0 DEF Types, operate
<1>2. CASE con[c].state = "CLOSED" BY <1>1, <1>2, operateClosedStep
<1>3. CASE con[c].state # "CLOSED"
  <2>0. q # None /\ c # None BY FcgiAssumption
  <2>1. con[c] \in Record /\ ConOK(con[c]) /\ con[c].pc = "free" BY <1>0, <1>1 DEF Types, ConInv, operate, Free
  <2>2. con[c].state = "IDLE" BY <1>0, <1>1, <1>3, <2>0 DEF PickInv, Resting
  <2>3. con[c].quest = None /\ con[c].reqseq < ReqMax BY <2>1, <2>2 DEF ConOK
  <2>4. PICK r \in Operated(con[c], q) : Set(c, r) BY <1>1, <1>3 DEF operate
  <2>5. r \in Record /\ ConOK(r) /\ r.quest = q /\ (r.state \in {"READ", "WRITE"} \/ r.pc = "release")
    BY <2>1, <2>3, OperatedIs
  <2>6. /\ UNCHANGED <<trying, cons, queue, finished, idlestack, toShut, arrived>>
        /\ picked' = [picked EXCEPT ![q] = None]
    BY <1>1, <1>3 DEF operate
  <2>7. con' \in [Conns -> Record] /\ con'[c] = r /\ \A d \in Conns \ {c} : con'[d] = con[d]
    BY <1>0, <2>4, <2>5, SetIs
  <2>8. PICK p : p = picked' OBVIOUS
  <2>9. p \in [Quests -> Conns \cup {None}] /\ p[q] = None /\ \A o \in Quests \ {q} : p[o] = picked[o]
    BY <1>0, <2>6, <2>8 DEF Types
  <2>10. Types' BY <1>0, <2>6, <2>7, <2>8, <2>9 DEF Types
  <2>11. ConInv' BY <1>0, <2>5, <2>7 DEF ConInv
  <2>12. StackInv'
    <3>1. \A i \in DOMAIN idlestack : idlestack[i] \in Conns \ {c} /\ idlestack[i] # None
      BY <1>0, <1>1, FcgiAssumption DEF StackInv, Types
    <3>2. \A o \in Quests : p[o] = picked[o] \/ p[o] = None BY <2>9
    <3> QED BY <1>0, <2>6, <2>7, <2>8, <3>1, <3>2 DEF StackInv
  <2>13. PickInv'
    <3>1. \A o \in Quests : p[o] # None => o # q /\ p[o] = picked[o] /\ p[o] \in Conns \ {c}
      BY <1>0, <1>1, <2>9 DEF PickInv, Types
    <3> QED BY <1>0, <2>7, <2>8, <3>1 DEF PickInv
  <2>14. OnceInv'
    <3> SUFFICES ASSUME NEW x \in Quests PROVE OnceFor(con', queue, p, finished, arrived, x)
      BY <2>6, <2>8 DEF OnceInv
    <3>1. OnceFor(con, queue, picked, finished, arrived, x) BY <1>0 DEF OnceInv
    <3>2. CASE x = q
      <4>1. ~HeldIn(con, q) /\ q \notin Range(queue) /\ finished[q] = 0 /\ OnceIn(queue, q) /\ q \in arrived
        BY <1>1, <2>0, <3>1, <3>2 DEF OnceFor
      <4>2. \A d \in Conns \ {c} : con'[d].quest = con[d].quest BY <2>7
      <4>3. con'[c].quest = q BY <2>5, <2>7
      <4>4. HeldIn(con', q) /\ HeldOnce(con', q) BY <4>1, <4>2, <4>3, HeldTaken
      <4> QED BY <2>9, <3>2, <4>1, <4>4 DEF OnceFor
    <3>3. CASE x # q
      <4>1. x # None BY FcgiAssumption
      <4>2. \A d \in Conns : con'[d].quest = x <=> con[d].quest = x BY <2>3, <2>5, <2>7, <3>3, <4>1
      <4>3. p[x] = picked[x] /\ OnceIn(queue, x) BY <2>9, <3>1, <3>3 DEF OnceFor
      <4> QED BY <3>1, <4>2, <4>3, OnceSame
    <3> QED BY <3>2, <3>3
  <2>15. ServeInv'
    <3>1. Serving(c)' BY <2>5, <2>7 DEF Serving, Free
    <3>2. \A o \in Quests : picked[o] # c => picked'[o] = picked[o] \/ picked[o] = None
      BY <1>1, <2>8, <2>9
    <3>3. Open(c)' => c \in cons \cup toShut' \/ con'[c].shut
      <4>1. r.state # "CLOSED" => r.shut = con[c].shut BY <2>1, <2>4, OperatedShut
      <4>2. c \in cons \cup toShut \/ con[c].shut BY <1>0, <2>2 DEF ServeInv, Open
      <4> QED BY <2>6, <2>7, <4>1, <4>2 DEF Open
    <3>4. cons \subseteq Conns BY <1>0 DEF Types
    <3> QED BY <1>0, <2>6, <2>7, <3>1, <3>2, <3>3, <3>4, OneServes
  <2> QED BY <2>10, <2>11, <2>12, <2>13, <2>14, <2>15 DEF FcgiInv
<1> QED BY <1>2, <1>3

-----------------------------------------------------------------------------
(* process(). *)

\* Every set of naturals that has a member has a least one.
LEMMA Least ==
  ASSUME NEW T, T \subseteq Nat, T # {}
  PROVE  \E x \in T : \A y \in T : x <= y
<1> DEFINE R == OpToRel(<, Nat)
<1>1. \E x \in T : \A y \in T : <<y, x>> \notin R BY NatLessThanWellFounded, WFMin
<1>2. \A x, y \in Nat : x < y => <<x, y>> \in R BY DEF OpToRel
<1> HIDE DEF R
<1>3. PICK x \in T : \A y \in T : <<y, x>> \notin R BY <1>1
<1>4. ASSUME NEW y \in T PROVE x <= y
  <2>1. ~(y < x) BY <1>2, <1>3
  <2>2. x \in Nat /\ y \in Nat OBVIOUS
  <2> QED BY <2>1, <2>2
<1> QED BY <1>4

\* The topmost connection of the stack that is ok(), if there is one.
LEMMA TopIs ==
  ASSUME Types
  PROVE  IF \E k \in 1..Len(idlestack) : Ok(idlestack[k])
         THEN /\ Top \in 1..Len(idlestack) /\ Ok(idlestack[Top])
              /\ \A j \in 1..Len(idlestack) : Ok(idlestack[j]) => j <= Top
         ELSE Top = 0
<1>0. PICK n \in Nat : n = Len(idlestack) BY DEF Types
<1>1. PICK good : good = {k \in 1..n : Ok(idlestack[k])} OBVIOUS
<1>2. Top = IF good = {} THEN 0 ELSE CHOOSE k \in good : \A j \in good : j <= k BY <1>0, <1>1 DEF Top
<1>3. ASSUME good # {} PROVE \E k \in good : \A j \in good : j <= k
  <2>1. PICK T : T = {n - k : k \in good} OBVIOUS
  <2>2. T \subseteq Nat /\ T # {} BY <1>1, <1>3, <2>1
  <2>3. PICK x \in T : \A y \in T : x <= y BY <2>2, Least
  <2>4. PICK k \in good : x = n - k BY <2>1
  <2>5. ASSUME NEW j \in good PROVE j <= k
    <3>1. n - k <= n - j BY <2>1, <2>3, <2>4
    <3>2. j \in Int /\ k \in Int BY <1>1
    <3> QED BY <3>1, <3>2
  <2> QED BY <2>5
<1>4. CASE good = {} BY <1>0, <1>1, <1>2, <1>4
<1>5. CASE good # {}
  <2>1. Top \in good /\ \A j \in good : j <= Top BY <1>2, <1>3, <1>5
  <2> QED BY <1>0, <1>1, <1>5, <2>1
<1> QED BY <1>4, <1>5

LEMMA processIdleStep ==
  ASSUME FcgiInv, NEW q \in Quests, processIdle(q)
  PROVE  FcgiInv'
<1>0. Types /\ OnceInv /\ ConInv /\ ServeInv /\ StackInv /\ PickInv BY DEF FcgiInv
<1>1. PICK n \in Nat : n = Len(idlestack) BY <1>0 DEF Types
<1>2. PICK t : t = Top OBVIOUS
<1>3. /\ t \in 1..n /\ Ok(idlestack[t]) /\ \A j \in 1..n : Ok(idlestack[j]) => j <= t
  <2>1. Top # 0 BY DEF processIdle
  <2> QED BY <1>0, <1>1, <1>2, <2>1, TopIs
<1>4. PICK c : c = idlestack[t] OBVIOUS
<1>5. /\ q \notin arrived /\ arrived' = arrived \cup {q} /\ picked' = [picked EXCEPT ![q] = c]
      /\ idlestack' = SubSeq(idlestack, 1, t - 1)
      /\ UNCHANGED <<trying, con, cons, queue, toShut, finished>>
  BY <1>2, <1>4 DEF processIdle
<1>6. idlestack \in [1..n -> Conns] /\ c \in Conns /\ c # None
  <2>1. idlestack \in [1..n -> Conns] BY <1>0, <1>1 DEF Types
  <2> QED BY <1>3, <1>4, <2>1, FcgiAssumption
<1>7. PICK st : st = idlestack' OBVIOUS
<1>8. st \in Seq(Conns) /\ DOMAIN st = 1..(t - 1) /\ \A i \in 1..(t - 1) : i \in 1..n /\ i # t /\ st[i] = idlestack[i]
  <2>1. idlestack \in Seq(Conns) BY <1>0 DEF Types
  <2>2. t - 1 \in Nat /\ \A i \in 1..(t - 1) : i \in 1..n /\ i # t BY <1>3
  <2>3. 1 \in Int /\ 1..(t - 1) \subseteq 1..Len(idlestack) BY <1>1, <1>3
  <2>4. st = [i \in 1..(t - 1) |-> idlestack[i]]
    <3>1. SubSeq(idlestack, 1, t - 1) = [i \in 1..((t - 1) - 1 + 1) |-> idlestack[i + 1 - 1]] BY <1>3
    <3>2. (t - 1) - 1 + 1 = t - 1 /\ \A i \in 1..(t - 1) : i + 1 - 1 = i BY <1>3
    <3> QED BY <1>5, <1>7, <3>1, <3>2
  <2>5. st \in [1..(t - 1) -> Conns] BY <1>6, <2>2, <2>4
  <2> QED BY <2>2, <2>4, <2>5
<1>9. DOMAIN idlestack = 1..n BY <1>6
<1>10. PICK p : p = picked' OBVIOUS
<1>11. p \in [Quests -> Conns \cup {None}] /\ p[q] = c /\ \A o \in Quests \ {q} : p[o] = picked[o]
  <2>1. picked \in [Quests -> Conns \cup {None}] BY <1>0 DEF Types
  <2> QED BY <1>5, <1>6, <1>10, <2>1
<1>12. q \notin Range(queue) /\ ~HeldIn(con, q) /\ picked[q] = None /\ finished[q] = 0
       /\ OnceIn(queue, q) /\ HeldOnce(con, q)
  BY <1>0, <1>5 DEF OnceInv, OnceFor
<1>13. \A o \in Quests : picked[o] # c BY <1>0, <1>3, <1>4, <1>9 DEF StackInv
<1>14. Types' BY <1>0, <1>5, <1>7, <1>8, <1>10, <1>11 DEF Types
<1>15. ConInv' BY <1>0, <1>5 DEF ConInv
<1>16. StackInv'
  <2>1. \A i \in DOMAIN st : i \in DOMAIN idlestack /\ i # t /\ st[i] = idlestack[i] BY <1>8, <1>9
  <2>2. \A i, j \in DOMAIN st : st[i] = st[j] => i = j BY <1>0, <2>1 DEF StackInv
  <2>3. \A i \in DOMAIN st : st[i] # c BY <1>0, <1>3, <1>4, <1>9, <2>1 DEF StackInv
  <2>4. \A i \in DOMAIN st : Resting(con[st[i]]) /\ \A o \in Quests : p[o] # st[i]
    BY <1>0, <1>11, <2>1, <2>3 DEF StackInv
  <2>5. con' = con BY <1>5
  <2> QED BY <1>7, <1>10, <2>2, <2>4, <2>5 DEF StackInv
<1>17. PickInv'
  <2>1. Resting(con[c]) BY <1>0, <1>3, <1>4, <1>9 DEF StackInv
  <2>2. \A o \in Quests : p[o] # None => Resting(con[p[o]]) BY <1>0, <1>11, <2>1 DEF PickInv
  <2>3. \A o, u \in Quests : p[o] = p[u] /\ p[o] # None => o = u BY <1>0, <1>11, <1>13 DEF PickInv
  <2> QED BY <1>5, <1>10, <2>2, <2>3 DEF PickInv
<1>18. OnceInv'
  <2> SUFFICES ASSUME NEW x \in Quests PROVE OnceFor(con, queue, p, finished, arrived', x)
    BY <1>5, <1>10 DEF OnceInv
  <2>1. OnceFor(con, queue, picked, finished, arrived, x) BY <1>0 DEF OnceInv
  <2>2. CASE x = q BY <1>5, <1>6, <1>11, <1>12, <2>2 DEF OnceFor
  <2>3. CASE x # q
    <3>1. p[x] = picked[x] /\ (x \in arrived' <=> x \in arrived) BY <1>5, <1>11, <2>3
    <3>2. OnceIn(queue, x) BY <2>1 DEF OnceFor
    <3> QED BY <2>1, <3>1, <3>2, OnceSame
  <2> QED BY <2>2, <2>3
<1>19. ServeInv'
  <2>1. Serving(c)' BY <1>10, <1>11 DEF Serving
  <2>2. \A o \in Quests : picked[o] # c => picked'[o] = picked[o] \/ picked[o] = None
    BY <1>10, <1>11, <1>12
  <2>3. ASSUME NEW d \in Conns \ {c}, d \in Range(idlestack), Ok(d) PROVE d \in Range(idlestack')
    <3>1. PICK j \in 1..n : d = idlestack[j] BY <1>9, <2>3 DEF Range
    <3>2. j <= t /\ j # t BY <1>3, <1>4, <2>3, <3>1
    <3>3. j \in 1..(t - 1) BY <1>3, <3>1, <3>2
    <3> QED BY <1>7, <1>8, <3>1, <3>3 DEF Range
  <2>4. Open(c)' => c \in cons \cup toShut' \/ con'[c].shut BY <1>0, <1>5, <1>6 DEF ServeInv, Open
  <2>5. cons \subseteq Conns BY <1>0 DEF Types
  <2> QED BY <1>0, <1>5, <1>6, <2>1, <2>2, <2>3, <2>4, <2>5, OneServes
<1> QED BY <1>14, <1>15, <1>16, <1>17, <1>18, <1>19 DEF FcgiInv

LEMMA processShutStep ==
  ASSUME FcgiInv, NEW q \in Quests, processShut(q)
  PROVE  FcgiInv'
<1>0. Types /\ OnceInv /\ ConInv /\ ServeInv /\ StackInv /\ PickInv BY DEF FcgiInv
<1>1. /\ q \notin arrived /\ arrived' = arrived \cup {q} /\ Finish({q})
      /\ UNCHANGED <<trying, con, cons, idlestack, queue, toShut, picked>>
  BY DEF processShut, poolVars
<1>2. Types'
  <2>1. finished' \in [Quests -> Nat] BY <1>0, <1>1, FinishType
  <2> QED BY <1>0, <1>1, <2>1 DEF Types
<1>3. ConInv' BY <1>0, <1>1 DEF ConInv
<1>4. StackInv' /\ PickInv' BY <1>0, <1>1 DEF StackInv, PickInv
<1>5. OnceInv'
  <2> SUFFICES ASSUME NEW x \in Quests PROVE OnceFor(con, queue, picked, finished', arrived', x)
    BY <1>1 DEF OnceInv
  <2>1. OnceFor(con, queue, picked, finished, arrived, x) BY <1>0 DEF OnceInv
  <2>2. CASE x = q
    <3>1. q \notin Range(queue) /\ ~HeldIn(con, q) /\ picked[q] = None /\ finished[q] = 0
          /\ OnceIn(queue, q) /\ HeldOnce(con, q)
      BY <1>1, <2>1, <2>2 DEF OnceFor
    <3>2. finished'[q] = 1 BY <1>1, <3>1 DEF Finish
    <3> QED BY <1>1, <2>2, <3>1, <3>2 DEF OnceFor
  <2>3. CASE x # q
    <3>1. finished'[x] = finished[x] /\ (x \in arrived' <=> x \in arrived) BY <1>1, <2>3 DEF Finish
    <3>2. OnceIn(queue, x) BY <2>1 DEF OnceFor
    <3> QED BY <2>1, <3>1, <3>2, OnceSame
  <2> QED BY <2>2, <2>3
<1>6. ServeInv'
  <2>1. \A d \in Conns : Serving(d) => Serving(d)' BY <1>1 DEF Serving, Free, Open, Ok
  <2>2. cons \subseteq Conns BY <1>0 DEF Types
  <2> QED BY <1>0, <1>1, <2>1, <2>2 DEF ServeInv, Open
<1> QED BY <1>2, <1>3, <1>4, <1>5, <1>6 DEF FcgiInv

\* Nothing on the stack is ok(): a connection is made, if there is room.
LEMMA processQueueStep ==
  ASSUME FcgiInv, NEW q \in Quests, processQueue(q)
  PROVE  FcgiInv'
<1>0. Types /\ OnceInv /\ ConInv /\ ServeInv /\ StackInv /\ PickInv BY DEF FcgiInv
<1>1. /\ q \notin arrived /\ arrived' = arrived \cup {q} /\ idlestack' = <<>> /\ queue' = Append(queue, q)
      /\ UNCHANGED <<con, cons, toShut, picked, finished>> /\ Top = 0 /\ trying' = Room(Cardinality(cons), 1)
  BY DEF processQueue
<1>2. queue \in Seq(Quests) BY <1>0 DEF Types
<1>3. PICK m \in Nat : m = Cardinality(cons) /\ (cons = {} => m = 0) BY <1>0, Sizes DEF Types
<1>4. trying' > 0 \/ cons # {}
  <2>0. 1 \in Nat /\ 1 # 0 OBVIOUS
  <2>1. PICK n \in Nat : n = Room(m, 1) /\ (n = 0 => m >= ConMax)
    <3>1. Room(m, 1) \in Nat /\ (Room(m, 1) = 0 => m >= ConMax) BY <2>0, Rooms
    <3> QED BY <3>1
  <2>2. ~(0 >= ConMax) BY FcgiAssumption
  <2>3. trying' = n BY <1>1, <1>3, <2>1
  <2>4. n = 0 \/ n > 0 BY <2>1
  <2> QED BY <1>3, <2>1, <2>2, <2>3, <2>4
<1>7. PICK s : s = Append(queue, q) OBVIOUS
<1>8. s = Append(queue, q) \/ s = <<q>> \o queue BY <1>7
<1>9. s \in Seq(Quests) BY <1>2, <1>8, Grown
<1>12. Types'
  <2>1. queue' \in Seq(Quests) /\ idlestack' \in Seq(Conns) /\ arrived' \subseteq Quests
    <3>1. <<>> \in Seq(Conns) OBVIOUS
    <3> QED BY <1>0, <1>1, <1>7, <1>9, <3>1 DEF Types
  <2> QED BY <1>0, <1>1, <2>1 DEF Types
<1>13. ConInv' BY <1>0, <1>1 DEF ConInv
<1>14. StackInv' /\ PickInv'
  <2>1. DOMAIN <<>> = {} OBVIOUS
  <2>2. StackInv' BY <1>1, <2>1 DEF StackInv
  <2>3. PickInv' BY <1>0, <1>1 DEF PickInv
  <2> QED BY <2>2, <2>3
<1>15. PICK a : a = arrived \cup {q} OBVIOUS
<1>16. ASSUME NEW x \in Quests PROVE OnceFor(con, s, picked, finished, a, x)
  <2>1. OnceFor(con, queue, picked, finished, arrived, x) BY <1>0 DEF OnceInv
  <2>2. OnceIn(queue, x) BY <2>1 DEF OnceFor
  <2>3. CASE x = q
    <3>1. q \notin Range(queue) /\ ~HeldIn(con, q) /\ picked[q] = None /\ finished[q] = 0 /\ HeldOnce(con, q)
      BY <1>1, <2>1, <2>3 DEF OnceFor
    <3>2. q \in Range(s) /\ OnceIn(s, q) BY <1>2, <1>8, <2>2, <2>3, <3>1, Grown
    <3> QED BY <1>15, <2>3, <3>1, <3>2 DEF OnceFor
  <2>4. CASE x # q
    <3>1. (x \in Range(s) <=> x \in Range(queue)) /\ OnceIn(s, x) BY <1>2, <1>8, <2>2, <2>4, Grown
    <3>2. x \in a <=> x \in arrived BY <1>15, <2>4
    <3> QED BY <2>1, <3>1, <3>2, OnceSame
  <2> QED BY <2>3, <2>4
<1>17. OnceInv'
  <2>1. picked' = picked /\ arrived' = a BY <1>1, <1>15
  <2>2. queue' = s /\ con' = con /\ UNCHANGED finished BY <1>1, <1>7
  <2> QED BY <1>16, <2>1, <2>2, OnceFilled
<1>18. ServeInv'
  <2>1. cons \in SUBSET cons /\ \A d \in cons : d \in cons \/ con[d].state = "CLOSED" OBVIOUS
  <2>2. \A d \in Conns : con'[d] = con[d] BY <1>1
  <2>8. \A d \in cons : d \in Range(idlestack) /\ Ok(d) => d \in Range(idlestack')
    <3>1. DOMAIN idlestack = 1..Len(idlestack) BY <1>0 DEF Types
    <3>2. ASSUME NEW j \in 1..Len(idlestack), Ok(idlestack[j]) PROVE FALSE
      <4>1. Top \in 1..Len(idlestack) BY <1>0, <3>2, TopIs
      <4>2. 0 \notin 1..Len(idlestack) OBVIOUS
      <4> QED BY <1>1, <4>1, <4>2
    <3> QED BY <3>1, <3>2 DEF Range
  <2> QED BY <1>0, <1>1, <1>4, <2>1, <2>2, <2>8, LeftServes
<1> QED BY <1>12, <1>13, <1>14, <1>17, <1>18 DEF FcgiInv

-----------------------------------------------------------------------------
(* shutdown() and the reaper. *)

LEMMA shutdownStep ==
  ASSUME FcgiInv, shutdown
  PROVE  FcgiInv'
<1>0. Types /\ OnceInv /\ ConInv /\ ServeInv /\ StackInv /\ PickInv BY DEF FcgiInv
<1>1. /\ idlestack' = <<>> /\ cons' = {} /\ toShut' = toShut \cup cons
      /\ UNCHANGED <<trying, con, queue, arrived, picked, finished>>
  BY DEF shutdown, questVars
<1>2. Types'
  <2>1. idlestack' \in Seq(Conns)
    <3>1. <<>> \in Seq(Conns) OBVIOUS
    <3> QED BY <1>1, <3>1
  <2>3. cons' \subseteq Conns /\ toShut' \subseteq Conns BY <1>0, <1>1 DEF Types
  <2> QED BY <1>0, <1>1, <2>1, <2>3 DEF Types
<1>3. ConInv' BY <1>0, <1>1 DEF ConInv
<1>4. StackInv' /\ PickInv'
  <2>1. DOMAIN <<>> = {} OBVIOUS
  <2>2. StackInv' BY <1>1, <2>1 DEF StackInv
  <2>3. PickInv' BY <1>0, <1>1 DEF PickInv
  <2> QED BY <2>2, <2>3
<1>5. OnceInv' BY <1>0, <1>1, OnceKept
<1>6. ServeInv'
  <2>1. \A d \in Conns : Open(d) => d \in toShut' \/ con[d].shut BY <1>0, <1>1 DEF ServeInv
  <2>2. ASSUME NEW d \in Conns, Serving(d) PROVE Serving(d)'
    <3>1. CASE Ok(d)
      <4>1. Open(d) BY <3>1 DEF Ok, Open
      <4> QED BY <1>1, <2>1, <4>1 DEF Serving, Open
    <3>2. CASE ~Ok(d) BY <1>1, <2>2, <3>2 DEF Serving, Free, Open
    <3> QED BY <3>1, <3>2
  <2>3. \A d \in Conns : Open(d)' => d \in cons' \cup toShut' \/ con'[d].shut BY <1>1, <2>1 DEF Open
  <2>4. queue' # <<>> => trying' > 0 \/ \E d \in Conns : Serving(d)' BY <1>0, <1>1, <2>2 DEF ServeInv
  <2>5. \A d \in cons' : Serving(d)' BY <1>1
  <2> QED BY <2>3, <2>4, <2>5 DEF ServeInv
<1> QED BY <1>2, <1>3, <1>4, <1>5, <1>6 DEF FcgiInv

LEMMA on_reap_timerStep ==
  ASSUME FcgiInv, on_reap_timer
  PROVE  FcgiInv'
<1>0. Types /\ OnceInv /\ ConInv /\ ServeInv /\ StackInv /\ PickInv BY DEF FcgiInv
<1>1. UNCHANGED <<trying, con, idlestack, queue, arrived, picked, finished>> BY DEF on_reap_timer, questVars
<1>2. cons \subseteq Conns /\ toShut \subseteq Conns BY <1>0 DEF Types
<1>3. cons' \subseteq cons /\ cons' \cup toShut' = cons \cup toShut /\ toShut \subseteq toShut'
  BY DEF on_reap_timer
<1>4. Types'
  <2>1. cons' \subseteq Conns /\ toShut' \subseteq Conns BY <1>2, <1>3
  <2> QED BY <1>0, <1>1, <2>1 DEF Types
<1>5. ConInv' BY <1>0, <1>1 DEF ConInv
<1>6. StackInv' /\ PickInv' BY <1>0, <1>1 DEF StackInv, PickInv
<1>7. OnceInv' BY <1>0, <1>1, OnceKept
<1>8. ServeInv'
  <2>1. \A d \in Conns : Serving(d) => Serving(d)' BY <1>1, <1>3 DEF Serving, Free, Open, Ok
  <2>2. \A d \in Conns : Open(d)' => d \in cons' \cup toShut' \/ con'[d].shut BY <1>0, <1>1, <1>3 DEF Open, ServeInv
  <2>3. queue' # <<>> => trying' > 0 \/ \E d \in Conns : Serving(d)' BY <1>0, <1>1, <2>1 DEF ServeInv
  <2>4. \A d \in cons' : Serving(d)' BY <1>0, <1>2, <1>3, <2>1 DEF ServeInv
  <2> QED BY <2>2, <2>3, <2>4 DEF ServeInv
<1> QED BY <1>4, <1>5, <1>6, <1>7, <1>8 DEF FcgiInv

-----------------------------------------------------------------------------
(* The invariant. *)

LEMMA FcgiInit == Init => FcgiInv /\ CountInv
<1> SUFFICES ASSUME Init PROVE FcgiInv /\ CountInv OBVIOUS
<1>1. /\ con = [c \in Conns |-> Fresh] /\ cons = {} /\ toShut = {}
      /\ idlestack = <<>> /\ queue = <<>> /\ arrived = {}
      /\ picked = [q \in Quests |-> None] /\ finished = [q \in Quests |-> 0]
  BY DEF Init
<1>2. \A c \in Conns : con[c] = Fresh BY <1>1
<1>3. Types
  <2>1. queue \in Seq(Quests) /\ idlestack \in Seq(Conns) BY <1>1
  <2>2. con \in [Conns -> Record] BY <1>1, FreshIs
  <2> QED BY <1>1, <2>1, <2>2 DEF Types
<1>4. ConInv BY <1>2, FreshIs DEF ConInv
<1>5. DOMAIN <<>> = {} OBVIOUS
<1>6. StackInv BY <1>1, <1>5 DEF StackInv
<1>7. PickInv BY <1>1 DEF PickInv
<1>8. OnceInv
  <2> SUFFICES ASSUME NEW q \in Quests PROVE OnceFor(con, queue, picked, finished, arrived, q) BY DEF OnceInv
  <2>1. \A c \in Conns : con[c].quest = None BY <1>2, FreshIs
  <2>2. q # None BY FcgiAssumption
  <2>3. ~HeldIn(con, q) /\ HeldOnce(con, q) BY <2>1, <2>2 DEF HeldIn, HeldOnce
  <2>4. q \notin Range(queue) /\ OnceIn(queue, q) BY <1>1, <1>5 DEF Range, OnceIn
  <2>5. picked[q] = None /\ finished[q] = 0 /\ q \notin arrived BY <1>1
  <2> QED BY <2>3, <2>4, <2>5 DEF OnceFor
<1>9. ServeInv
  <2>1. \A c \in Conns : ~Open(c) BY <1>2 DEF Open, Fresh
  <2> QED BY <1>1, <2>1 DEF ServeInv
<1>10. CountInv BY DEF Init, CountInv
<1> QED BY <1>3, <1>4, <1>6, <1>7, <1>8, <1>9, <1>10 DEF FcgiInv

\* Errors and connections are counted under the mutex of the client.
LEMMA CountStep == FcgiInv /\ CountInv /\ [Next]_vars => CountInv'
<1> SUFFICES ASSUME FcgiInv, CountInv, [Next]_vars PROVE CountInv' OBVIOUS
<1>0. Types BY DEF FcgiInv
<1>1. trying \in Nat /\ conCount \in Nat /\ errCount \in Nat /\ errCount <= conCount BY DEF CountInv
<1>2. ASSUME NEW left \in SUBSET Conns, NEW s \in Seq(Quests), NEW n \in Nat, released(left, s, n)
      PROVE  CountInv'
  <2>1. trying' \in Nat BY <1>0, <1>2, ReleasedIs
  <2>2. CASE errCount' = 0 /\ conCount' = 0 BY <2>1, <2>2 DEF CountInv
  <2>3. CASE errCount < conCount /\ errCount' = errCount + 1 /\ UNCHANGED conCount
    <3>1. errCount + 1 \in 0..conCount BY <1>1, <2>3
    <3> QED BY <1>1, <2>1, <2>3, <3>1 DEF CountInv
  <2> QED BY <1>2, <2>2, <2>3 DEF released
<1>3. ASSUME UNCHANGED <<trying, errCount, conCount>> PROVE CountInv' BY <1>3 DEF CountInv
<1>4. Cardinality(cons) \in Nat BY <1>0, Sizes DEF Types
<1>5. ASSUME errCount' = 0, conCount' = Cardinality(cons), UNCHANGED trying PROVE CountInv'
  <2>1. 0 \in 0..Cardinality(cons) BY <1>4
  <2> QED BY <1>1, <1>4, <1>5, <2>1 DEF CountInv
<1>6. ASSUME NEW q \in Quests, processIdle(q) PROVE CountInv' BY <1>3, <1>6 DEF processIdle
<1>7. ASSUME NEW q \in Quests, processQueue(q) PROVE CountInv'
  <2>1. Room(Cardinality(cons), 1) \in Nat BY <1>4, Rooms
  <2> QED BY <1>7, <2>1 DEF processQueue, CountInv
<1>8. ASSUME NEW q \in Quests, processShut(q) PROVE CountInv' BY <1>3, <1>8 DEF processShut, poolVars
<1>9. ASSUME NEW q \in Quests, operate(q) PROVE CountInv'
  <2>1. CASE con[picked[q]].state = "CLOSED"
    <3>1. PICK left \in SUBSET Conns : left = cons \ {picked[q]} BY <1>0 DEF Types
    <3>2. PICK s \in Seq(Quests) : s = PutBack(q) BY <1>0, PutBackIs
    <3>3. released(left, s, 0) BY <1>9, <2>1, <3>1, <3>2 DEF operate, releaseClosed
    <3> QED BY <1>2, <3>3
  <2>2. CASE con[picked[q]].state # "CLOSED" BY <1>3, <1>9, <2>2 DEF operate
  <2> QED BY <2>1, <2>2
<1>10. ASSUME NEW c \in Conns, evWritable(c) PROVE CountInv'
  <2>1. CASE con[c].state = "WRITE" BY <1>3, <1>10, <2>1 DEF evWritable
  <2>2. CASE con[c].state # "WRITE" BY <1>5, <1>10, <2>2 DEF evWritable, getQuestOrPutback
  <2> QED BY <2>1, <2>2
<1>11. ASSUME NEW c \in Conns, next(c) PROVE CountInv' BY <1>5, <1>11 DEF next, getQuestOrPutback
<1>12. ASSUME NEW c \in Conns, release(c) PROVE CountInv'
  <2>1. con[c] \in Record BY <1>0 DEF Types
  <2>2. PICK g \in Quests \cup {None} : g = con[c].quest BY <2>1 DEF Record
  <2>3. PICK left \in SUBSET Conns : left = cons \ {c} BY <1>0 DEF Types
  <2>4. PICK s \in Seq(Quests) : s = PutBack(g) BY <1>0, PutBackIs
  <2>5. released(left, s, 0) BY <1>12, <2>2, <2>3, <2>4 DEF release, releaseClosed
  <2> QED BY <1>2, <2>5
<1>13. ASSUME NEW c \in Conns, _new_connection(c) PROVE CountInv'
  <2>1. trying - 1 \in Nat BY <1>1, <1>13 DEF _new_connection
  <2> QED BY <1>1, <1>13, <2>1 DEF _new_connection, CountInv
<1>14. ASSUME _new_connectionFails PROVE CountInv'
  <2>1. PICK n \in Nat : n = trying - 1 BY <1>1, <1>14 DEF _new_connectionFails
  <2>2. PICK left \in SUBSET Conns : left = cons BY <1>0 DEF Types
  <2>3. PICK s \in Seq(Quests) : s = queue BY <1>0 DEF Types
  <2>4. released(left, s, n) BY <1>14, <2>1, <2>2, <2>3 DEF _new_connectionFails
  <2> QED BY <1>2, <2>4
<1>15. ASSUME NEW c \in Conns, evAnswer(c) \/ evClose(c) \/ popTask(c) \/ event_on_task(c) \/ conShutdown(c)
       PROVE  CountInv'
  BY <1>3, <1>15 DEF evAnswer, evClose, popTask, event_on_task, conShutdown, poolVars
<1>16. ASSUME NEW c \in Conns, NEW bytes \in BOOLEAN, evError(c, bytes) PROVE CountInv'
  BY <1>3, <1>16 DEF evError, poolVars
<1>17. ASSUME shutdown \/ on_reap_timer PROVE CountInv' BY <1>3, <1>17 DEF shutdown, on_reap_timer
<1>18. CASE UNCHANGED vars BY <1>3, <1>18 DEF vars, poolVars
<1>19. CASE Next
  BY <1>6, <1>7, <1>8, <1>9, <1>10, <1>11, <1>12, <1>13, <1>14, <1>15, <1>16, <1>17, <1>19 DEF Next
<1> QED BY <1>18, <1>19

LEMMA FcgiStep == FcgiInv /\ CountInv /\ [Next]_vars => FcgiInv'
<1> SUFFICES ASSUME FcgiInv, CountInv, [Next]_vars PROVE FcgiInv' OBVIOUS
<1>1. ASSUME NEW q \in Quests, processIdle(q) PROVE FcgiInv' BY <1>1, processIdleStep
<1>2. ASSUME NEW q \in Quests, processQueue(q) PROVE FcgiInv' BY <1>2, processQueueStep
<1>3. ASSUME NEW q \in Quests, processShut(q) PROVE FcgiInv' BY <1>3, processShutStep
<1>4. ASSUME NEW q \in Quests, operate(q) PROVE FcgiInv' BY <1>4, operateStep
<1>5. ASSUME NEW c \in Conns, evWritable(c) PROVE FcgiInv' BY <1>5, evWritableStep
<1>6. ASSUME NEW c \in Conns, evAnswer(c) PROVE FcgiInv' BY <1>6, evAnswerStep
<1>7. ASSUME NEW c \in Conns, next(c) PROVE FcgiInv' BY <1>7, nextStep
<1>8. ASSUME NEW c \in Conns, evClose(c) PROVE FcgiInv' BY <1>8, evCloseStep
<1>9. ASSUME NEW c \in Conns, NEW bytes \in BOOLEAN, evError(c, bytes) PROVE FcgiInv' BY <1>9, evErrorStep
<1>10. ASSUME NEW c \in Conns, release(c) PROVE FcgiInv' BY <1>10, releaseStep
<1>11. ASSUME NEW c \in Conns, conShutdown(c) PROVE FcgiInv' BY <1>11, conShutdownStep
<1>12. ASSUME NEW c \in Conns, popTask(c) PROVE FcgiInv' BY <1>12, popTaskStep
<1>13. ASSUME NEW c \in Conns, event_on_task(c) PROVE FcgiInv' BY <1>13, event_on_taskStep
<1>14. ASSUME NEW c \in Conns, _new_connection(c) PROVE FcgiInv' BY <1>14, _new_connectionStep
<1>19. ASSUME _new_connectionFails PROVE FcgiInv' BY <1>19, _new_connectionFailsStep
<1>15. ASSUME shutdown PROVE FcgiInv' BY <1>15, shutdownStep
<1>16. ASSUME on_reap_timer PROVE FcgiInv' BY <1>16, on_reap_timerStep
<1>17. CASE UNCHANGED vars
  <2>1. UNCHANGED <<trying, con, cons, idlestack, queue, toShut, arrived, picked, finished>>
    BY <1>17 DEF vars, poolVars, questVars
  <2>2. Types' BY <2>1 DEF FcgiInv, Types
  <2>3. ConInv' BY <2>1 DEF FcgiInv, ConInv
  <2>4. StackInv' /\ PickInv' BY <2>1 DEF FcgiInv, StackInv, PickInv
  <2>5. OnceInv' BY <2>1 DEF FcgiInv, OnceInv
  <2>6. ServeInv' BY <2>1 DEF FcgiInv, ServeInv, Serving, Free, Open, Ok
  <2> QED BY <2>2, <2>3, <2>4, <2>5, <2>6 DEF FcgiInv
<1>18. CASE Next
  BY <1>1, <1>2, <1>3, <1>4, <1>5, <1>6, <1>7, <1>8, <1>9, <1>10, <1>11, <1>12, <1>13, <1>14, <1>15, <1>16, <1>18, <1>19
  DEF Next
<1> QED BY <1>17, <1>18

LEMMA FcgiAlways == Spec => [](FcgiInv /\ CountInv)
BY FcgiInit, FcgiStep, CountStep, PTL DEF Spec

-----------------------------------------------------------------------------
(* The theorems. *)

\* A connection never handles more than reqmax requests (reqseq), and the quests
\* that wait fail as soon as releaseClosed() has counted more errors than there
\* were connections when the last one was of use (_err_count, _con_count), also
\* when the calls of _new_connection() that it makes fail in their turn.
THEOREM FcgiTypeCorrect == Spec => []TypeOK
<1>1. FcgiInv /\ CountInv => TypeOK
  <2> SUFFICES ASSUME FcgiInv, CountInv PROVE TypeOK OBVIOUS
  <2>1. Types BY DEF FcgiInv
  <2>2. ToSet(idlestack) \subseteq Conns
    <3>1. idlestack \in Seq(Conns) BY <2>1 DEF Types
    <3> QED BY <3>1 DEF ToSet
  <2>3. ToSet(queue) \subseteq Quests
    <3>1. queue \in Seq(Quests) BY <2>1 DEF Types
    <3> QED BY <3>1 DEF ToSet
  <2>4. con \in [Conns -> Record] /\ cons \subseteq Conns
        /\ picked \in [Quests -> Conns \cup {None}]
    BY <2>1 DEF Types
  <2> QED BY <2>2, <2>3, <2>4 DEF TypeOK, Record, CountInv
<1> QED BY <1>1, FcgiAlways, PTL

\* A set with at most one member.
LEMMA AtMostOne ==
  ASSUME NEW T, \A x, y \in T : x = y
  PROVE  Cardinality(T) = IF T = {} THEN 0 ELSE 1
<1>1. CASE T = {} BY <1>1, FS_EmptySet
<1>2. CASE T # {}
  <2>1. PICK x : T = {x} BY <1>2
  <2>2. Cardinality({x}) = 1 BY FS_Singleton
  <2> QED BY <1>2, <2>1, <2>2
<1> QED BY <1>1, <1>2

\* Every quest given to process() is in one place, the queue or one connection
\* or picked for one, or finish() has been called for it once: retries, errors,
\* timeouts, releaseClosed() and shutdown() neither lose nor finish one twice.
THEOREM FcgiFinishedOnce == Spec => []FinishedOnce
<1>1. FcgiInv => FinishedOnce
  <2> SUFFICES ASSUME FcgiInv, NEW q \in arrived
               PROVE  /\ finished[q] + Cardinality({k \in 1..Len(queue) : queue[k] = q})
                           + Cardinality({c \in Conns : con[c].quest = q}) + (IF picked[q] # None THEN 1 ELSE 0) = 1
                      /\ picked[q] # None =>
                           /\ con[picked[q]].state = "CLOSED"
                                \/ (con[picked[q]].state = "IDLE" /\ con[picked[q]].quest = None)
                           /\ \A p \in Quests \ {q} : picked[p] # picked[q]
    BY DEF FinishedOnce
  <2>0. Types /\ ConInv /\ PickInv /\ OnceInv BY DEF FcgiInv
  <2>1. q \in Quests /\ DOMAIN queue = 1..Len(queue) BY <2>0 DEF Types
  <2>2. OnceFor(con, queue, picked, finished, arrived, q) BY <2>0, <2>1 DEF OnceInv
  <2>3. PICK A : A = {k \in 1..Len(queue) : queue[k] = q} OBVIOUS
  <2>4. PICK B : B = {c \in Conns : con[c].quest = q} OBVIOUS
  <2>5. Cardinality(A) = IF q \in Range(queue) THEN 1 ELSE 0
    <3>1. OnceIn(queue, q) BY <2>2 DEF OnceFor
    <3>2. \A x, y \in A : x = y BY <2>1, <2>3, <3>1 DEF OnceIn
    <3>3. A = {} <=> q \notin Range(queue) BY <2>1, <2>3 DEF Range
    <3>4. Cardinality(A) = IF A = {} THEN 0 ELSE 1 BY <3>2, AtMostOne
    <3> QED BY <3>3, <3>4
  <2>6. Cardinality(B) = IF HeldIn(con, q) THEN 1 ELSE 0
    <3>1. HeldOnce(con, q) BY <2>2 DEF OnceFor
    <3>2. \A x, y \in B : x = y BY <2>4, <3>1 DEF HeldOnce
    <3>3. B = {} <=> ~HeldIn(con, q) BY <2>4 DEF HeldIn
    <3>4. Cardinality(B) = IF B = {} THEN 0 ELSE 1 BY <3>2, AtMostOne
    <3> QED BY <3>3, <3>4
  <2>7. finished[q] + Cardinality(A) + Cardinality(B) + (IF picked[q] # None THEN 1 ELSE 0) = 1
    BY <2>2, <2>5, <2>6 DEF OnceFor
  <2>8. picked[q] # None =>
          /\ con[picked[q]].state = "CLOSED" \/ (con[picked[q]].state = "IDLE" /\ con[picked[q]].quest = None)
          /\ \A p \in Quests \ {q} : picked[p] # picked[q]
    <3> SUFFICES ASSUME picked[q] # None
                 PROVE  /\ con[picked[q]].state = "CLOSED"
                             \/ (con[picked[q]].state = "IDLE" /\ con[picked[q]].quest = None)
                        /\ \A p \in Quests \ {q} : picked[p] # picked[q]
      OBVIOUS
    <3>1. picked[q] \in Conns BY <2>0, <2>1 DEF Types
    <3>2. Resting(con[picked[q]]) /\ ConOK(con[picked[q]]) BY <2>0, <2>1, <3>1 DEF PickInv, ConInv
    <3>3. \A p \in Quests \ {q} : picked[p] # picked[q] BY <2>0, <2>1 DEF PickInv
    <3> QED BY <3>2, <3>3 DEF Resting, ConOK
  <2> QED BY <2>3, <2>4, <2>7, <2>8
<1> QED BY <1>1, FcgiAlways, PTL

\* While quests wait, getQuestOrPutback(), process() and releaseClosed(), which
\* a failing _new_connection() calls again, are making connections or leave a connection that is being made, busy or closing and so will look at
\* the queue, or an idle one that will close or is ready to be taken.
THEOREM FcgiQueueServed == Spec => []QueueServed
<1>1. FcgiInv => QueueServed
  <2> SUFFICES ASSUME FcgiInv, queue # <<>>
               PROVE  \/ trying > 0
                      \/ \E c \in Conns : con[c].state \in {"CONNECT", "WRITE", "READ"} \/ ~Free(c)
                      \/ \E c \in Conns : Open(c) /\ (con[c].shut \/ c \in toShut \/ con[c].armed \/ con[c].popped)
                      \/ \E q \in Quests : picked[q] # None
                      \/ Top > 0
    BY DEF QueueServed
  <2>0. Types BY DEF FcgiInv
  <2> SUFFICES ASSUME ~(trying > 0)
               PROVE  \/ \E c \in Conns : con[c].state \in {"CONNECT", "WRITE", "READ"} \/ ~Free(c)
                      \/ \E c \in Conns : Open(c) /\ (con[c].shut \/ c \in toShut \/ con[c].armed \/ con[c].popped)
                      \/ \E q \in Quests : picked[q] # None
                      \/ Top > 0
    OBVIOUS
  <2>1. PICK c \in Conns : Serving(c) BY DEF FcgiInv, ServeInv
  <2>2. CASE \E q \in Quests : picked[q] = c
    <3>1. c # None BY FcgiAssumption
    <3> QED BY <2>2, <3>1
  <2>3. CASE c \in Range(idlestack) /\ Ok(c)
    <3>1. DOMAIN idlestack = 1..Len(idlestack) BY <2>0 DEF Types
    <3>2. PICK k \in 1..Len(idlestack) : Ok(idlestack[k]) BY <2>3, <3>1 DEF Range
    <3>3. Top \in 1..Len(idlestack) BY <2>0, <3>2, TopIs
    <3>4. Top > 0 BY <3>3
    <3> QED BY <3>4
  <2> QED BY <2>1, <2>2, <2>3 DEF Serving
<1> QED BY <1>1, FcgiAlways, PTL
=============================================================================
