---------------------------- MODULE XEventProofs ----------------------------
(***************************************************************************)
(* The safety invariants of the event dispatcher, for any number of        *)
(* threads, handlers, descriptors and tasks.                               *)
(***************************************************************************)
EXTENDS XEvent, FiniteSetTheorems, SequenceTheorems, WellFoundedInduction, NaturalsInduction, TLAPS

-----------------------------------------------------------------------------
(* The inductive invariant. *)

\* TypeOK without the claim that no count is negative, which follows from what
\* is counted.
Types ==
  /\ pc \in [Threads -> Places] /\ leader \in Threads \cup {None}
  /\ evm \in [Threads -> EventMans \cup {None}] /\ got \subseteq Fds \cup {Pipe}
  /\ fheap \in Seq(FdHandlers) /\ fget \in [FdHandlers -> SUBSET {"READ", "WRITE"}]
  /\ findex \in [FdHandlers -> BOOLEAN] /\ fref \in Int
  /\ theap \in Seq(Tasks) /\ msec \in [Tasks -> Nat] /\ tref \in Nat
  /\ fd2hr \in [Fds -> FdHandlers \cup {None}]
  /\ busy \in [Handlers -> BOOLEAN] /\ chain \in [Handlers -> Seq(EventMans)]
  /\ refs \in [Handlers -> Int]
  /\ asks \in BOOLEAN /\ wake \in Nat /\ overslept \in BOOLEAN
  /\ numThread \in Int /\ numIdle \in Int /\ spawning \in BOOLEAN
  /\ idleMark \in {"zero", "set", "elapsed"}
  /\ setup \in Setups /\ started \in BOOLEAN /\ toStart \in Nat
  /\ canceled \in BOOLEAN /\ cleared \in BOOLEAN
  /\ waiter \in {"none", "wait", "woken", "done"}
  /\ intr \in Nat /\ pipe \in BOOLEAN
  /\ data \in [Fds -> BOOLEAN] /\ kready \in [Fds -> BOOLEAN] /\ armed \in [Fds -> BOOLEAN]
  /\ now \in Nat /\ evicted \subseteq FdHandlers /\ owed \in [FdHandlers -> SUBSET {"READ", "WRITE"}]

\* One thread at a time is between taking the leadership and giving it up.
Leading == {"next", "epoll", "got", "evm", "give"}
OneLeader ==
  /\ \A t \in Threads : pc[t] \in Leading <=> leader = t

\* A thread has an EventMan from nextEvent() to destroy(), and no other time.
InHand ==
  \A t \in Threads :
    /\ pc[t] \in {"evm", "spawn", "run", "ran"} => evm[t] # None
    /\ evm[t] # None => pc[t] \in {"evm", "give", "spawn", "run", "ran"}

\* The list of epoll_wait() is worked off by the thread that got it.
ListWorked == got # {} => \E t \in Threads : pc[t] = "got"

ThreadInv == OneLeader /\ InHand /\ ListWorked

\* An EventMan is linked behind one of its own handler, which runs.
Runs(h) == {t \in Threads : evm[t] # None /\ evm[t].hr = h /\ pc[t] # "evm"}
Linked ==
  \A h \in Handlers :
    /\ \A i \in DOMAIN chain[h] : chain[h][i].hr = h
    /\ h \notin Concurrent =>
         /\ \A t, u \in Runs(h) : t = u
         /\ busy[h] <=> Runs(h) # {}
         /\ chain[h] # <<>> => busy[h]

\* What _numThread and _numIdle count: a thread that is being created counts.
Alive == {t \in Threads : pc[t] # "off"}
Spawners == {t \in Threads : pc[t] = "spawn"}
Idlers == {t \in Threads : pc[t] \notin {"off", "spawn", "run", "ran"}}
Counted ==
  /\ numThread = Cardinality(Alive) + Cardinality(Spawners) + toStart
  /\ numIdle = Cardinality(Idlers) + Cardinality(Spawners) + toStart
  /\ toStart > 0 => started /\ numThread <= MinThread
  /\ ~started => Alive = {}

\* Unless it is canceled, one thread at a time leaves, and not the last.
Leaving == {t \in Threads : pc[t] \in {"give", "exit"} /\ evm[t] = None}
Manned ==
  /\ \A t \in Threads : pc[t] = "exit" => evm[t] = None
  /\ ~canceled =>
       /\ \A t, u \in Leaving : t = u
       /\ Leaving # {} => idleMark # "elapsed" /\ toStart = 0 /\ Alive \ Leaving # {}
  /\ cleared => canceled /\ Alive = {} /\ toStart = 0

PoolInv == Counted /\ Manned

\* h is at most once in s.
OnceIn(s, h) == \A i, j \in DOMAIN s : s[i] = h /\ s[j] = h => i = j

\* A handler is in the heap once, and its index says so.
HeapInv ==
  /\ \A h \in FdHandlers \ evicted :
       /\ OnceIn(fheap, h)
       /\ ~cleared => (findex[h] <=> InFheap(h))
  /\ \A fd \in Fds : fd2hr[fd] # None => FdOf[fd2hr[fd]] = fd

\* The heap of tasks is in order, with each task once.
Ordered(s, m) == \A i, j \in DOMAIN s : i < j => s[i] # s[j] /\ m[s[i]] <= m[s[j]]

\* Callers see a sleeping leader, if it would not wake up at once.
SleepInv ==
  /\ Ordered(theap, msec) /\ LeaderAwake
  /\ \A t \in Threads : pc[t] = "epoll" => asks \/ wake <= now

DispInv ==
  /\ Types /\ ThreadInv /\ Linked /\ PoolInv /\ HeapInv /\ SleepInv
  /\ RefsMatch /\ NoEventLost /\ NoEdgeLost

-----------------------------------------------------------------------------
(* Sequences: an element taken out, put in, appended, popped. *)

\* The least element of a set of numbers.
LEMMA Least ==
  ASSUME NEW T, T \subseteq Nat, T # {}
  PROVE  \E x \in T : \A y \in T : x <= y
<1> DEFINE R == OpToRel(<, Nat)
<1>1. \E x \in T : \A y \in T : <<y, x>> \notin R
  BY NatLessThanWellFounded, WFMin
<1>2. \A x, y \in Nat : x < y => <<x, y>> \in R
  BY DEF OpToRel
<1> HIDE DEF R
<1>3. PICK x \in T : \A y \in T : <<y, x>> \notin R
  BY <1>1
<1>4. ASSUME NEW y \in T PROVE x <= y
  <2>1. ~(y < x) BY <1>2, <1>3
  <2>2. x \in Nat /\ y \in Nat OBVIOUS
  <2> QED BY <2>1, <2>2
<1> QED BY <1>4

\* The last position of h in a heap.
LEMMA EntryOfIs ==
  ASSUME NEW S, NEW s \in Seq(S), NEW h, h \in Range(s)
  PROVE  EntryOf(s, h) \in 1..Len(s) /\ s[EntryOf(s, h)] = h
<1> DEFINE E == Entries(s, h)
           D == {Len(s) - i : i \in E}
<1>0. Len(s) \in Nat /\ DOMAIN s = 1..Len(s) OBVIOUS
<1>1. E # {} /\ E \subseteq 1..Len(s) BY <1>0 DEF Entries, Range
<1>2. D # {} /\ D \subseteq Nat BY <1>0, <1>1
<1>3. PICK d \in D : \A e \in D : d <= e BY <1>2, Least
<1>4. PICK i \in E : d = Len(s) - i OBVIOUS
<1>5. ASSUME NEW j \in E PROVE i >= j
  <2>1. d <= Len(s) - j BY <1>3
  <2> QED BY <1>0, <1>1, <1>4, <2>1
<1>6. Max(E) \in E BY <1>5 DEF Max
<1> QED BY <1>0, <1>1, <1>6 DEF EntryOf, Entries

\* z is s without its position p.
OneLess(s, p, z) ==
  /\ p \in 1..Len(s) /\ Len(z) = Len(s) - 1
  /\ \A j \in 1..(Len(s) - 1) : z[j] = IF j < p THEN s[j] ELSE s[j + 1]

\* RemoveAt, position by position.
LEMMA Removed ==
  ASSUME NEW S, NEW s \in Seq(S), NEW p \in 1..Len(s)
  PROVE  RemoveAt(s, p) \in Seq(S) /\ OneLess(s, p, RemoveAt(s, p))
<1> DEFINE a == SubSeq(s, 1, p - 1)
           b == SubSeq(s, p + 1, Len(s))
<1>0. Len(s) \in Nat /\ p \in Nat /\ \A i \in 1..Len(s) : s[i] \in S OBVIOUS
<1>1. a \in Seq(S) /\ Len(a) = p - 1 /\ \A i \in 1..(p - 1) : a[i] = s[i]
  <2>1. \A i \in 1..(p - 1) : s[i] \in S BY <1>0
  <2>2. p - 1 \in Int /\ 1 \in Int BY <1>0
  <2>3. /\ a \in Seq(S) /\ Len(a) = (IF 1 <= p - 1 THEN (p - 1) - 1 + 1 ELSE 0)
        /\ \A i \in 1 .. (p - 1) - 1 + 1 : a[i] = s[1 + i - 1]
    BY <2>1, <2>2, SubSeqProperties
  <2> QED BY <1>0, <2>3
<1>2. b \in Seq(S) /\ Len(b) = Len(s) - p /\ \A i \in 1..(Len(s) - p) : b[i] = s[p + i]
  <2>1. \A i \in (p + 1)..Len(s) : s[i] \in S BY <1>0
  <2>2. p + 1 \in Int /\ Len(s) \in Int BY <1>0
  <2>3. /\ b \in Seq(S) /\ Len(b) = (IF p + 1 <= Len(s) THEN Len(s) - (p + 1) + 1 ELSE 0)
        /\ \A i \in 1 .. Len(s) - (p + 1) + 1 : b[i] = s[(p + 1) + i - 1]
    BY <2>1, <2>2, SubSeqProperties
  <2> QED BY <1>0, <2>3
<1> HIDE DEF a, b
<1>3. /\ a \o b \in Seq(S) /\ Len(a \o b) = Len(a) + Len(b)
      /\ \A i \in 1..Len(a) + Len(b) : (a \o b)[i] = IF i <= Len(a) THEN a[i] ELSE b[i - Len(a)]
  BY <1>1, <1>2, ConcatProperties
<1>4. RemoveAt(s, p) = a \o b BY DEF RemoveAt, a, b
<1>5. ASSUME NEW j \in 1..(Len(s) - 1) PROVE (a \o b)[j] = IF j < p THEN s[j] ELSE s[j + 1]
  <2>1. CASE j < p BY <1>0, <1>1, <1>2, <1>3, <2>1
  <2>2. CASE j >= p
    <3>1. (a \o b)[j] = b[j - (p - 1)] BY <1>0, <1>1, <1>2, <1>3, <2>2
    <3>2. j - (p - 1) \in 1..(Len(s) - p) /\ p + (j - (p - 1)) = j + 1 BY <1>0, <2>2
    <3>3. b[j - (p - 1)] = s[p + (j - (p - 1))] BY <1>2, <3>2
    <3>4. (a \o b)[j] = s[j + 1] BY <3>1, <3>2, <3>3
    <3> QED BY <1>0, <3>4, <2>2
  <2>3. j < p \/ j >= p BY <1>0
  <2> QED BY <2>1, <2>2, <2>3
<1>6. Len(a \o b) = Len(s) - 1 BY <1>0, <1>1, <1>2, <1>3
<1> QED BY <1>3, <1>4, <1>5, <1>6 DEF OneLess

\* The positions of h in a sequence are finitely many.
LEMMA EntriesFinite ==
  ASSUME NEW S, NEW s \in Seq(S), NEW h
  PROVE  /\ IsFiniteSet(Entries(s, h)) /\ Cardinality(Entries(s, h)) \in Nat
         /\ Entries(s, h) \subseteq 1..Len(s)
<1>1. Entries(s, h) \subseteq 1..Len(s) BY DEF Entries
<1>2. IsFiniteSet(1..Len(s)) BY FS_Interval
<1> QED BY <1>1, <1>2, FS_Subset, FS_CardinalityType

\* One entry less, at position p.
LEMMA RemovedCount ==
  ASSUME NEW S, NEW s \in Seq(S), NEW p, NEW z \in Seq(S), OneLess(s, p, z), NEW h
  PROVE  Cardinality(Entries(s, h)) = Cardinality(Entries(z, h)) + (IF s[p] = h THEN 1 ELSE 0)
<1> DEFINE A == Entries(s, h) \ {p}
           B == Entries(z, h)
           f == [j \in B |-> IF j < p THEN j ELSE j + 1]
<1>0. /\ Len(s) \in Nat /\ Len(z) \in Nat /\ p \in Nat /\ DOMAIN s = 1..Len(s) /\ DOMAIN z = 1..Len(z)
      /\ p \in 1..Len(s) /\ Len(z) = Len(s) - 1
      /\ \A j \in 1..(Len(s) - 1) : z[j] = IF j < p THEN s[j] ELSE s[j + 1]
  BY DEF OneLess
<1>1. B \subseteq 1..(Len(s) - 1) /\ A \subseteq 1..Len(s) BY <1>0 DEF Entries
<1>2. f \in [B -> A]
  <2> SUFFICES ASSUME NEW j \in B PROVE (IF j < p THEN j ELSE j + 1) \in A OBVIOUS
  <2>1. z[j] = h /\ j \in 1..(Len(s) - 1) BY <1>0 DEF Entries
  <2>2. s[IF j < p THEN j ELSE j + 1] = h BY <1>0, <2>1
  <2> QED BY <1>0, <2>1, <2>2 DEF Entries
<1>3. \A i, j \in B : f[i] = f[j] => i = j BY <1>0, <1>1
<1>4. ASSUME NEW i \in A PROVE \E j \in B : f[j] = i
  <2>1. s[i] = h /\ i \in 1..Len(s) /\ i # p BY <1>0 DEF Entries
  <2>2. CASE i < p
    <3>1. i \in 1..(Len(s) - 1) /\ z[i] = h BY <1>0, <2>1, <2>2
    <3>2. i \in B BY <1>0, <3>1 DEF Entries
    <3> QED BY <2>2, <3>2
  <2>3. CASE i > p
    <3>1. i - 1 \in 1..(Len(s) - 1) /\ ~(i - 1 < p) /\ i - 1 + 1 = i BY <1>0, <2>1, <2>3
    <3>2. z[i - 1] = h BY <1>0, <2>1, <3>1
    <3>3. i - 1 \in B BY <1>0, <3>1, <3>2 DEF Entries
    <3> QED BY <3>1, <3>3
  <2> QED BY <1>0, <2>1, <2>2, <2>3
<1>5. f \in Bijection(B, A) BY <1>2, <1>3, <1>4 DEF Bijection, Injection, Surjection, IsInjective
<1>6. IsFiniteSet(B) /\ IsFiniteSet(Entries(s, h)) BY EntriesFinite
<1> HIDE DEF f
<1>7. Cardinality(A) = Cardinality(B) BY <1>5, <1>6, FS_Bijection DEF ExistsBijection
<1>8. Cardinality(A) = IF p \in Entries(s, h) THEN Cardinality(Entries(s, h)) - 1 ELSE Cardinality(Entries(s, h))
  BY <1>6, FS_RemoveElement
<1>9. p \in Entries(s, h) <=> s[p] = h BY <1>0 DEF Entries
<1>10. Cardinality(Entries(s, h)) \in Nat BY EntriesFinite
<1> QED BY <1>7, <1>8, <1>9, <1>10

\* What is in the sequence, and how often.
LEMMA OneLessRange ==
  ASSUME NEW S, NEW s \in Seq(S), NEW p, NEW z \in Seq(S), OneLess(s, p, z)
  PROVE  /\ s[p] \in S /\ s # <<>>
         /\ \A g : g \in Range(z) => g \in Range(s)
         /\ \A g : g # s[p] /\ g \in Range(s) => g \in Range(z)
         /\ s[p] \in Range(s)
<1>0. /\ Len(s) \in Nat /\ Len(z) \in Nat /\ p \in Nat /\ DOMAIN s = 1..Len(s) /\ DOMAIN z = 1..Len(z)
      /\ p \in 1..Len(s) /\ Len(z) = Len(s) - 1
      /\ \A j \in 1..(Len(s) - 1) : z[j] = IF j < p THEN s[j] ELSE s[j + 1]
  BY DEF OneLess
<1>1. ASSUME NEW g, g \in Range(z) PROVE g \in Range(s)
  <2>1. PICK j \in 1..Len(z) : z[j] = g BY <1>0, <1>1 DEF Range
  <2>2. s[j] = g \/ s[j + 1] = g BY <1>0, <2>1
  <2>3. j \in DOMAIN s /\ j + 1 \in DOMAIN s BY <1>0, <2>1
  <2> QED BY <2>2, <2>3 DEF Range
<1>2. ASSUME NEW g, g # s[p], g \in Range(s) PROVE g \in Range(z)
  <2>1. PICK i \in 1..Len(s) : s[i] = g BY <1>0, <1>2 DEF Range
  <2>2. i # p BY <1>2, <2>1
  <2>3. CASE i < p
    <3>1. i \in 1..(Len(s) - 1) /\ z[i] = g BY <1>0, <2>1, <2>3
    <3> QED BY <1>0, <3>1 DEF Range
  <2>4. CASE i > p
    <3>1. i - 1 \in 1..(Len(s) - 1) /\ ~(i - 1 < p) /\ i - 1 + 1 = i BY <1>0, <2>1, <2>4
    <3>2. z[i - 1] = g BY <1>0, <2>1, <3>1
    <3> QED BY <1>0, <3>1, <3>2 DEF Range
  <2> QED BY <1>0, <2>1, <2>2, <2>3, <2>4
<1>3. s[p] \in S /\ s # <<>> /\ s[p] \in Range(s) BY <1>0 DEF Range
<1> QED BY <1>1, <1>2, <1>3

LEMMA OneLessOnce ==
  ASSUME NEW S, NEW s \in Seq(S), NEW p, NEW z \in Seq(S), OneLess(s, p, z), NEW h, OnceIn(s, h)
  PROVE  OnceIn(z, h) /\ (s[p] = h => h \notin Range(z))
<1>0. /\ Len(s) \in Nat /\ Len(z) \in Nat /\ p \in Nat /\ DOMAIN s = 1..Len(s) /\ DOMAIN z = 1..Len(z)
      /\ p \in 1..Len(s) /\ Len(z) = Len(s) - 1
      /\ \A j \in 1..(Len(s) - 1) : z[j] = IF j < p THEN s[j] ELSE s[j + 1]
  BY DEF OneLess
<1> DEFINE up(j) == IF j < p THEN j ELSE j + 1
<1>1. \A j \in DOMAIN z : up(j) \in DOMAIN s /\ up(j) # p /\ z[j] = s[up(j)] BY <1>0
<1>2. \A i, j \in DOMAIN z : up(i) = up(j) => i = j BY <1>0
<1> HIDE DEF up
<1> QED BY <1>0, <1>1, <1>2 DEF OnceIn, Range

\* And if one is added that is not there yet.
LEMMA OneMoreOnce ==
  ASSUME NEW S, NEW s \in Seq(S), NEW p, NEW z \in Seq(S), OneLess(s, p, z), NEW h, OnceIn(z, h),
         s[p] = h => h \notin Range(z)
  PROVE  OnceIn(s, h)
<1>0. /\ Len(s) \in Nat /\ Len(z) \in Nat /\ p \in Nat /\ DOMAIN s = 1..Len(s) /\ DOMAIN z = 1..Len(z)
      /\ p \in 1..Len(s) /\ Len(z) = Len(s) - 1
      /\ \A j \in 1..(Len(s) - 1) : z[j] = IF j < p THEN s[j] ELSE s[j + 1]
  BY DEF OneLess
<1> DEFINE down(j) == IF j < p THEN j ELSE j - 1
<1>1. \A j \in DOMAIN s : j # p => down(j) \in DOMAIN z /\ z[down(j)] = s[j]
  <2> SUFFICES ASSUME NEW j \in DOMAIN s, j # p PROVE down(j) \in DOMAIN z /\ z[down(j)] = s[j] OBVIOUS
  <2>1. CASE j < p BY <1>0, <2>1
  <2>2. CASE j > p
    <3>1. j - 1 \in 1..(Len(s) - 1) /\ ~(j - 1 < p) /\ j - 1 + 1 = j BY <1>0, <2>2
    <3>2. down(j) = j - 1 BY <1>0, <2>2
    <3> QED BY <1>0, <3>1, <3>2
  <2> QED BY <1>0, <2>1, <2>2
<1>2. \A i, j \in DOMAIN s : i # p /\ j # p /\ down(i) = down(j) => i = j BY <1>0
<1> HIDE DEF down
<1> QED BY <1>0, <1>1, <1>2 DEF OnceIn, Range

LEMMA Appended ==
  ASSUME NEW S, NEW s \in Seq(S), NEW x \in S
  PROVE  /\ Append(s, x) \in Seq(S) /\ OneLess(Append(s, x), Len(s) + 1, s)
         /\ Append(s, x)[Len(s) + 1] = x /\ Append(s, x) # <<>>
BY DEF OneLess

LEMMA Popped ==
  ASSUME NEW S, NEW s \in Seq(S), s # <<>>
  PROVE  /\ Tail(s) \in Seq(S) /\ OneLess(s, 1, Tail(s)) /\ s[1] = Head(s) /\ Head(s) \in S
         /\ Head(s) \in Range(s)
<1>1. Len(s) \in Nat \ {0} /\ Tail(s) \in Seq(S) /\ Len(Tail(s)) = Len(s) - 1 OBVIOUS
<1>2. \A j \in 1..(Len(s) - 1) : Tail(s)[j] = s[j + 1] OBVIOUS
<1>3. OneLess(s, 1, Tail(s)) BY <1>1, <1>2 DEF OneLess
<1>4. Head(s) = s[1] /\ 1 \in DOMAIN s /\ s[1] \in S BY <1>1
<1> QED BY <1>1, <1>3, <1>4 DEF Range

LEMMA Inserted ==
  ASSUME NEW S, NEW s \in Seq(S), NEW p \in 1..(Len(s) + 1), NEW x \in S
  PROVE  /\ InsertAt(s, p, x) \in Seq(S) /\ OneLess(InsertAt(s, p, x), p, s)
         /\ InsertAt(s, p, x)[p] = x
<1> DEFINE a == SubSeq(s, 1, p - 1)
           m == <<x>>
           b == SubSeq(s, p, Len(s))
<1>0. Len(s) \in Nat /\ p \in Nat /\ \A i \in 1..Len(s) : s[i] \in S OBVIOUS
<1>1. a \in Seq(S) /\ Len(a) = p - 1 /\ \A i \in 1..(p - 1) : a[i] = s[i]
  <2>1. \A i \in 1..(p - 1) : s[i] \in S BY <1>0
  <2>2. p - 1 \in Int /\ 1 \in Int BY <1>0
  <2>3. /\ a \in Seq(S) /\ Len(a) = (IF 1 <= p - 1 THEN (p - 1) - 1 + 1 ELSE 0)
        /\ \A i \in 1 .. (p - 1) - 1 + 1 : a[i] = s[1 + i - 1]
    BY <2>1, <2>2, SubSeqProperties
  <2> QED BY <1>0, <2>3
<1>2. b \in Seq(S) /\ Len(b) = Len(s) - p + 1 /\ \A i \in 1..(Len(s) - p + 1) : b[i] = s[p + i - 1]
  <2>1. \A i \in p..Len(s) : s[i] \in S BY <1>0
  <2>2. p \in Int /\ Len(s) \in Int BY <1>0
  <2>3. /\ b \in Seq(S) /\ Len(b) = (IF p <= Len(s) THEN Len(s) - p + 1 ELSE 0)
        /\ \A i \in 1 .. Len(s) - p + 1 : b[i] = s[p + i - 1]
    BY <2>1, <2>2, SubSeqProperties
  <2> QED BY <1>0, <2>3
<1>3. m \in Seq(S) /\ Len(m) = 1 /\ m[1] = x OBVIOUS
<1> HIDE DEF a, b, m
<1>4. /\ a \o m \in Seq(S) /\ Len(a \o m) = p
      /\ \A i \in 1..p : (a \o m)[i] = IF i <= p - 1 THEN s[i] ELSE x
  <2>1. /\ a \o m \in Seq(S) /\ Len(a \o m) = Len(a) + Len(m)
        /\ \A i \in 1..Len(a) + Len(m) : (a \o m)[i] = IF i <= Len(a) THEN a[i] ELSE m[i - Len(a)]
    BY <1>1, <1>3, ConcatProperties
  <2>2. Len(a) + Len(m) = p BY <1>0, <1>1, <1>3
  <2>3. \A i \in 1..p : i > p - 1 => i - (p - 1) = 1 BY <1>0
  <2> QED BY <1>0, <1>1, <1>3, <2>1, <2>2, <2>3
<1> DEFINE c == a \o m
<1>5. c \in Seq(S) /\ Len(c) = p /\ \A i \in 1..p : c[i] = IF i <= p - 1 THEN s[i] ELSE x
  BY <1>4
<1>6. InsertAt(s, p, x) = c \o b BY DEF InsertAt, a, b, m
<1> HIDE DEF c
<1>7. /\ c \o b \in Seq(S) /\ Len(c \o b) = Len(c) + Len(b)
      /\ \A i \in 1..Len(c) + Len(b) : (c \o b)[i] = IF i <= Len(c) THEN c[i] ELSE b[i - Len(c)]
  BY <1>2, <1>5, ConcatProperties
<1> DEFINE z == InsertAt(s, p, x)
<1>8. z \in Seq(S) /\ Len(z) = Len(s) + 1 BY <1>0, <1>2, <1>5, <1>6, <1>7
<1>9. \A i \in 1..p : z[i] = IF i <= p - 1 THEN s[i] ELSE x BY <1>0, <1>2, <1>5, <1>6, <1>7
<1>10. ASSUME NEW j \in p..Len(s) PROVE z[j + 1] = s[j]
  <2>1. j + 1 \in 1..Len(c) + Len(b) /\ ~(j + 1 <= p) /\ j + 1 - p \in 1..(Len(s) - p + 1)
    BY <1>0, <1>2, <1>5
  <2>2. z[j + 1] = b[j + 1 - p] BY <1>5, <1>6, <1>7, <2>1
  <2>3. b[j + 1 - p] = s[p + (j + 1 - p) - 1] BY <1>2, <2>1
  <2>4. p + (j + 1 - p) - 1 = j BY <1>0
  <2> QED BY <2>2, <2>3, <2>4
<1> HIDE DEF z
<1>11. z[p] = x BY <1>0, <1>9
<1>12. ASSUME NEW j \in 1..(Len(z) - 1) PROVE s[j] = IF j < p THEN z[j] ELSE z[j + 1]
  <2>1. CASE j < p BY <1>0, <1>9, <2>1
  <2>2. CASE j >= p
    <3>1. j \in p..Len(s) BY <1>0, <1>8, <2>2
    <3> QED BY <1>0, <1>10, <2>2, <3>1
  <2> QED BY <1>0, <1>8, <2>1, <2>2
<1> QED BY <1>0, <1>8, <1>11, <1>12 DEF OneLess, z

\* XHeap::erase() of h.
LEMMA Erased ==
  ASSUME NEW S, NEW s \in Seq(S), NEW h, h \in Range(s)
  PROVE  /\ Without(s, h) \in Seq(S)
         /\ EntryOf(s, h) \in 1..Len(s) /\ s[EntryOf(s, h)] = h
         /\ OneLess(s, EntryOf(s, h), Without(s, h))
<1>1. EntryOf(s, h) \in 1..Len(s) /\ s[EntryOf(s, h)] = h BY EntryOfIs
<1> QED BY <1>1, Removed DEF Without

-----------------------------------------------------------------------------
(* The heap of tasks. *)

LEMMA OrderedLess ==
  ASSUME NEW S, NEW s \in Seq(S), NEW p, NEW z \in Seq(S), OneLess(s, p, z), NEW m, Ordered(s, m)
  PROVE  Ordered(z, m)
<1>0. /\ Len(s) \in Nat /\ Len(z) \in Nat /\ p \in Nat /\ DOMAIN s = 1..Len(s) /\ DOMAIN z = 1..Len(z)
      /\ p \in 1..Len(s) /\ Len(z) = Len(s) - 1
      /\ \A j \in 1..(Len(s) - 1) : z[j] = IF j < p THEN s[j] ELSE s[j + 1]
  BY DEF OneLess
<1> DEFINE up(j) == IF j < p THEN j ELSE j + 1
<1>1. \A j \in DOMAIN z : up(j) \in DOMAIN s /\ z[j] = s[up(j)] BY <1>0
<1>2. \A i, j \in DOMAIN z : i < j => up(i) < up(j) BY <1>0
<1> HIDE DEF up
<1> QED BY <1>1, <1>2 DEF Ordered

LEMMA OrderedMore ==
  ASSUME NEW S, NEW s \in Seq(S), NEW p, NEW z \in Seq(S), OneLess(s, p, z), NEW m, Ordered(z, m),
         NEW k, s[p] = k, k \notin Range(z), NEW when \in Nat, NEW l, l[k] = when,
         \A x \in Range(z) : l[x] = m[x] /\ m[x] \in Nat,
         \A i \in DOMAIN z : (i < p => m[z[i]] <= when) /\ (i >= p => when <= m[z[i]])
  PROVE  Ordered(s, l)
<1>0. /\ Len(s) \in Nat /\ Len(z) \in Nat /\ p \in Nat /\ DOMAIN s = 1..Len(s) /\ DOMAIN z = 1..Len(z)
      /\ p \in 1..Len(s) /\ Len(z) = Len(s) - 1
      /\ \A j \in 1..(Len(s) - 1) : z[j] = IF j < p THEN s[j] ELSE s[j + 1]
  BY DEF OneLess
<1> DEFINE down(j) == IF j < p THEN j ELSE j - 1
<1>1. \A j \in DOMAIN s : j # p => down(j) \in DOMAIN z /\ z[down(j)] = s[j]
  <2> SUFFICES ASSUME NEW j \in DOMAIN s, j # p PROVE down(j) \in DOMAIN z /\ z[down(j)] = s[j] OBVIOUS
  <2>1. CASE j < p BY <1>0, <2>1
  <2>2. CASE j > p
    <3>1. j - 1 \in 1..(Len(s) - 1) /\ ~(j - 1 < p) /\ j - 1 + 1 = j BY <1>0, <2>2
    <3>2. down(j) = j - 1 BY <1>0, <2>2
    <3> QED BY <1>0, <3>1, <3>2
  <2> QED BY <1>0, <2>1, <2>2
<1>2. \A i, j \in DOMAIN s : i # p /\ j # p /\ i < j => down(i) < down(j) BY <1>0
<1>3. \A j \in DOMAIN s : (j < p => down(j) < p) /\ (j > p => down(j) >= p) BY <1>0
<1> HIDE DEF down
<1>4. \A j \in DOMAIN s : j # p => s[j] \in Range(z) BY <1>1 DEF Range
<1> SUFFICES ASSUME NEW i \in DOMAIN s, NEW j \in DOMAIN s, i < j
             PROVE  s[i] # s[j] /\ l[s[i]] <= l[s[j]]
  BY DEF Ordered
<1>5. CASE i # p /\ j # p
  <2>1. s[i] # s[j] /\ m[s[i]] <= m[s[j]] BY <1>1, <1>2, <1>5 DEF Ordered
  <2> QED BY <1>4, <1>5, <2>1
<1>6. CASE i = p
  <2>1. j # p /\ j > p BY <1>0, <1>6
  <2>2. when <= m[s[j]] BY <1>1, <1>3, <2>1
  <2> QED BY <1>4, <1>6, <2>1, <2>2
<1>7. CASE j = p
  <2>1. i # p /\ i < p BY <1>0, <1>7
  <2>2. m[s[i]] <= when BY <1>1, <1>3, <2>1
  <2> QED BY <1>4, <1>7, <2>1, <2>2
<1> QED BY <1>5, <1>6, <1>7

\* The position of a task in the heap: behind those that are not later.
LEMMA Position ==
  ASSUME NEW s \in Seq(Tasks), msec \in [Tasks -> Nat], Ordered(s, msec), NEW when \in Nat
  PROVE  LET n == Cardinality(NotLater(s, when))
         IN /\ n + 1 \in 1..(Len(s) + 1)
            /\ \A i \in DOMAIN s : (i < n + 1 => msec[s[i]] <= when) /\ (i >= n + 1 => when <= msec[s[i]])
<1>0. Len(s) \in Nat /\ DOMAIN s = 1..Len(s) /\ \A i \in DOMAIN s : s[i] \in Tasks /\ msec[s[i]] \in Nat
  OBVIOUS
<1> DEFINE L == {i \in 1..(Len(s) + 1) : i = Len(s) + 1 \/ msec[s[i]] > when}
<1>1. L # {} /\ L \subseteq Nat
  <2>1. Len(s) + 1 \in L BY <1>0
  <2>2. \A i \in L : i \in Nat BY <1>0
  <2> QED BY <2>1, <2>2
<1>2. PICK p \in L : \A i \in L : p <= i BY <1>1, Least
<1>3. p \in 1..(Len(s) + 1) OBVIOUS
<1>4. \A i \in 1..Len(s) : i < p => msec[s[i]] <= when
  <2> SUFFICES ASSUME NEW i \in 1..Len(s), i < p PROVE msec[s[i]] <= when OBVIOUS
  <2>1. i \notin L BY <1>0, <1>2, <1>3
  <2> QED BY <1>0, <2>1
<1>5. \A i \in 1..Len(s) : i >= p => msec[s[i]] > when
  <2> SUFFICES ASSUME NEW i \in 1..Len(s), i >= p PROVE msec[s[i]] > when OBVIOUS
  <2>1. p \in 1..Len(s) /\ msec[s[p]] > when BY <1>0, <1>3
  <2>2. CASE i = p BY <2>1, <2>2
  <2>3. CASE p < i
    <3>1. msec[s[p]] <= msec[s[i]] BY <1>0, <2>1, <2>3 DEF Ordered
    <3> QED BY <1>0, <2>1, <3>1
  <2> QED BY <1>3, <2>2, <2>3
<1>6. NotLater(s, when) = 1..(p - 1)
  <2>1. ASSUME NEW i \in NotLater(s, when) PROVE i \in 1..(p - 1)
    <3>1. i \in 1..Len(s) /\ msec[s[i]] <= when BY <1>0 DEF NotLater
    <3>2. ~(i >= p) BY <1>0, <1>5, <3>1
    <3> QED BY <1>3, <3>1, <3>2
  <2>2. ASSUME NEW i \in 1..(p - 1) PROVE i \in NotLater(s, when)
    <3>1. i \in 1..Len(s) /\ i < p BY <1>0, <1>3
    <3> QED BY <1>0, <1>4, <3>1 DEF NotLater
  <2> QED BY <2>1, <2>2
<1>7. Cardinality(NotLater(s, when)) = p - 1
  <2>1. 1 \in Int /\ p - 1 \in Int BY <1>3
  <2>2. Cardinality(1..(p - 1)) = IF 1 > p - 1 THEN 0 ELSE (p - 1) - 1 + 1 BY <2>1, FS_Interval
  <2> QED BY <1>3, <1>6, <2>2
<1>8. p - 1 + 1 = p BY <1>3
<1>9. \A i \in 1..Len(s) : msec[s[i]] > when => when <= msec[s[i]] BY <1>0
<1> QED BY <1>0, <1>3, <1>4, <1>5, <1>7, <1>8, <1>9

-----------------------------------------------------------------------------
(* The steps. *)

\* What callers of the dispatcher do.
FdCall(h) == addFd(h) \/ replaceFdModify(h) \/ replaceFdAdd(h) \/ removeFd(h) \/ readyFd(h)
TaskCall(k) == addTask(k) \/ replaceTask(k) \/ replaceTaskLaterThan(k) \/ removeTask(k)
Outside == start \/ startThread \/ cancel \/ waitForCancel \/ WriteInterrupt \/ tick \/ idleElapse

\* Every step is one of a caller, of a thread, of the kernel or of the clock.
LEMMA Steps ==
  ASSUME [Next]_vars
  PROVE  \/ UNCHANGED vars \/ Outside
         \/ \E h \in FdHandlers : FdCall(h)
         \/ \E k \in Tasks : TaskCall(k)
         \/ \E t \in Threads : work(t) \/ epollError(t)
         \/ \E fd \in Fds : arrive(fd)
<1>1. \A h \in FdHandlers : FdOf[h] \in Fds BY XEventAssumption
<1> QED BY <1>1 DEF Next, Outside, FdCall, TaskCall

\* Type correctness of the pieces of a step.
LEMMA PushType ==
  ASSUME Types, NEW h \in FdHandlers, NEW e \in SUBSET {"READ", "WRITE"}, Push(h, e) \/ Combine(h, e)
  PROVE  /\ fheap' \in Seq(FdHandlers) /\ fget' \in [FdHandlers -> SUBSET {"READ", "WRITE"}]
         /\ findex' \in [FdHandlers -> BOOLEAN]
<1>1. CASE Push(h, e) BY <1>1, Appended DEF Push, Types
<1>2. CASE Combine(h, e) BY <1>2 DEF Combine, Types
<1> QED BY <1>1, <1>2

LEMMA InsertIs ==
  ASSUME Types, Ordered(theap, msec), NEW k \in Tasks, NEW when \in Nat, Insert(k, when)
  PROVE  /\ theap' \in Seq(Tasks) /\ msec' = [msec EXCEPT ![k] = when]
         /\ \E rest \in Seq(Tasks) : \E p :
              /\ IF k \in Range(theap) THEN \E r : OneLess(theap, r, rest) /\ theap[r] = k ELSE rest = theap
              /\ k \notin Range(rest) /\ Ordered(rest, msec)
              /\ OneLess(theap', p, rest) /\ theap'[p] = k
              /\ \A i \in DOMAIN rest : (i < p => msec[rest[i]] <= when) /\ (i >= p => when <= msec[rest[i]])
<1> DEFINE rest == IF InTheap(k) THEN Without(theap, k) ELSE theap
           p == Cardinality(NotLater(rest, when)) + 1
<1>0. theap \in Seq(Tasks) /\ msec \in [Tasks -> Nat] BY DEF Types
<1>1. rest \in Seq(Tasks) /\ IF k \in Range(theap) THEN \E r : OneLess(theap, r, rest) /\ theap[r] = k ELSE rest = theap
  BY <1>0, Erased DEF InTheap
<1>2. theap' = InsertAt(rest, p, k) /\ msec' = [msec EXCEPT ![k] = when] BY DEF Insert
<1>3. OnceIn(theap, k)
  <2> SUFFICES ASSUME NEW i \in DOMAIN theap, NEW j \in DOMAIN theap, theap[i] = k, theap[j] = k PROVE i = j
    BY DEF OnceIn
  <2>1. ~(i < j) /\ ~(j < i) BY DEF Ordered
  <2>2. i \in Int /\ j \in Int BY <1>0
  <2> QED BY <2>1, <2>2
<1> HIDE DEF rest
<1>4. k \notin Range(rest) /\ Ordered(rest, msec)
  <2>1. CASE k \in Range(theap)
    <3>1. PICK r : OneLess(theap, r, rest) /\ theap[r] = k BY <1>1, <2>1
    <3> QED BY <1>0, <1>1, <1>3, <3>1, OneLessOnce, OrderedLess
  <2>2. CASE k \notin Range(theap) BY <1>1, <2>2
  <2> QED BY <2>1, <2>2
<1>5. /\ p \in 1..(Len(rest) + 1)
      /\ \A i \in DOMAIN rest : (i < p => msec[rest[i]] <= when) /\ (i >= p => when <= msec[rest[i]])
  BY <1>0, <1>1, <1>4, Position
<1> HIDE DEF p
<1>6. theap' \in Seq(Tasks) /\ OneLess(theap', p, rest) /\ theap'[p] = k
  BY <1>1, <1>2, <1>5, Inserted
<1> QED BY <1>1, <1>2, <1>4, <1>5, <1>6

-----------------------------------------------------------------------------
(* Types. *)

\* A thread, or two, at another place.
LEMMA PcType ==
  ASSUME Types, NEW t \in Threads, NEW u \in Threads, NEW x \in Places, NEW y \in Places
  PROVE  /\ [pc EXCEPT ![t] = x] \in [Threads -> Places]
         /\ [pc EXCEPT ![t] = x, ![u] = y] \in [Threads -> Places]
<1>1. [pc EXCEPT ![t] = x] \in [Threads -> Places] BY DEF Types
<1> DEFINE q == [pc EXCEPT ![t] = x]
<1>2. q \in [Threads -> Places] BY <1>1
<1> HIDE DEF q
<1>3. [q EXCEPT ![u] = y] \in [Threads -> Places] BY <1>2
<1> QED BY <1>1, <1>3 DEF q

LEMMA TypesOutside ==
  ASSUME Types, Outside
  PROVE  Types'
<1>1. CASE startThread
  <2>1. pc' \in [Threads -> Places]
    <3>1. CASE UNCHANGED pc BY <3>1 DEF Types
    <3>2. ASSUME NEW t \in Threads, pc' = [pc EXCEPT ![t] = "new"] PROVE pc' \in [Threads -> Places]
      <4>1. "new" \in Places BY DEF Places
      <4> QED BY <3>2, <4>1, PcType
    <3> QED BY <1>1, <3>1, <3>2 DEF startThread
  <2>2. numThread' \in Int /\ numIdle' \in Int /\ toStart' \in Nat BY <1>1 DEF startThread, Types
  <2>3. UNCHANGED <<setup, started, spawning, idleMark, leader, evm, got, busy, chain, fdVars, taskVars,
                 refs, sleepVars, endVars, intrVars, kernelVars, now, history>>
    BY <1>1 DEF startThread
  <2> QED BY <2>1, <2>2, <2>3 DEF Types, startVars, runVars, fdVars, taskVars, sleepVars, poolVars, endVars, intrVars,
        kernelVars, history
<1> USE XEventAssumption DEF Types, startVars, runVars, fdVars, taskVars, sleepVars, poolVars, endVars, intrVars,
        kernelVars, history
<1>2. CASE start BY <1>2 DEF start
<1>3. CASE cancel BY <1>3 DEF cancel, Interrupt
<1>4. CASE waitForCancel BY <1>4 DEF waitForCancel
<1>5. CASE WriteInterrupt BY <1>5 DEF WriteInterrupt
<1>6. CASE tick BY <1>6 DEF tick
<1>7. CASE idleElapse BY <1>7 DEF idleElapse
<1> QED BY <1>1, <1>2, <1>3, <1>4, <1>5, <1>6, <1>7 DEF Outside

\* What is owed to a handler that is taken out.
LEMMA CarriedType ==
  ASSUME Types, NEW h \in Handlers
  PROVE  Carried(h) \in SUBSET {"READ", "WRITE"}
<1>1. \A t \in Live(h) : evm[t].events \in SUBSET {"READ", "WRITE"}
  BY DEF Types, Live, EventMans
<1>2. \A i \in DOMAIN chain[h] : chain[h][i].events \in SUBSET {"READ", "WRITE"}
  <2> SUFFICES ASSUME NEW i \in DOMAIN chain[h] PROVE chain[h][i].events \in SUBSET {"READ", "WRITE"} OBVIOUS
  <2>1. chain[h] \in Seq(EventMans) BY DEF Types
  <2>2. chain[h][i] \in EventMans BY <2>1
  <2> QED BY <2>2 DEF EventMans
<1> QED BY <1>1, <1>2 DEF Carried

LEMMA AddFdTypes ==
  ASSUME Types, NEW h \in FdHandlers, NEW ok \in BOOLEAN, _do_add_fd(h, ok)
  PROVE  /\ fd2hr' \in [Fds -> FdHandlers \cup {None}] /\ fheap' \in Seq(FdHandlers) /\ fref' \in Int
         /\ findex' \in [FdHandlers -> BOOLEAN] /\ refs' \in [Handlers -> Int]
         /\ owed' \in [FdHandlers -> SUBSET {"READ", "WRITE"}]
         /\ kready' \in [Fds -> BOOLEAN] /\ armed' \in [Fds -> BOOLEAN] /\ evicted' \subseteq FdHandlers
         /\ UNCHANGED <<fget, data>>
<1> USE XEventAssumption DEF Types
<1> DEFINE old == fd2hr[FdOf[h]]
           erase == old # None /\ findex[old] /\ InFheap(old)
<1>0. FdOf[h] \in Fds /\ old \in FdHandlers \cup {None} /\ FdHandlers \subseteq Handlers BY DEF Handlers
<1>1. fheap' \in Seq(FdHandlers)
  <2>1. CASE erase BY <2>1, Erased DEF _do_add_fd, InFheap
  <2>2. CASE ~erase BY <2>2 DEF _do_add_fd
  <2> QED BY <2>1, <2>2
<1>2. fref' \in Int BY DEF _do_add_fd, FrefWithout
<1>3. findex' \in [FdHandlers -> BOOLEAN] BY DEF _do_add_fd
<1>4. refs' \in [Handlers -> Int] BY <1>0 DEF _do_add_fd
<1>5. owed' \in [FdHandlers -> SUBSET {"READ", "WRITE"}]
  <2>1. \A x \in FdHandlers : Carried(x) \in SUBSET {"READ", "WRITE"} BY <1>0, CarriedType
  <2> QED BY <2>1 DEF _do_add_fd
<1>6. fd2hr' \in [Fds -> FdHandlers \cup {None}] /\ kready' \in [Fds -> BOOLEAN] /\ armed' \in [Fds -> BOOLEAN]
  BY <1>0 DEF _do_add_fd
<1>7. evicted' \subseteq FdHandlers BY <1>0 DEF _do_add_fd
<1> QED BY <1>1, <1>2, <1>3, <1>4, <1>5, <1>6, <1>7 DEF _do_add_fd

LEMMA TypesFd ==
  ASSUME Types, NEW h \in FdHandlers, FdCall(h)
  PROVE  Types'
<1> USE XEventAssumption
<1>1. ASSUME NEW ok \in BOOLEAN, _do_add_fd(h, ok),
             UNCHANGED <<startVars, runVars, taskVars, sleepVars, poolVars, endVars, intrVars, now>>
      PROVE  Types'
  <2>1. /\ fd2hr' \in [Fds -> FdHandlers \cup {None}] /\ fheap' \in Seq(FdHandlers) /\ fref' \in Int
        /\ findex' \in [FdHandlers -> BOOLEAN] /\ refs' \in [Handlers -> Int]
        /\ owed' \in [FdHandlers -> SUBSET {"READ", "WRITE"}]
        /\ kready' \in [Fds -> BOOLEAN] /\ armed' \in [Fds -> BOOLEAN] /\ evicted' \subseteq FdHandlers
        /\ UNCHANGED <<fget, data>>
    BY <1>1, AddFdTypes
  <2> QED BY <1>1, <2>1 DEF Types, startVars, runVars, taskVars, sleepVars, poolVars, endVars, intrVars
<1>2. CASE addFd(h) \/ replaceFdAdd(h) BY <1>1, <1>2 DEF addFd, replaceFdAdd
<1>3. CASE replaceFdModify(h)
  BY <1>3 DEF replaceFdModify, Types, startVars, runVars, fdVars, taskVars, sleepVars, poolVars, endVars, intrVars,
        kernelVars, history
<1>4. CASE removeFd(h)
  <2>0. h \in Handlers BY DEF Handlers
  <2>1. fheap' \in Seq(FdHandlers) BY <1>4, Erased DEF removeFd, InFheap, Types
  <2>2. Carried(h) \in SUBSET {"READ", "WRITE"} BY <2>0, CarriedType
  <2>3. owed' \in [FdHandlers -> SUBSET {"READ", "WRITE"}] BY <1>4, <2>2 DEF removeFd, Types
  <2>4. fref' \in Int /\ findex' \in [FdHandlers -> BOOLEAN] /\ refs' \in [Handlers -> Int]
    BY <1>4, <2>0 DEF removeFd, FrefWithout, Types
  <2>5. fd2hr' \in [Fds -> FdHandlers \cup {None}] /\ kready' \in [Fds -> BOOLEAN] /\ armed' \in [Fds -> BOOLEAN]
    BY <1>4 DEF removeFd, Types
  <2>6. UNCHANGED <<fget, data, startVars, runVars, taskVars, sleepVars, poolVars, endVars,
                    intrVars, now, evicted>>
    BY <1>4 DEF removeFd
  <2> QED BY <2>1, <2>3, <2>4, <2>5, <2>6
       DEF Types, startVars, runVars, taskVars, sleepVars, poolVars, endVars, intrVars
<1>5. CASE readyFd(h)
  <2>0. h \in Handlers /\ {"WRITE"} \in SUBSET {"READ", "WRITE"} BY DEF Handlers
  <2>1. /\ fheap' \in Seq(FdHandlers) /\ fget' \in [FdHandlers -> SUBSET {"READ", "WRITE"}]
        /\ findex' \in [FdHandlers -> BOOLEAN]
    BY <1>5, <2>0, PushType DEF readyFd
  <2>2. refs' \in [Handlers -> Int] /\ intr' \in Nat /\ owed' \in [FdHandlers -> SUBSET {"READ", "WRITE"}]
    BY <1>5, <2>0 DEF readyFd, Interrupt, Types
  <2> QED BY <1>5, <2>1, <2>2
       DEF readyFd, Types, startVars, runVars, taskVars, sleepVars, poolVars, endVars, kernelVars
<1> QED BY <1>2, <1>3, <1>4, <1>5 DEF FdCall

LEMMA TypesTask ==
  ASSUME Types, Ordered(theap, msec), NEW k \in Tasks, TaskCall(k)
  PROVE  Types'
<1> USE XEventAssumption
<1>0. k \in Handlers BY DEF Handlers
<1>1. theap' \in Seq(Tasks) /\ msec' \in [Tasks -> Nat]
  <2>1. ASSUME NEW d \in Delays, Insert(k, now + d) PROVE theap' \in Seq(Tasks) /\ msec' \in [Tasks -> Nat]
    <3>1. now + d \in Nat /\ msec \in [Tasks -> Nat] BY DEF Types
    <3>2. PICK when \in Nat : when = now + d BY <3>1
    <3>3. theap' \in Seq(Tasks) /\ msec' = [msec EXCEPT ![k] = when] BY <2>1, <3>2, InsertIs
    <3> QED BY <3>1, <3>3
  <2>2. CASE removeTask(k) BY <2>2, Erased DEF removeTask, InTheap, Types
  <2>3. CASE addTask(k) BY <2>1, <2>3 DEF addTask
  <2>4. CASE replaceTask(k) BY <2>1, <2>4 DEF replaceTask, Types
  <2>5. CASE replaceTaskLaterThan(k) BY <2>1, <2>5 DEF replaceTaskLaterThan, Types
  <2> QED BY <2>2, <2>3, <2>4, <2>5 DEF TaskCall
<1>2. refs' \in [Handlers -> Int]
  <2>0. refs \in [Handlers -> Int] BY DEF Types
  <2>1. CASE addTask(k) \/ removeTask(k) BY <1>0, <2>0, <2>1 DEF addTask, removeTask
  <2>2. CASE replaceTask(k) \/ replaceTaskLaterThan(k) BY <1>0, <2>0, <2>2 DEF replaceTask, replaceTaskLaterThan
  <2> QED BY <2>1, <2>2 DEF TaskCall
<1>3. intr' \in Nat /\ overslept' \in BOOLEAN
  <2>1. CASE addTask(k) BY <2>1 DEF addTask, Interrupt, Types, sleepVars
  <2>2. CASE replaceTask(k) \/ replaceTaskLaterThan(k)
    BY <2>2 DEF replaceTask, replaceTaskLaterThan, Interrupt, Types, sleepVars
  <2>3. CASE removeTask(k) BY <2>3 DEF removeTask, Types, sleepVars, intrVars
  <2> QED BY <2>1, <2>2, <2>3 DEF TaskCall
<1>4. UNCHANGED <<tref, asks, wake, startVars, runVars, fdVars, poolVars, endVars, pipe, kernelVars, now, history>>
  BY DEF TaskCall, addTask, replaceTask, replaceTaskLaterThan, removeTask, sleepVars, intrVars
<1> QED BY <1>1, <1>2, <1>3, <1>4
     DEF Types, startVars, runVars, fdVars, poolVars, endVars, kernelVars, history

\* Where a step of work() leaves the threads.
LEMMA GotoIs ==
  ASSUME Types, NEW t \in Threads, NEW x \in Places, Goto(t, x)
  PROVE  /\ pc' \in [Threads -> Places] /\ pc'[t] = x
         /\ \A u \in Threads \ {t} : pc'[u] = pc[u]
<1>1. pc \in [Threads -> Places] /\ pc' = [pc EXCEPT ![t] = x] BY DEF Types, Goto
<1> QED BY <1>1

LEMMA SignalIs ==
  ASSUME Types, NEW t \in Threads, NEW x \in Places, Signal(t, x), pc[t] # "wait"
  PROVE  /\ pc' \in [Threads -> Places] /\ pc'[t] = x
         /\ \A u \in Threads \ {t} : pc'[u] = pc[u] \/ (pc[u] = "wait" /\ pc'[u] = "loop")
<1>0. pc \in [Threads -> Places] BY DEF Types
<1>1. CASE Goto(t, x) BY <1>1, GotoIs
<1>2. CASE \E u \in {w \in Threads : pc[w] = "wait"} : pc' = [pc EXCEPT ![t] = x, ![u] = "loop"]
  <2>1. PICK u \in Threads : pc[u] = "wait" /\ pc' = [pc EXCEPT ![t] = x, ![u] = "loop"] BY <1>2
  <2>2. "loop" \in Places /\ u # t BY <2>1 DEF Places
  <2>3. pc' \in [Threads -> Places] BY <2>1, <2>2, PcType
  <2>4. pc'[t] = x /\ pc'[u] = "loop" BY <1>0, <2>1, <2>2
  <2>5. \A v \in Threads \ {t, u} : pc'[v] = pc[v] BY <1>0, <2>1
  <2> QED BY <2>1, <2>3, <2>4, <2>5
<1> QED BY <1>1, <1>2 DEF Signal

LEMMA NewThreadIs ==
  ASSUME Types, NEW t \in Threads, new_thread(t)
  PROVE  /\ pc' \in [Threads -> Places] /\ pc[t] = "spawn" /\ pc'[t] = "run"
         /\ \/ UNCHANGED poolVars
               /\ \E u \in Threads \ {t} :
                    pc[u] = "off" /\ pc'[u] = "new" /\ \A v \in Threads \ {t, u} : pc'[v] = pc[v]
            \/ spawnFailed /\ \A v \in Threads \ {t} : pc'[v] = pc[v]
<1>0. pc \in [Threads -> Places] /\ pc[t] = "spawn" /\ "run" \in Places /\ "new" \in Places
  BY DEF Types, new_thread, Places
<1>1. CASE \E u \in Threads : pc[u] = "off" /\ pc' = [pc EXCEPT ![t] = "run", ![u] = "new"] /\ UNCHANGED poolVars
  <2>1. PICK u \in Threads : pc[u] = "off" /\ pc' = [pc EXCEPT ![t] = "run", ![u] = "new"] /\ UNCHANGED poolVars
    BY <1>1
  <2>2. u # t BY <1>0, <2>1
  <2>3. pc' \in [Threads -> Places] BY <1>0, <2>1, PcType
  <2>4. pc'[t] = "run" /\ pc'[u] = "new" BY <1>0, <2>1, <2>2
  <2>5. \A v \in Threads \ {t, u} : pc'[v] = pc[v] BY <1>0, <2>1
  <2> QED BY <1>0, <2>1, <2>2, <2>3, <2>4, <2>5
<1>2. CASE Goto(t, "run") /\ spawnFailed BY <1>0, <1>2, GotoIs
<1> QED BY <1>1, <1>2 DEF new_thread

\* Only t takes an EventMan or leaves one; a signalled thread or a new one
\* gets to another place, too.
LEMMA Moved ==
  ASSUME Types, InHand, NEW t \in Threads, work(t) \/ epollError(t)
  PROVE  /\ pc' \in [Threads -> Places]
         /\ \A u \in Threads \ {t} : \/ pc'[u] = pc[u] \/ (pc[u] = "wait" /\ pc'[u] = "loop")
                                     \/ (pc[u] = "off" /\ pc'[u] = "new")
         /\ evm' \in [Threads -> EventMans \cup {None}]
         /\ \A u \in Threads \ {t} : evm'[u] = evm[u]
<1> USE DEF startVars, runVars, fdVars, taskVars, poolVars
<1>0. evm \in [Threads -> EventMans \cup {None}] BY DEF Types
<1>a. ASSUME NEW x \in Places, Goto(t, x)
      PROVE  pc' \in [Threads -> Places] /\ \A u \in Threads \ {t} : pc'[u] = pc[u]
  BY <1>a, GotoIs
<1>b. ASSUME NEW e \in EventMans \cup {None}, evm' = [evm EXCEPT ![t] = e]
      PROVE  evm' \in [Threads -> EventMans \cup {None}] /\ \A u \in Threads \ {t} : evm'[u] = evm[u]
  BY <1>0, <1>b
<1>1. CASE workStart(t) BY <1>0, <1>1, <1>a DEF workStart, Places
<1>2. CASE lead(t) BY <1>0, <1>2, <1>a DEF lead, Places
<1>3. CASE nextNull(t) BY <1>3, <1>a, <1>b DEF nextNull, Places
<1>4. CASE nextFd(t)
  <2>1. Head(fheap) \in FdHandlers /\ fget[Head(fheap)] \in SUBSET {"READ", "WRITE"}
    BY <1>4, Popped DEF nextFd, Types
  <2>2. [hr |-> Head(fheap), events |-> fget[Head(fheap)]] \in EventMans \cup {None}
    BY <2>1 DEF EventMans, Handlers
  <2>3. evm' = [evm EXCEPT ![t] = [hr |-> Head(fheap), events |-> fget[Head(fheap)]]] /\ Goto(t, "evm")
    BY <1>4 DEF nextFd
  <2> QED BY <1>a, <1>b, <2>2, <2>3 DEF Places
<1>5. CASE nextTask(t)
  <2>1. Head(theap) \in Tasks BY <1>5, Popped DEF nextTask, Types
  <2>2. [hr |-> Head(theap), events |-> {}] \in EventMans \cup {None} BY <2>1 DEF EventMans, Handlers
  <2>3. evm' = [evm EXCEPT ![t] = [hr |-> Head(theap), events |-> {}]] /\ Goto(t, "evm")
    BY <1>5 DEF nextTask
  <2> QED BY <1>a, <1>b, <2>2, <2>3 DEF Places
<1>6. CASE nextSleep(t) BY <1>0, <1>6, <1>a DEF nextSleep, Places
<1>7. CASE epoll(t) BY <1>0, <1>7, <1>a DEF epoll, epollReady, epollTimeout, Places
<1>8. CASE epollError(t)
  <2>1. CASE Goto(t, "next") /\ UNCHANGED <<evm, canceled>> BY <1>0, <2>1, <1>a DEF Places
  <2>2. CASE evm' = [evm EXCEPT ![t] = None] /\ Goto(t, "give") BY <2>2, <1>a, <1>b DEF Places
  <2> QED BY <1>8, <2>1, <2>2 DEF epollError
<1>9. CASE gotPipe(t) BY <1>0, <1>9, <1>a DEF gotPipe, Handled, Places
<1>10. CASE \E fd \in Fds : gotFd(t, fd)
  <2>1. PICK fd \in Fds : gotFd(t, fd) BY <1>10
  <2>2. UNCHANGED evm /\ Goto(t, IF got' = {} THEN "next" ELSE "got") BY <2>1 DEF gotFd, Handled
  <2>3. (IF got' = {} THEN "next" ELSE "got") \in Places BY DEF Places
  <2> QED BY <1>0, <1>a, <2>2, <2>3
<1>11. CASE can_run(t)
  <2>1. CASE UNCHANGED evm /\ Goto(t, "give") BY <1>0, <1>a, <2>1 DEF Places
  <2>2. CASE evm' = [evm EXCEPT ![t] = None] /\ Goto(t, "next") BY <1>a, <1>b, <2>2 DEF Places
  <2> QED BY <1>11, <2>1, <2>2 DEF can_run
<1>12. CASE giveUp(t)
  <2>1. PICK x \in Places : Signal(t, x) BY <1>12 DEF giveUp, Places
  <2>2. pc[t] = "give" /\ UNCHANGED evm BY <1>12 DEF giveUp
  <2> QED BY <1>0, <2>1, <2>2, SignalIs
<1>13. CASE new_thread(t)
  <2>1. UNCHANGED evm BY <1>13 DEF new_thread
  <2> QED BY <1>0, <1>13, <2>1, NewThreadIs
<1>14. CASE doit(t) BY <1>0, <1>14, <1>a DEF doit, Places
<1>15. CASE destroy(t)
  <2>1. PICK x \in Places : Goto(t, x) BY <1>15 DEF destroy, Places
  <2>2. PICK e : evm' = [evm EXCEPT ![t] = e] /\ e = IF chain[evm[t].hr] # <<>> THEN Head(chain[evm[t].hr]) ELSE None
    BY <1>15 DEF destroy
  <2>3. e \in EventMans \cup {None}
    <3>1. CASE chain[evm[t].hr] = <<>> BY <2>2, <3>1
    <3>2. CASE chain[evm[t].hr] # <<>>
      <4>1. evm[t].hr \in Handlers BY <1>0, <1>15 DEF destroy, EventMans, InHand
      <4> QED BY <2>2, <3>2, <4>1, Popped DEF Types
    <3> QED BY <3>1, <3>2
  <2> QED BY <1>a, <1>b, <2>1, <2>2, <2>3
<1>16. CASE workEnd(t) BY <1>0, <1>16, <1>a DEF workEnd, Places
<1> QED BY <1>1, <1>2, <1>3, <1>4, <1>5, <1>6, <1>7, <1>8, <1>9, <1>10, <1>11, <1>12, <1>13, <1>14, <1>15, <1>16 DEF work

\* The EventMan in hand.
LEMMA HandType ==
  ASSUME Types, InHand, NEW t \in Threads, pc[t] \in {"evm", "spawn", "run", "ran"}
  PROVE  evm[t] \in EventMans /\ evm[t] # None /\ evm[t].hr \in Handlers /\ evm[t].events \in SUBSET {"READ", "WRITE"}
<1>1. evm[t] \in EventMans /\ evm[t] # None BY DEF Types, InHand
<1> QED BY <1>1 DEF EventMans

LEMMA TypesWork ==
  ASSUME Types, InHand, NEW t \in Threads, work(t) \/ epollError(t)
  PROVE  Types'
<1> USE DEF startVars, runVars, fdVars, taskVars, sleepVars, poolVars, endVars, intrVars, kernelVars, history
<1>0. pc' \in [Threads -> Places] /\ evm' \in [Threads -> EventMans \cup {None}] BY Moved
<1>1. CASE workStart(t)
  <2>1. spawning' \in BOOLEAN /\ UNCHANGED <<startVars, leader, evm, got, busy, chain, fdVars, taskVars, refs, sleepVars,
                 numThread, numIdle, idleMark, endVars, intrVars, kernelVars, now, history>>
    BY <1>1 DEF workStart
  <2> QED BY <1>0, <2>1 DEF Types
<1>2. CASE lead(t) BY <1>0, <1>2 DEF lead, Types
<1>3. CASE nextNull(t) BY <1>0, <1>3 DEF nextNull, Types
<1>a. MarkIdle => idleMark' \in {"zero", "set", "elapsed"} BY DEF MarkIdle, Types
<1>b. Fref \in Int /\ Tref \in Nat BY DEF Fref, Tref, Types
<1>4. CASE nextFd(t)
  <2>1. Head(fheap) \in FdHandlers /\ fheap' \in Seq(FdHandlers) BY <1>4, Popped DEF nextFd, Types
  <2>2. findex' \in [FdHandlers -> BOOLEAN] /\ fget' \in [FdHandlers -> SUBSET {"READ", "WRITE"}]
    BY <1>4, <2>1 DEF nextFd, Types
  <2>3. fref' \in Int /\ idleMark' \in {"zero", "set", "elapsed"} BY <1>4, <1>a, <1>b DEF nextFd
  <2>4. UNCHANGED <<fd2hr, startVars, leader, got, busy, chain, taskVars, refs, sleepVars,
                 numThread, numIdle, spawning, endVars, intrVars, kernelVars, now, history>>
    BY <1>4 DEF nextFd
  <2> QED BY <1>0, <2>1, <2>2, <2>3, <2>4 DEF Types
<1>5. CASE nextTask(t)
  <2>1. theap' \in Seq(Tasks) BY <1>5, Popped DEF nextTask, Types
  <2>2. fref' \in Int /\ tref' \in Nat /\ idleMark' \in {"zero", "set", "elapsed"} BY <1>5, <1>a, <1>b DEF nextTask, Types
  <2>4. UNCHANGED <<msec, fheap, fget, findex, fd2hr, startVars, leader, got, busy, chain, refs,
                 sleepVars, numThread, numIdle, spawning, endVars, intrVars, kernelVars, now,
                 history>>
    BY <1>5 DEF nextTask
  <2> QED BY <1>0, <2>1, <2>2, <2>4 DEF Types
<1>6. CASE nextSleep(t)
  <2>1. wake' \in Nat /\ asks' \in BOOLEAN
    <3>1. MaxTimeout \in Nat /\ now \in Nat BY XEventAssumption DEF MaxTimeout, Types
    <3>2. \A m, n \in Nat : Max({m, n}) \in Nat /\ Min({m, n}) \in Nat
      <4> TAKE m, n \in Nat
      <4>1. Max({m, n}) \in {m, n} BY DEF Max
      <4>2. Min({m, n}) \in {m, n} BY DEF Min
      <4> QED BY <4>1, <4>2
    <3>3. theap # <<>> => TopMsec \in Nat BY Popped DEF TopMsec, Types
    <3>4. PICK m, n : /\ m = (IF fheap = <<>> THEN MaxTimeout ELSE now)
                      /\ n = (IF theap = <<>> THEN MaxTimeout ELSE Max({TopMsec, now}))
                      /\ wake' = Min({m, n}) /\ asks' = (wake' > now)
      BY <1>6 DEF nextSleep
    <3>5. m \in Nat /\ n \in Nat BY <3>1, <3>2, <3>3, <3>4
    <3>6. wake' \in Nat BY <3>2, <3>4, <3>5
    <3> QED BY <3>1, <3>4, <3>6
  <2>2. fref' \in Int /\ tref' \in Nat /\ idleMark' \in {"zero", "set", "elapsed"} BY <1>6, <1>a, <1>b DEF nextSleep, Types
  <2>4. UNCHANGED <<overslept, theap, msec, fheap, fget, findex, fd2hr, startVars, leader, evm,
                    got, busy, chain, refs, numThread, numIdle, spawning, endVars, intrVars,
                    kernelVars, now, history>>
    BY <1>6 DEF nextSleep
  <2> QED BY <1>0, <2>1, <2>2, <2>4 DEF Types
<1>c. Woken => fref' \in Int /\ tref' \in Nat /\ asks' \in BOOLEAN /\ wake' \in Nat /\ overslept' \in BOOLEAN
  <2>1. MaxTimeout \in Nat BY XEventAssumption DEF MaxTimeout
  <2>2. Unset \in Int BY DEF Unset
  <2> QED BY <2>1, <2>2, 0 \in Nat DEF Woken
<1>7. CASE epollReady(t)
  <2>1. got' \subseteq Fds \cup {Pipe} BY <1>7 DEF epollReady, Reported
  <2>2. kready' \in [Fds -> BOOLEAN] /\ armed' \in [Fds -> BOOLEAN] BY <1>7 DEF epollReady, Types
  <2>3. Woken /\ UNCHANGED <<startVars, leader, evm, busy, chain, fheap, fget, findex, fd2hr, theap, msec,
                 refs, poolVars, endVars, intrVars, data, now, history>>
    BY <1>7 DEF epollReady
  <2> QED BY <1>0, <1>c, <2>1, <2>2, <2>3 DEF Types
<1>8. CASE epollTimeout(t)
  <2>3. Woken /\ UNCHANGED <<startVars, leader, got, busy, chain, fheap, fget, findex, fd2hr, theap,
                 msec, refs, poolVars, endVars, intrVars, kernelVars, now, history>>
    BY <1>8 DEF epollTimeout
  <2> QED BY <1>0, <1>c, <2>3 DEF Types
<1>9. CASE epollError(t)
  <2>3. /\ Woken /\ canceled' \in BOOLEAN
        /\ UNCHANGED <<startVars, leader, got, busy, chain, fheap, fget, findex, fd2hr, theap, msec,
                 refs, poolVars, cleared, waiter, intrVars, kernelVars, now, history>>
    BY <1>9 DEF epollError, Types
  <2> QED BY <1>0, <1>c, <2>3 DEF Types
<1>10. CASE gotPipe(t)
  <2>1. got' \subseteq Fds \cup {Pipe} BY <1>10 DEF gotPipe, Handled, Types
  <2>2. pipe' \in BOOLEAN /\ UNCHANGED <<startVars, leader, evm, busy, chain, fdVars, taskVars, refs, sleepVars,
                 poolVars, endVars, intr, kernelVars, now, history>>
    BY <1>10 DEF gotPipe
  <2> QED BY <1>0, <2>1, <2>2 DEF Types
<1>11. CASE \E fd \in Fds : gotFd(t, fd)
  <2>1. PICK fd \in Fds : gotFd(t, fd) BY <1>11
  <2>2. PICK h \in FdHandlers \cup {None} : h = fd2hr[fd] BY DEF Types
  <2>3. got' \subseteq Fds \cup {Pipe} BY <2>1 DEF gotFd, Handled, Types
  <2>4. UNCHANGED <<fref, data, startVars, leader, evm, busy, chain, taskVars, sleepVars,
                    poolVars, endVars, intrVars, now, evicted>>
    BY <2>1 DEF gotFd
  <2>5. CASE h = None
    <3>1. UNCHANGED <<fheap, fget, findex, fd2hr, refs, kready, armed, owed>> BY <2>1, <2>2, <2>5 DEF gotFd
    <3> QED BY <1>0, <2>3, <2>4, <3>1 DEF Types
  <2>6. CASE h # None
    <3>0. h \in FdHandlers /\ h \in Handlers BY <2>6 DEF Handlers
    <3>1. /\ owed' = [owed EXCEPT ![h] = @ \cup {"READ"}]
          /\ Combine(h, {"READ"}) \/ Push(h, {"READ"})
          /\ refs' = [refs EXCEPT ![h] = @ + RefsOnEvent(h, h \in Edge \cup OneShot)]
          /\ fd2hr' = fd2hr \/ fd2hr' = [fd2hr EXCEPT ![fd] = None]
          /\ kready' = kready \/ kready' = [kready EXCEPT ![fd] = FALSE]
          /\ armed' = armed \/ armed' = [armed EXCEPT ![fd] = FALSE]
      BY <2>1, <2>2, <2>6 DEF gotFd
    <3>2. owed' \in [FdHandlers -> SUBSET {"READ", "WRITE"}] BY <3>0, <3>1 DEF Types
    <3>3. /\ fheap' \in Seq(FdHandlers) /\ fget' \in [FdHandlers -> SUBSET {"READ", "WRITE"}]
          /\ findex' \in [FdHandlers -> BOOLEAN]
      <4>1. {"READ"} \in SUBSET {"READ", "WRITE"} OBVIOUS
      <4> QED BY <3>0, <3>1, <4>1, PushType
    <3>4. refs' \in [Handlers -> Int] BY <3>0, <3>1 DEF Types, RefsOnEvent
    <3>5. fd2hr' \in [Fds -> FdHandlers \cup {None}] /\ kready' \in [Fds -> BOOLEAN] /\ armed' \in [Fds -> BOOLEAN]
      BY <3>1 DEF Types
    <3> QED BY <1>0, <2>3, <2>4, <3>2, <3>3, <3>4, <3>5 DEF Types
  <2> QED BY <2>5, <2>6
<1>12. CASE can_run(t)
  <2>1. evm[t] \in EventMans /\ evm[t].hr \in Handlers BY <1>12, HandType DEF can_run
  <2>2. chain' \in [Handlers -> Seq(EventMans)] /\ busy' \in [Handlers -> BOOLEAN]
    <3>1. chain \in [Handlers -> Seq(EventMans)] /\ busy \in [Handlers -> BOOLEAN] BY DEF Types
    <3>2. Append(chain[evm[t].hr], evm[t]) \in Seq(EventMans) BY <2>1, <3>1
    <3> QED BY <1>12, <2>1, <3>1, <3>2 DEF can_run
  <2>3. UNCHANGED <<startVars, leader, got, fdVars, taskVars, refs, sleepVars, poolVars, endVars,
                    intrVars, kernelVars, now, history>>
    BY <1>12 DEF can_run
  <2> QED BY <1>0, <2>2, <2>3 DEF Types
<1>13. CASE giveUp(t)
  <2>1. leader' = None /\ UNCHANGED <<startVars, evm, got, busy, chain, fdVars, taskVars, refs, sleepVars, endVars,
                    intrVars, kernelVars, now, history>>
    BY <1>13 DEF giveUp
  <2>2. idleMark' \in {"zero", "set", "elapsed"} /\ spawning' \in BOOLEAN /\ numThread' \in Int /\ numIdle' \in Int
    <3>1. /\ idleMark \in {"zero", "set", "elapsed"} /\ spawning \in BOOLEAN /\ numThread \in Int /\ numIdle \in Int
      BY DEF Types
    <3>2. CASE evm[t] = None BY <1>13, <3>1, <3>2 DEF giveUp
    <3>3. CASE evm[t] # None
      <4>1. PICK spawn \in BOOLEAN :
              /\ idleMark' = (IF numIdle - 1 <= 1 THEN "zero" ELSE idleMark)
              /\ spawning' = (spawning \/ spawn)
              /\ numThread' = (IF spawn THEN numThread + 1 ELSE numThread)
              /\ numIdle' = (IF spawn THEN numIdle ELSE numIdle - 1)
        BY <1>13, <3>3 DEF giveUp
      <4> QED BY <3>1, <4>1
    <3> QED BY <3>2, <3>3
  <2> QED BY <1>0, <2>1, <2>2 DEF Types
<1>14. CASE new_thread(t)
  <2>1. UNCHANGED <<startVars, leader, evm, got, busy, chain, fdVars, taskVars, refs, sleepVars,
                 endVars, intrVars, kernelVars, now, history>>
    BY <1>14 DEF new_thread
  <2>2. UNCHANGED poolVars \/ spawnFailed BY <1>14 DEF new_thread
  <2>3. idleMark' \in {"zero", "set", "elapsed"} /\ spawning' \in BOOLEAN /\ numThread' \in Int /\ numIdle' \in Int
    <3>1. /\ idleMark \in {"zero", "set", "elapsed"} /\ spawning \in BOOLEAN /\ numThread \in Int /\ numIdle \in Int
      BY DEF Types
    <3>2. CASE UNCHANGED poolVars BY <3>1, <3>2
    <3>3. CASE spawnFailed
      <4>1. spawning' = FALSE /\ idleMark' = idleMark BY <3>3 DEF spawnFailed
      <4>2. numThread' \in Int /\ numIdle' \in Int BY <3>1, <3>3 DEF spawnFailed
      <4>3. spawning' \in BOOLEAN BY <4>1
      <4> QED BY <3>1, <4>1, <4>2, <4>3
    <3> QED BY <2>2, <3>2, <3>3
  <2> QED BY <1>0, <2>1, <2>3 DEF Types
<1>15. CASE doit(t)
  <2>1. evm[t] \in EventMans /\ evm[t].hr \in Handlers BY <1>15, HandType DEF doit
  <2>2. owed' \in [FdHandlers -> SUBSET {"READ", "WRITE"}] BY <1>15 DEF doit, Types
  <2>3. data' \in [Fds -> BOOLEAN] /\ kready' \in [Fds -> BOOLEAN] BY <1>15 DEF doit, Types
  <2>4. UNCHANGED <<armed, startVars, leader, evm, got, busy, chain, fdVars, taskVars, refs,
                    sleepVars, poolVars, endVars, intrVars, now, evicted>>
    BY <1>15 DEF doit
  <2> QED BY <1>0, <2>2, <2>3, <2>4 DEF Types
<1>16. CASE destroy(t)
  <2>1. PICK h \in Handlers : h = evm[t].hr BY <1>16, HandType DEF destroy
  <2>2. /\ chain' = [chain EXCEPT ![h] = IF chain[h] # <<>> THEN Tail(@) ELSE @]
        /\ busy' = [busy EXCEPT ![h] = @ /\ chain[h] # <<>>]
        /\ refs' = [refs EXCEPT ![h] = @ - 1]
        /\ numIdle' = IF chain[h] # <<>> THEN numIdle ELSE numIdle + 1
    BY <1>16, <2>1 DEF destroy
  <2>3. chain' \in [Handlers -> Seq(EventMans)]
    <3>1. chain[h] \in Seq(EventMans) /\ chain \in [Handlers -> Seq(EventMans)] BY DEF Types
    <3>2. (IF chain[h] # <<>> THEN Tail(chain[h]) ELSE chain[h]) \in Seq(EventMans) BY <3>1
    <3> QED BY <2>2, <3>1, <3>2
  <2>4. busy' \in [Handlers -> BOOLEAN] /\ refs' \in [Handlers -> Int] /\ numIdle' \in Int BY <2>2 DEF Types
  <2>5. UNCHANGED <<numThread, spawning, idleMark, startVars, leader, got, fdVars, taskVars,
                    sleepVars, endVars, intrVars, kernelVars, now, history>>
    BY <1>16 DEF destroy
  <2> QED BY <1>0, <2>3, <2>4, <2>5 DEF Types
<1>17. CASE workEnd(t)
  <2>1. numThread' \in Int /\ numIdle' \in Int BY <1>17 DEF workEnd, Types
  <2>2. UNCHANGED <<spawning, idleMark, fget, findex, fref, msec, tref, startVars, leader, evm,
                    got, busy, chain, sleepVars, canceled, intr, data, now, evicted>>
    BY <1>17 DEF workEnd
  <2>3. CASE numThread # 1
    <3>1. UNCHANGED <<cleared, waiter, fheap, fd2hr, theap, refs, kready, armed, pipe, owed>>
      BY <1>17, <2>3 DEF workEnd
    <3> QED BY <1>0, <2>1, <2>2, <3>1 DEF Types
  <2>4. CASE numThread = 1
    <3>1. /\ cleared' = TRUE /\ waiter' = (IF waiter = "wait" THEN "woken" ELSE waiter)
          /\ fheap' = <<>> /\ theap' = <<>> /\ fd2hr' = [fd \in Fds |-> None]
          /\ kready' = [fd \in Fds |-> FALSE] /\ armed' = [fd \in Fds |-> FALSE]
          /\ pipe' = FALSE /\ owed' = [h \in FdHandlers |-> {}]
      BY <1>17, <2>4 DEF workEnd
    <3>2. refs' \in [Handlers -> Int]
      <4>1. \A h \in Handlers : Cardinality(Entries(fheap, h)) \in Nat /\ Cardinality(Entries(theap, h)) \in Nat
        BY EntriesFinite DEF Types
      <4>2. \A h \in Handlers : refs[h] \in Int BY DEF Types
      <4> QED BY <1>17, <2>4, <4>1, <4>2 DEF workEnd
    <3>3. waiter' \in {"none", "wait", "woken", "done"} BY <3>1 DEF Types
    <3>4. /\ fd2hr' \in [Fds -> FdHandlers \cup {None}] /\ kready' \in [Fds -> BOOLEAN] /\ armed' \in [Fds -> BOOLEAN]
          /\ owed' \in [FdHandlers -> SUBSET {"READ", "WRITE"}] /\ fheap' \in Seq(FdHandlers) /\ theap' \in Seq(Tasks)
          /\ cleared' \in BOOLEAN /\ pipe' \in BOOLEAN
      <4>1. <<>> \in Seq(FdHandlers) /\ <<>> \in Seq(Tasks) OBVIOUS
      <4>2. {} \in SUBSET {"READ", "WRITE"} OBVIOUS
      <4> QED BY <3>1, <4>1, <4>2
    <3> QED BY <1>0, <2>1, <2>2, <3>2, <3>3, <3>4 DEF Types
  <2> QED BY <2>3, <2>4
<1> QED BY <1>1, <1>2, <1>3, <1>4, <1>5, <1>6, <1>7, <1>8, <1>9, <1>10, <1>11, <1>12, <1>13, <1>14, <1>15, <1>16, <1>17
     DEF work, epoll

LEMMA TypesStep ==
  ASSUME Types, InHand, Ordered(theap, msec), [Next]_vars
  PROVE  Types'
<1> USE DEF startVars, runVars, fdVars, taskVars, sleepVars, poolVars, endVars, intrVars, kernelVars, history
<1>1. CASE UNCHANGED vars BY <1>1 DEF vars, Types
<1>2. ASSUME NEW fd \in Fds, arrive(fd) PROVE Types'
  <2>1. data' \in [Fds -> BOOLEAN] /\ kready' \in [Fds -> BOOLEAN] BY <1>2 DEF arrive, Types
  <2>2. UNCHANGED <<armed, startVars, runVars, fdVars, taskVars, refs, sleepVars, poolVars, endVars,
                 intrVars, now, history>>
    BY <1>2 DEF arrive
  <2> QED BY <2>1, <2>2 DEF Types
<1> QED BY <1>1, <1>2, Steps, TypesOutside, TypesFd, TypesTask, TypesWork

-----------------------------------------------------------------------------
(* The threads. *)

\* What everyone but the threads of the pool leaves alone.
Called == Outside \/ (\E h \in FdHandlers : FdCall(h)) \/ (\E k \in Tasks : TaskCall(k)) \/ (\E fd \in Fds : arrive(fd))

LEMMA Parts ==
  ASSUME [Next]_vars
  PROVE  UNCHANGED vars \/ Called \/ \E t \in Threads : work(t) \/ epollError(t)
BY Steps DEF Called

LEMMA CalledMoves ==
  ASSUME Types, Called
  PROVE  /\ UNCHANGED <<leader, evm, got, busy, chain>>
         /\ \A u \in Threads : pc'[u] = pc[u] \/ (pc[u] = "off" /\ pc'[u] = "new")
<1> USE DEF runVars
<1>1. CASE startThread
  <2>1. UNCHANGED <<leader, evm, got, busy, chain>> BY <1>1 DEF startThread
  <2>2. CASE UNCHANGED pc BY <2>1, <2>2
  <2>3. ASSUME NEW t \in Threads, pc[t] = "off", pc' = [pc EXCEPT ![t] = "new"]
        PROVE  \A u \in Threads : pc'[u] = pc[u] \/ (pc[u] = "off" /\ pc'[u] = "new")
    <3>1. pc \in [Threads -> Places] BY DEF Types
    <3> QED BY <2>3, <3>1
  <2> QED BY <1>1, <2>1, <2>2, <2>3 DEF startThread
<1>2. CASE start \/ cancel \/ waitForCancel \/ WriteInterrupt \/ tick \/ idleElapse
  BY <1>2 DEF start, cancel, waitForCancel, WriteInterrupt, tick, idleElapse
<1>3. ASSUME NEW h \in FdHandlers, FdCall(h) PROVE UNCHANGED runVars
  BY <1>3 DEF FdCall, addFd, replaceFdModify, replaceFdAdd, removeFd, readyFd
<1>4. ASSUME NEW k \in Tasks, TaskCall(k) PROVE UNCHANGED runVars
  BY <1>4 DEF TaskCall, addTask, replaceTask, replaceTaskLaterThan, removeTask
<1>5. ASSUME NEW fd \in Fds, arrive(fd) PROVE UNCHANGED runVars
  BY <1>5 DEF arrive
<1> QED BY <1>1, <1>2, <1>3, <1>4, <1>5 DEF Called, Outside

\* The leadership is taken, kept or given up.
LEMMA LeaderStep ==
  ASSUME Types, InHand, OneLeader, NEW t \in Threads, work(t) \/ epollError(t)
  PROVE  \/ (pc[t] \in Leading <=> pc'[t] \in Leading) /\ leader' = leader
         \/ pc[t] \notin Leading /\ pc'[t] \in Leading /\ leader = None /\ leader' = t
         \/ pc[t] \in Leading /\ pc'[t] \notin Leading /\ leader' = None
<1> USE DEF startVars, runVars, Leading
<1>a. ASSUME NEW x \in Places, Goto(t, x) PROVE pc'[t] = x BY <1>a, GotoIs
<1>1. CASE workStart(t) BY <1>1, <1>a DEF workStart, Places
<1>2. CASE lead(t) BY <1>2, <1>a DEF lead, Places
<1>3. CASE nextNull(t) BY <1>3, <1>a DEF nextNull, Places
<1>4. CASE nextFd(t) BY <1>4, <1>a DEF nextFd, Places
<1>5. CASE nextTask(t) BY <1>5, <1>a DEF nextTask, Places
<1>6. CASE nextSleep(t) BY <1>6, <1>a DEF nextSleep, Places
<1>7. CASE epoll(t) BY <1>7, <1>a DEF epoll, epollReady, epollTimeout, Places
<1>8. CASE epollError(t) BY <1>8, <1>a DEF epollError, Places
<1>9. CASE gotPipe(t) BY <1>9, <1>a DEF gotPipe, Handled, Places
<1>10. CASE \E fd \in Fds : gotFd(t, fd) BY <1>10, <1>a DEF gotFd, Handled, Places
<1>11. CASE can_run(t) BY <1>11, <1>a DEF can_run, Places
<1>12. CASE giveUp(t)
  <2>1. PICK x \in {"exit", "spawn", "run"} : Signal(t, x) BY <1>12 DEF giveUp
  <2>2. pc'[t] = x BY <1>12, <2>1, SignalIs DEF giveUp, Places
  <2> QED BY <1>12, <2>2 DEF giveUp
<1>13. CASE new_thread(t)
  <2>1. UNCHANGED leader BY <1>13 DEF new_thread
  <2> QED BY <1>13, <2>1, NewThreadIs
<1>14. CASE doit(t) BY <1>14, <1>a DEF doit, Places
<1>15. CASE destroy(t) BY <1>15, <1>a DEF destroy, Places
<1>16. CASE workEnd(t) BY <1>16, <1>a DEF workEnd, Places
<1> QED BY <1>1, <1>2, <1>3, <1>4, <1>5, <1>6, <1>7, <1>8, <1>9, <1>10, <1>11, <1>12, <1>13, <1>14, <1>15, <1>16 DEF work

\* The EventMan in hand, where the thread is.
LEMMA HandStep ==
  ASSUME Types, InHand, NEW t \in Threads, work(t) \/ epollError(t)
  PROVE  /\ pc'[t] \in {"evm", "spawn", "run", "ran"} => evm'[t] # None
         /\ evm'[t] # None => pc'[t] \in {"evm", "give", "spawn", "run", "ran"}
<1> USE DEF startVars, runVars, InHand
<1>a. ASSUME NEW x \in Places, Goto(t, x) PROVE pc'[t] = x BY <1>a, GotoIs
<1>b. ASSUME NEW e, evm' = [evm EXCEPT ![t] = e] PROVE evm'[t] = e BY <1>b DEF Types
<1>c. \A e \in EventMans : e # None BY XEventAssumption
<1>1. CASE workStart(t) BY <1>1, <1>a DEF workStart, Places
<1>2. CASE lead(t) BY <1>2, <1>a DEF lead, Places
<1>3. CASE nextNull(t) BY <1>3, <1>a, <1>b DEF nextNull, Places
<1>4. CASE nextFd(t)
  <2>1. Head(fheap) \in FdHandlers /\ fget[Head(fheap)] \in SUBSET {"READ", "WRITE"}
    BY <1>4, Popped DEF nextFd, Types
  <2>2. [hr |-> Head(fheap), events |-> fget[Head(fheap)]] # None
    BY <1>c, <2>1 DEF EventMans, Handlers
  <2>3. evm' = [evm EXCEPT ![t] = [hr |-> Head(fheap), events |-> fget[Head(fheap)]]] /\ Goto(t, "evm")
    BY <1>4 DEF nextFd
  <2>4. evm'[t] # None BY <1>b, <2>2, <2>3
  <2> QED BY <1>a, <2>3, <2>4 DEF Places
<1>5. CASE nextTask(t)
  <2>1. Head(theap) \in Tasks BY <1>5, Popped DEF nextTask, Types
  <2>2. [hr |-> Head(theap), events |-> {}] # None BY <1>c, <2>1 DEF EventMans, Handlers
  <2>3. evm' = [evm EXCEPT ![t] = [hr |-> Head(theap), events |-> {}]] /\ Goto(t, "evm")
    BY <1>5 DEF nextTask
  <2>4. evm'[t] # None BY <1>b, <2>2, <2>3
  <2> QED BY <1>a, <2>3, <2>4 DEF Places
<1>6. CASE nextSleep(t) BY <1>6, <1>a DEF nextSleep, Places
<1>7. CASE epoll(t) BY <1>7, <1>a DEF epoll, epollReady, epollTimeout, Places
<1>8. CASE epollError(t) BY <1>8, <1>a, <1>b DEF epollError, Places
<1>9. CASE gotPipe(t) BY <1>9, <1>a DEF gotPipe, Handled, Places
<1>10. CASE \E fd \in Fds : gotFd(t, fd)
  <2>1. UNCHANGED evm /\ pc[t] = "got" BY <1>10 DEF gotFd, Handled
  <2>2. pc'[t] \in {"next", "got"} BY <1>10, <1>a DEF gotFd, Handled, Places
  <2> QED BY <2>1, <2>2
<1>11. CASE can_run(t) BY <1>11, <1>a, <1>b DEF can_run, Places
<1>12. CASE giveUp(t)
  <2>1. PICK x \in {"exit", "spawn", "run"} : Signal(t, x) /\ (x = "exit" <=> evm[t] = None) BY <1>12 DEF giveUp
  <2>2. pc'[t] = x BY <1>12, <2>1, SignalIs DEF giveUp, Places
  <2>3. UNCHANGED evm BY <1>12 DEF giveUp
  <2> QED BY <2>1, <2>2, <2>3
<1>13. CASE new_thread(t)
  <2>1. UNCHANGED evm BY <1>13 DEF new_thread
  <2> QED BY <1>13, <2>1, NewThreadIs
<1>14. CASE doit(t) BY <1>14, <1>a DEF doit, Places
<1>15. CASE destroy(t)
  <2>1. PICK h \in Handlers : h = evm[t].hr BY <1>15, HandType DEF destroy
  <2>2. evm' = [evm EXCEPT ![t] = IF chain[h] # <<>> THEN Head(chain[h]) ELSE None]
        /\ Goto(t, IF chain[h] # <<>> THEN "run" ELSE "loop")
    BY <1>15, <2>1 DEF destroy
  <2>3. CASE chain[h] = <<>>
    <3>1. evm'[t] = None /\ pc'[t] = "loop" BY <2>2, <2>3, <1>a, <1>b DEF Places
    <3> QED BY <3>1
  <2>4. CASE chain[h] # <<>>
    <3>1. Head(chain[h]) \in EventMans BY <2>4, Popped DEF Types
    <3>2. evm'[t] # None /\ pc'[t] = "run" BY <2>2, <2>4, <3>1, <1>a, <1>b, <1>c DEF Places
    <3> QED BY <3>2
  <2> QED BY <2>3, <2>4
<1>16. CASE workEnd(t) BY <1>16, <1>a DEF workEnd, Places
<1> QED BY <1>1, <1>2, <1>3, <1>4, <1>5, <1>6, <1>7, <1>8, <1>9, <1>10, <1>11, <1>12, <1>13, <1>14, <1>15, <1>16 DEF work

\* The list of epoll_wait().
LEMMA ListStep ==
  ASSUME Types, NEW t \in Threads, work(t) \/ epollError(t)
  PROVE  pc'[t] = "got" \/ got' = {} \/ (UNCHANGED got /\ pc[t] # "got")
<1> USE DEF startVars, runVars
<1>a. ASSUME NEW x \in Places, Goto(t, x) PROVE pc'[t] = x BY <1>a, GotoIs
<1>1. CASE epollReady(t) BY <1>1, <1>a DEF epollReady, Places
<1>2. CASE gotPipe(t) \/ \E fd \in Fds : gotFd(t, fd) BY <1>2, <1>a DEF gotPipe, gotFd, Handled, Places
<1>3. CASE workStart(t) \/ lead(t) \/ nextNull(t) \/ nextFd(t) \/ nextTask(t) \/ nextSleep(t)
  BY <1>3 DEF workStart, lead, nextNull, nextFd, nextTask, nextSleep
<1>4. CASE epollTimeout(t) \/ epollError(t) \/ can_run(t) \/ giveUp(t) \/ new_thread(t) \/ doit(t)
  BY <1>4 DEF epollTimeout, epollError, can_run, giveUp, new_thread, doit
<1>5. CASE destroy(t) \/ workEnd(t) BY <1>5 DEF destroy, workEnd
<1> QED BY <1>1, <1>2, <1>3, <1>4, <1>5 DEF work, epoll

LEMMA ThreadStep ==
  ASSUME Types, ThreadInv, [Next]_vars
  PROVE  ThreadInv'
<1> USE DEF ThreadInv
<1>1. CASE UNCHANGED vars BY <1>1 DEF vars, runVars, ThreadInv, OneLeader, InHand, ListWorked
<1>2. CASE Called
  <2>1. /\ UNCHANGED <<leader, evm, got, busy, chain>>
        /\ \A u \in Threads : pc'[u] = pc[u] \/ (pc[u] = "off" /\ pc'[u] = "new")
    BY <1>2, CalledMoves
  <2> QED BY <2>1 DEF OneLeader, InHand, ListWorked, Leading
<1>3. ASSUME NEW t \in Threads, work(t) \/ epollError(t) PROVE ThreadInv'
  <2>1. /\ \A u \in Threads \ {t} : \/ pc'[u] = pc[u] \/ (pc[u] = "wait" /\ pc'[u] = "loop")
                                    \/ (pc[u] = "off" /\ pc'[u] = "new")
        /\ \A u \in Threads \ {t} : evm'[u] = evm[u]
    BY <1>3, Moved
  <2>2. OneLeader'
    <3>1. \A u \in Threads \ {t} : pc'[u] \in Leading <=> pc[u] \in Leading BY <2>1 DEF Leading
    <3>2. \/ (pc[t] \in Leading <=> pc'[t] \in Leading) /\ leader' = leader
          \/ pc[t] \notin Leading /\ pc'[t] \in Leading /\ leader = None /\ leader' = t
          \/ pc[t] \in Leading /\ pc'[t] \notin Leading /\ leader' = None
      BY <1>3, LeaderStep
    <3>3. \A u \in Threads : u # None BY XEventAssumption
    <3> HIDE DEF Leading
    <3> QED BY <3>1, <3>2, <3>3 DEF OneLeader
  <2>3. InHand' BY <1>3, <2>1, HandStep DEF InHand
  <2>4. ListWorked'
    <3>1. pc'[t] = "got" \/ got' = {} \/ (UNCHANGED got /\ pc[t] # "got") BY <1>3, ListStep
    <3> QED BY <2>1, <3>1 DEF ListWorked
  <2> QED BY <2>2, <2>3, <2>4
<1> QED BY <1>1, <1>2, <1>3, Parts

-----------------------------------------------------------------------------
(* Serialisation. *)

\* t runs an event of h, or has taken it on.
OnIt(t, h) == evm[t] # None /\ evm[t].hr = h /\ pc[t] # "evm"

LEMMA RunsAre == \A h : Runs(h) = {t \in Threads : OnIt(t, h)} /\ Runs(h)' = {t \in Threads : OnIt(t, h)'}
BY DEF Runs, OnIt

\* Only can_run() and destroy() change who runs what.
LEMMA RunsStep ==
  ASSUME Types, InHand, NEW t \in Threads, work(t) \/ epollError(t)
  PROVE  /\ \A h \in Handlers, u \in Threads \ {t} : OnIt(u, h)' <=> OnIt(u, h)
         /\ \/ can_run(t) \/ destroy(t)
            \/ UNCHANGED <<chain, busy>> /\ \A h \in Handlers : OnIt(t, h)' <=> OnIt(t, h)
<1> USE DEF startVars, runVars
<1>0. /\ \A u \in Threads \ {t} : \/ pc'[u] = pc[u] \/ (pc[u] = "wait" /\ pc'[u] = "loop")
                                  \/ (pc[u] = "off" /\ pc'[u] = "new")
      /\ \A u \in Threads \ {t} : evm'[u] = evm[u]
  BY Moved
<1>z. \A h \in Handlers, u \in Threads \ {t} : OnIt(u, h)' <=> OnIt(u, h) BY <1>0 DEF OnIt
<1>a. ASSUME NEW x \in Places, Goto(t, x) PROVE pc'[t] = x BY <1>a, GotoIs
<1>b. ASSUME NEW e, evm' = [evm EXCEPT ![t] = e] PROVE evm'[t] = e BY <1>b DEF Types
<1>1. CASE workStart(t) BY <1>1, <1>z, <1>a DEF workStart, Places, OnIt
<1>2. CASE lead(t) BY <1>2, <1>z, <1>a DEF lead, Places, OnIt
<1>3. CASE nextNull(t) BY <1>3, <1>z, <1>a, <1>b DEF nextNull, Places, OnIt, InHand
<1>4. CASE nextFd(t) BY <1>4, <1>z, <1>a DEF nextFd, Places, OnIt, InHand
<1>5. CASE nextTask(t) BY <1>5, <1>z, <1>a DEF nextTask, Places, OnIt, InHand
<1>6. CASE nextSleep(t) BY <1>6, <1>z, <1>a DEF nextSleep, Places, OnIt
<1>7. CASE epoll(t) BY <1>7, <1>z, <1>a DEF epoll, epollReady, epollTimeout, Places, OnIt
<1>8. CASE epollError(t) BY <1>8, <1>z, <1>a, <1>b DEF epollError, Places, OnIt, InHand
<1>9. CASE gotPipe(t) BY <1>9, <1>z, <1>a DEF gotPipe, Handled, Places, OnIt
<1>10. CASE \E fd \in Fds : gotFd(t, fd)
  <2>1. UNCHANGED <<evm, chain, busy>> /\ pc[t] = "got" BY <1>10 DEF gotFd, Handled
  <2>2. pc'[t] \in {"next", "got"} BY <1>10, <1>a DEF gotFd, Handled, Places
  <2> QED BY <1>z, <2>1, <2>2 DEF OnIt
<1>12. CASE giveUp(t)
  <2>1. PICK x \in {"exit", "spawn", "run"} : Signal(t, x) /\ (x = "exit" <=> evm[t] = None) BY <1>12 DEF giveUp
  <2>2. pc'[t] = x BY <1>12, <2>1, SignalIs DEF giveUp, Places
  <2>3. UNCHANGED <<evm, chain, busy>> /\ pc[t] = "give" BY <1>12 DEF giveUp
  <2> QED BY <1>z, <2>2, <2>3 DEF OnIt
<1>13. CASE new_thread(t)
  <2>1. UNCHANGED <<evm, chain, busy>> BY <1>13 DEF new_thread
  <2> QED BY <1>z, <1>13, <2>1, NewThreadIs DEF OnIt
<1>14. CASE doit(t) BY <1>14, <1>z, <1>a DEF doit, Places, OnIt
<1>16. CASE workEnd(t) BY <1>16, <1>z, <1>a DEF workEnd, Places, OnIt
<1> QED BY <1>z, <1>1, <1>2, <1>3, <1>4, <1>5, <1>6, <1>7, <1>8, <1>9, <1>10, <1>12, <1>13, <1>14, <1>16 DEF work

\* Linked, thread by thread.
LinkedAt(h) ==
  /\ \A i \in DOMAIN chain[h] : chain[h][i].hr = h
  /\ h \notin Concurrent =>
       /\ \A t, u \in Threads : OnIt(t, h) /\ OnIt(u, h) => t = u
       /\ busy[h] <=> \E t \in Threads : OnIt(t, h)
       /\ chain[h] # <<>> => busy[h]

LEMMA LinkedIs == (Linked <=> \A h \in Handlers : LinkedAt(h)) /\ (Linked' <=> \A h \in Handlers : LinkedAt(h)')
<1>1. Linked <=> \A h \in Handlers : LinkedAt(h) BY RunsAre DEF Linked, LinkedAt
<1>2. Linked' <=> \A h \in Handlers : LinkedAt(h)' BY RunsAre DEF Linked, LinkedAt
<1> QED BY <1>1, <1>2

LEMMA CanRunLinked ==
  ASSUME Types, InHand, NEW t \in Threads, can_run(t), \A h \in Handlers : LinkedAt(h), NEW g \in Handlers
  PROVE  LinkedAt(g)'
<1>0. PICK h \in Handlers : h = evm[t].hr /\ evm[t] # None /\ evm[t] \in EventMans BY HandType DEF can_run
<1>1. \A x \in Handlers, u \in Threads \ {t} : OnIt(u, x)' <=> OnIt(u, x) BY RunsStep DEF work
<1>2. pc[t] = "evm" /\ \A x : ~OnIt(t, x) BY DEF can_run, OnIt
<1>3. chain \in [Handlers -> Seq(EventMans)] /\ busy \in [Handlers -> BOOLEAN] BY DEF Types
<1>4. CASE MustQueue(h)
  <2>1. /\ chain' = [chain EXCEPT ![h] = Append(@, evm[t])] /\ evm' = [evm EXCEPT ![t] = None]
        /\ UNCHANGED busy /\ busy[h] /\ h \notin Concurrent
    BY <1>0, <1>4 DEF can_run, MustQueue
  <2>2. \A x : ~OnIt(t, x)' BY <2>1 DEF OnIt, Types
  <2>3. CASE g = h
    <3>1. chain'[g] = Append(chain[g], evm[t]) /\ chain[g] \in Seq(EventMans) BY <1>3, <2>1, <2>3
    <3>2. \A i \in DOMAIN chain'[g] : chain'[g][i].hr = g
      <4> SUFFICES ASSUME NEW i \in DOMAIN chain'[g] PROVE chain'[g][i].hr = g OBVIOUS
      <4>1. i \in 1..(Len(chain[g]) + 1) BY <3>1
      <4>2. CASE i = Len(chain[g]) + 1 BY <1>0, <2>3, <3>1, <4>2
      <4>3. CASE i \in 1..Len(chain[g])
        <5>1. chain'[g][i] = chain[g][i] /\ i \in DOMAIN chain[g] BY <3>1, <4>3
        <5> QED BY <5>1 DEF LinkedAt
      <4> QED BY <3>1, <4>1, <4>2, <4>3
    <3>3. busy'[g] BY <2>1, <2>3
    <3> QED BY <1>1, <1>2, <2>1, <2>2, <3>2, <3>3 DEF LinkedAt
  <2>4. CASE g # h
    <3>1. chain'[g] = chain[g] /\ busy'[g] = busy[g] BY <1>3, <2>1, <2>4
    <3>2. \A u \in Threads : OnIt(u, g)' <=> OnIt(u, g) BY <1>1, <1>2, <2>2
    <3>3. LinkedAt(g) OBVIOUS
    <3> QED BY <3>1, <3>2, <3>3 DEF LinkedAt
  <2> QED BY <2>3, <2>4
<1>5. CASE ~MustQueue(h)
  <2>1. /\ busy' = [busy EXCEPT ![h] = h \notin Concurrent] /\ Goto(t, "give") /\ UNCHANGED <<chain, evm>>
        /\ h \in Concurrent \/ ~busy[h]
    BY <1>0, <1>5 DEF can_run, MustQueue
  <2>2. pc'[t] = "give" BY <2>1, GotoIs DEF Places
  <2>3. \A x : OnIt(t, x)' <=> x = h BY <1>0, <2>1, <2>2 DEF OnIt
  <2>4. CASE g = h
    <3>1. busy'[g] = (g \notin Concurrent) /\ chain'[g] = chain[g] BY <1>3, <2>1, <2>4
    <3> QED BY <1>1, <1>2, <2>1, <2>3, <2>4, <3>1 DEF LinkedAt
  <2>5. CASE g # h
    <3>1. busy'[g] = busy[g] /\ chain'[g] = chain[g] BY <1>3, <2>1, <2>5
    <3> QED BY <1>1, <1>2, <2>3, <2>5, <3>1 DEF LinkedAt
  <2> QED BY <2>4, <2>5
<1> QED BY <1>4, <1>5

LEMMA DestroyLinked ==
  ASSUME Types, InHand, NEW t \in Threads, destroy(t), \A h \in Handlers : LinkedAt(h), NEW g \in Handlers
  PROVE  LinkedAt(g)'
<1>0. PICK h \in Handlers : h = evm[t].hr /\ evm[t] # None BY HandType DEF destroy
<1>1. \A x \in Handlers, u \in Threads \ {t} : OnIt(u, x)' <=> OnIt(u, x) BY RunsStep DEF work
<1>2. \A x : OnIt(t, x) <=> x = h BY <1>0 DEF destroy, OnIt
<1>3. chain \in [Handlers -> Seq(EventMans)] /\ busy \in [Handlers -> BOOLEAN] BY DEF Types
<1>4. /\ evm' = [evm EXCEPT ![t] = IF chain[h] # <<>> THEN Head(chain[h]) ELSE None]
      /\ chain' = [chain EXCEPT ![h] = IF chain[h] # <<>> THEN Tail(@) ELSE @]
      /\ busy' = [busy EXCEPT ![h] = @ /\ chain[h] # <<>>]
      /\ Goto(t, IF chain[h] # <<>> THEN "run" ELSE "loop")
  BY <1>0 DEF destroy
<1>5. CASE chain[h] = <<>>
  <2>1. evm'[t] = None BY <1>4, <1>5 DEF Types
  <2>2. \A x : ~OnIt(t, x)' BY <2>1 DEF OnIt
  <2>3. \A x \in Handlers : chain'[x] = chain[x] BY <1>3, <1>4, <1>5
  <2>4. CASE g = h
    <3>1. busy'[g] = FALSE BY <1>3, <1>4, <1>5, <2>4
    <3> QED BY <1>1, <1>2, <1>5, <2>2, <2>3, <2>4, <3>1 DEF LinkedAt
  <2>5. CASE g # h
    <3>1. busy'[g] = busy[g] BY <1>3, <1>4, <2>5
    <3> QED BY <1>1, <1>2, <2>2, <2>3, <2>5, <3>1 DEF LinkedAt
  <2> QED BY <2>4, <2>5
<1>6. CASE chain[h] # <<>>
  <2>1. evm'[t] = Head(chain[h]) /\ pc'[t] = "run"
    <3>1. "run" \in Places /\ Goto(t, "run") BY <1>4, <1>6 DEF Places
    <3> QED BY <1>4, <1>6, <3>1, GotoIs DEF Types
  <2>2. Head(chain[h]) \in EventMans /\ Head(chain[h]).hr = h
    <3>1. chain[h] \in Seq(EventMans) BY <1>3
    <3>2. Head(chain[h]) = chain[h][1] /\ 1 \in DOMAIN chain[h] /\ chain[h][1] \in EventMans BY <1>6, <3>1
    <3> QED BY <3>2 DEF LinkedAt
  <2>3. \A x : OnIt(t, x)' <=> x = h
    <3>1. \A e \in EventMans : e # None BY XEventAssumption
    <3> QED BY <2>1, <2>2, <3>1 DEF OnIt
  <2>4. \A x \in Handlers : busy'[x] = busy[x] BY <1>3, <1>4, <1>6
  <2>5. CASE g = h
    <3>0. chain[g] \in Seq(EventMans) BY <1>3
    <3>1. chain'[g] = Tail(chain[g]) BY <1>3, <1>4, <1>6, <2>5
    <3>2. ASSUME NEW i \in DOMAIN chain'[g] PROVE chain'[g][i].hr = g
      <4>1. chain'[g][i] = chain[g][i + 1] /\ i + 1 \in DOMAIN chain[g] BY <1>6, <2>5, <3>0, <3>1
      <4> QED BY <4>1 DEF LinkedAt
    <3>3. g \notin Concurrent => busy[g] BY <1>6, <2>5 DEF LinkedAt
    <3> QED BY <1>1, <1>2, <2>3, <2>4, <2>5, <3>2, <3>3 DEF LinkedAt
  <2>6. CASE g # h
    <3>1. chain'[g] = chain[g] BY <1>3, <1>4, <2>6
    <3> QED BY <1>1, <1>2, <2>3, <2>4, <2>6, <3>1 DEF LinkedAt
  <2> QED BY <2>5, <2>6
<1> QED BY <1>5, <1>6

LEMMA LinkedStep ==
  ASSUME Types, InHand, Linked, [Next]_vars
  PROVE  Linked'
<1>0. \A h \in Handlers : LinkedAt(h) BY LinkedIs
<1> SUFFICES ASSUME NEW h \in Handlers PROVE LinkedAt(h)'
  BY LinkedIs
<1>1. CASE UNCHANGED vars BY <1>0, <1>1 DEF vars, runVars, LinkedAt, OnIt
<1>2. CASE Called
  <2>1. /\ UNCHANGED <<leader, evm, got, busy, chain>>
        /\ \A u \in Threads : pc'[u] = pc[u] \/ (pc[u] = "off" /\ pc'[u] = "new")
    BY <1>2, CalledMoves
  <2>2. \A u \in Threads : OnIt(u, h)' <=> OnIt(u, h) BY <2>1 DEF OnIt
  <2> QED BY <1>0, <2>1, <2>2 DEF LinkedAt
<1>3. ASSUME NEW t \in Threads, work(t) \/ epollError(t) PROVE LinkedAt(h)'
  <2>1. CASE can_run(t) BY <1>0, <2>1, CanRunLinked
  <2>2. CASE destroy(t) BY <1>0, <2>2, DestroyLinked
  <2>3. CASE UNCHANGED <<chain, busy>> /\ \A x \in Handlers, u \in Threads : OnIt(u, x)' <=> OnIt(u, x)
    BY <1>0, <2>3 DEF LinkedAt
  <2> QED BY <1>3, <2>1, <2>2, <2>3, RunsStep
<1> QED BY <1>1, <1>2, <1>3, Parts

-----------------------------------------------------------------------------
(* The pool. *)

\* Two sets of threads that differ in t only.
LEMMA CountStep ==
  ASSUME NEW A \in SUBSET Threads, NEW B \in SUBSET Threads, NEW t \in Threads,
         \A u \in Threads \ {t} : u \in A <=> u \in B
  PROVE  /\ Cardinality(A) \in Nat /\ Cardinality(B) \in Nat
         /\ Cardinality(B) = Cardinality(A) + (IF t \in B THEN 1 ELSE 0) - (IF t \in A THEN 1 ELSE 0)
<1>1. IsFiniteSet(A) /\ IsFiniteSet(B) BY XEventAssumption, FS_Subset
<1>2. A \ {t} = B \ {t} OBVIOUS
<1>3. /\ Cardinality(A \ {t}) = IF t \in A THEN Cardinality(A) - 1 ELSE Cardinality(A)
      /\ Cardinality(B \ {t}) = IF t \in B THEN Cardinality(B) - 1 ELSE Cardinality(B)
  BY <1>1, FS_RemoveElement
<1>4. Cardinality(A) \in Nat /\ Cardinality(B) \in Nat BY <1>1, FS_CardinalityType
<1> QED BY <1>2, <1>3, <1>4

\* t goes from one place to another, and maybe a waiting thread is signalled.
Steps1(t) ==
  /\ pc' \in [Threads -> Places]
  /\ \A u \in Threads \ {t} : pc'[u] = pc[u] \/ (pc[u] = "wait" /\ pc'[u] = "loop")
  /\ \A u \in Threads \ {t} : evm'[u] = evm[u]

IsIdle(x) == x \notin {"off", "spawn", "run", "ran"}
One(b) == IF b THEN 1 ELSE 0

LEMMA PoolShift ==
  ASSUME Types, NEW t \in Threads, Steps1(t)
  PROVE  /\ Cardinality(Alive) \in Nat /\ Cardinality(Spawners) \in Nat /\ Cardinality(Idlers) \in Nat
         /\ Cardinality(Alive') = Cardinality(Alive) + One(pc'[t] # "off") - One(pc[t] # "off")
         /\ Cardinality(Spawners') = Cardinality(Spawners) + One(pc'[t] = "spawn") - One(pc[t] = "spawn")
         /\ Cardinality(Idlers') = Cardinality(Idlers) + One(IsIdle(pc'[t])) - One(IsIdle(pc[t]))
         /\ \A u \in Threads \ {t} : (u \in Leaving' <=> u \in Leaving) /\ (u \in Alive' <=> u \in Alive)
<1>1. /\ Alive \in SUBSET Threads /\ Alive' \in SUBSET Threads
      /\ \A u \in Threads \ {t} : u \in Alive <=> u \in Alive'
      /\ (t \in Alive <=> pc[t] # "off") /\ (t \in Alive' <=> pc'[t] # "off")
  BY DEF Alive, Steps1
<1>2. /\ Spawners \in SUBSET Threads /\ Spawners' \in SUBSET Threads
      /\ \A u \in Threads \ {t} : u \in Spawners <=> u \in Spawners'
      /\ (t \in Spawners <=> pc[t] = "spawn") /\ (t \in Spawners' <=> pc'[t] = "spawn")
  BY DEF Spawners, Steps1
<1>3. /\ Idlers \in SUBSET Threads /\ Idlers' \in SUBSET Threads
      /\ \A u \in Threads \ {t} : u \in Idlers <=> u \in Idlers'
      /\ (t \in Idlers <=> IsIdle(pc[t])) /\ (t \in Idlers' <=> IsIdle(pc'[t]))
  BY DEF Idlers, Steps1, IsIdle
<1>4. \A u \in Threads \ {t} : u \in Leaving' <=> u \in Leaving BY DEF Leaving, Steps1
<1> HIDE DEF Alive, Spawners, Idlers, Leaving
<1>5. /\ Cardinality(Alive) \in Nat
      /\ Cardinality(Alive') = Cardinality(Alive) + One(pc'[t] # "off") - One(pc[t] # "off")
  BY <1>1, CountStep DEF One
<1>6. /\ Cardinality(Spawners) \in Nat
      /\ Cardinality(Spawners') = Cardinality(Spawners) + One(pc'[t] = "spawn") - One(pc[t] = "spawn")
  BY <1>2, CountStep DEF One
<1>7. /\ Cardinality(Idlers) \in Nat
      /\ Cardinality(Idlers') = Cardinality(Idlers) + One(IsIdle(pc'[t])) - One(IsIdle(pc[t]))
  BY <1>3, CountStep DEF One
<1> QED BY <1>1, <1>4, <1>5, <1>6, <1>7

\* A step that leaves the counts alone.
LEMMA QuietPool ==
  ASSUME Types, PoolInv, NEW t \in Threads, Steps1(t),
         pc[t] # "off" /\ pc'[t] # "off",
         pc[t] = "spawn" <=> pc'[t] = "spawn", IsIdle(pc[t]) <=> IsIdle(pc'[t]),
         UNCHANGED <<startVars, numThread, numIdle, cleared>>, canceled => canceled',
         idleMark' = "elapsed" => idleMark = "elapsed",
         canceled' \/ (t \in Leaving' <=> t \in Leaving),
         pc'[t] = "exit" => evm'[t] = None
  PROVE  PoolInv'
<1> USE DEF PoolInv
<1>1. /\ Cardinality(Alive) \in Nat /\ Cardinality(Spawners) \in Nat /\ Cardinality(Idlers) \in Nat
      /\ Cardinality(Alive') = Cardinality(Alive) /\ Cardinality(Spawners') = Cardinality(Spawners)
      /\ Cardinality(Idlers') = Cardinality(Idlers)
      /\ \A u \in Threads \ {t} : (u \in Leaving' <=> u \in Leaving) /\ (u \in Alive' <=> u \in Alive)
  BY PoolShift DEF One
<1>2. t \in Alive /\ t \in Alive' BY DEF Alive
<1>3. Counted' BY <1>1, <1>2 DEF Counted, startVars
<1>4. Leaving \subseteq Threads /\ Leaving' \subseteq Threads /\ Alive \subseteq Threads /\ Alive' \subseteq Threads
  BY DEF Leaving, Alive
<1>5. \A u \in Threads : pc'[u] = "exit" => evm'[u] = None
  BY DEF Steps1, Manned
<1>6. ~cleared' BY <1>2 DEF Manned
<1>7. ASSUME ~canceled'
      PROVE  /\ \A v, u \in Leaving' : v = u
             /\ Leaving' # {} => idleMark' # "elapsed" /\ toStart' = 0 /\ Alive' \ Leaving' # {}
  <2>1. Leaving' = Leaving /\ Alive' = Alive BY <1>1, <1>2, <1>4, <1>7
  <2> QED BY <1>7, <2>1 DEF Manned, startVars
<1>8. Manned' BY <1>5, <1>6, <1>7 DEF Manned
<1> QED BY <1>3, <1>8

LEMMA PoolQuietWork ==
  ASSUME Types, InHand, PoolInv, NEW t \in Threads,
         \/ workStart(t) \/ lead(t) \/ nextFd(t) \/ nextTask(t) \/ nextSleep(t) \/ epoll(t) \/ epollError(t)
         \/ gotPipe(t) \/ (\E fd \in Fds : gotFd(t, fd)) \/ can_run(t) \/ doit(t)
         \/ (nextNull(t) /\ canceled) \/ (giveUp(t) /\ evm[t] = None)
         \/ (destroy(t) /\ chain[evm[t].hr] # <<>>)
  PROVE  PoolInv'
<1> USE DEF startVars, poolVars, endVars, runVars, IsIdle
<1>0. /\ work(t) \/ epollError(t)
      /\ evm' \in [Threads -> EventMans \cup {None}] /\ \A u \in Threads \ {t} : evm'[u] = evm[u]
  <2>1. work(t) \/ epollError(t) BY DEF work
  <2> QED BY <2>1, Moved
<1>h. /\ pc'[t] \in {"evm", "spawn", "run", "ran"} => evm'[t] # None
      /\ evm'[t] # None => pc'[t] \in {"evm", "give", "spawn", "run", "ran"}
  BY <1>0, HandStep
<1>l. (t \in Leaving <=> pc[t] \in {"give", "exit"} /\ evm[t] = None) /\ (t \in Leaving' <=> pc'[t] \in {"give", "exit"} /\ evm'[t] = None)
  BY DEF Leaving
<1>s. ASSUME NEW x \in Places, Goto(t, x) PROVE pc'[t] = x /\ Steps1(t)
  BY <1>0, <1>s, GotoIs DEF Steps1
<1>m. MarkIdle => (idleMark' = "elapsed" => idleMark = "elapsed") BY DEF MarkIdle
<1>1. CASE workStart(t)
  <2>1. pc[t] = "new" /\ pc'[t] = "loop" /\ Steps1(t) BY <1>1, <1>s DEF workStart, Places
  <2>2. UNCHANGED <<startVars, numThread, numIdle, cleared, canceled, idleMark>> BY <1>1 DEF workStart
  <2> QED BY <1>l, <2>1, <2>2, QuietPool
<1>2. CASE lead(t)
  <2>1. pc[t] = "loop" /\ pc'[t] \in {"wait", "next"} /\ Steps1(t) BY <1>2, <1>s DEF lead, Places
  <2>2. UNCHANGED <<startVars, numThread, numIdle, cleared, canceled, idleMark>> BY <1>2 DEF lead
  <2> QED BY <1>l, <2>1, <2>2, QuietPool
<1>3. CASE nextFd(t) \/ nextTask(t) \/ nextSleep(t)
  <2>1. pc[t] = "next" /\ pc'[t] \in {"evm", "epoll"} /\ Steps1(t) BY <1>3, <1>s DEF nextFd, nextTask, nextSleep, Places
  <2>2. UNCHANGED <<startVars, numThread, numIdle, cleared, canceled>> /\ MarkIdle BY <1>3 DEF nextFd, nextTask, nextSleep
  <2> QED BY <1>l, <1>m, <2>1, <2>2, QuietPool
<1>4. CASE epoll(t)
  <2>1. pc[t] = "epoll" /\ pc'[t] \in {"got", "next"} /\ Steps1(t) BY <1>4, <1>s DEF epoll, epollReady, epollTimeout, Places
  <2>2. UNCHANGED <<startVars, numThread, numIdle, cleared, canceled, idleMark>> BY <1>4 DEF epoll, epollReady, epollTimeout
  <2> QED BY <1>l, <2>1, <2>2, QuietPool
<1>5. CASE epollError(t)
  <2>1. /\ pc[t] = "epoll" /\ Steps1(t)
        /\ \/ pc'[t] = "next" /\ UNCHANGED canceled
           \/ pc'[t] = "give" /\ canceled'
    BY <1>5, <1>s DEF epollError, Places
  <2>2. UNCHANGED <<startVars, numThread, numIdle, cleared, idleMark>> BY <1>5 DEF epollError
  <2> QED BY <1>l, <2>1, <2>2, QuietPool
<1>6. CASE gotPipe(t) \/ \E fd \in Fds : gotFd(t, fd)
  <2>1. pc[t] = "got" /\ pc'[t] \in {"got", "next"} /\ Steps1(t) BY <1>6, <1>s DEF gotPipe, gotFd, Handled, Places
  <2>2. UNCHANGED <<startVars, numThread, numIdle, cleared, canceled, idleMark>> BY <1>6 DEF gotPipe, gotFd
  <2> QED BY <1>l, <2>1, <2>2, QuietPool
<1>7. CASE can_run(t)
  <2>1. /\ pc[t] = "evm" /\ Steps1(t)
        /\ \/ pc'[t] = "next"
           \/ pc'[t] = "give" /\ UNCHANGED evm
    BY <1>7, <1>s DEF can_run, Places
  <2>2. UNCHANGED <<startVars, numThread, numIdle, cleared, canceled, idleMark>> BY <1>7 DEF can_run
  <2> QED BY <1>l, <2>1, <2>2, QuietPool DEF InHand
<1>8. CASE doit(t)
  <2>1. pc[t] = "run" /\ pc'[t] = "ran" /\ Steps1(t) BY <1>8, <1>s DEF doit, Places
  <2>2. UNCHANGED <<startVars, numThread, numIdle, cleared, canceled, idleMark>> BY <1>8 DEF doit
  <2> QED BY <1>l, <2>1, <2>2, QuietPool
<1>9. CASE nextNull(t) /\ canceled
  <2>1. pc[t] = "next" /\ pc'[t] = "give" /\ Steps1(t) BY <1>9, <1>s DEF nextNull, Places
  <2>2. UNCHANGED <<startVars, numThread, numIdle, cleared, canceled, idleMark>> BY <1>9 DEF nextNull
  <2> QED BY <1>9, <1>l, <2>1, <2>2, QuietPool
<1>10. CASE giveUp(t) /\ evm[t] = None
  <2>1. pc[t] = "give" /\ Signal(t, "exit") BY <1>10 DEF giveUp
  <2>2. pc'[t] = "exit" /\ Steps1(t) BY <1>0, <2>1, SignalIs DEF Steps1, Places
  <2>3. UNCHANGED <<startVars, numThread, numIdle, cleared, canceled, idleMark, evm>> BY <1>10 DEF giveUp
  <2> QED BY <1>10, <1>l, <2>1, <2>2, <2>3, QuietPool
<1>11. CASE destroy(t) /\ chain[evm[t].hr] # <<>>
  <2>1. pc[t] = "ran" /\ pc'[t] = "run" /\ Steps1(t) BY <1>11, <1>s DEF destroy, Places
  <2>2. UNCHANGED <<startVars, numThread, numIdle, cleared, canceled, idleMark>> BY <1>11 DEF destroy
  <2> QED BY <1>l, <2>1, <2>2, QuietPool
<1> QED BY <1>1, <1>2, <1>3, <1>4, <1>5, <1>6, <1>7, <1>8, <1>9, <1>10, <1>11

\* A surplus leader leaves: it is the only one, and another thread stays.
LEMMA PoolReap ==
  ASSUME Types, InHand, PoolInv, NEW t \in Threads, nextNull(t), ~canceled
  PROVE  PoolInv'
<1> USE DEF PoolInv, startVars, poolVars, endVars
<1>1. /\ pc[t] = "next" /\ Goto(t, "give") /\ evm' = [evm EXCEPT ![t] = None]
      /\ Reaps /\ idleMark' = "set" /\ UNCHANGED <<startVars, numThread, numIdle, cleared, canceled>>
  BY DEF nextNull
<1>2. pc'[t] = "give" /\ evm'[t] = None /\ Steps1(t)
  <2>1. evm \in [Threads -> EventMans \cup {None}] BY DEF Types
  <2>2. evm'[t] = None /\ \A u \in Threads \ {t} : evm'[u] = evm[u] BY <1>1, <2>1
  <2>3. "give" \in Places BY DEF Places
  <2> QED BY <1>1, <2>2, <2>3, GotoIs DEF Steps1
<1>3. /\ Cardinality(Alive) \in Nat /\ Cardinality(Spawners) \in Nat /\ Cardinality(Idlers) \in Nat
      /\ Cardinality(Alive') = Cardinality(Alive) /\ Cardinality(Spawners') = Cardinality(Spawners)
      /\ Cardinality(Idlers') = Cardinality(Idlers)
      /\ \A u \in Threads \ {t} : (u \in Leaving' <=> u \in Leaving) /\ (u \in Alive' <=> u \in Alive)
  BY <1>1, <1>2, PoolShift DEF One, IsIdle
<1>4. t \in Alive /\ t \in Alive' /\ t \in Leaving' BY <1>1, <1>2 DEF Alive, Leaving
<1>5. Counted' BY <1>1, <1>3, <1>4 DEF Counted
<1>6. Leaving = {} BY <1>1 DEF Manned, Reaps
<1>7. Leaving' = {t} BY <1>3, <1>4, <1>6 DEF Leaving
<1>8. toStart = 0
  <2>1. numThread > MinThread BY <1>1 DEF Reaps, Overmanned
  <2>2. MinThread \in Nat /\ toStart \in Nat /\ numThread \in Int BY XEventAssumption DEF Types
  <2> QED BY <2>1, <2>2 DEF Counted
<1>9. Alive' \ {t} # {}
  <2>1. numIdle > 1 BY <1>1 DEF Reaps
  <2>2. CASE Spawners # {}
    <3>1. PICK u \in Threads : pc[u] = "spawn" BY <2>2 DEF Spawners
    <3>2. u # t /\ u \in Alive BY <1>1, <3>1 DEF Alive
    <3> QED BY <1>3, <3>2
  <2>3. CASE Spawners = {}
    <3>1. Cardinality(Spawners) = 0 BY <2>3, FS_EmptySet
    <3>2. Cardinality(Idlers) > 1 BY <1>3, <1>8, <2>1, <3>1 DEF Counted
    <3>3. Idlers # {t}
      <4>1. Cardinality({t}) = 1 BY FS_Singleton
      <4> QED BY <3>2, <4>1
    <3>4. t \in Idlers BY <1>1 DEF Idlers
    <3>5. PICK u \in Idlers : u # t BY <3>3, <3>4
    <3>6. u \in Alive /\ u \in Threads BY <3>5 DEF Idlers, Alive
    <3> QED BY <1>3, <3>5, <3>6
  <2> QED BY <2>2, <2>3
<1>10. ~cleared' BY <1>1, <1>4 DEF Manned
<1>11. \A u \in Threads : pc'[u] = "exit" => evm'[u] = None
  BY <1>2 DEF Steps1, Manned
<1>12. Manned' BY <1>1, <1>7, <1>8, <1>9, <1>10, <1>11 DEF Manned
<1> QED BY <1>5, <1>12

\* A thread goes to run its event; if none is idle then, it creates one.
LEMMA PoolGive ==
  ASSUME Types, InHand, PoolInv, NEW t \in Threads, giveUp(t), evm[t] # None
  PROVE  PoolInv'
<1> USE DEF PoolInv, startVars, poolVars, endVars
<1>1. PICK spawn \in BOOLEAN :
        /\ spawn => numIdle - 1 <= 0
        /\ Signal(t, IF spawn THEN "spawn" ELSE "run")
        /\ idleMark' = (IF numIdle - 1 <= 1 THEN "zero" ELSE idleMark)
        /\ numThread' = (IF spawn THEN numThread + 1 ELSE numThread)
        /\ numIdle' = (IF spawn THEN numIdle ELSE numIdle - 1)
  <2>1. (numThread < MaxThread /\ numIdle - 1 <= 0 /\ ~spawning) \in BOOLEAN OBVIOUS
  <2> QED BY <2>1 DEF giveUp
<1>2. pc[t] = "give" /\ UNCHANGED <<startVars, evm, cleared, canceled>> BY DEF giveUp
<1>3. pc'[t] = (IF spawn THEN "spawn" ELSE "run") /\ Steps1(t) BY <1>1, <1>2, SignalIs DEF Places, Steps1
<1>4. /\ Cardinality(Alive) \in Nat /\ Cardinality(Spawners) \in Nat /\ Cardinality(Idlers) \in Nat
      /\ Cardinality(Alive') = Cardinality(Alive) /\ Cardinality(Spawners') = Cardinality(Spawners) + One(spawn)
      /\ Cardinality(Idlers') = Cardinality(Idlers) - 1
      /\ \A u \in Threads \ {t} : (u \in Leaving' <=> u \in Leaving) /\ (u \in Alive' <=> u \in Alive)
  <2>1. /\ pc'[t] # "off" /\ pc[t] # "off" /\ pc[t] # "spawn" /\ IsIdle(pc[t]) /\ ~IsIdle(pc'[t])
        /\ (pc'[t] = "spawn" <=> spawn)
    BY <1>2, <1>3 DEF IsIdle
  <2> QED BY <1>3, <2>1, PoolShift DEF One
<1>5. t \in Alive /\ t \in Alive' /\ t \notin Leaving /\ t \notin Leaving' BY <1>2, <1>3 DEF Alive, Leaving
<1>6. Leaving' = Leaving /\ Alive' = Alive BY <1>4, <1>5 DEF Leaving, Alive
<1>7. Cardinality(Idlers) >= 1
  <2>1. t \in Idlers BY <1>2 DEF Idlers
  <2>2. IsFiniteSet(Idlers) BY XEventAssumption, FS_Subset DEF Idlers
  <2>3. Cardinality(Idlers) # 0 BY <2>1, <2>2, FS_EmptySet
  <2> QED BY <1>4, <2>3
<1>8. numThread \in Int /\ numIdle \in Int /\ toStart \in Nat BY DEF Types
<1>9. Counted'
  <2>1. CASE spawn
    <3>1. toStart = 0 BY <1>1, <1>4, <1>7, <1>8, <2>1 DEF Counted
    <3> QED BY <1>1, <1>2, <1>4, <1>5, <1>8, <2>1, <3>1 DEF Counted, One
  <2>2. CASE ~spawn BY <1>1, <1>2, <1>4, <1>5, <1>8, <2>2 DEF Counted, One
  <2> QED BY <2>1, <2>2
<1>10. ~cleared' BY <1>2, <1>5 DEF Manned
<1>11. \A u \in Threads : pc'[u] = "exit" => evm'[u] = None
  BY <1>3 DEF Steps1, Manned
<1>12. idleMark' = "elapsed" => idleMark = "elapsed" BY <1>1
<1>13. Manned' BY <1>2, <1>6, <1>10, <1>11, <1>12 DEF Manned
<1> QED BY <1>9, <1>13

\* The thread was counted when it was asked for.
LEMMA PoolNew ==
  ASSUME Types, InHand, PoolInv, NEW t \in Threads, new_thread(t)
  PROVE  PoolInv'
<1> USE DEF PoolInv, startVars, poolVars, endVars
<1>0. UNCHANGED <<startVars, evm, cleared, canceled>> BY DEF new_thread
<1>1. numThread \in Int /\ numIdle \in Int /\ toStart \in Nat BY DEF Types
<1>2. pc[t] = "spawn" /\ pc'[t] = "run" /\ pc' \in [Threads -> Places] BY NewThreadIs
<1>3. t \in Alive /\ t \in Alive' BY <1>2 DEF Alive
<1>4. started /\ ~cleared' BY <1>0, <1>3 DEF Manned, Counted
<1>5. CASE spawnFailed /\ \A v \in Threads \ {t} : pc'[v] = pc[v]
  <2>1. Steps1(t) BY <1>0, <1>2, <1>5 DEF Steps1
  <2>2. /\ Cardinality(Alive) \in Nat /\ Cardinality(Spawners) \in Nat /\ Cardinality(Idlers) \in Nat
        /\ Cardinality(Alive') = Cardinality(Alive) /\ Cardinality(Spawners') = Cardinality(Spawners) - 1
        /\ Cardinality(Idlers') = Cardinality(Idlers)
        /\ \A u \in Threads \ {t} : (u \in Leaving' <=> u \in Leaving) /\ (u \in Alive' <=> u \in Alive)
    BY <1>2, <2>1, PoolShift DEF One, IsIdle
  <2>3. numThread' = numThread - 1 /\ numIdle' = numIdle - 1 /\ UNCHANGED idleMark BY <1>5 DEF spawnFailed
  <2>4. Counted'
    <3>1. MinThread \in Nat BY XEventAssumption
    <3> QED BY <1>0, <1>1, <1>4, <2>2, <2>3, <3>1 DEF Counted
  <2>5. Leaving' = Leaving BY <1>2, <2>2 DEF Leaving
  <2>6. Alive' = Alive BY <1>3, <2>2 DEF Alive
  <2>7. Manned' BY <1>0, <1>2, <1>4, <2>1, <2>3, <2>5, <2>6 DEF Manned, Steps1
  <2> QED BY <2>4, <2>7
<1>6. ASSUME NEW u \in Threads \ {t}, pc[u] = "off", pc'[u] = "new", \A v \in Threads \ {t, u} : pc'[v] = pc[v],
             UNCHANGED poolVars
      PROVE  PoolInv'
  <2>1. /\ Cardinality(Alive) \in Nat /\ Cardinality(Spawners) \in Nat /\ Cardinality(Idlers) \in Nat
        /\ Cardinality(Alive') = Cardinality(Alive) + 1 /\ Cardinality(Spawners') = Cardinality(Spawners) - 1
        /\ Cardinality(Idlers') = Cardinality(Idlers) + 1
    <3>1. /\ Alive \in SUBSET Threads /\ Alive' \in SUBSET Threads /\ u \in Alive' /\ u \notin Alive
          /\ \A v \in Threads \ {u} : v \in Alive <=> v \in Alive'
      BY <1>2, <1>6 DEF Alive
    <3>2. /\ Spawners \in SUBSET Threads /\ Spawners' \in SUBSET Threads /\ t \in Spawners /\ t \notin Spawners'
          /\ \A v \in Threads \ {t} : v \in Spawners <=> v \in Spawners'
      BY <1>2, <1>6 DEF Spawners
    <3>3. /\ Idlers \in SUBSET Threads /\ Idlers' \in SUBSET Threads /\ u \in Idlers' /\ u \notin Idlers
          /\ \A v \in Threads \ {u} : v \in Idlers <=> v \in Idlers'
      BY <1>2, <1>6 DEF Idlers
    <3> HIDE DEF Alive, Spawners, Idlers
    <3>4. u \in Threads OBVIOUS
    <3>5. Cardinality(Alive) \in Nat /\ Cardinality(Alive') = Cardinality(Alive) + 1 BY <3>1, <3>4, CountStep
    <3>6. Cardinality(Spawners) \in Nat /\ Cardinality(Spawners') = Cardinality(Spawners) - 1 BY <3>2, CountStep
    <3>7. Cardinality(Idlers) \in Nat /\ Cardinality(Idlers') = Cardinality(Idlers) + 1 BY <3>3, <3>4, CountStep
    <3> QED BY <3>5, <3>6, <3>7
  <2>2. Counted' BY <1>0, <1>1, <1>4, <1>6, <2>1 DEF Counted
  <2>3. Leaving' = Leaving /\ Alive \subseteq Alive' /\ \A v \in Threads : pc'[v] = "exit" => pc[v] = "exit"
    BY <1>0, <1>2, <1>6 DEF Leaving, Alive
  <2>4. Manned' BY <1>0, <1>4, <1>6, <2>3 DEF Manned
  <2> QED BY <2>2, <2>4
<1> QED BY <1>5, <1>6, NewThreadIs

\* After its last event a thread is idle again.
LEMMA PoolDone ==
  ASSUME Types, InHand, PoolInv, NEW t \in Threads, destroy(t), chain[evm[t].hr] = <<>>
  PROVE  PoolInv'
<1> USE DEF PoolInv, startVars, poolVars, endVars
<1>0. /\ UNCHANGED <<startVars, numThread, idleMark, cleared, canceled>> /\ numIdle' = numIdle + 1
      /\ pc[t] = "ran" /\ Goto(t, "loop")
  BY DEF destroy
<1>1. numThread \in Int /\ numIdle \in Int /\ toStart \in Nat BY DEF Types
<1>2. pc'[t] = "loop" /\ Steps1(t)
  <2>1. \A u \in Threads \ {t} : evm'[u] = evm[u] BY Moved DEF work
  <2> QED BY <1>0, <2>1, GotoIs DEF Steps1, Places
<1>3. /\ Cardinality(Alive) \in Nat /\ Cardinality(Spawners) \in Nat /\ Cardinality(Idlers) \in Nat
      /\ Cardinality(Alive') = Cardinality(Alive) /\ Cardinality(Spawners') = Cardinality(Spawners)
      /\ Cardinality(Idlers') = Cardinality(Idlers) + 1
      /\ \A u \in Threads \ {t} : (u \in Leaving' <=> u \in Leaving) /\ (u \in Alive' <=> u \in Alive)
  BY <1>0, <1>2, PoolShift DEF One, IsIdle
<1>4. t \in Alive /\ t \in Alive' /\ t \notin Leaving /\ t \notin Leaving' BY <1>0, <1>2 DEF Alive, Leaving
<1>5. Leaving' = Leaving /\ Alive' = Alive BY <1>3, <1>4 DEF Leaving, Alive
<1>6. Counted' BY <1>0, <1>1, <1>3, <1>4 DEF Counted
<1>7. Manned' BY <1>0, <1>2, <1>4, <1>5 DEF Manned, Steps1
<1> QED BY <1>6, <1>7

\* The last thread ends only after cancel().
LEMMA PoolEnd ==
  ASSUME Types, InHand, PoolInv, NEW t \in Threads, workEnd(t)
  PROVE  PoolInv'
<1> USE DEF PoolInv, startVars, poolVars, endVars
<1>0. /\ UNCHANGED <<startVars, idleMark, canceled, evm>> /\ numThread' = numThread - 1 /\ numIdle' = numIdle - 1
      /\ pc[t] = "exit" /\ Goto(t, "off")
      /\ IF numThread = 1 THEN cleared' = TRUE ELSE cleared' = cleared
  BY DEF workEnd
<1>1. numThread \in Int /\ numIdle \in Int /\ toStart \in Nat /\ MinThread \in Nat BY XEventAssumption DEF Types
<1>2. pc'[t] = "off" /\ Steps1(t) BY <1>0, GotoIs DEF Steps1, Places
<1>3. /\ Cardinality(Alive) \in Nat /\ Cardinality(Spawners) \in Nat /\ Cardinality(Idlers) \in Nat
      /\ Cardinality(Alive') = Cardinality(Alive) - 1 /\ Cardinality(Spawners') = Cardinality(Spawners)
      /\ Cardinality(Idlers') = Cardinality(Idlers) - 1
      /\ \A u \in Threads \ {t} : (u \in Leaving' <=> u \in Leaving) /\ (u \in Alive' <=> u \in Alive)
  BY <1>0, <1>2, PoolShift DEF One, IsIdle
<1>4. t \in Alive /\ t \notin Alive' /\ t \in Leaving /\ t \notin Leaving' BY <1>0, <1>2 DEF Alive, Leaving, Manned
<1>5. Leaving' = Leaving \ {t} /\ Alive' = Alive \ {t} BY <1>3, <1>4 DEF Leaving, Alive
<1>6. Counted' BY <1>0, <1>1, <1>3, <1>4 DEF Counted
<1>7. ~cleared /\ started BY <1>4 DEF Manned, Counted
<1>8. ASSUME cleared' PROVE canceled' /\ Alive' = {} /\ toStart' = 0
  <2>1. numThread = 1 BY <1>0, <1>7, <1>8
  <2>2. Cardinality(Alive) >= 1
    <3>1. IsFiniteSet(Alive) BY XEventAssumption, FS_Subset DEF Alive
    <3>2. Cardinality(Alive) # 0 BY <1>4, <3>1, FS_EmptySet
    <3> QED BY <1>3, <3>2
  <2>3. Cardinality(Alive') = 0 /\ toStart = 0 BY <1>1, <1>3, <2>1, <2>2 DEF Counted
  <2>4. Alive' = {}
    <3>1. IsFiniteSet(Alive') BY XEventAssumption, FS_Subset DEF Alive
    <3> QED BY <2>3, <3>1, FS_EmptySet
  <2>5. canceled
    <3>1. Alive \ Leaving = {} BY <1>4, <1>5, <2>4
    <3> QED BY <1>4, <3>1 DEF Manned
  <2> QED BY <1>0, <2>3, <2>4, <2>5
<1>9. \A u \in Threads : pc'[u] = "exit" => evm'[u] = None
  BY <1>2 DEF Steps1, Manned
<1>10. ~canceled => Leaving' = {} BY <1>4, <1>5 DEF Manned
<1>11. Manned' BY <1>0, <1>8, <1>9, <1>10 DEF Manned
<1> QED BY <1>6, <1>11

\* start(), cancel(), the clock and the callers.
LEMMA PoolCalled ==
  ASSUME Types, InHand, PoolInv, Called
  PROVE  PoolInv'
<1> USE DEF PoolInv, startVars, poolVars, endVars, runVars
<1>0. numThread \in Int /\ numIdle \in Int /\ toStart \in Nat /\ MinThread \in Nat \ {0} BY XEventAssumption DEF Types
<1>q. ASSUME UNCHANGED <<pc, evm, startVars, numThread, numIdle, cleared>>, canceled => canceled',
             Leaving # {} /\ idleMark' = "elapsed" => idleMark = "elapsed"
      PROVE  PoolInv'
  <2>1. Alive' = Alive /\ Spawners' = Spawners /\ Idlers' = Idlers /\ Leaving' = Leaving
    BY <1>q DEF Alive, Spawners, Idlers, Leaving
  <2> QED BY <1>q, <2>1 DEF Counted, Manned
<1>1. CASE start
  <2>1. /\ started' = TRUE /\ toStart' = MinThread /\ numThread' = MinThread /\ numIdle' = MinThread
        /\ ~started /\ ~canceled /\ UNCHANGED <<pc, evm, cleared, canceled>>
    BY <1>1 DEF start
  <2>2. Alive = {} /\ Alive' = {} /\ ~cleared BY <2>1 DEF Counted, Manned, Alive
  <2>3. Spawners' = {} /\ Idlers' = {} /\ Leaving' = {} BY <2>2 DEF Spawners, Idlers, Leaving, Alive
  <2>4. Cardinality({}) = 0 BY FS_EmptySet
  <2>5. Counted' BY <1>0, <2>1, <2>2, <2>3, <2>4 DEF Counted
  <2>6. Manned' BY <2>1, <2>2, <2>3 DEF Manned
  <2> QED BY <2>5, <2>6
<1>2. CASE startThread
  <2>1. /\ toStart > 0 /\ toStart' = toStart - 1 /\ UNCHANGED <<started, setup, idleMark, evm, cleared, canceled>>
        /\ started /\ ~cleared
    BY <1>0, <1>2 DEF startThread, Counted, Manned
  <2>2. ~canceled => Leaving = {} BY <1>0, <2>1 DEF Manned
  <2>3. CASE UNCHANGED pc /\ numThread' = numThread - 1 /\ numIdle' = numIdle - 1
    <3>1. Alive' = Alive /\ Spawners' = Spawners /\ Idlers' = Idlers /\ Leaving' = Leaving
      BY <2>1, <2>3 DEF Alive, Spawners, Idlers, Leaving
    <3>2. IsFiniteSet(Alive) /\ IsFiniteSet(Spawners) /\ IsFiniteSet(Idlers)
      BY XEventAssumption, FS_Subset DEF Alive, Spawners, Idlers
    <3>3. Cardinality(Alive) \in Nat /\ Cardinality(Spawners) \in Nat /\ Cardinality(Idlers) \in Nat
      BY <3>2, FS_CardinalityType
    <3>4. Counted' BY <1>0, <2>1, <2>3, <3>1, <3>3 DEF Counted
    <3>5. Manned' BY <2>1, <2>2, <2>3, <3>1 DEF Manned
    <3> QED BY <3>4, <3>5
  <2>4. ASSUME NEW u \in Threads, pc[u] = "off", pc' = [pc EXCEPT ![u] = "new"], UNCHANGED <<numThread, numIdle>>
        PROVE  PoolInv'
    <3>0. pc'[u] = "new" /\ \A v \in Threads \ {u} : pc'[v] = pc[v] BY <2>4 DEF Types
    <3>1. Steps1(u)
      <4>1. "new" \in Places BY DEF Places
      <4> QED BY <2>1, <2>4, <3>0, <4>1, PcType DEF Steps1
    <3>2. /\ Cardinality(Alive) \in Nat /\ Cardinality(Spawners) \in Nat /\ Cardinality(Idlers) \in Nat
          /\ Cardinality(Alive') = Cardinality(Alive) + 1 /\ Cardinality(Spawners') = Cardinality(Spawners)
          /\ Cardinality(Idlers') = Cardinality(Idlers) + 1
          /\ \A v \in Threads \ {u} : (v \in Leaving' <=> v \in Leaving) /\ (v \in Alive' <=> v \in Alive)
      BY <2>4, <3>0, <3>1, PoolShift DEF One, IsIdle
    <3>3. u \notin Leaving' BY <3>0 DEF Leaving
    <3>4. Counted' BY <1>0, <2>1, <2>4, <3>2 DEF Counted
    <3>5. Leaving' \subseteq Leaving BY <3>2, <3>3 DEF Leaving
    <3>6. Manned' BY <2>1, <2>2, <3>0, <3>5 DEF Manned
    <3> QED BY <3>4, <3>6
  <2> QED BY <1>2, <2>3, <2>4 DEF startThread
<1>3. CASE cancel \/ waitForCancel \/ WriteInterrupt \/ tick
  <2>1. UNCHANGED <<runVars, startVars, poolVars, cleared>>
    BY <1>3 DEF cancel, waitForCancel, WriteInterrupt, tick
  <2>2. canceled' = TRUE \/ canceled' = canceled
    BY <1>3 DEF cancel, waitForCancel, WriteInterrupt, tick
  <2> QED BY <1>q, <2>1, <2>2
<1>4. CASE idleElapse
  <2>1. Leaving = {} BY <1>4 DEF idleElapse, Leaving
  <2> QED BY <1>4, <1>q, <2>1 DEF idleElapse
<1>5. ASSUME NEW h \in FdHandlers, FdCall(h) PROVE PoolInv'
  <2>1. UNCHANGED <<runVars, startVars, poolVars, endVars>>
    BY <1>5 DEF FdCall, addFd, replaceFdModify, replaceFdAdd, removeFd, readyFd
  <2> QED BY <1>q, <2>1
<1>6. ASSUME NEW k \in Tasks, TaskCall(k) PROVE PoolInv'
  BY <1>6, <1>q DEF TaskCall, addTask, replaceTask, replaceTaskLaterThan, removeTask
<1>7. ASSUME NEW fd \in Fds, arrive(fd) PROVE PoolInv'
  BY <1>7, <1>q DEF arrive
<1> QED BY <1>1, <1>2, <1>3, <1>4, <1>5, <1>6, <1>7 DEF Called, Outside

LEMMA PoolStep ==
  ASSUME Types, InHand, PoolInv, [Next]_vars
  PROVE  PoolInv'
<1>1. CASE UNCHANGED vars
  BY <1>1 DEF vars, PoolInv, Counted, Manned, Alive, Spawners, Idlers, Leaving, runVars, startVars, poolVars, endVars
<1>2. CASE Called BY <1>2, PoolCalled
<1>3. ASSUME NEW t \in Threads, work(t) \/ epollError(t) PROVE PoolInv'
  <2>1. CASE nextNull(t) BY <2>1, PoolReap, PoolQuietWork
  <2>2. CASE giveUp(t) BY <2>2, PoolGive, PoolQuietWork
  <2>3. CASE destroy(t) BY <2>3, PoolDone, PoolQuietWork
  <2>4. CASE new_thread(t) BY <2>4, PoolNew
  <2>5. CASE workEnd(t) BY <2>5, PoolEnd
  <2>6. CASE \/ workStart(t) \/ lead(t) \/ nextFd(t) \/ nextTask(t) \/ nextSleep(t) \/ epoll(t) \/ epollError(t)
             \/ gotPipe(t) \/ (\E fd \in Fds : gotFd(t, fd)) \/ can_run(t) \/ doit(t)
    BY <2>6, PoolQuietWork
  <2> QED BY <1>3, <2>1, <2>2, <2>3, <2>4, <2>5, <2>6 DEF work
<1> QED BY <1>1, <1>2, <1>3, Parts

-----------------------------------------------------------------------------
(* The heap of handlers. *)

HeapAt(h) == OnceIn(fheap, h) /\ (~cleared => (findex[h] <=> InFheap(h)))

LEMMA PushHeap ==
  ASSUME Types, NEW h \in FdHandlers, NEW e, Push(h, e), ~findex[h], ~cleared,
         NEW x \in FdHandlers, HeapAt(x)
  PROVE  HeapAt(x)'
<1>1. fheap' = Append(fheap, h) /\ findex' = [findex EXCEPT ![h] = TRUE] BY DEF Push
<1>2. fheap \in Seq(FdHandlers) /\ findex \in [FdHandlers -> BOOLEAN] BY DEF Types
<1>3. fheap' \in Seq(FdHandlers) /\ OneLess(fheap', Len(fheap) + 1, fheap) /\ fheap'[Len(fheap) + 1] = h
  BY <1>1, <1>2, Appended
<1> DEFINE p == Len(fheap) + 1
<1> HIDE DEF p
<1>4. OneLess(fheap', p, fheap) /\ fheap'[p] = h BY <1>3 DEF p
<1>5. h = x => x \notin Range(fheap) BY DEF HeapAt, InFheap
<1>6. OnceIn(fheap', x) BY <1>2, <1>3, <1>4, <1>5, OneMoreOnce DEF HeapAt
<1>7. x \in Range(fheap') <=> (x = h \/ x \in Range(fheap)) BY <1>2, <1>3, <1>4, OneLessRange
<1>8. findex'[x] <=> (x = h \/ findex[x]) BY <1>1, <1>2
<1> QED BY <1>6, <1>7, <1>8 DEF HeapAt, InFheap

\* One entry of g goes, with its index unless it is the wrong one.
LEMMA EraseHeap ==
  ASSUME Types, NEW p, NEW g \in FdHandlers, OneLess(fheap, p, fheap'), fheap' \in Seq(FdHandlers), fheap[p] = g,
         UNCHANGED cleared, NEW x \in FdHandlers, HeapAt(x),
         IF x = g THEN ~findex'[x] ELSE findex'[x] = findex[x]
  PROVE  HeapAt(x)'
<1>1. fheap \in Seq(FdHandlers) BY DEF Types
<1>2. OnceIn(fheap', x) /\ (g = x => x \notin Range(fheap')) BY <1>1, OneLessOnce DEF HeapAt
<1>3. x # g => (x \in Range(fheap') <=> x \in Range(fheap)) BY <1>1, OneLessRange
<1> QED BY <1>2, <1>3 DEF HeapAt, InFheap

LEMMA HeapAddFd ==
  ASSUME Types, HeapInv, NEW h \in FdHandlers, NEW ok \in BOOLEAN, _do_add_fd(h, ok), fd2hr[FdOf[h]] # h,
         UNCHANGED cleared
  PROVE  HeapInv'
<1>0. PICK old : old = fd2hr[FdOf[h]] OBVIOUS
<1>1. PICK erase \in BOOLEAN : erase <=> old # None /\ findex[old] /\ InFheap(old) OBVIOUS
<1>2. /\ fheap' = (IF erase THEN Without(fheap, old) ELSE fheap)
      /\ findex' = (IF erase THEN [findex EXCEPT ![h] = FALSE] ELSE findex)
      /\ evicted' = evicted \cup (IF erase THEN {old} \cup {x \in {h} : findex[x]} ELSE {})
      /\ fd2hr' = [fd2hr EXCEPT ![FdOf[h]] = IF ok THEN h ELSE None]
  BY <1>0, <1>1 DEF _do_add_fd
<1>3. /\ fheap \in Seq(FdHandlers) /\ findex \in [FdHandlers -> BOOLEAN] /\ fd2hr \in [Fds -> FdHandlers \cup {None}]
      /\ evicted \subseteq FdHandlers
  BY DEF Types
<1>4. FdOf[h] \in Fds /\ old \in FdHandlers \cup {None} /\ old # h BY <1>0, <1>3, XEventAssumption
<1>5. ASSUME NEW x \in FdHandlers \ evicted' PROVE HeapAt(x)'
  <2>1. HeapAt(x) BY <1>2 DEF HeapInv, HeapAt
  <2>2. CASE erase
    <3>1. old \in FdHandlers /\ old \in Range(fheap) BY <1>1, <1>4, <2>2 DEF InFheap
    <3>2. PICK p : OneLess(fheap, p, fheap') /\ fheap[p] = old /\ fheap' \in Seq(FdHandlers)
      BY <1>2, <1>3, <2>2, <3>1, Erased
    <3>3. x # old /\ (x = h => ~findex[x]) BY <1>2, <2>2
    <3>4. findex'[x] = findex[x] BY <1>2, <1>3, <2>2, <3>3
    <3> QED BY <2>1, <3>1, <3>2, <3>3, <3>4, EraseHeap
  <2>3. CASE ~erase BY <1>2, <2>1, <2>3 DEF HeapAt, InFheap
  <2> QED BY <2>2, <2>3
<1>6. \A fd \in Fds : fd2hr'[fd] # None => FdOf[fd2hr'[fd]] = fd
  <2> SUFFICES ASSUME NEW fd \in Fds, fd2hr'[fd] # None PROVE FdOf[fd2hr'[fd]] = fd OBVIOUS
  <2>1. fd2hr'[fd] = fd2hr[fd] \/ (fd = FdOf[h] /\ fd2hr'[fd] \in {h, None}) BY <1>2, <1>3, <1>4
  <2> QED BY <2>1 DEF HeapInv
<1> QED BY <1>5, <1>6 DEF HeapInv, HeapAt

LEMMA HeapFd ==
  ASSUME Types, HeapInv, PoolInv, NEW h \in FdHandlers, FdCall(h)
  PROVE  HeapInv'
<1> USE DEF endVars
<1>0. \A x \in FdHandlers \ evicted : HeapAt(x) BY DEF HeapInv, HeapAt
<1>1. CASE addFd(h) \/ replaceFdAdd(h) BY <1>1, HeapAddFd DEF addFd, replaceFdAdd
<1>2. CASE replaceFdModify(h) BY <1>2 DEF replaceFdModify, HeapInv, InFheap, fdVars, history
<1>3. CASE removeFd(h)
  <2>1. PICK erase \in BOOLEAN : erase <=> findex[h] /\ InFheap(h) OBVIOUS
  <2>2. /\ fheap' = (IF erase THEN Without(fheap, h) ELSE fheap)
        /\ findex' = (IF erase THEN [findex EXCEPT ![h] = FALSE] ELSE findex)
        /\ fd2hr' = fd2hr \/ fd2hr' = [fd2hr EXCEPT ![FdOf[h]] = None]
        /\ UNCHANGED <<evicted, cleared>>
    BY <1>3, <2>1 DEF removeFd
  <2>3. fheap \in Seq(FdHandlers) /\ findex \in [FdHandlers -> BOOLEAN] /\ fd2hr \in [Fds -> FdHandlers \cup {None}]
    BY DEF Types
  <2>4. ASSUME NEW x \in FdHandlers \ evicted' PROVE HeapAt(x)'
    <3>1. HeapAt(x) BY <1>0, <2>2
    <3>2. CASE erase
      <4>1. h \in Range(fheap) BY <2>1, <3>2 DEF InFheap
      <4>2. PICK p : OneLess(fheap, p, fheap') /\ fheap[p] = h /\ fheap' \in Seq(FdHandlers)
        BY <2>2, <2>3, <3>2, <4>1, Erased
      <4>3. IF x = h THEN ~findex'[x] ELSE findex'[x] = findex[x] BY <2>2, <2>3, <3>2
      <4> QED BY <2>2, <3>1, <4>2, <4>3, EraseHeap
    <3>3. CASE ~erase BY <2>2, <3>1, <3>3 DEF HeapAt, InFheap
    <3> QED BY <3>2, <3>3
  <2>5. \A fd \in Fds : fd2hr'[fd] # None => FdOf[fd2hr'[fd]] = fd
    <3>1. \A fd \in Fds : fd2hr'[fd] = fd2hr[fd] \/ fd2hr'[fd] = None BY <2>2, <2>3
    <3> QED BY <3>1 DEF HeapInv
  <2> QED BY <2>4, <2>5 DEF HeapInv, HeapAt
<1>4. CASE readyFd(h)
  <2>1. UNCHANGED <<fd2hr, evicted, cleared>> /\ ~cleared BY <1>4 DEF readyFd, PoolInv, Manned
  <2>2. CASE Push(h, {"WRITE"}) /\ ~findex[h]
    <3>1. \A x \in FdHandlers \ evicted : HeapAt(x)' BY <1>0, <2>1, <2>2, PushHeap
    <3> QED BY <2>1, <3>1 DEF HeapInv, HeapAt
  <2>3. CASE Combine(h, {"WRITE"}) BY <2>1, <2>3 DEF Combine, HeapInv, InFheap
  <2> QED BY <1>4, <2>2, <2>3 DEF readyFd
<1> QED BY <1>1, <1>2, <1>3, <1>4 DEF FdCall

LEMMA HeapWork ==
  ASSUME Types, HeapInv, PoolInv, NEW t \in Threads, work(t) \/ epollError(t)
  PROVE  HeapInv'
<1> USE DEF endVars
<1>0. (\A x \in FdHandlers \ evicted : HeapAt(x)) /\ \A fd \in Fds : fd2hr[fd] # None => FdOf[fd2hr[fd]] = fd
  BY DEF HeapInv, HeapAt
<1>a. pc[t] # "off" => ~cleared BY DEF PoolInv, Manned, Alive
<1>1. CASE UNCHANGED <<fheap, findex, evicted, cleared, fd2hr>> BY <1>1 DEF HeapInv, InFheap
<1>2. CASE nextFd(t)
  <2>1. /\ fheap # <<>> /\ fheap' = Tail(fheap) /\ findex' = [findex EXCEPT ![Head(fheap)] = FALSE]
        /\ UNCHANGED <<evicted, cleared, fd2hr>>
    BY <1>2 DEF nextFd, history
  <2>2. fheap \in Seq(FdHandlers) /\ findex \in [FdHandlers -> BOOLEAN] BY DEF Types
  <2>3. PICK h : h = Head(fheap) OBVIOUS
  <2>4. fheap' \in Seq(FdHandlers) /\ OneLess(fheap, 1, fheap') /\ fheap[1] = h /\ h \in FdHandlers
    BY <2>1, <2>2, <2>3, Popped
  <2>5. \A x \in FdHandlers : IF x = h THEN ~findex'[x] ELSE findex'[x] = findex[x] BY <2>1, <2>2, <2>3, <2>4
  <2>6. \A x \in FdHandlers \ evicted : HeapAt(x)' BY <1>0, <2>1, <2>4, <2>5, EraseHeap
  <2> QED BY <1>0, <2>1, <2>6 DEF HeapInv, HeapAt
<1>3. ASSUME NEW fd \in Fds, gotFd(t, fd) PROVE HeapInv'
  <2>1. UNCHANGED <<evicted, cleared>> /\ ~cleared BY <1>3, <1>a DEF gotFd, Handled
  <2>2. fd2hr \in [Fds -> FdHandlers \cup {None}] BY DEF Types
  <2>3. PICK h \in FdHandlers \cup {None} : h = fd2hr[fd] BY <2>2
  <2>4. CASE h = None BY <1>3, <1>1, <2>1, <2>3, <2>4 DEF gotFd
  <2>5. CASE h # None
    <3>1. /\ IF findex[h] THEN Combine(h, {"READ"}) ELSE Push(h, {"READ"})
          /\ fd2hr' = fd2hr \/ fd2hr' = [fd2hr EXCEPT ![fd] = None]
      BY <1>3, <2>3, <2>5 DEF gotFd
    <3>2. \A x \in Fds : fd2hr'[x] = fd2hr[x] \/ fd2hr'[x] = None BY <2>2, <3>1
    <3>3. \A x \in FdHandlers \ evicted : HeapAt(x)'
      <4>1. CASE findex[h] BY <1>0, <2>1, <3>1, <4>1 DEF Combine, HeapAt, InFheap
      <4>2. CASE ~findex[h] BY <1>0, <2>1, <2>5, <3>1, <4>2, PushHeap
      <4> QED BY <4>1, <4>2
    <3> QED BY <1>0, <2>1, <3>2, <3>3 DEF HeapInv, HeapAt
  <2> QED BY <2>4, <2>5
<1>4. CASE workEnd(t)
  <2>1. CASE numThread # 1 BY <1>4, <1>1, <2>1 DEF workEnd
  <2>2. CASE numThread = 1
    <3>1. /\ cleared' = TRUE /\ fheap' = <<>> /\ fd2hr' = [fd \in Fds |-> None] /\ UNCHANGED evicted
      BY <1>4, <2>2 DEF workEnd
    <3> QED BY <3>1 DEF HeapInv, OnceIn
  <2> QED BY <2>1, <2>2
<1> USE DEF fdVars, history
<1>5. CASE workStart(t) \/ lead(t) \/ nextNull(t) BY <1>1, <1>5 DEF workStart, lead, nextNull
<1>6. CASE nextTask(t) \/ nextSleep(t) BY <1>1, <1>6 DEF nextTask, nextSleep
<1>7. CASE epoll(t) BY <1>1, <1>7 DEF epoll, epollReady, epollTimeout
<1>8. CASE epollError(t) \/ gotPipe(t) \/ can_run(t) BY <1>1, <1>8 DEF epollError, gotPipe, can_run
<1>9. CASE giveUp(t) \/ new_thread(t) BY <1>1, <1>9 DEF giveUp, new_thread
<1>10. CASE doit(t) \/ destroy(t) BY <1>1, <1>10 DEF doit, destroy
<1> QED BY <1>2, <1>3, <1>4, <1>5, <1>6, <1>7, <1>8, <1>9, <1>10 DEF work

LEMMA HeapStep ==
  ASSUME Types, HeapInv, PoolInv, [Next]_vars
  PROVE  HeapInv'
<1> USE DEF fdVars, history, endVars
<1>1. CASE UNCHANGED vars BY <1>1 DEF vars, HeapInv, InFheap
<1>2. CASE Outside
  <2>1. UNCHANGED <<fdVars, evicted, cleared>>
    BY <1>2 DEF Outside, start, startThread, cancel, waitForCancel, WriteInterrupt, tick, idleElapse
  <2> QED BY <2>1 DEF HeapInv, InFheap
<1>3. ASSUME NEW k \in Tasks, TaskCall(k) PROVE HeapInv'
  BY <1>3 DEF TaskCall, addTask, replaceTask, replaceTaskLaterThan, removeTask, HeapInv, InFheap
<1>4. ASSUME NEW fd \in Fds, arrive(fd) PROVE HeapInv'
  BY <1>4 DEF arrive, HeapInv, InFheap
<1> QED BY <1>1, <1>2, <1>3, <1>4, Steps, HeapFd, HeapWork

-----------------------------------------------------------------------------
(* References. *)

Reg(h) == IF h \in FdHandlers THEN IF fd2hr[FdOf[h]] = h THEN 1 ELSE 0 ELSE 0
RefsAt(h) ==
  refs[h] = Reg(h) + Cardinality(Entries(fheap, h)) + Cardinality(Entries(theap, h)) + Cardinality(Live(h)) + Len(chain[h])

LEMMA RefsAre ==
  ASSUME Types
  PROVE  /\ RefsMatch <=> \A h \in Handlers : RefsAt(h)
         /\ \A h \in Handlers : /\ Reg(h) \in Nat /\ Cardinality(Entries(fheap, h)) \in Nat
                                /\ Cardinality(Entries(theap, h)) \in Nat /\ Cardinality(Live(h)) \in Nat
                                /\ Len(chain[h]) \in Nat /\ refs[h] \in Int
<1>1. ASSUME NEW h \in Handlers
      PROVE  /\ Reg(h) \in Nat /\ Cardinality(Entries(fheap, h)) \in Nat
             /\ Cardinality(Entries(theap, h)) \in Nat /\ Cardinality(Live(h)) \in Nat
             /\ Len(chain[h]) \in Nat /\ refs[h] \in Int
  <2>1. Reg(h) \in Nat BY DEF Reg
  <2>2. Cardinality(Entries(fheap, h)) \in Nat /\ Cardinality(Entries(theap, h)) \in Nat BY EntriesFinite DEF Types
  <2>3. Cardinality(Live(h)) \in Nat
    <3>1. IsFiniteSet(Live(h)) BY XEventAssumption, FS_Subset DEF Live
    <3> QED BY <3>1, FS_CardinalityType
  <2>4. chain[h] \in Seq(EventMans) /\ refs[h] \in Int BY DEF Types
  <2> QED BY <2>1, <2>2, <2>3, <2>4
<1>2. ASSUME NEW h \in Handlers
      PROVE  RefsAt(h) <=>
             refs[h] = (IF h \in FdHandlers THEN IF fd2hr[FdOf[h]] = h THEN 1 ELSE 0 ELSE 0)
                       + Cardinality(Entries(fheap, h)) + Cardinality(Entries(theap, h)) + Under(h)
  <2>1. Reg(h) = IF h \in FdHandlers THEN IF fd2hr[FdOf[h]] = h THEN 1 ELSE 0 ELSE 0 BY DEF Reg
  <2>2. Under(h) = Cardinality(Live(h)) + Len(chain[h]) BY DEF Under
  <2>3. /\ Reg(h) \in Nat /\ Cardinality(Entries(fheap, h)) \in Nat
        /\ Cardinality(Entries(theap, h)) \in Nat /\ Cardinality(Live(h)) \in Nat
        /\ Len(chain[h]) \in Nat
    BY <1>1
  <2>4. \A a, b, c, d, e \in Nat : a + b + c + d + e = a + b + c + (d + e) OBVIOUS
  <2> QED BY <2>1, <2>2, <2>3, <2>4 DEF RefsAt
<1>3. RefsMatch <=> \A h \in Handlers : RefsAt(h) BY <1>2 DEF RefsMatch
<1> QED BY <1>1, <1>3

\* Five summands and what is added to them.
LEMMA Regrouped ==
  \A r, f, k, l, m, a, b, c, d, ll, mm \in Int :
    ll + mm = l + m + d => (r + f + k + l + m) + (a + b + c + d) = (r + a) + (f + b) + (k + c) + ll + mm
OBVIOUS

\* RefsAt from one state to the next: what each kind of reference gains.
LEMMA RefsSum ==
  ASSUME Types, Types', NEW h \in Handlers, RefsAt(h), NEW a \in Int, NEW b \in Int, NEW c \in Int, NEW d \in Int,
         Reg(h)' = Reg(h) + a, Cardinality(Entries(fheap', h)) = Cardinality(Entries(fheap, h)) + b,
         Cardinality(Entries(theap', h)) = Cardinality(Entries(theap, h)) + c,
         Cardinality(Live(h)') + Len(chain'[h]) = Cardinality(Live(h)) + Len(chain[h]) + d,
         refs'[h] = refs[h] + (a + b + c + d)
  PROVE  RefsAt(h)'
<1>1. /\ Reg(h) \in Nat /\ Cardinality(Entries(fheap, h)) \in Nat
      /\ Cardinality(Entries(theap, h)) \in Nat /\ Cardinality(Live(h)) \in Nat
      /\ Len(chain[h]) \in Nat /\ refs[h] \in Int
  BY RefsAre
<1>2. /\ Reg(h)' \in Nat /\ Cardinality(Entries(fheap', h)) \in Nat
      /\ Cardinality(Entries(theap', h)) \in Nat /\ Cardinality(Live(h)') \in Nat
      /\ Len(chain'[h]) \in Nat /\ refs'[h] \in Int
  <2>1. Reg(h)' \in Nat BY DEF Reg
  <2>2. Cardinality(Entries(fheap', h)) \in Nat /\ Cardinality(Entries(theap', h)) \in Nat
    <3>1. fheap' \in Seq(FdHandlers) /\ theap' \in Seq(Tasks) BY DEF Types
    <3> QED BY <3>1, EntriesFinite
  <2>3. Cardinality(Live(h)') \in Nat
    <3>1. IsFiniteSet(Live(h)') BY XEventAssumption, FS_Subset DEF Live
    <3> QED BY <3>1, FS_CardinalityType
  <2>4. chain'[h] \in Seq(EventMans) /\ refs'[h] \in Int BY DEF Types
  <2> QED BY <2>1, <2>2, <2>3, <2>4
<1>3. PICK r, f, k, l, m \in Nat :
        /\ r = Reg(h) /\ f = Cardinality(Entries(fheap, h)) /\ k = Cardinality(Entries(theap, h))
        /\ l = Cardinality(Live(h)) /\ m = Len(chain[h])
  BY <1>1
<1>4. PICK rr, ff, kk, ll, mm \in Nat :
        /\ rr = Reg(h)' /\ ff = Cardinality(Entries(fheap', h)) /\ kk = Cardinality(Entries(theap', h))
        /\ ll = Cardinality(Live(h)') /\ mm = Len(chain'[h])
  BY <1>2
<1>5. refs[h] = r + f + k + l + m BY <1>3 DEF RefsAt
<1>6. rr = r + a /\ ff = f + b /\ kk = k + c /\ ll + mm = l + m + d BY <1>3, <1>4
<1>7. refs'[h] = rr + ff + kk + ll + mm
  <2>1. refs'[h] = (r + f + k + l + m) + (a + b + c + d) BY <1>5
  <2>2. r \in Int /\ f \in Int /\ k \in Int /\ l \in Int /\ m \in Int OBVIOUS
  <2>3. ll \in Int /\ mm \in Int OBVIOUS
  <2>4. ll + mm = l + m + d BY <1>6
  <2>5. refs'[h] = (r + a) + (f + b) + (k + c) + ll + mm
    BY <2>1, <2>2, <2>3, <2>4, Regrouped
  <2> QED BY <1>6, <2>5
<1>8. refs'[h] = Reg(h)' + Cardinality(Entries(fheap', h)) + Cardinality(Entries(theap', h)) + Cardinality(Live(h)') + Len(chain'[h])
  BY <1>4, <1>7
<1> QED BY <1>8 DEF RefsAt

\* An EventMan taken or left by t.
HasOf(t, h) == evm[t] # None /\ evm[t].hr = h

LEMMA LiveStep ==
  ASSUME Types, NEW t \in Threads, \A u \in Threads \ {t} : evm'[u] = evm[u], NEW h \in Handlers
  PROVE  /\ Cardinality(Live(h)) \in Nat
         /\ Cardinality(Live(h)') = Cardinality(Live(h)) + One(HasOf(t, h)') - One(HasOf(t, h))
<1>1. /\ Live(h) \in SUBSET Threads /\ Live(h)' \in SUBSET Threads
      /\ \A u \in Threads \ {t} : u \in Live(h) <=> u \in Live(h)'
      /\ (t \in Live(h) <=> HasOf(t, h)) /\ (t \in Live(h)' <=> HasOf(t, h)')
  BY DEF Live, HasOf
<1> DEFINE A == Live(h)
<1>2. PICK B : B = Live(h)' OBVIOUS
<1>3. A \in SUBSET Threads /\ B \in SUBSET Threads /\ \A u \in Threads \ {t} : u \in A <=> u \in B BY <1>1, <1>2
<1> HIDE DEF A
<1>4. Cardinality(A) \in Nat /\ Cardinality(B) = Cardinality(A) + (IF t \in B THEN 1 ELSE 0) - (IF t \in A THEN 1 ELSE 0)
  BY <1>3, CountStep
<1> QED BY <1>1, <1>2, <1>4 DEF One, A

\* Steps that only move references of the heap of handlers and of epoll.
LEMMA RefsFdOnly ==
  ASSUME Types, Types', NEW h \in Handlers, RefsAt(h), NEW a \in Int, NEW b \in Int,
         Reg(h)' = Reg(h) + a, Cardinality(Entries(fheap', h)) = Cardinality(Entries(fheap, h)) + b,
         UNCHANGED <<theap, evm, chain>>, refs'[h] = refs[h] + (a + b)
  PROVE  RefsAt(h)'
<1>1. /\ Cardinality(Entries(theap, h)) \in Nat /\ Cardinality(Live(h)) \in Nat
      /\ Len(chain[h]) \in Nat /\ refs[h] \in Int
  BY RefsAre
<1>2. Live(h)' = Live(h) BY DEF Live
<1>3. /\ Cardinality(Entries(theap', h)) = Cardinality(Entries(theap, h)) + 0
      /\ Cardinality(Live(h)') + Len(chain'[h]) = Cardinality(Live(h)) + Len(chain[h]) + 0
      /\ refs'[h] = refs[h] + (a + b + 0 + 0)
  BY <1>1, <1>2
<1> QED BY <1>3, RefsSum, 0 \in Int

LEMMA PushCount ==
  ASSUME Types, NEW g \in FdHandlers, NEW e, Push(g, e), NEW h \in Handlers
  PROVE  Cardinality(Entries(fheap', h)) = Cardinality(Entries(fheap, h)) + One(h = g)
<1>1. fheap \in Seq(FdHandlers) /\ fheap' = Append(fheap, g) BY DEF Types, Push
<1>2. PICK p : OneLess(fheap', p, fheap) /\ fheap'[p] = g /\ fheap' \in Seq(FdHandlers) BY <1>1, Appended
<1>3. PICK s \in Seq(FdHandlers) : s = fheap' BY <1>2
<1>4. Cardinality(Entries(s, h)) = Cardinality(Entries(fheap, h)) + (IF s[p] = h THEN 1 ELSE 0)
  <2>1. fheap \in Seq(FdHandlers) /\ OneLess(s, p, fheap) BY <1>1, <1>2, <1>3
  <2> QED BY <2>1, RemovedCount
<1> QED BY <1>2, <1>3, <1>4 DEF One

LEMMA EraseCount ==
  ASSUME Types, NEW g \in FdHandlers, InFheap(g), fheap' = Without(fheap, g), NEW h \in Handlers
  PROVE  Cardinality(Entries(fheap', h)) = Cardinality(Entries(fheap, h)) - One(h = g)
<1>1. fheap \in Seq(FdHandlers) /\ g \in Range(fheap) BY DEF Types, InFheap
<1>2. PICK p : OneLess(fheap, p, fheap') /\ fheap[p] = g /\ fheap' \in Seq(FdHandlers) BY <1>1, Erased
<1>3. Cardinality(Entries(fheap, h)) = Cardinality(Entries(fheap', h)) + (IF fheap[p] = h THEN 1 ELSE 0)
  BY <1>1, <1>2, RemovedCount
<1>4. Cardinality(Entries(fheap, h)) \in Nat /\ Cardinality(Entries(fheap', h)) \in Nat BY <1>1, <1>2, EntriesFinite
<1> QED BY <1>2, <1>3, <1>4 DEF One

LEMMA RefsAddFd ==
  ASSUME Types, Types', HeapInv, NEW h \in FdHandlers, NEW ok \in BOOLEAN, _do_add_fd(h, ok), fd2hr[FdOf[h]] # h,
         UNCHANGED <<theap, evm, chain>>, NEW x \in Handlers, RefsAt(x)
  PROVE  RefsAt(x)'
<1>0. PICK old : old = fd2hr[FdOf[h]] OBVIOUS
<1>1. PICK erase \in BOOLEAN : erase <=> old # None /\ findex[old] /\ InFheap(old) OBVIOUS
<1>2. /\ fheap' = (IF erase THEN Without(fheap, old) ELSE fheap)
      /\ fd2hr' = [fd2hr EXCEPT ![FdOf[h]] = IF ok THEN h ELSE None]
      /\ refs' = [y \in Handlers |-> refs[y] + (IF y = h /\ ok THEN 1 ELSE 0)
                                     - (IF y = old THEN IF erase THEN 2 ELSE 1 ELSE 0)]
  BY <1>0, <1>1 DEF _do_add_fd
<1>3. fheap \in Seq(FdHandlers) /\ fd2hr \in [Fds -> FdHandlers \cup {None}] /\ refs \in [Handlers -> Int]
  BY DEF Types
<1>4. /\ FdOf[h] \in Fds /\ old \in FdHandlers \cup {None} /\ old # h /\ h # None /\ x # None
      /\ \A y \in FdHandlers : FdOf[y] \in Fds
  BY <1>0, <1>3, XEventAssumption DEF Handlers
<1>5. Cardinality(Entries(fheap, x)) \in Nat /\ Reg(x) \in Nat BY RefsAre
<1>6. Cardinality(Entries(fheap', x)) = Cardinality(Entries(fheap, x)) + (IF x = old /\ erase THEN -1 ELSE 0)
  <2>1. CASE erase
    <3>1. old \in FdHandlers /\ InFheap(old) BY <1>1, <1>4, <2>1
    <3>2. Cardinality(Entries(fheap', x)) = Cardinality(Entries(fheap, x)) - One(x = old)
      BY <1>2, <2>1, <3>1, EraseCount
    <3> QED BY <1>5, <2>1, <3>2 DEF One
  <2>2. CASE ~erase BY <1>2, <1>5, <2>2
  <2> QED BY <2>1, <2>2
<1>7. Reg(x)' = Reg(x) + (IF x = h /\ ok THEN 1 ELSE IF x = old THEN -1 ELSE 0)
  <2>1. CASE x = h
    <3>1. Reg(x) = 0 BY <2>1 DEF Reg
    <3>2. fd2hr'[FdOf[x]] = IF ok THEN h ELSE None BY <1>2, <1>3, <1>4, <2>1
    <3>3. Reg(x)' = IF ok THEN 1 ELSE 0 BY <1>4, <2>1, <3>2 DEF Reg
    <3> QED BY <1>4, <2>1, <3>1, <3>3
  <2>2. CASE x = old
    <3>1. x \in FdHandlers /\ FdOf[x] = FdOf[h] BY <1>0, <1>4, <2>2 DEF HeapInv
    <3>2. Reg(x) = 1 BY <1>0, <2>2, <3>1 DEF Reg
    <3>3. fd2hr'[FdOf[x]] # x BY <1>2, <1>3, <1>4, <2>2, <3>1
    <3>4. Reg(x)' = 0 BY <3>3 DEF Reg
    <3> QED BY <1>4, <2>2, <3>2, <3>4
  <2>3. CASE x # h /\ x # old
    <3>1. x \in FdHandlers => (fd2hr'[FdOf[x]] = x <=> fd2hr[FdOf[x]] = x)
      BY <1>0, <1>2, <1>3, <1>4, <2>3
    <3>2. Reg(x)' = Reg(x) BY <3>1 DEF Reg
    <3> QED BY <1>5, <2>3, <3>2
  <2> QED BY <2>1, <2>2, <2>3
<1>8. refs'[x] = refs[x] + ((IF x = h /\ ok THEN 1 ELSE IF x = old THEN -1 ELSE 0) + (IF x = old /\ erase THEN -1 ELSE 0))
  BY <1>2, <1>3, <1>4
<1>9. (IF x = h /\ ok THEN 1 ELSE IF x = old THEN -1 ELSE 0) \in Int /\ (IF x = old /\ erase THEN -1 ELSE 0) \in Int
  OBVIOUS
<1> QED BY <1>6, <1>7, <1>8, <1>9, RefsFdOnly

LEMMA RefsFd ==
  ASSUME Types, Types', HeapInv, NEW h \in FdHandlers, FdCall(h), NEW x \in Handlers, RefsAt(x)
  PROVE  RefsAt(x)'
<1> USE DEF taskVars, runVars
<1>0. /\ UNCHANGED <<theap, evm, chain>>
      /\ fheap \in Seq(FdHandlers) /\ fd2hr \in [Fds -> FdHandlers \cup {None}] /\ refs \in [Handlers -> Int]
      /\ FdOf[h] \in Fds /\ h \in Handlers /\ x # None /\ h # None
  BY XEventAssumption DEF Types, Handlers, FdCall, addFd, replaceFdModify, replaceFdAdd, removeFd, readyFd
<1>1. CASE addFd(h) \/ replaceFdAdd(h) BY <1>0, <1>1, RefsAddFd DEF addFd, replaceFdAdd
<1>5. Cardinality(Entries(fheap, x)) \in Nat /\ Reg(x) \in Nat /\ refs[x] \in Int BY RefsAre
<1>2. CASE replaceFdModify(h)
  BY <1>2 DEF replaceFdModify, RefsAt, Reg, Live, fdVars
<1>3. CASE removeFd(h)
  <2>1. PICK erase \in BOOLEAN : erase <=> findex[h] /\ InFheap(h) OBVIOUS
  <2>2. PICK reg \in BOOLEAN : reg <=> fd2hr[FdOf[h]] = h OBVIOUS
  <2>3. /\ fheap' = (IF erase THEN Without(fheap, h) ELSE fheap)
        /\ fd2hr' = (IF reg THEN [fd2hr EXCEPT ![FdOf[h]] = None] ELSE fd2hr)
        /\ refs' = [refs EXCEPT ![h] = @ - (IF reg THEN 1 ELSE 0) - (IF erase THEN 1 ELSE 0)]
    BY <1>3, <2>1, <2>2 DEF removeFd
  <2>4. Cardinality(Entries(fheap', x)) = Cardinality(Entries(fheap, x)) + (IF x = h /\ erase THEN -1 ELSE 0)
    <3>1. CASE erase
      <4>1. Cardinality(Entries(fheap', x)) = Cardinality(Entries(fheap, x)) - One(x = h)
        BY <2>1, <2>3, <3>1, EraseCount
      <4> QED BY <1>5, <3>1, <4>1 DEF One
    <3>2. CASE ~erase BY <1>5, <2>3, <3>2
    <3> QED BY <3>1, <3>2
  <2>5. Reg(x)' = Reg(x) + (IF x = h /\ reg THEN -1 ELSE 0)
    <3>1. CASE reg /\ x = h
      <4>1. fd2hr'[FdOf[x]] = None BY <1>0, <2>3, <3>1
      <4>2. Reg(x)' = 0 BY <1>0, <4>1 DEF Reg
      <4>3. Reg(x) = 1 BY <2>2, <3>1 DEF Reg
      <4> QED BY <3>1, <4>2, <4>3
    <3>2. CASE reg /\ x # h
      <4>1. x \in FdHandlers => (fd2hr'[FdOf[x]] = x <=> fd2hr[FdOf[x]] = x)
        <5>1. \A y \in FdHandlers : FdOf[y] \in Fds BY XEventAssumption
        <5> QED BY <1>0, <2>2, <2>3, <3>2, <5>1
      <4>2. Reg(x)' = Reg(x) BY <4>1 DEF Reg
      <4> QED BY <1>5, <3>2, <4>2
    <3>3. CASE ~reg
      <4>1. Reg(x)' = Reg(x) BY <2>3, <3>3 DEF Reg
      <4> QED BY <1>5, <3>3, <4>1
    <3> QED BY <3>1, <3>2, <3>3
  <2>6. refs'[x] = refs[x] + ((IF x = h /\ reg THEN -1 ELSE 0) + (IF x = h /\ erase THEN -1 ELSE 0))
    BY <1>0, <1>5, <2>3
  <2>7. (IF x = h /\ reg THEN -1 ELSE 0) \in Int /\ (IF x = h /\ erase THEN -1 ELSE 0) \in Int OBVIOUS
  <2> QED BY <1>0, <2>4, <2>5, <2>6, <2>7, RefsFdOnly
<1>4. CASE readyFd(h)
  <2>1. UNCHANGED fd2hr BY <1>4 DEF readyFd
  <2>2. Reg(x)' = Reg(x) + 0 BY <1>5, <2>1 DEF Reg
  <2>3. CASE findex[h]
    <3>1. UNCHANGED <<fheap, refs>> BY <1>4, <2>3 DEF readyFd, Combine
    <3>2. Cardinality(Entries(fheap', x)) = Cardinality(Entries(fheap, x)) + 0 /\ refs'[x] = refs[x] + (0 + 0)
      BY <1>5, <3>1
    <3> QED BY <1>0, <2>2, <3>2, RefsFdOnly, 0 \in Int
  <2>4. CASE ~findex[h]
    <3>1. Push(h, {"WRITE"}) /\ refs' = [refs EXCEPT ![h] = @ + 1] BY <1>4, <2>4 DEF readyFd
    <3>2. Cardinality(Entries(fheap', x)) = Cardinality(Entries(fheap, x)) + One(x = h) BY <3>1, PushCount
    <3>3. refs'[x] = refs[x] + (0 + One(x = h)) /\ One(x = h) \in Int BY <1>0, <1>5, <3>1 DEF One
    <3> QED BY <1>0, <2>2, <3>2, <3>3, RefsFdOnly, 0 \in Int
  <2> QED BY <2>3, <2>4
<1> QED BY <1>1, <1>2, <1>3, <1>4 DEF FdCall

\* Tasks.
LEMMA RefsTaskOnly ==
  ASSUME Types, Types', NEW h \in Handlers, RefsAt(h), NEW c \in Int,
         Cardinality(Entries(theap', h)) = Cardinality(Entries(theap, h)) + c,
         UNCHANGED <<fd2hr, fheap, evm, chain>>, refs'[h] = refs[h] + c
  PROVE  RefsAt(h)'
<1>1. /\ Reg(h) \in Nat /\ Cardinality(Entries(fheap, h)) \in Nat /\ Cardinality(Live(h)) \in Nat
      /\ Len(chain[h]) \in Nat /\ refs[h] \in Int
  BY RefsAre
<1>2. Live(h)' = Live(h) /\ Reg(h)' = Reg(h) BY DEF Live, Reg
<1>3. /\ Reg(h)' = Reg(h) + 0 /\ Cardinality(Entries(fheap', h)) = Cardinality(Entries(fheap, h)) + 0
      /\ Cardinality(Live(h)') + Len(chain'[h]) = Cardinality(Live(h)) + Len(chain[h]) + 0
      /\ refs'[h] = refs[h] + (0 + 0 + c + 0)
  BY <1>1, <1>2
<1> QED BY <1>3, RefsSum, 0 \in Int

LEMMA RefsTask ==
  ASSUME Types, Types', Ordered(theap, msec), NEW k \in Tasks, TaskCall(k), NEW x \in Handlers, RefsAt(x)
  PROVE  RefsAt(x)'
<1>0. UNCHANGED <<fd2hr, fheap, evm, chain>> /\ theap \in Seq(Tasks) /\ refs \in [Handlers -> Int] /\ k \in Handlers
  BY DEF Types, Handlers, TaskCall, addTask, replaceTask, replaceTaskLaterThan, removeTask, fdVars, runVars
<1>1. Cardinality(Entries(theap, x)) \in Nat /\ refs[x] \in Int BY RefsAre
<1>2. ASSUME NEW when \in Nat, Insert(k, when), refs' = [refs EXCEPT ![k] = IF InTheap(k) THEN @ ELSE @ + 1]
      PROVE  RefsAt(x)'
  <2>0. PICK rest \in Seq(Tasks) : \E p :
              /\ IF k \in Range(theap) THEN \E r : OneLess(theap, r, rest) /\ theap[r] = k ELSE rest = theap
              /\ OneLess(theap', p, rest) /\ theap'[p] = k /\ theap' \in Seq(Tasks)
    BY <1>2, InsertIs
  <2>1. PICK p :
              /\ IF k \in Range(theap) THEN \E r : OneLess(theap, r, rest) /\ theap[r] = k ELSE rest = theap
              /\ OneLess(theap', p, rest) /\ theap'[p] = k /\ theap' \in Seq(Tasks)
    BY <2>0
  <2>2. PICK s \in Seq(Tasks) : s = theap' BY <2>1
  <2>3. Cardinality(Entries(s, x)) = Cardinality(Entries(rest, x)) + (IF s[p] = x THEN 1 ELSE 0)
    <3>1. OneLess(s, p, rest) BY <2>1, <2>2
    <3> QED BY <3>1, RemovedCount
  <2>4. Cardinality(Entries(rest, x)) \in Nat BY EntriesFinite
  <2>5. Cardinality(Entries(theap', x)) = Cardinality(Entries(rest, x)) + One(x = k) BY <2>1, <2>2, <2>3 DEF One
  <2>6. CASE InTheap(k)
    <3>1. PICK r : OneLess(theap, r, rest) /\ theap[r] = k BY <2>1, <2>6 DEF InTheap
    <3>2. Cardinality(Entries(theap, x)) = Cardinality(Entries(rest, x)) + (IF theap[r] = x THEN 1 ELSE 0)
      BY <1>0, <3>1, RemovedCount
    <3>3. Cardinality(Entries(theap', x)) = Cardinality(Entries(theap, x)) + 0 BY <1>1, <2>4, <2>5, <3>1, <3>2 DEF One
    <3>4. refs'[x] = refs[x] + 0 BY <1>0, <1>1, <1>2, <2>6
    <3> QED BY <1>0, <3>3, <3>4, RefsTaskOnly, 0 \in Int
  <2>7. CASE ~InTheap(k)
    <3>1. rest = theap BY <2>1, <2>7 DEF InTheap
    <3>2. refs'[x] = refs[x] + One(x = k) /\ One(x = k) \in Int BY <1>0, <1>1, <1>2, <2>7 DEF One
    <3> QED BY <1>0, <2>5, <3>1, <3>2, RefsTaskOnly
  <2> QED BY <2>6, <2>7
<1>n. \A d \in Delays : now + d \in Nat BY XEventAssumption DEF Types
<1>3. CASE addTask(k)
  <2>1. PICK d \in Delays : Insert(k, now + d) BY <1>3 DEF addTask
  <2>2. refs' = [refs EXCEPT ![k] = IF InTheap(k) THEN @ ELSE @ + 1] BY <1>3 DEF addTask
  <2> QED BY <1>2, <1>n, <2>1, <2>2
<1>4. CASE replaceTask(k) \/ replaceTaskLaterThan(k)
  <2>1. PICK d \in Delays : (UNCHANGED <<theap, msec>> /\ InTheap(k)) \/ Insert(k, now + d)
    BY <1>4 DEF replaceTask, replaceTaskLaterThan
  <2>2. refs' = [refs EXCEPT ![k] = IF InTheap(k) THEN @ ELSE @ + 1] BY <1>4 DEF replaceTask, replaceTaskLaterThan
  <2>3. CASE UNCHANGED <<theap, msec>> /\ InTheap(k)
    <3>1. Cardinality(Entries(theap', x)) = Cardinality(Entries(theap, x)) + 0 BY <1>1, <2>3
    <3>2. refs'[x] = refs[x] + 0 BY <1>0, <1>1, <2>2, <2>3
    <3> QED BY <1>0, <3>1, <3>2, RefsTaskOnly, 0 \in Int
  <2> QED BY <1>2, <1>n, <2>1, <2>2, <2>3
<1>5. CASE removeTask(k)
  <2>1. k \in Range(theap) /\ theap' = Without(theap, k) /\ refs' = [refs EXCEPT ![k] = @ - 1]
    BY <1>5 DEF removeTask, InTheap
  <2>2. PICK p : OneLess(theap, p, theap') /\ theap[p] = k /\ theap' \in Seq(Tasks) BY <1>0, <2>1, Erased
  <2>3. Cardinality(Entries(theap, x)) = Cardinality(Entries(theap', x)) + (IF theap[p] = x THEN 1 ELSE 0)
    BY <1>0, <2>2, RemovedCount
  <2>4. Cardinality(Entries(theap', x)) \in Nat BY <2>2, EntriesFinite
  <2>5. Cardinality(Entries(theap', x)) = Cardinality(Entries(theap, x)) + (IF x = k THEN -1 ELSE 0)
    BY <1>1, <2>2, <2>3, <2>4
  <2>6. refs'[x] = refs[x] + (IF x = k THEN -1 ELSE 0) /\ (IF x = k THEN -1 ELSE 0) \in Int BY <1>0, <1>1, <2>1
  <2> QED BY <1>0, <2>5, <2>6, RefsTaskOnly
<1> QED BY <1>3, <1>4, <1>5 DEF TaskCall

\* Steps of work() that leave the references alone.
LEMMA RefsSame ==
  ASSUME Types, NEW t \in Threads, \A u \in Threads \ {t} : evm'[u] = evm[u],
         evm'[t] = evm[t], UNCHANGED <<refs, fd2hr, fheap, theap, chain>>,
         NEW x \in Handlers, RefsAt(x)
  PROVE  RefsAt(x)'
<1>1. Live(x)' = Live(x)
  <2>1. \A u \in Threads : evm'[u] = evm[u] OBVIOUS
  <2> QED BY <2>1 DEF Live
<1>2. Reg(x)' = Reg(x) BY DEF Reg
<1> QED BY <1>1, <1>2 DEF RefsAt

LEMMA RefsGotFd ==
  ASSUME Types, Types', HeapInv, NEW t \in Threads, NEW fd \in Fds, gotFd(t, fd), NEW x \in Handlers, RefsAt(x)
  PROVE  RefsAt(x)'
<1>0. UNCHANGED <<theap, evm, chain>> /\ fd2hr \in [Fds -> FdHandlers \cup {None}] /\ refs \in [Handlers -> Int]
  BY DEF gotFd, taskVars, Types
<1>1. Cardinality(Entries(fheap, x)) \in Nat /\ Reg(x) \in Nat /\ refs[x] \in Int BY RefsAre
<1>2. PICK h \in FdHandlers \cup {None} : h = fd2hr[fd] BY <1>0
<1>3. CASE h = None
  <2>1. UNCHANGED <<fheap, fd2hr, refs>> BY <1>2, <1>3 DEF gotFd
  <2>2. Reg(x)' = Reg(x) + 0 BY <1>1, <2>1 DEF Reg
  <2>3. Cardinality(Entries(fheap', x)) = Cardinality(Entries(fheap, x)) + 0 /\ refs'[x] = refs[x] + (0 + 0)
    BY <1>1, <2>1
  <2> QED BY <1>0, <2>2, <2>3, RefsFdOnly, 0 \in Int
<1>4. CASE h # None
  <2>0. h \in FdHandlers /\ h \in Handlers /\ FdOf[h] = fd BY <1>2, <1>4 DEF Handlers, HeapInv
  <2>1. PICK special \in BOOLEAN : special <=> h \in Edge \cup OneShot OBVIOUS
  <2>2. /\ IF findex[h] THEN Combine(h, {"READ"}) ELSE Push(h, {"READ"})
        /\ refs' = [refs EXCEPT ![h] = @ + RefsOnEvent(h, special)]
        /\ fd2hr' = IF special THEN fd2hr ELSE [fd2hr EXCEPT ![fd] = None]
    BY <1>2, <1>4, <2>1 DEF gotFd, RefsOnEvent
  <2>3. PICK a, b \in Int : /\ a = (IF x = h /\ ~special THEN -1 ELSE 0)
                            /\ b = (IF x = h /\ ~findex[h] THEN 1 ELSE 0)
    OBVIOUS
  <2>4. Cardinality(Entries(fheap', x)) = Cardinality(Entries(fheap, x)) + b
    <3>1. CASE findex[h]
      <4>1. UNCHANGED fheap BY <2>2, <3>1 DEF Combine
      <4> QED BY <1>1, <2>3, <3>1, <4>1
    <3>2. CASE ~findex[h]
      <4>1. Cardinality(Entries(fheap', x)) = Cardinality(Entries(fheap, x)) + One(x = h)
        BY <2>0, <2>2, <3>2, PushCount
      <4> QED BY <2>3, <3>2, <4>1 DEF One
    <3> QED BY <3>1, <3>2
  <2>5. Reg(x)' = Reg(x) + a
    <3>1. CASE special
      <4>1. Reg(x)' = Reg(x) BY <2>2, <3>1 DEF Reg
      <4> QED BY <1>1, <2>3, <3>1, <4>1
    <3>2. CASE ~special /\ x = h
      <4>1. fd2hr'[FdOf[x]] = None /\ None \notin Handlers BY <1>0, <2>0, <2>2, <3>2, XEventAssumption
      <4>2. Reg(x)' = 0 BY <4>1 DEF Reg
      <4>3. Reg(x) = 1 BY <1>2, <2>0, <3>2 DEF Reg
      <4> QED BY <2>3, <3>2, <4>2, <4>3
    <3>3. CASE ~special /\ x # h
      <4>1. \A y \in FdHandlers : FdOf[y] \in Fds BY XEventAssumption
      <4>2. None \notin Handlers BY XEventAssumption
      <4>3. x \in FdHandlers => (fd2hr'[FdOf[x]] = x <=> fd2hr[FdOf[x]] = x)
        BY <1>0, <1>2, <2>2, <3>3, <4>1, <4>2
      <4>4. Reg(x)' = Reg(x) BY <4>3 DEF Reg
      <4> QED BY <1>1, <2>3, <3>3, <4>4
    <3> QED BY <3>1, <3>2, <3>3
  <2>6. refs'[x] = refs[x] + (a + b)
    <3>1. CASE x = h BY <1>0, <1>1, <2>0, <2>2, <2>3, <3>1 DEF RefsOnEvent
    <3>2. CASE x # h BY <1>0, <1>1, <2>0, <2>2, <2>3, <3>2
    <3> QED BY <3>1, <3>2
  <2> QED BY <1>0, <2>4, <2>5, <2>6, RefsFdOnly
<1> QED BY <1>3, <1>4

\* An entry becomes an EventMan.
LEMMA RefsNext ==
  ASSUME Types, Types', InHand, NEW t \in Threads, nextFd(t) \/ nextTask(t), NEW x \in Handlers, RefsAt(x)
  PROVE  RefsAt(x)'
<1>0. /\ UNCHANGED <<fd2hr, chain, refs>> /\ pc[t] = "next" /\ evm \in [Threads -> EventMans \cup {None}]
      /\ fheap \in Seq(FdHandlers) /\ theap \in Seq(Tasks)
  BY DEF nextFd, nextTask, Types
<1>1. /\ Reg(x) \in Nat /\ Cardinality(Entries(fheap, x)) \in Nat
      /\ Cardinality(Entries(theap, x)) \in Nat /\ Cardinality(Live(x)) \in Nat
      /\ Len(chain[x]) \in Nat /\ refs[x] \in Int
  BY RefsAre
<1>2. ~HasOf(t, x) BY <1>0 DEF InHand, HasOf
<1>3. \A u \in Threads \ {t} : evm'[u] = evm[u] BY Moved DEF work
<1>4. Cardinality(Live(x)') = Cardinality(Live(x)) + One(HasOf(t, x)') - One(HasOf(t, x)) BY <1>3, LiveStep
<1>5. Reg(x)' = Reg(x) + 0 BY <1>0, <1>1 DEF Reg
<1>6. \A e \in EventMans : e # None BY XEventAssumption
<1>7. CASE nextFd(t)
  <2>1. /\ fheap # <<>> /\ fheap' = Tail(fheap) /\ UNCHANGED theap
        /\ evm' = [evm EXCEPT ![t] = [hr |-> Head(fheap), events |-> fget[Head(fheap)]]]
    BY <1>7 DEF nextFd, taskVars
  <2>2. /\ fheap' \in Seq(FdHandlers) /\ OneLess(fheap, 1, fheap') /\ fheap[1] = Head(fheap) /\ Head(fheap) \in FdHandlers
        /\ fget[Head(fheap)] \in SUBSET {"READ", "WRITE"}
    BY <1>0, <2>1, Popped DEF Types
  <2>3. Cardinality(Entries(fheap, x)) = Cardinality(Entries(fheap', x)) + (IF fheap[1] = x THEN 1 ELSE 0)
    BY <1>0, <2>2, RemovedCount
  <2>4. Cardinality(Entries(fheap', x)) \in Nat BY <2>2, EntriesFinite
  <2>5. HasOf(t, x)' <=> Head(fheap) = x
    <3>1. [hr |-> Head(fheap), events |-> fget[Head(fheap)]] # None BY <1>6, <2>2 DEF EventMans, Handlers
    <3>2. evm'[t] = [hr |-> Head(fheap), events |-> fget[Head(fheap)]] BY <1>0, <2>1
    <3> QED BY <3>1, <3>2 DEF HasOf
  <2>6. PICK b \in Int : b = One(Head(fheap) = x) BY DEF One
  <2>7. Cardinality(Entries(fheap', x)) = Cardinality(Entries(fheap, x)) + (0 - b)
    BY <1>1, <2>2, <2>3, <2>4, <2>6 DEF One
  <2>8. Cardinality(Live(x)') = Cardinality(Live(x)) + b BY <1>1, <1>2, <1>4, <2>5, <2>6 DEF One
  <2>9. /\ Cardinality(Entries(theap', x)) = Cardinality(Entries(theap, x)) + 0
        /\ Cardinality(Live(x)') + Len(chain'[x]) = Cardinality(Live(x)) + Len(chain[x]) + b
        /\ refs'[x] = refs[x] + (0 + (0 - b) + 0 + b)
    BY <1>0, <1>1, <2>1, <2>8
  <2> QED BY <1>5, <2>7, <2>9, RefsSum, 0 \in Int, 0 - b \in Int
<1>8. CASE nextTask(t)
  <2>1. /\ theap # <<>> /\ theap' = Tail(theap) /\ UNCHANGED fheap
        /\ evm' = [evm EXCEPT ![t] = [hr |-> Head(theap), events |-> {}]]
    BY <1>8 DEF nextTask
  <2>2. /\ theap' \in Seq(Tasks) /\ OneLess(theap, 1, theap') /\ theap[1] = Head(theap) /\ Head(theap) \in Tasks
    BY <1>0, <2>1, Popped DEF Types
  <2>3. Cardinality(Entries(theap, x)) = Cardinality(Entries(theap', x)) + (IF theap[1] = x THEN 1 ELSE 0)
    BY <1>0, <2>2, RemovedCount
  <2>4. Cardinality(Entries(theap', x)) \in Nat BY <2>2, EntriesFinite
  <2>5. HasOf(t, x)' <=> Head(theap) = x
    <3>1. [hr |-> Head(theap), events |-> {}] # None BY <1>6, <2>2 DEF EventMans, Handlers
    <3>2. evm'[t] = [hr |-> Head(theap), events |-> {}] BY <1>0, <2>1
    <3> QED BY <3>1, <3>2 DEF HasOf
  <2>6. PICK b \in Int : b = One(Head(theap) = x) BY DEF One
  <2>7. Cardinality(Entries(theap', x)) = Cardinality(Entries(theap, x)) + (0 - b)
    BY <1>1, <2>2, <2>3, <2>4, <2>6 DEF One
  <2>8. Cardinality(Live(x)') = Cardinality(Live(x)) + b BY <1>1, <1>2, <1>4, <2>5, <2>6 DEF One
  <2>9. /\ Cardinality(Entries(fheap', x)) = Cardinality(Entries(fheap, x)) + 0
        /\ Cardinality(Live(x)') + Len(chain'[x]) = Cardinality(Live(x)) + Len(chain[x]) + b
        /\ refs'[x] = refs[x] + (0 + 0 + (0 - b) + b)
    BY <1>0, <1>1, <2>1, <2>8
  <2> QED BY <1>5, <2>7, <2>9, RefsSum, 0 \in Int, 0 - b \in Int
<1> QED BY <1>7, <1>8

\* An EventMan is linked, unlinked, destroyed.
LEMMA RefsRun ==
  ASSUME Types, Types', InHand, Linked, NEW t \in Threads, can_run(t) \/ destroy(t), NEW x \in Handlers, RefsAt(x)
  PROVE  RefsAt(x)'
<1>0. /\ UNCHANGED <<fd2hr, fheap, theap>> /\ evm \in [Threads -> EventMans \cup {None}]
      /\ chain \in [Handlers -> Seq(EventMans)] /\ refs \in [Handlers -> Int]
  BY DEF can_run, destroy, fdVars, taskVars, Types
<1>1. /\ Reg(x) \in Nat /\ Cardinality(Entries(fheap, x)) \in Nat
      /\ Cardinality(Entries(theap, x)) \in Nat /\ Cardinality(Live(x)) \in Nat
      /\ Len(chain[x]) \in Nat /\ refs[x] \in Int
  BY RefsAre
<1>2. PICK h \in Handlers : h = evm[t].hr /\ evm[t] # None /\ evm[t] \in EventMans
  BY HandType DEF can_run, destroy
<1>3. \A u \in Threads \ {t} : evm'[u] = evm[u] BY Moved DEF work
<1>4. Cardinality(Live(x)') = Cardinality(Live(x)) + One(HasOf(t, x)') - One(HasOf(t, x)) BY <1>3, LiveStep
<1>5. HasOf(t, x) <=> x = h BY <1>2 DEF HasOf
<1>6. Reg(x)' = Reg(x) + 0 BY <1>0, <1>1 DEF Reg
<1>7. Cardinality(Entries(fheap', x)) = Cardinality(Entries(fheap, x)) + 0 /\ Cardinality(Entries(theap', x)) = Cardinality(Entries(theap, x)) + 0
  BY <1>0, <1>1
<1>8. ASSUME NEW d \in Int, Cardinality(Live(x)') + Len(chain'[x]) = Cardinality(Live(x)) + Len(chain[x]) + d,
             refs'[x] = refs[x] + d
      PROVE  RefsAt(x)'
  <2>1. refs'[x] = refs[x] + (0 + 0 + 0 + d) BY <1>8
  <2> QED BY <1>6, <1>7, <1>8, <2>1, RefsSum, 0 \in Int
<1>9. CASE can_run(t) /\ MustQueue(h)
  <2>1. /\ chain' = [chain EXCEPT ![h] = Append(@, evm[t])] /\ evm' = [evm EXCEPT ![t] = None] /\ UNCHANGED refs
    BY <1>2, <1>9 DEF can_run
  <2>2. ~HasOf(t, x)' BY <1>0, <2>1 DEF HasOf
  <2>3. Len(chain'[x]) = Len(chain[x]) + One(x = h)
    <3>1. CASE x = h
      <4>1. chain'[x] = Append(chain[x], evm[t]) /\ chain[x] \in Seq(EventMans) BY <1>0, <2>1, <3>1
      <4> QED BY <1>2, <3>1, <4>1 DEF One
    <3>2. CASE x # h
      <4>1. chain'[x] = chain[x] BY <1>0, <2>1, <3>2
      <4> QED BY <1>1, <3>2, <4>1 DEF One
    <3> QED BY <3>1, <3>2
  <2>4. /\ Cardinality(Live(x)') + Len(chain'[x]) = Cardinality(Live(x)) + Len(chain[x]) + 0
        /\ refs'[x] = refs[x] + 0
    <3>1. PICK n \in Int : n = One(x = h) BY DEF One
    <3>2. Cardinality(Live(x)') = Cardinality(Live(x)) - n BY <1>1, <1>4, <1>5, <2>2, <3>1 DEF One
    <3>3. Len(chain'[x]) = Len(chain[x]) + n BY <2>3, <3>1
    <3> QED BY <1>1, <2>1, <3>2, <3>3
  <2> QED BY <1>8, <2>4, 0 \in Int
<1>10. CASE can_run(t) /\ ~MustQueue(h)
  <2>1. UNCHANGED <<chain, evm, refs>> BY <1>2, <1>10 DEF can_run
  <2> QED BY <1>0, <2>1, RefsSame
<1>11. CASE destroy(t)
  <2>1. /\ evm' = [evm EXCEPT ![t] = IF chain[h] # <<>> THEN Head(chain[h]) ELSE None]
        /\ chain' = [chain EXCEPT ![h] = IF chain[h] # <<>> THEN Tail(@) ELSE @]
        /\ refs' = [refs EXCEPT ![h] = @ - 1]
    BY <1>2, <1>11 DEF destroy
  <2>2. PICK d \in Int : d = (IF x = h THEN -1 ELSE 0) OBVIOUS
  <2>3. refs'[x] = refs[x] + d BY <1>0, <1>1, <2>1, <2>2
  <2>4. CASE chain[h] = <<>>
    <3>1. ~HasOf(t, x)' BY <1>0, <2>1, <2>4 DEF HasOf
    <3>2. chain'[x] = chain[x] BY <1>0, <2>1, <2>4
    <3>3. Cardinality(Live(x)') + Len(chain'[x]) = Cardinality(Live(x)) + Len(chain[x]) + d
      BY <1>1, <1>4, <1>5, <2>2, <3>1, <3>2 DEF One
    <3> QED BY <1>8, <2>3, <3>3
  <2>5. CASE chain[h] # <<>>
    <3>1. Head(chain[h]) \in EventMans /\ Head(chain[h]).hr = h
      <4>1. chain[h] \in Seq(EventMans) BY <1>0
      <4>2. Head(chain[h]) = chain[h][1] /\ 1 \in DOMAIN chain[h] /\ chain[h][1] \in EventMans BY <2>5, <4>1
      <4> QED BY <4>2 DEF Linked
    <3>2. HasOf(t, x)' <=> x = h
      <4>1. evm'[t] = Head(chain[h]) BY <1>0, <2>1, <2>5
      <4>2. Head(chain[h]) # None BY <3>1, XEventAssumption
      <4> QED BY <3>1, <4>1, <4>2 DEF HasOf
    <3>3. Len(chain'[x]) = Len(chain[x]) + d
      <4>1. CASE x = h
        <5>1. chain'[x] = Tail(chain[x]) /\ chain[x] \in Seq(EventMans) /\ chain[x] # <<>> BY <1>0, <2>1, <2>5, <4>1
        <5> QED BY <2>2, <4>1, <5>1
      <4>2. CASE x # h
        <5>1. chain'[x] = chain[x] BY <1>0, <2>1, <4>2
        <5> QED BY <1>1, <2>2, <4>2, <5>1
      <4> QED BY <4>1, <4>2
    <3>4. Cardinality(Live(x)') + Len(chain'[x]) = Cardinality(Live(x)) + Len(chain[x]) + d
      <4>1. Cardinality(Live(x)') = Cardinality(Live(x)) BY <1>1, <1>4, <1>5, <3>2 DEF One
      <4> QED BY <1>1, <3>3, <4>1
    <3> QED BY <1>8, <2>3, <3>4
  <2> QED BY <2>4, <2>5
<1> QED BY <1>9, <1>10, <1>11

\* clear_handlers().
LEMMA RefsEnd ==
  ASSUME Types, Types', InHand, NEW t \in Threads, workEnd(t), NEW x \in Handlers, RefsAt(x)
  PROVE  RefsAt(x)'
<1>0. UNCHANGED <<evm, chain>> BY DEF workEnd
<1>1. CASE numThread # 1
  <2>1. UNCHANGED <<refs, fd2hr, fheap, theap>> BY <1>1 DEF workEnd
  <2> QED BY <1>0, <2>1, RefsSame
<1>2. CASE numThread = 1
  <2>1. /\ fheap' = <<>> /\ theap' = <<>> /\ fd2hr' = [fd \in Fds |-> None]
        /\ refs' = [h \in Handlers |-> refs[h] - ((IF h \in FdHandlers /\ fd2hr[FdOf[h]] = h THEN 1 ELSE 0)
                 + Cardinality(Entries(fheap, h)) + Cardinality(Entries(theap, h)))]
    BY <1>2 DEF workEnd
  <2>2. Cardinality(Entries(fheap', x)) = 0 /\ Cardinality(Entries(theap', x)) = 0
    <3>1. Entries(<<>>, x) = {} BY DEF Entries
    <3> QED BY <2>1, <3>1, FS_EmptySet
  <2>3. Reg(x)' = 0
    <3>1. x \in FdHandlers => FdOf[x] \in Fds BY XEventAssumption
    <3>2. x # None BY XEventAssumption
    <3> QED BY <2>1, <3>1, <3>2 DEF Reg
  <2>4. refs'[x] = refs[x] - (Reg(x) + Cardinality(Entries(fheap, x)) + Cardinality(Entries(theap, x)))
    <3>1. Reg(x) = (IF x \in FdHandlers /\ fd2hr[FdOf[x]] = x THEN 1 ELSE 0) BY DEF Reg
    <3> QED BY <2>1, <3>1
  <2>5. Live(x)' = Live(x) /\ chain' = chain BY <1>0 DEF Live
  <2>6. /\ Reg(x) \in Nat /\ Cardinality(Entries(fheap, x)) \in Nat
        /\ Cardinality(Entries(theap, x)) \in Nat /\ Cardinality(Live(x)) \in Nat
        /\ Len(chain[x]) \in Nat /\ refs[x] \in Int
    BY RefsAre
  <2>7. refs'[x] = Cardinality(Live(x)) + Len(chain[x]) BY <2>4, <2>6 DEF RefsAt
  <2>8. refs'[x] = 0 + 0 + 0 + Cardinality(Live(x)) + Len(chain[x]) BY <2>6, <2>7
  <2> QED BY <2>2, <2>3, <2>5, <2>8 DEF RefsAt
<1> QED BY <1>1, <1>2

LEMMA RefsStep ==
  ASSUME Types, Types', InHand, Linked, HeapInv, Ordered(theap, msec), RefsMatch, [Next]_vars
  PROVE  RefsMatch'
<1>0. \A x \in Handlers : RefsAt(x) BY RefsAre
<1> SUFFICES ASSUME NEW x \in Handlers PROVE RefsAt(x)'
  <2>1. \A h \in Handlers : RefsAt(h)' OBVIOUS
  <2>2. ASSUME NEW h \in Handlers
        PROVE  RefsAt(h)' => 
               refs'[h] = (IF h \in FdHandlers THEN IF fd2hr'[FdOf[h]] = h THEN 1 ELSE 0 ELSE 0)
                       + Cardinality(Entries(fheap', h)) + Cardinality(Entries(theap', h)) + Under(h)'
    <3>1. Reg(h)' = IF h \in FdHandlers THEN IF fd2hr'[FdOf[h]] = h THEN 1 ELSE 0 ELSE 0 BY DEF Reg
    <3>2. Under(h)' = Cardinality(Live(h)') + Len(chain'[h]) BY DEF Under
    <3>3. Reg(h)' \in Nat BY DEF Reg
    <3>4. Cardinality(Entries(fheap', h)) \in Nat /\ Cardinality(Entries(theap', h)) \in Nat
      <4>1. fheap' \in Seq(FdHandlers) /\ theap' \in Seq(Tasks) BY DEF Types
      <4> QED BY <4>1, EntriesFinite
    <3>5. Cardinality(Live(h)') \in Nat
      <4>1. IsFiniteSet(Live(h)') BY XEventAssumption, FS_Subset DEF Live
      <4> QED BY <4>1, FS_CardinalityType
    <3>6. Len(chain'[h]) \in Nat
      <4>1. chain'[h] \in Seq(EventMans) BY DEF Types
      <4> QED BY <4>1
    <3>7. \A a, b, c, d, e \in Nat : a + b + c + d + e = a + b + c + (d + e) OBVIOUS
    <3> QED BY <3>1, <3>2, <3>3, <3>4, <3>5, <3>6, <3>7 DEF RefsAt
  <2> QED BY <2>1, <2>2 DEF RefsMatch
<1>1. CASE UNCHANGED vars BY <1>0, <1>1 DEF vars, fdVars, runVars, taskVars, RefsAt, Reg, Live
<1>2. CASE Outside
  <2>1. UNCHANGED <<refs, fdVars, taskVars, evm, chain>>
    BY <1>2 DEF Outside, start, startThread, cancel, waitForCancel, WriteInterrupt, tick, idleElapse, runVars
  <2> QED BY <1>0, <2>1 DEF fdVars, taskVars, RefsAt, Reg, Live
<1>3. ASSUME NEW h \in FdHandlers, FdCall(h) PROVE RefsAt(x)' BY <1>0, <1>3, RefsFd
<1>4. ASSUME NEW k \in Tasks, TaskCall(k) PROVE RefsAt(x)' BY <1>0, <1>4, RefsTask
<1>5. ASSUME NEW fd \in Fds, arrive(fd) PROVE RefsAt(x)'
  <2>1. UNCHANGED <<refs, fdVars, taskVars, evm, chain>> BY <1>5 DEF arrive, runVars
  <2> QED BY <1>0, <2>1 DEF fdVars, taskVars, RefsAt, Reg, Live
<1>6. ASSUME NEW t \in Threads, work(t) \/ epollError(t) PROVE RefsAt(x)'
  <2> USE DEF fdVars, taskVars
  <2>1. \A u \in Threads \ {t} : evm'[u] = evm[u] BY <1>6, Moved
  <2>2. ASSUME evm'[t] = evm[t], UNCHANGED <<refs, fd2hr, fheap, theap, chain>> PROVE RefsAt(x)'
    BY <1>0, <2>1, <2>2, RefsSame
  <2>3. evm \in [Threads -> EventMans \cup {None}] BY DEF Types
  <2>4. CASE workStart(t) \/ lead(t) \/ nextSleep(t) BY <2>2, <2>4 DEF workStart, lead, nextSleep
  <2>5. CASE nextNull(t)
    <3>1. evm[t] = None /\ evm' = [evm EXCEPT ![t] = None] BY <2>5 DEF nextNull, InHand
    <3> QED BY <2>2, <2>3, <2>5, <3>1 DEF nextNull
  <2>6. CASE nextFd(t) \/ nextTask(t) BY <1>0, <2>6, RefsNext
  <2>7. CASE epoll(t) BY <2>2, <2>7 DEF epoll, epollReady, epollTimeout
  <2>8. CASE epollError(t)
    <3>1. evm[t] = None /\ (UNCHANGED evm \/ evm' = [evm EXCEPT ![t] = None]) BY <2>8 DEF epollError, InHand
    <3>2. evm'[t] = evm[t] BY <2>3, <3>1
    <3> QED BY <2>2, <2>8, <3>2 DEF epollError
  <2>9. CASE gotPipe(t) BY <2>2, <2>9 DEF gotPipe
  <2>10. CASE \E fd \in Fds : gotFd(t, fd) BY <1>0, <2>10, RefsGotFd
  <2>11. CASE can_run(t) \/ destroy(t) BY <1>0, <2>11, RefsRun
  <2>12. CASE giveUp(t) \/ new_thread(t) BY <2>2, <2>12 DEF giveUp, new_thread
  <2>13. CASE doit(t) BY <2>2, <2>13 DEF doit
  <2>14. CASE workEnd(t) BY <1>0, <2>14, RefsEnd
  <2> QED BY <1>6, <2>4, <2>5, <2>6, <2>7, <2>8, <2>9, <2>10, <2>11, <2>12, <2>13, <2>14 DEF work
<1> QED BY <1>1, <1>2, <1>3, <1>4, <1>5, <1>6, Steps

-----------------------------------------------------------------------------
(* No event is lost. *)

\* An EventMan of h that has not been run carries e.
Carries(h, e) ==
  \/ \E t \in Threads : HasOf(t, h) /\ pc[t] # "ran" /\ e \in evm[t].events
  \/ \E i \in DOMAIN chain[h] : e \in chain[h][i].events

LEMMA CarriedIs == \A h, e : (e \in Carried(h) <=> Carries(h, e)) /\ (e \in Carried(h)' <=> Carries(h, e)')
<1>1. \A h, e : e \in Carried(h) <=> Carries(h, e) BY DEF Carried, Carries, Live, HasOf
<1>2. \A h, e : e \in Carried(h)' <=> Carries(h, e)' BY DEF Carried, Carries, Live, HasOf
<1> QED BY <1>1, <1>2

LostAt(h) == h \in evicted \/ \A e \in owed[h] : (InFheap(h) /\ e \in fget[h]) \/ Carries(h, e)

LEMMA LostIs == (NoEventLost <=> \A h \in FdHandlers : LostAt(h)) /\ (NoEventLost' <=> \A h \in FdHandlers : LostAt(h)')
<1>1. NoEventLost <=> \A h \in FdHandlers : LostAt(h) BY CarriedIs DEF NoEventLost, LostAt
<1>2. NoEventLost' <=> \A h \in FdHandlers : LostAt(h)'
  <2>1. \A h, e : e \in Carried(h)' <=> Carries(h, e)' BY CarriedIs
  <2> HIDE DEF Carried, Carries
  <2> QED BY <2>1 DEF NoEventLost, LostAt
<1> QED BY <1>1, <1>2

\* Nothing is dropped but by doit().
LEMMA CarriesCalled ==
  ASSUME Types, Called, NEW h, NEW e, Carries(h, e)
  PROVE  Carries(h, e)'
<1>1. /\ UNCHANGED <<leader, evm, got, busy, chain>>
      /\ \A u \in Threads : pc'[u] = pc[u] \/ (pc[u] = "off" /\ pc'[u] = "new")
  BY CalledMoves
<1> QED BY <1>1 DEF Carries, HasOf

LEMMA CarriesWork ==
  ASSUME Types, InHand, Linked, NEW t \in Threads, work(t) \/ epollError(t), NEW h \in Handlers, NEW e, Carries(h, e)
  PROVE  Carries(h, e)' \/ (doit(t) /\ h = evm[t].hr /\ e \in evm[t].events)
<1>0. /\ \A u \in Threads \ {t} : \/ pc'[u] = pc[u] \/ (pc[u] = "wait" /\ pc'[u] = "loop")
                                  \/ (pc[u] = "off" /\ pc'[u] = "new")
      /\ \A u \in Threads \ {t} : evm'[u] = evm[u]
      /\ evm \in [Threads -> EventMans \cup {None}] /\ chain \in [Handlers -> Seq(EventMans)]
  BY Moved DEF Types
<1>a. ASSUME NEW x \in Places, Goto(t, x) PROVE pc'[t] = x BY <1>a, GotoIs
<1>1. ASSUME NEW u \in Threads \ {t}, HasOf(u, h), pc[u] # "ran", e \in evm[u].events
      PROVE  Carries(h, e)'
  BY <1>0, <1>1 DEF Carries, HasOf
<1>2. CASE UNCHANGED chain /\ (evm[t] = None \/ (evm'[t] = evm[t] /\ pc'[t] # "ran"))
  BY <1>1, <1>2 DEF Carries, HasOf
<1>3. CASE can_run(t)
  <2>1. PICK g \in Handlers : g = evm[t].hr /\ evm[t] # None /\ evm[t] \in EventMans BY <1>3, HandType DEF can_run
  <2>2. CASE ~MustQueue(g)
    <3>1. UNCHANGED <<chain, evm>> /\ Goto(t, "give") BY <1>3, <2>1, <2>2 DEF can_run
    <3> QED BY <1>2, <1>a, <3>1 DEF Places
  <2>3. CASE MustQueue(g)
    <3>1. chain' = [chain EXCEPT ![g] = Append(@, evm[t])] BY <1>3, <2>1, <2>3 DEF can_run
    <3>2. CASE HasOf(t, h) /\ e \in evm[t].events
      <4>1. h = g BY <2>1, <3>2 DEF HasOf
      <4>2. chain[h] \in Seq(EventMans) /\ chain'[h] = Append(chain[h], evm[t]) BY <1>0, <3>1, <4>1
      <4>3. Len(chain[h]) + 1 \in DOMAIN chain'[h] /\ chain'[h][Len(chain[h]) + 1] = evm[t] BY <2>1, <4>2
      <4> QED BY <3>2, <4>3 DEF Carries
    <3>3. CASE \E i \in DOMAIN chain[h] : e \in chain[h][i].events
      <4>1. PICK i \in DOMAIN chain[h] : e \in chain[h][i].events BY <3>3
      <4>2. CASE h = g
        <5>1. chain[h] \in Seq(EventMans) /\ chain'[h] = Append(chain[h], evm[t]) BY <1>0, <3>1, <4>2
        <5>2. i \in DOMAIN chain'[h] /\ chain'[h][i] = chain[h][i] BY <2>1, <5>1
        <5> QED BY <4>1, <5>2 DEF Carries
      <4>3. CASE h # g
        <5>1. chain'[h] = chain[h] BY <1>0, <3>1, <4>3
        <5> QED BY <4>1, <5>1 DEF Carries
      <4> QED BY <4>2, <4>3
    <3> QED BY <1>1, <3>2, <3>3 DEF Carries
  <2> QED BY <2>2, <2>3
<1>4. CASE destroy(t)
  <2>1. PICK g \in Handlers : g = evm[t].hr /\ evm[t] # None BY <1>4, HandType DEF destroy
  <2>2. /\ pc[t] = "ran"
        /\ evm' = [evm EXCEPT ![t] = IF chain[g] # <<>> THEN Head(chain[g]) ELSE None]
        /\ chain' = [chain EXCEPT ![g] = IF chain[g] # <<>> THEN Tail(@) ELSE @]
        /\ Goto(t, IF chain[g] # <<>> THEN "run" ELSE "loop")
    BY <1>4, <2>1 DEF destroy
  <2>3. ASSUME NEW i \in DOMAIN chain[h], e \in chain[h][i].events PROVE Carries(h, e)'
    <3>0. chain[h] \in Seq(EventMans) BY <1>0
    <3>1. CASE h # g
      <4>1. chain'[h] = chain[h] BY <1>0, <2>2, <3>1
      <4> QED BY <2>3, <4>1 DEF Carries
    <3>2. CASE h = g
      <4>0. chain[h] # <<>> /\ i \in 1..Len(chain[h]) BY <3>0
      <4>1. chain'[h] = Tail(chain[h]) /\ evm'[t] = Head(chain[h]) /\ Goto(t, "run") BY <1>0, <2>2, <3>2, <4>0
      <4>2. CASE i = 1
        <5>1. evm'[t] = chain[h][1] /\ pc'[t] = "run" BY <1>a, <3>0, <4>0, <4>1 DEF Places
        <5>2. chain[h][1] \in EventMans /\ chain[h][1].hr = h BY <3>0, <4>0, <4>2 DEF Linked
        <5>3. chain[h][1] # None BY <5>2, XEventAssumption
        <5> QED BY <2>3, <4>2, <5>1, <5>2, <5>3 DEF Carries, HasOf
      <4>3. CASE i # 1
        <5>1. i - 1 \in 1..(Len(chain[h]) - 1) /\ (i - 1) + 1 = i BY <3>0, <4>0, <4>3
        <5>2. i - 1 \in DOMAIN chain'[h] /\ chain'[h][i - 1] = chain[h][(i - 1) + 1] BY <3>0, <4>0, <4>1, <5>1
        <5>3. e \in chain'[h][i - 1].events BY <2>3, <5>1, <5>2
        <5> QED BY <5>2, <5>3 DEF Carries
      <4> QED BY <4>2, <4>3
    <3> QED BY <3>1, <3>2
  <2> QED BY <1>1, <2>2, <2>3 DEF Carries
<1>5. CASE doit(t)
  <2>1. UNCHANGED <<chain, evm>> BY <1>5 DEF doit
  <2> QED BY <1>1, <1>5, <2>1 DEF Carries, HasOf
<1>6. CASE workStart(t) \/ lead(t) \/ nextNull(t) \/ nextFd(t) \/ nextTask(t) \/ nextSleep(t)
  <2>1. UNCHANGED chain /\ pc[t] \in {"new", "loop", "next"}
    BY <1>6 DEF workStart, lead, nextNull, nextFd, nextTask, nextSleep
  <2> QED BY <1>2, <2>1 DEF InHand
<1>7. CASE epoll(t) \/ epollError(t)
  <2>1. UNCHANGED chain /\ pc[t] = "epoll" BY <1>7 DEF epoll, epollReady, epollTimeout, epollError
  <2> QED BY <1>2, <2>1 DEF InHand
<1>8. CASE gotPipe(t) \/ \E fd \in Fds : gotFd(t, fd)
  <2>1. UNCHANGED chain /\ pc[t] = "got" BY <1>8 DEF gotPipe, gotFd, Handled
  <2> QED BY <1>2, <2>1 DEF InHand
<1>9. CASE giveUp(t)
  <2>1. PICK x \in {"exit", "spawn", "run"} : Signal(t, x) BY <1>9 DEF giveUp
  <2>2. pc'[t] = x BY <1>9, <2>1, SignalIs DEF giveUp, Places
  <2>3. UNCHANGED <<evm, chain>> BY <1>9 DEF giveUp
  <2> QED BY <1>2, <2>2, <2>3
<1>10. CASE new_thread(t)
  <2>1. UNCHANGED <<evm, chain>> BY <1>10 DEF new_thread
  <2> QED BY <1>2, <1>10, <2>1, NewThreadIs
<1>11. CASE workEnd(t)
  <2>1. UNCHANGED chain /\ pc[t] = "exit" BY <1>11 DEF workEnd
  <2> QED BY <1>2, <2>1 DEF InHand
<1> QED BY <1>3, <1>4, <1>5, <1>6, <1>7, <1>8, <1>9, <1>10, <1>11 DEF work

\* Nothing of h goes away.
LEMMA LostKept ==
  ASSUME NEW x \in FdHandlers, LostAt(x), evicted \subseteq evicted', InFheap(x) => InFheap(x)',
         fget[x] \subseteq fget'[x], \A e \in owed'[x] : e \in owed[x] /\ (Carries(x, e) => Carries(x, e)')
  PROVE  LostAt(x)'
<1> HIDE DEF InFheap, Carries
<1> QED BY DEF LostAt

\* What readyFd() and gotFd() put where.
LEMMA PushedIs ==
  ASSUME Types, HeapInv, ~cleared, NEW h \in FdHandlers, NEW d \in SUBSET {"READ", "WRITE"},
         IF findex[h] THEN Combine(h, d) ELSE Push(h, d)
  PROVE  /\ h \notin evicted => InFheap(h)' /\ d \subseteq fget'[h] /\ (InFheap(h) => fget[h] \subseteq fget'[h])
         /\ \A x \in FdHandlers \ {h} : (InFheap(x) => InFheap(x)') /\ fget'[x] = fget[x]
<1>0. /\ fheap \in Seq(FdHandlers) /\ fget \in [FdHandlers -> SUBSET {"READ", "WRITE"}]
      /\ findex \in [FdHandlers -> BOOLEAN]
  BY DEF Types
<1>1. CASE findex[h]
  <2>1. fget' = [fget EXCEPT ![h] = @ \cup d] /\ UNCHANGED <<findex, fheap>> BY <1>1 DEF Combine
  <2>2. fget'[h] = fget[h] \cup d /\ \A x \in FdHandlers \ {h} : fget'[x] = fget[x] BY <1>0, <2>1
  <2>3. h \notin evicted => InFheap(h) BY <1>1 DEF HeapInv
  <2>4. \A x : InFheap(x) <=> InFheap(x)' BY <2>1 DEF InFheap
  <2> QED BY <2>2, <2>3, <2>4
<1>2. CASE ~findex[h]
  <2>1. fget' = [fget EXCEPT ![h] = d] /\ fheap' = Append(fheap, h) BY <1>2 DEF Push
  <2>2. fget'[h] = d /\ \A x \in FdHandlers \ {h} : fget'[x] = fget[x] BY <1>0, <2>1
  <2>3. h \notin evicted => ~InFheap(h) BY <1>2 DEF HeapInv
  <2>4. /\ fheap' \in Seq(FdHandlers) /\ OneLess(fheap', Len(fheap) + 1, fheap)
        /\ fheap'[Len(fheap) + 1] = h
    BY <1>0, <2>1, Appended
  <2>5. /\ \A g : g \in Range(fheap) => g \in Range(fheap')
        /\ h \in Range(fheap')
    BY <1>0, <2>4, OneLessRange
  <2> QED BY <2>2, <2>3, <2>5 DEF InFheap
<1> QED BY <1>1, <1>2

\* A handler that is not the one taken out of the heap stays.
LEMMA OthersStay ==
  ASSUME Types, NEW g, g \in Range(fheap), fheap' = Without(fheap, g), NEW x, x # g, InFheap(x)
  PROVE  InFheap(x)'
<1>0. fheap \in Seq(FdHandlers) BY DEF Types
<1>1. /\ Without(fheap, g) \in Seq(FdHandlers)
      /\ EntryOf(fheap, g) \in 1..Len(fheap) /\ fheap[EntryOf(fheap, g)] = g
      /\ OneLess(fheap, EntryOf(fheap, g), Without(fheap, g))
  BY <1>0, Erased
<1>2. \A y : y # g /\ y \in Range(fheap) => y \in Range(Without(fheap, g)) BY <1>0, <1>1, OneLessRange
<1> QED BY <1>2 DEF InFheap

LEMMA LostAddFd ==
  ASSUME Types, Called, \A x \in FdHandlers : LostAt(x), NEW h \in FdHandlers, NEW ok \in BOOLEAN, _do_add_fd(h, ok)
  PROVE  \A x \in FdHandlers : LostAt(x)'
<1>0. PICK old : old = fd2hr[FdOf[h]] OBVIOUS
<1>1. PICK erase \in BOOLEAN : erase <=> old # None /\ findex[old] /\ InFheap(old) OBVIOUS
<1>2. /\ fheap' = (IF erase THEN Without(fheap, old) ELSE fheap)
      /\ evicted' = evicted \cup (IF erase THEN {old} \cup {x \in {h} : findex[x]} ELSE {})
      /\ owed' = [x \in FdHandlers |-> IF x = old THEN Carried(old) ELSE owed[x]]
      /\ UNCHANGED fget
  BY <1>0, <1>1 DEF _do_add_fd
<1>3. ASSUME NEW x \in FdHandlers PROVE LostAt(x)'
  <2>1. \A e : Carries(x, e) => Carries(x, e)' BY CarriesCalled
  <2>2. CASE x = old
    <3>1. \A e \in owed'[x] : Carries(x, e) BY <1>2, <2>2, CarriedIs
    <3> HIDE DEF Carries
    <3> QED BY <2>1, <3>1 DEF LostAt
  <2>3. CASE x # old
    <3>1. owed'[x] = owed[x] BY <1>2, <2>3
    <3>2. InFheap(x) => InFheap(x)'
      <4>1. CASE erase BY <1>1, <1>2, <2>3, <4>1, OthersStay DEF InFheap
      <4>2. CASE ~erase BY <1>2, <4>2 DEF InFheap
      <4> QED BY <4>1, <4>2
    <3>3. evicted \subseteq evicted' BY <1>2
    <3> HIDE DEF InFheap, Carries, LostAt
    <3> QED BY <1>2, <2>1, <3>1, <3>2, <3>3, LostKept
  <2> QED BY <2>2, <2>3
<1> QED BY <1>3

LEMMA LostFd ==
  ASSUME Types, HeapInv, PoolInv, \A x \in FdHandlers : LostAt(x), NEW h \in FdHandlers, FdCall(h)
  PROVE  \A x \in FdHandlers : LostAt(x)'
<1>a. Called BY DEF Called
<1>b. \A x, e : Carries(x, e) => Carries(x, e)' BY <1>a, CarriesCalled
<1>c. owed \in [FdHandlers -> SUBSET {"READ", "WRITE"}] BY DEF Types
<1>1. CASE addFd(h) \/ replaceFdAdd(h) BY <1>1, <1>a, LostAddFd DEF addFd, replaceFdAdd
<1>2. CASE replaceFdModify(h)
  <2>1. UNCHANGED <<fheap, fget, owed, evicted>> BY <1>2 DEF replaceFdModify, fdVars, history
  <2>2. \A x : InFheap(x) => InFheap(x)' BY <2>1 DEF InFheap
  <2> HIDE DEF InFheap, Carries, LostAt
  <2> QED BY <1>b, <2>1, <2>2, LostKept
<1>3. CASE removeFd(h)
  <2>1. PICK erase \in BOOLEAN : erase <=> findex[h] /\ InFheap(h) OBVIOUS
  <2>2. /\ fheap' = (IF erase THEN Without(fheap, h) ELSE fheap)
        /\ owed' = [owed EXCEPT ![h] = Carried(h)]
        /\ UNCHANGED <<fget, evicted>>
    BY <1>3, <2>1 DEF removeFd
  <2>3. ASSUME NEW x \in FdHandlers PROVE LostAt(x)'
    <3>1. CASE x = h
      <4>1. \A e \in owed'[x] : Carries(x, e) BY <1>c, <2>2, <3>1, CarriedIs
      <4> HIDE DEF Carries
      <4> QED BY <1>b, <4>1 DEF LostAt
    <3>2. CASE x # h
      <4>1. owed'[x] = owed[x] BY <1>c, <2>2, <3>2
      <4>2. InFheap(x) => InFheap(x)'
        <5>1. CASE erase BY <2>1, <2>2, <3>2, <5>1, OthersStay DEF InFheap
        <5>2. CASE ~erase BY <2>2, <5>2 DEF InFheap
        <5> QED BY <5>1, <5>2
      <4> HIDE DEF InFheap, Carries, LostAt
      <4> QED BY <1>b, <2>2, <4>1, <4>2, LostKept
    <3> QED BY <3>1, <3>2
  <2> QED BY <2>3
<1>4. CASE readyFd(h)
  <2>1. /\ owed' = [owed EXCEPT ![h] = @ \cup {"WRITE"}] /\ UNCHANGED evicted /\ ~cleared
        /\ IF findex[h] THEN Combine(h, {"WRITE"}) ELSE Push(h, {"WRITE"})
    BY <1>4 DEF readyFd, PoolInv, Manned
  <2>2. /\ h \notin evicted => InFheap(h)' /\ {"WRITE"} \subseteq fget'[h] /\ (InFheap(h) => fget[h] \subseteq fget'[h])
        /\ \A x \in FdHandlers \ {h} : (InFheap(x) => InFheap(x)') /\ fget'[x] = fget[x]
    BY <2>1, PushedIs
  <2>3. owed'[h] = owed[h] \cup {"WRITE"} /\ \A x \in FdHandlers \ {h} : owed'[x] = owed[x] BY <1>c, <2>1
  <2> HIDE DEF InFheap, Carries
  <2>4. LostAt(h)' BY <1>b, <2>1, <2>2, <2>3 DEF LostAt
  <2>5. \A x \in FdHandlers \ {h} : LostAt(x)' BY <1>b, <2>1, <2>2, <2>3 DEF LostAt
  <2> QED BY <2>4, <2>5
<1> QED BY <1>1, <1>2, <1>3, <1>4 DEF FdCall

LEMMA LostWork ==
  ASSUME Types, InHand, Linked, HeapInv, PoolInv, \A x \in FdHandlers : LostAt(x),
         NEW t \in Threads, work(t) \/ epollError(t)
  PROVE  \A x \in FdHandlers : LostAt(x)'
<1>a. pc[t] # "off" => ~cleared BY DEF PoolInv, Manned, Alive
<1>b. \A x \in FdHandlers : \A e : Carries(x, e) => Carries(x, e)' \/ (doit(t) /\ x = evm[t].hr /\ e \in evm[t].events)
  BY CarriesWork DEF Handlers
<1>c. /\ owed \in [FdHandlers -> SUBSET {"READ", "WRITE"}] /\ fheap \in Seq(FdHandlers)
      /\ fget \in [FdHandlers -> SUBSET {"READ", "WRITE"}] /\ evm \in [Threads -> EventMans \cup {None}]
  BY DEF Types
<1>0. CASE UNCHANGED <<fheap, fget, evicted, owed>> /\ ~doit(t)
  <2>2. \A x : InFheap(x) => InFheap(x)' BY <1>0 DEF InFheap
  <2> HIDE DEF InFheap, Carries, LostAt
  <2> QED BY <1>0, <1>b, <2>2, LostKept
<1>1. CASE nextFd(t)
  <2>0. pc[t] = "next" /\ ~doit(t) BY <1>1 DEF nextFd, doit
  <2>1. /\ fheap # <<>> /\ fheap' = Tail(fheap) /\ fget' = [fget EXCEPT ![Head(fheap)] = {}]
        /\ evm' = [evm EXCEPT ![t] = [hr |-> Head(fheap), events |-> fget[Head(fheap)]]]
        /\ UNCHANGED <<owed, evicted>> /\ Goto(t, "evm")
    BY <1>1 DEF nextFd, history
  <2>2. PICK h : h = Head(fheap) OBVIOUS
  <2>3. fheap' \in Seq(FdHandlers) /\ OneLess(fheap, 1, fheap') /\ fheap[1] = h /\ h \in FdHandlers
    BY <1>c, <2>1, <2>2, Popped
  <2>4. \A y : y # h /\ y \in Range(fheap) => y \in Range(fheap') BY <1>c, <2>3, OneLessRange
  <2>5. pc'[t] = "evm" BY <2>1, GotoIs DEF Places
  <2>6. evm'[t] = [hr |-> h, events |-> fget[h]] BY <1>c, <2>1, <2>2
  <2>7. evm'[t] \in EventMans BY <1>c, <2>3, <2>6 DEF EventMans, Handlers
  <2>8. HasOf(t, h)' /\ evm'[t].events = fget[h] BY <2>6, <2>7, XEventAssumption DEF HasOf
  <2>9. \A e \in fget[h] : Carries(h, e)' BY <2>5, <2>8 DEF Carries
  <2>10. \A x \in FdHandlers \ {h} : fget'[x] = fget[x] /\ (InFheap(x) => InFheap(x)')
    BY <1>c, <2>1, <2>2, <2>4 DEF InFheap
  <2> HIDE DEF InFheap, Carries
  <2>11. LostAt(h)' BY <1>b, <2>0, <2>1, <2>3, <2>9 DEF LostAt
  <2>12. \A x \in FdHandlers \ {h} : LostAt(x)' BY <1>b, <2>0, <2>1, <2>10 DEF LostAt
  <2> QED BY <2>11, <2>12
<1>2. ASSUME NEW fd \in Fds, gotFd(t, fd) PROVE \A x \in FdHandlers : LostAt(x)'
  <2>1. UNCHANGED evicted /\ ~cleared /\ pc[t] = "got" /\ ~doit(t) BY <1>2, <1>a DEF gotFd, Handled, doit
  <2>2. PICK h \in FdHandlers \cup {None} : h = fd2hr[fd] BY DEF Types
  <2>4. CASE h = None
    <3>1. UNCHANGED <<fheap, fget, evicted, owed>> BY <1>2, <2>2, <2>4 DEF gotFd
    <3> QED BY <1>0, <2>1, <3>1
  <2>5. CASE h # None
    <3>1. /\ owed' = [owed EXCEPT ![h] = @ \cup {"READ"}]
          /\ IF findex[h] THEN Combine(h, {"READ"}) ELSE Push(h, {"READ"})
      BY <1>2, <2>2, <2>5 DEF gotFd
    <3>2. /\ h \notin evicted => InFheap(h)' /\ {"READ"} \subseteq fget'[h] /\ (InFheap(h) => fget[h] \subseteq fget'[h])
          /\ \A x \in FdHandlers \ {h} : (InFheap(x) => InFheap(x)') /\ fget'[x] = fget[x]
      BY <2>1, <2>5, <3>1, PushedIs
    <3>3. owed'[h] = owed[h] \cup {"READ"} /\ \A x \in FdHandlers \ {h} : owed'[x] = owed[x] BY <1>c, <2>5, <3>1
    <3> HIDE DEF InFheap, Carries
    <3>4. LostAt(h)' BY <1>b, <2>1, <2>5, <3>2, <3>3 DEF LostAt
    <3>5. \A x \in FdHandlers \ {h} : LostAt(x)' BY <1>b, <2>1, <3>2, <3>3 DEF LostAt
    <3> QED BY <3>4, <3>5
  <2> QED BY <2>4, <2>5
<1>3. CASE doit(t)
  <2>1. /\ UNCHANGED <<fheap, fget, evicted>>
        /\ owed' = IF evm[t].hr \in FdHandlers THEN [owed EXCEPT ![evm[t].hr] = @ \ evm[t].events] ELSE owed
    BY <1>3 DEF doit, fdVars
  <2>2. \A x \in FdHandlers : owed'[x] = IF x = evm[t].hr THEN owed[x] \ evm[t].events ELSE owed[x] BY <1>c, <2>1
  <2>3. \A x : InFheap(x) => InFheap(x)' BY <2>1 DEF InFheap
  <2>4. \A x \in FdHandlers : \A e \in owed'[x] : e \in owed[x] /\ ~(x = evm[t].hr /\ e \in evm[t].events)
    BY <2>2
  <2> HIDE DEF InFheap, Carries, LostAt
  <2>5. \A x \in FdHandlers : \A e \in owed'[x] : e \in owed[x] /\ (Carries(x, e) => Carries(x, e)') BY <1>b, <2>4
  <2> QED BY <2>1, <2>3, <2>5, LostKept
<1>4. CASE workEnd(t)
  <2>0. ~doit(t) /\ UNCHANGED <<fget, evicted>> BY <1>4 DEF workEnd, doit
  <2>1. CASE numThread # 1 BY <1>4, <1>0, <2>0, <2>1 DEF workEnd
  <2>2. CASE numThread = 1
    <3>1. owed' = [h \in FdHandlers |-> {}] BY <1>4, <2>2 DEF workEnd
    <3> QED BY <3>1 DEF LostAt
  <2> QED BY <2>1, <2>2
<1> USE DEF fdVars, history
<1>5. CASE workStart(t) \/ lead(t) \/ nextNull(t) BY <1>0, <1>5 DEF workStart, lead, nextNull, doit
<1>6. CASE nextTask(t) \/ nextSleep(t) BY <1>0, <1>6 DEF nextTask, nextSleep, doit
<1>7. CASE epoll(t) BY <1>0, <1>7 DEF epoll, epollReady, epollTimeout, doit
<1>8. CASE epollError(t) \/ gotPipe(t) \/ can_run(t) BY <1>0, <1>8 DEF epollError, gotPipe, Handled, can_run, doit
<1>9. CASE giveUp(t) \/ new_thread(t) BY <1>0, <1>9 DEF giveUp, new_thread, doit
<1>10. CASE destroy(t) BY <1>0, <1>10 DEF destroy, doit
<1> QED BY <1>1, <1>2, <1>3, <1>4, <1>5, <1>6, <1>7, <1>8, <1>9, <1>10 DEF work

LEMMA LostStep ==
  ASSUME Types, InHand, Linked, HeapInv, PoolInv, NoEventLost, [Next]_vars
  PROVE  NoEventLost'
<1> USE DEF fdVars, history
<1>0. \A x \in FdHandlers : LostAt(x) BY LostIs
<1>a. ASSUME Called, UNCHANGED <<fheap, fget, evicted, owed>> PROVE \A x \in FdHandlers : LostAt(x)'
  <2>1. \A x : InFheap(x) => InFheap(x)' BY <1>a DEF InFheap
  <2>2. \A x, e : Carries(x, e) => Carries(x, e)' BY <1>a, CarriesCalled
  <2> HIDE DEF InFheap, Carries, LostAt
  <2> QED BY <1>0, <1>a, <2>1, <2>2, LostKept
<1>1. CASE UNCHANGED vars BY <1>1 DEF vars, NoEventLost, InFheap, Carried, Live, runVars
<1>2. CASE Outside
  <2>1. UNCHANGED <<fheap, fget, evicted, owed>>
    BY <1>2 DEF Outside, start, startThread, cancel, waitForCancel, WriteInterrupt, tick, idleElapse
  <2>2. \A x \in FdHandlers : LostAt(x)' BY <1>2, <1>a, <2>1 DEF Called
  <2> QED BY <2>2, LostIs
<1>3. ASSUME NEW k \in Tasks, TaskCall(k) PROVE NoEventLost'
  <2>1. UNCHANGED <<fheap, fget, evicted, owed>>
    BY <1>3 DEF TaskCall, addTask, replaceTask, replaceTaskLaterThan, removeTask
  <2>2. \A x \in FdHandlers : LostAt(x)' BY <1>3, <1>a, <2>1 DEF Called
  <2> QED BY <2>2, LostIs
<1>4. ASSUME NEW fd \in Fds, arrive(fd) PROVE NoEventLost'
  <2>1. UNCHANGED <<fheap, fget, evicted, owed>> BY <1>4 DEF arrive
  <2>2. \A x \in FdHandlers : LostAt(x)' BY <1>4, <1>a, <2>1 DEF Called
  <2> QED BY <2>2, LostIs
<1>5. ASSUME NEW h \in FdHandlers, FdCall(h) PROVE NoEventLost'
  <2>2. \A x \in FdHandlers : LostAt(x)' BY <1>0, <1>5, LostFd
  <2> QED BY <2>2, LostIs
<1>6. ASSUME NEW t \in Threads, work(t) \/ epollError(t) PROVE NoEventLost'
  <2>2. \A x \in FdHandlers : LostAt(x)' BY <1>0, <1>6, LostWork
  <2> QED BY <2>2, LostIs
<1> QED BY <1>1, <1>2, <1>3, <1>4, <1>5, <1>6, Steps

-----------------------------------------------------------------------------
(* No edge is lost. *)

\* x is going to be told, or its index is wrong.
WithNews(x) == x \in evicted \/ (InFheap(x) /\ "READ" \in fget[x]) \/ Carries(x, "READ")

EdgeAt(g) ==
  \A x \in FdHandlers : fd2hr[g] = x /\ data[g] /\ armed[g] => kready[g] \/ g \in got \/ WithNews(x)

LEMMA EdgeIs ==
  ASSUME Types, Types'
  PROVE  (NoEdgeLost <=> \A g \in Fds : EdgeAt(g)) /\ (NoEdgeLost' <=> \A g \in Fds : EdgeAt(g)')
<1>0. \A x \in FdHandlers : x # None BY XEventAssumption DEF Handlers
<1>1. \A g \in Fds : fd2hr[g] \in FdHandlers \cup {None} BY DEF Types
<1>2. \A g \in Fds : fd2hr'[g] \in FdHandlers \cup {None} BY DEF Types
<1>3. NoEdgeLost <=> \A g \in Fds : EdgeAt(g) BY <1>0, <1>1, CarriedIs DEF NoEdgeLost, EdgeAt, WithNews
<1>4. NoEdgeLost' <=> \A g \in Fds : EdgeAt(g)'
  <2>1. ASSUME NEW g \in Fds, NEW x \in FdHandlers, fd2hr'[g] = x
        PROVE  (\/ fd2hr'[g] \in evicted' \/ (fd2hr'[g] \in Range(fheap') /\ "READ" \in fget'[fd2hr'[g]])
                \/ "READ" \in Carried(fd2hr[g])') <=> WithNews(x)'
    <3>1. "READ" \in Carried(x)' <=> Carries(x, "READ")' BY CarriedIs
    <3>2. Carried(fd2hr[g])' = Carried(x)' BY <2>1 DEF Carried, Live
    <3> HIDE DEF Carried, Carries
    <3> QED BY <2>1, <3>1, <3>2 DEF WithNews, InFheap
  <2> DEFINE Told(g) == \/ fd2hr'[g] \in evicted' \/ (fd2hr'[g] \in Range(fheap') /\ "READ" \in fget'[fd2hr'[g]])
                        \/ "READ" \in Carried(fd2hr[g])'
  <2>2. NoEdgeLost' <=> \A g \in Fds : (fd2hr'[g] # None /\ data'[g] /\ armed'[g]) =>
                                          kready'[g] \/ g \in got' \/ Told(g)
    BY DEF NoEdgeLost, InFheap
  <2>3. \A g \in Fds, x \in FdHandlers : fd2hr'[g] = x => (Told(g) <=> WithNews(x)') BY <2>1
  <2> HIDE DEF Told, WithNews
  <2> QED BY <1>0, <1>2, <2>2, <2>3 DEF EdgeAt
<1> QED BY <1>3, <1>4

\* News are not forgotten.
LEMMA EdgeKept ==
  ASSUME NEW g \in Fds, EdgeAt(g), fd2hr'[g] = fd2hr[g], data'[g] => data[g], armed'[g] => armed[g],
         kready[g] => kready'[g] \/ g \in got', g \in got => g \in got',
         \A x \in FdHandlers : fd2hr[g] = x /\ WithNews(x) => WithNews(x)'
  PROVE  EdgeAt(g)'
<1> HIDE DEF WithNews
<1> QED BY DEF EdgeAt

LEMMA NewsSame ==
  ASSUME NEW x \in FdHandlers, WithNews(x), evicted \subseteq evicted', UNCHANGED <<fheap, fget>>,
         Carries(x, "READ") => Carries(x, "READ")'
  PROVE  WithNews(x)'
<1>1. InFheap(x) => InFheap(x)' BY DEF InFheap
<1> HIDE DEF InFheap, Carries
<1> QED BY <1>1 DEF WithNews

LEMMA EdgeAddFd ==
  ASSUME Types, HeapInv, Called, \A g \in Fds : EdgeAt(g), NEW h \in FdHandlers, NEW ok \in BOOLEAN, _do_add_fd(h, ok),
         UNCHANGED got
  PROVE  \A g \in Fds : EdgeAt(g)'
<1>0. PICK old : old = fd2hr[FdOf[h]] OBVIOUS
<1>1. PICK erase \in BOOLEAN : erase <=> old # None /\ findex[old] /\ InFheap(old) OBVIOUS
<1>2. /\ fheap' = (IF erase THEN Without(fheap, old) ELSE fheap)
      /\ evicted' = evicted \cup (IF erase THEN {old} \cup {x \in {h} : findex[x]} ELSE {})
      /\ fd2hr' = [fd2hr EXCEPT ![FdOf[h]] = IF ok THEN h ELSE None]
      /\ kready' = [kready EXCEPT ![FdOf[h]] = ok /\ data[FdOf[h]]]
      /\ armed' = [armed EXCEPT ![FdOf[h]] = ok]
      /\ UNCHANGED <<fget, data>>
  BY <1>0, <1>1 DEF _do_add_fd
<1>3. /\ fd2hr \in [Fds -> FdHandlers \cup {None}] /\ kready \in [Fds -> BOOLEAN] /\ armed \in [Fds -> BOOLEAN]
      /\ FdOf[h] \in Fds
  BY XEventAssumption DEF Types
<1>4. ASSUME NEW x \in FdHandlers, WithNews(x) PROVE WithNews(x)'
  <2>1. Carries(x, "READ") => Carries(x, "READ")' BY CarriesCalled
  <2>2. CASE x = old /\ erase BY <1>2, <2>2 DEF WithNews
  <2>3. CASE x # old \/ ~erase
    <3>1. InFheap(x) => InFheap(x)'
      <4>1. CASE erase BY <1>1, <1>2, <2>3, <4>1, OthersStay DEF InFheap
      <4>2. CASE ~erase BY <1>2, <4>2 DEF InFheap
      <4> QED BY <4>1, <4>2
    <3> HIDE DEF InFheap, Carries
    <3> QED BY <1>2, <1>4, <2>1, <3>1 DEF WithNews
  <2> QED BY <2>2, <2>3
<1>5. ASSUME NEW g \in Fds PROVE EdgeAt(g)'
  <2>1. CASE g = FdOf[h]
    <3>1. data'[g] /\ armed'[g] => kready'[g] BY <1>2, <1>3, <2>1
    <3> QED BY <3>1 DEF EdgeAt
  <2>2. CASE g # FdOf[h]
    <3>1. fd2hr'[g] = fd2hr[g] /\ kready'[g] = kready[g] /\ armed'[g] = armed[g] BY <1>2, <1>3, <2>2
    <3> HIDE DEF WithNews, EdgeAt
    <3> QED BY <1>2, <1>4, <3>1, EdgeKept
  <2> QED BY <2>1, <2>2
<1> QED BY <1>5

LEMMA EdgeFd ==
  ASSUME Types, HeapInv, PoolInv, \A g \in Fds : EdgeAt(g), NEW h \in FdHandlers, FdCall(h)
  PROVE  \A g \in Fds : EdgeAt(g)'
<1>a. Called BY DEF Called
<1>b. \A x, e : Carries(x, e) => Carries(x, e)' BY <1>a, CarriesCalled
<1>c. /\ fd2hr \in [Fds -> FdHandlers \cup {None}] /\ kready \in [Fds -> BOOLEAN] /\ armed \in [Fds -> BOOLEAN]
      /\ FdOf[h] \in Fds
  BY XEventAssumption DEF Types
<1>d. UNCHANGED got BY <1>a, CalledMoves
<1>1. CASE addFd(h) \/ replaceFdAdd(h) BY <1>1, <1>a, <1>d, EdgeAddFd DEF addFd, replaceFdAdd
<1>2. CASE replaceFdModify(h)
  <2>1. /\ UNCHANGED <<fheap, fget, fd2hr, data, evicted>>
        /\ kready' = [kready EXCEPT ![FdOf[h]] = data[FdOf[h]]]
        /\ armed' = [armed EXCEPT ![FdOf[h]] = TRUE]
    BY <1>2 DEF replaceFdModify, fdVars, history
  <2>2. \A x \in FdHandlers : WithNews(x) => WithNews(x)' BY <1>b, <2>1, NewsSame
  <2>3. ASSUME NEW g \in Fds PROVE EdgeAt(g)'
    <3>1. CASE g = FdOf[h]
      <4>1. data'[g] => kready'[g] BY <1>c, <2>1, <3>1
      <4> QED BY <4>1 DEF EdgeAt
    <3>2. CASE g # FdOf[h]
      <4>1. kready'[g] = kready[g] /\ armed'[g] = armed[g] BY <1>c, <2>1, <3>2
      <4> HIDE DEF WithNews, EdgeAt
      <4> QED BY <1>d, <2>1, <2>2, <4>1, EdgeKept
    <3> QED BY <3>1, <3>2
  <2> QED BY <2>3
<1>3. CASE removeFd(h)
  <2>0. PICK reg \in BOOLEAN : reg <=> fd2hr[FdOf[h]] = h OBVIOUS
  <2>1. PICK erase \in BOOLEAN : erase <=> findex[h] /\ InFheap(h) OBVIOUS
  <2>2. /\ fheap' = (IF erase THEN Without(fheap, h) ELSE fheap)
        /\ fd2hr' = IF reg THEN [fd2hr EXCEPT ![FdOf[h]] = None] ELSE fd2hr
        /\ kready' = IF reg THEN [kready EXCEPT ![FdOf[h]] = FALSE] ELSE kready
        /\ armed' = IF reg THEN [armed EXCEPT ![FdOf[h]] = FALSE] ELSE armed
        /\ UNCHANGED <<fget, data, evicted>>
    BY <1>3, <2>0, <2>1 DEF removeFd
  <2>3. ASSUME NEW x \in FdHandlers, x # h, WithNews(x) PROVE WithNews(x)'
    <3>1. InFheap(x) => InFheap(x)'
      <4>1. CASE erase BY <2>1, <2>2, <2>3, <4>1, OthersStay DEF InFheap
      <4>2. CASE ~erase BY <2>2, <4>2 DEF InFheap
      <4> QED BY <4>1, <4>2
    <3> HIDE DEF InFheap, Carries
    <3> QED BY <1>b, <2>2, <2>3, <3>1 DEF WithNews
  <2>4. ASSUME NEW g \in Fds PROVE EdgeAt(g)'
    <3>1. CASE g = FdOf[h] /\ reg
      <4>1. ~armed'[g] BY <1>c, <2>2, <3>1
      <4> QED BY <4>1 DEF EdgeAt
    <3>2. CASE ~(g = FdOf[h] /\ reg)
      <4>1. fd2hr'[g] = fd2hr[g] /\ kready'[g] = kready[g] /\ armed'[g] = armed[g] BY <1>c, <2>2, <3>2
      <4>2. fd2hr[g] # h
        <5>1. h # None BY XEventAssumption DEF Handlers
        <5> QED BY <2>0, <3>2, <5>1 DEF HeapInv
      <4>3. \A x \in FdHandlers : fd2hr[g] = x /\ WithNews(x) => WithNews(x)' BY <2>3, <4>2
      <4> HIDE DEF WithNews, EdgeAt
      <4> QED BY <1>d, <2>2, <4>1, <4>3, EdgeKept
    <3> QED BY <3>1, <3>2
  <2> QED BY <2>4
<1>4. CASE readyFd(h)
  <2>1. /\ UNCHANGED <<evicted, fd2hr, data, kready, armed>> /\ ~cleared
        /\ IF findex[h] THEN Combine(h, {"WRITE"}) ELSE Push(h, {"WRITE"})
    BY <1>4 DEF readyFd, PoolInv, Manned, kernelVars
  <2>2. /\ h \notin evicted => InFheap(h)' /\ {"WRITE"} \subseteq fget'[h] /\ (InFheap(h) => fget[h] \subseteq fget'[h])
        /\ \A x \in FdHandlers \ {h} : (InFheap(x) => InFheap(x)') /\ fget'[x] = fget[x]
    BY <2>1, PushedIs
  <2>3. ASSUME NEW x \in FdHandlers, WithNews(x) PROVE WithNews(x)'
    <3> HIDE DEF InFheap, Carries
    <3> QED BY <1>b, <2>1, <2>2, <2>3 DEF WithNews
  <2> HIDE DEF WithNews, EdgeAt
  <2> QED BY <1>d, <2>1, <2>3, EdgeKept
<1> QED BY <1>1, <1>2, <1>3, <1>4 DEF FdCall

LEMMA EdgeWork ==
  ASSUME Types, ThreadInv, Linked, HeapInv, PoolInv, \A g \in Fds : EdgeAt(g),
         NEW t \in Threads, work(t) \/ epollError(t)
  PROVE  \A g \in Fds : EdgeAt(g)'
<1> USE DEF ThreadInv
<1>a. pc[t] # "off" => ~cleared BY DEF PoolInv, Manned, Alive
<1>b. \A x \in FdHandlers : Carries(x, "READ") => Carries(x, "READ")' \/ (doit(t) /\ x = evm[t].hr /\ "READ" \in evm[t].events)
  BY CarriesWork DEF Handlers
<1>c. /\ fheap \in Seq(FdHandlers) /\ fget \in [FdHandlers -> SUBSET {"READ", "WRITE"}]
      /\ evm \in [Threads -> EventMans \cup {None}] /\ fd2hr \in [Fds -> FdHandlers \cup {None}]
      /\ kready \in [Fds -> BOOLEAN] /\ armed \in [Fds -> BOOLEAN] /\ data \in [Fds -> BOOLEAN]
  BY DEF Types
<1>d. ASSUME UNCHANGED <<fheap, fget, evicted>>, ~doit(t), NEW x \in FdHandlers, WithNews(x) PROVE WithNews(x)'
  BY <1>b, <1>d, NewsSame
<1>0. CASE UNCHANGED <<fheap, fget, evicted, fd2hr, data, kready, armed, got>> /\ ~doit(t)
  <2>1. \A x \in FdHandlers : WithNews(x) => WithNews(x)' BY <1>0, <1>d
  <2> HIDE DEF WithNews, EdgeAt
  <2> QED BY <1>0, <2>1, EdgeKept
<1>1. CASE nextFd(t)
  <2>0. pc[t] = "next" /\ ~doit(t) BY <1>1 DEF nextFd, doit
  <2>1. /\ fheap # <<>> /\ fheap' = Tail(fheap) /\ fget' = [fget EXCEPT ![Head(fheap)] = {}]
        /\ evm' = [evm EXCEPT ![t] = [hr |-> Head(fheap), events |-> fget[Head(fheap)]]]
        /\ UNCHANGED <<fd2hr, data, kready, armed, got, evicted>> /\ Goto(t, "evm")
    BY <1>1 DEF nextFd, history, kernelVars
  <2>2. PICK h : h = Head(fheap) OBVIOUS
  <2>3. fheap' \in Seq(FdHandlers) /\ OneLess(fheap, 1, fheap') /\ fheap[1] = h /\ h \in FdHandlers
    BY <1>c, <2>1, <2>2, Popped
  <2>4. \A y : y # h /\ y \in Range(fheap) => y \in Range(fheap') BY <1>c, <2>3, OneLessRange
  <2>5. pc'[t] = "evm" BY <2>1, GotoIs DEF Places
  <2>6. evm'[t] = [hr |-> h, events |-> fget[h]] BY <1>c, <2>1, <2>2
  <2>7. evm'[t] \in EventMans BY <1>c, <2>3, <2>6 DEF EventMans, Handlers
  <2>8. HasOf(t, h)' /\ evm'[t].events = fget[h] BY <2>6, <2>7, XEventAssumption DEF HasOf
  <2>9. "READ" \in fget[h] => Carries(h, "READ")' BY <2>5, <2>8 DEF Carries
  <2>10. \A x \in FdHandlers \ {h} : fget'[x] = fget[x] /\ (InFheap(x) => InFheap(x)')
    BY <1>c, <2>1, <2>2, <2>4 DEF InFheap
  <2>11. ASSUME NEW x \in FdHandlers, WithNews(x) PROVE WithNews(x)'
    <3> HIDE DEF InFheap, Carries
    <3> QED BY <1>b, <2>0, <2>1, <2>9, <2>10, <2>11 DEF WithNews
  <2> HIDE DEF WithNews, EdgeAt
  <2> QED BY <2>1, <2>11, EdgeKept
<1>2. ASSUME NEW fd \in Fds, gotFd(t, fd) PROVE \A g \in Fds : EdgeAt(g)'
  <2>1. UNCHANGED <<evicted, data>> /\ ~cleared /\ pc[t] = "got" /\ ~doit(t) /\ got' = got \ {fd}
    BY <1>2, <1>a DEF gotFd, Handled, doit
  <2>2. PICK h \in FdHandlers \cup {None} : h = fd2hr[fd] BY <1>c
  <2>4. CASE h = None
    <3>1. UNCHANGED <<fheap, fget, fd2hr, kready, armed>> BY <1>2, <2>2, <2>4 DEF gotFd
    <3>2. \A x \in FdHandlers : x # None BY XEventAssumption DEF Handlers
    <3>3. EdgeAt(fd)' BY <2>2, <2>4, <3>1, <3>2 DEF EdgeAt
    <3>4. \A x \in FdHandlers : WithNews(x) => WithNews(x)' BY <1>d, <2>1, <3>1
    <3>5. \A g \in Fds : g # fd => (g \in got => g \in got') BY <2>1
    <3> HIDE DEF WithNews, EdgeAt
    <3>6. \A g \in Fds : g # fd => EdgeAt(g)' BY <2>1, <3>1, <3>4, <3>5, EdgeKept
    <3> QED BY <3>3, <3>6
  <2>5. CASE h # None
    <3>1. /\ IF findex[h] THEN Combine(h, {"READ"}) ELSE Push(h, {"READ"})
          /\ fd2hr' = fd2hr \/ fd2hr' = [fd2hr EXCEPT ![fd] = None]
          /\ kready' = kready \/ kready' = [kready EXCEPT ![fd] = FALSE]
          /\ armed' = armed \/ armed' = [armed EXCEPT ![fd] = FALSE]
      BY <1>2, <2>2, <2>5 DEF gotFd
    <3>2. /\ h \notin evicted => InFheap(h)' /\ {"READ"} \subseteq fget'[h] /\ (InFheap(h) => fget[h] \subseteq fget'[h])
          /\ \A x \in FdHandlers \ {h} : (InFheap(x) => InFheap(x)') /\ fget'[x] = fget[x]
      BY <2>1, <2>5, <3>1, PushedIs
    <3>3. ASSUME NEW x \in FdHandlers, WithNews(x) PROVE WithNews(x)'
      <4> HIDE DEF InFheap, Carries
      <4> QED BY <1>b, <2>1, <3>2, <3>3 DEF WithNews
    <3>4. WithNews(h)' BY <2>1, <3>2 DEF WithNews
    <3>5. fd2hr'[fd] \in {h, None} BY <1>c, <2>2, <3>1
    <3>6. \A x \in FdHandlers : x # None BY XEventAssumption DEF Handlers
    <3> HIDE DEF WithNews
    <3>7. EdgeAt(fd)' BY <3>4, <3>5, <3>6 DEF EdgeAt
    <3>8. \A g \in Fds : g # fd => fd2hr'[g] = fd2hr[g] /\ kready'[g] = kready[g] /\ armed'[g] = armed[g]
                                   /\ (g \in got => g \in got')
      BY <1>c, <2>1, <3>1
    <3> HIDE DEF EdgeAt
    <3>9. \A g \in Fds : g # fd => EdgeAt(g)' BY <2>1, <3>3, <3>8, EdgeKept
    <3> QED BY <3>7, <3>9
  <2> QED BY <2>4, <2>5
<1>3. CASE doit(t)
  <2>1. PICK f : f = FdOf[evm[t].hr] OBVIOUS
  <2>2. /\ UNCHANGED <<fheap, fget, evicted, fd2hr, armed, got>>
        /\ data' = IF "READ" \in evm[t].events THEN [data EXCEPT ![f] = FALSE] ELSE data
        /\ kready' = IF "READ" \in evm[t].events THEN [kready EXCEPT ![f] = FALSE] ELSE kready
    BY <1>3, <2>1 DEF doit, fdVars
  <2>3. ASSUME NEW g \in Fds PROVE EdgeAt(g)'
    <3>1. CASE g = f /\ "READ" \in evm[t].events
      <4>1. ~data'[g] BY <1>c, <2>2, <3>1
      <4> QED BY <4>1 DEF EdgeAt
    <3>2. CASE ~(g = f /\ "READ" \in evm[t].events)
      <4>1. data'[g] = data[g] /\ kready'[g] = kready[g] BY <1>c, <2>2, <3>2
      <4>2. ASSUME NEW x \in FdHandlers, fd2hr[g] = x, WithNews(x) PROVE WithNews(x)'
        <5>1. x # None BY XEventAssumption DEF Handlers
        <5>2. FdOf[x] = g BY <4>2, <5>1 DEF HeapInv
        <5>3. ~(x = evm[t].hr /\ "READ" \in evm[t].events) BY <2>1, <3>2, <5>2
        <5>4. Carries(x, "READ") => Carries(x, "READ")' BY <1>b, <5>3
        <5> QED BY <2>2, <4>2, <5>4, NewsSame
      <4> HIDE DEF WithNews, EdgeAt
      <4> QED BY <2>2, <4>1, <4>2, EdgeKept
    <3> QED BY <3>1, <3>2
  <2> QED BY <2>3
<1>4. CASE workEnd(t)
  <2>0. ~doit(t) /\ UNCHANGED <<fget, evicted, data, got>> BY <1>4 DEF workEnd, doit
  <2>1. CASE numThread # 1 BY <1>4, <1>0, <2>0, <2>1 DEF workEnd
  <2>2. CASE numThread = 1
    <3>1. fd2hr' = [fd \in Fds |-> None] BY <1>4, <2>2 DEF workEnd
    <3>2. \A x \in FdHandlers : x # None BY XEventAssumption DEF Handlers
    <3> QED BY <3>1, <3>2 DEF EdgeAt
  <2> QED BY <2>1, <2>2
<1>5. CASE epollReady(t)
  <2>1. /\ pc[t] = "epoll" /\ ~doit(t) /\ got' = Reported
        /\ armed' = [fd \in Fds |-> armed[fd] /\ ~(kready[fd] /\ fd2hr[fd] \in OneShot)]
        /\ UNCHANGED <<fheap, fget, evicted, fd2hr, data>>
    BY <1>5 DEF epollReady, doit, history
  <2>2. got = {}
    <3>1. \A u \in Threads : pc[u] = "got" => leader = u BY DEF OneLeader, Leading
    <3>2. leader = t BY <2>1 DEF OneLeader, Leading
    <3> QED BY <2>1, <3>1, <3>2 DEF ListWorked
  <2>3. \A g \in Fds : (kready[g] => g \in got') /\ (armed'[g] => armed[g]) BY <2>1 DEF Reported
  <2>4. \A x \in FdHandlers : WithNews(x) => WithNews(x)' BY <1>d, <2>1
  <2> HIDE DEF WithNews, EdgeAt
  <2> QED BY <2>1, <2>2, <2>3, <2>4, EdgeKept
<1>6. CASE gotPipe(t)
  <2>1. ~doit(t) /\ got' = got \ {Pipe} /\ UNCHANGED <<fheap, fget, evicted, fd2hr, data, kready, armed>>
    BY <1>6 DEF gotPipe, Handled, doit, fdVars, kernelVars, history
  <2>2. \A g \in Fds : g \in got => g \in got' BY <2>1, XEventAssumption
  <2>3. \A x \in FdHandlers : WithNews(x) => WithNews(x)' BY <1>d, <2>1
  <2> HIDE DEF WithNews, EdgeAt
  <2> QED BY <2>1, <2>2, <2>3, EdgeKept
<1> USE DEF fdVars, history, kernelVars
<1>7. CASE workStart(t) \/ lead(t) \/ nextNull(t) BY <1>0, <1>7 DEF workStart, lead, nextNull, doit
<1>8. CASE nextTask(t) \/ nextSleep(t) BY <1>0, <1>8 DEF nextTask, nextSleep, doit
<1>9. CASE epollTimeout(t) \/ epollError(t) BY <1>0, <1>9 DEF epollTimeout, epollError, doit
<1>10. CASE can_run(t) \/ destroy(t) BY <1>0, <1>10 DEF can_run, destroy, doit
<1>11. CASE giveUp(t) \/ new_thread(t) BY <1>0, <1>11 DEF giveUp, new_thread, doit
<1> QED BY <1>1, <1>2, <1>3, <1>4, <1>5, <1>6, <1>7, <1>8, <1>9, <1>10, <1>11 DEF work, epoll

LEMMA EdgeStep ==
  ASSUME Types, Types', ThreadInv, Linked, HeapInv, PoolInv, NoEdgeLost, [Next]_vars
  PROVE  NoEdgeLost'
<1> USE DEF fdVars, history
<1>0. \A g \in Fds : EdgeAt(g) BY EdgeIs
<1> SUFFICES \A g \in Fds : EdgeAt(g)' BY EdgeIs
<1>a. ASSUME Called, UNCHANGED <<fheap, fget, evicted>> PROVE UNCHANGED got /\ \A x \in FdHandlers : WithNews(x) => WithNews(x)'
  BY <1>a, CarriesCalled, CalledMoves, NewsSame
<1>1. CASE UNCHANGED vars
  <2>1. UNCHANGED <<fheap, fget, evicted, fd2hr, data, kready, armed, got, evm, pc, chain>>
    BY <1>1 DEF vars, runVars, kernelVars
  <2>2. \A x \in FdHandlers : WithNews(x) => WithNews(x)' BY <2>1 DEF WithNews, Carries, HasOf, InFheap
  <2> HIDE DEF WithNews, EdgeAt
  <2> QED BY <1>0, <2>1, <2>2, EdgeKept
<1>2. CASE Outside
  <2>0. Called BY <1>2 DEF Called
  <2>1. UNCHANGED <<fheap, fget, evicted, fd2hr, data, kready, armed>>
    BY <1>2 DEF Outside, start, startThread, cancel, waitForCancel, WriteInterrupt, tick, idleElapse, kernelVars
  <2> HIDE DEF WithNews, EdgeAt
  <2> QED BY <1>0, <1>a, <2>0, <2>1, EdgeKept
<1>3. ASSUME NEW k \in Tasks, TaskCall(k) PROVE \A g \in Fds : EdgeAt(g)'
  <2>0. Called BY <1>3 DEF Called
  <2>1. UNCHANGED <<fheap, fget, evicted, fd2hr, data, kready, armed>>
    BY <1>3 DEF TaskCall, addTask, replaceTask, replaceTaskLaterThan, removeTask, kernelVars
  <2> HIDE DEF WithNews, EdgeAt
  <2> QED BY <1>0, <1>a, <2>0, <2>1, EdgeKept
<1>4. ASSUME NEW fd \in Fds, arrive(fd) PROVE \A g \in Fds : EdgeAt(g)'
  <2>0. Called BY <1>4 DEF Called
  <2>1. /\ UNCHANGED <<fheap, fget, evicted, fd2hr, armed>>
        /\ data' = [data EXCEPT ![fd] = TRUE]
        /\ kready' = [kready EXCEPT ![fd] = fd2hr[fd] # None /\ armed[fd]]
    BY <1>4 DEF arrive
  <2>2. data \in [Fds -> BOOLEAN] /\ kready \in [Fds -> BOOLEAN] BY DEF Types
  <2>3. EdgeAt(fd)'
    <3>1. kready'[fd] <=> (fd2hr[fd] # None /\ armed[fd]) BY <2>1, <2>2
    <3>2. \A x \in FdHandlers : x # None BY XEventAssumption DEF Handlers
    <3> HIDE DEF WithNews
    <3> QED BY <2>1, <3>1, <3>2 DEF EdgeAt
  <2>4. \A g \in Fds : g # fd => data'[g] = data[g] /\ kready'[g] = kready[g] BY <2>1, <2>2
  <2> HIDE DEF WithNews, EdgeAt
  <2>5. \A g \in Fds : g # fd => EdgeAt(g)' BY <1>0, <1>a, <2>0, <2>1, <2>4, EdgeKept
  <2> QED BY <2>3, <2>5
<1> QED BY <1>0, <1>1, <1>2, <1>3, <1>4, Steps, EdgeFd, EdgeWork

-----------------------------------------------------------------------------
(* The leader does not sleep too long. *)

\* The top of the heap of tasks is the first in time.
LEMMA TopLeast ==
  ASSUME Types, Ordered(theap, msec), NEW x \in Range(theap)
  PROVE  theap # <<>> /\ TopMsec \in Nat /\ TopMsec <= msec[x] /\ msec[x] \in Nat
<1>0. theap \in Seq(Tasks) /\ msec \in [Tasks -> Nat] BY DEF Types
<1>1. PICK i \in 1..Len(theap) : theap[i] = x BY <1>0 DEF Range
<1>2. theap # <<>> /\ Head(theap) = theap[1] /\ 1 \in 1..Len(theap) /\ theap[1] \in Tasks /\ theap[i] \in Tasks
  BY <1>0, <1>1
<1>3. i = 1 \/ 1 < i BY <1>1
<1>4. msec[theap[1]] \in Nat /\ msec[theap[i]] \in Nat BY <1>0, <1>2
<1>5. msec[theap[1]] <= msec[theap[i]]
  <2>1. CASE i = 1 BY <1>4, <2>1
  <2>2. CASE 1 < i BY <1>0, <1>1, <1>2, <2>2 DEF Ordered
  <2> QED BY <1>3, <2>1, <2>2
<1> QED BY <1>1, <1>2, <1>4, <1>5 DEF TopMsec

\* Insert() of a task that is not the first, and the heap stays in order.
LEMMA InsertTop ==
  ASSUME Types, Ordered(theap, msec), NEW k \in Tasks, NEW when \in Nat, Insert(k, when)
  PROVE  /\ Ordered(theap', msec')
         /\ theap # <<>> /\ TopMsec <= when => theap' # <<>> /\ TopMsec \in Nat /\ TopMsec' \in Nat /\ TopMsec <= TopMsec'
<1>0. theap \in Seq(Tasks) /\ msec \in [Tasks -> Nat] BY DEF Types
<1>1. theap' \in Seq(Tasks) /\ msec' = [msec EXCEPT ![k] = when] BY InsertIs
<1>2. PICK rest \in Seq(Tasks) : \E p :
         /\ IF k \in Range(theap) THEN \E r : OneLess(theap, r, rest) /\ theap[r] = k ELSE rest = theap
         /\ k \notin Range(rest) /\ Ordered(rest, msec)
         /\ OneLess(theap', p, rest) /\ theap'[p] = k
         /\ \A i \in DOMAIN rest : (i < p => msec[rest[i]] <= when) /\ (i >= p => when <= msec[rest[i]])
  BY InsertIs
<1>3. PICK p :
         /\ IF k \in Range(theap) THEN \E r : OneLess(theap, r, rest) /\ theap[r] = k ELSE rest = theap
         /\ k \notin Range(rest) /\ Ordered(rest, msec)
         /\ OneLess(theap', p, rest) /\ theap'[p] = k
         /\ \A i \in DOMAIN rest : (i < p => msec[rest[i]] <= when) /\ (i >= p => when <= msec[rest[i]])
  BY <1>2
<1>4. \A x \in Range(rest) : x \in Tasks /\ x # k BY <1>3 DEF Range
<1>5. msec'[k] = when /\ \A x \in Range(rest) : msec'[x] = msec[x] /\ msec[x] \in Nat BY <1>0, <1>1, <1>4
<1>6. Ordered(theap', msec')
  <2>1. PICK z : z = theap' OBVIOUS
  <2>2. PICK l : l = msec' OBVIOUS
  <2>3. z \in Seq(Tasks) /\ OneLess(z, p, rest) /\ z[p] = k BY <1>1, <1>3, <2>1
  <2>4. l[k] = when /\ \A x \in Range(rest) : l[x] = msec[x] /\ msec[x] \in Nat BY <1>5, <2>2
  <2>5. Ordered(z, l) BY <1>3, <2>3, <2>4, OrderedMore
  <2> QED BY <2>1, <2>2, <2>5
<1>7. ASSUME theap # <<>>, TopMsec <= when
      PROVE  theap' # <<>> /\ TopMsec \in Nat /\ TopMsec' \in Nat /\ TopMsec <= TopMsec'
  <2>1. theap' # <<>> BY <1>1, <1>3, OneLessRange
  <2>2. PICK x : x = Head(theap') OBVIOUS
  <2>3. x \in Range(theap') BY <1>1, <2>1, <2>2, Popped
  <2>4. x = k \/ x \in Range(rest) BY <1>1, <1>3, <2>3, OneLessRange
  <2>5. Head(theap) \in Range(theap) BY <1>0, <1>7, Popped
  <2>6. TopMsec \in Nat BY <2>5, TopLeast
  <2>7. TopMsec' = msec'[x] BY <2>2 DEF TopMsec
  <2>8. CASE x = k BY <1>5, <1>7, <2>1, <2>6, <2>7, <2>8
  <2>9. CASE x \in Range(rest)
    <3>1. x \in Range(theap)
      <4>1. CASE k \in Range(theap)
        <5>1. PICK r : OneLess(theap, r, rest) BY <1>3, <4>1
        <5> QED BY <1>0, <2>9, <5>1, OneLessRange
      <4>2. CASE k \notin Range(theap) BY <1>3, <2>9, <4>2
      <4> QED BY <4>1, <4>2
    <3>2. TopMsec <= msec[x] BY <3>1, TopLeast
    <3> QED BY <1>5, <2>1, <2>6, <2>7, <2>9, <3>2
  <2> QED BY <2>4, <2>8, <2>9
<1> QED BY <1>6, <1>7

\* The heap without one of its tasks.
LEMMA LessTop ==
  ASSUME Types, Ordered(theap, msec), NEW p, theap' \in Seq(Tasks), OneLess(theap, p, theap'), UNCHANGED msec
  PROVE  /\ Ordered(theap', msec')
         /\ theap' # <<>> => theap # <<>> /\ TopMsec \in Nat /\ TopMsec' \in Nat /\ TopMsec <= TopMsec'
<1>0. theap \in Seq(Tasks) BY DEF Types
<1>1. Ordered(theap', msec') BY <1>0, OrderedLess
<1>2. ASSUME theap' # <<>> PROVE theap # <<>> /\ TopMsec \in Nat /\ TopMsec' \in Nat /\ TopMsec <= TopMsec'
  <2>1. PICK x : x = Head(theap') OBVIOUS
  <2>2. x \in Range(theap') BY <1>2, <2>1, Popped
  <2>3. x \in Range(theap) BY <1>0, <2>2, OneLessRange
  <2>4. theap # <<>> /\ TopMsec \in Nat /\ TopMsec <= msec[x] /\ msec[x] \in Nat BY <2>3, TopLeast
  <2>5. TopMsec' = msec[x] BY <2>1 DEF TopMsec
  <2> QED BY <2>4, <2>5
<1> QED BY <1>1, <1>2

LEMMA OrderStep ==
  ASSUME Types, Ordered(theap, msec), [Next]_vars
  PROVE  Ordered(theap', msec')
<1> USE DEF taskVars
<1>0. CASE UNCHANGED <<theap, msec>> BY <1>0
<1>1. CASE UNCHANGED vars BY <1>0, <1>1 DEF vars
<1>2. CASE Outside
  BY <1>0, <1>2 DEF Outside, start, startThread, cancel, waitForCancel, WriteInterrupt, tick, idleElapse
<1>3. ASSUME NEW fd \in Fds, arrive(fd) PROVE Ordered(theap', msec') BY <1>0, <1>3 DEF arrive
<1>4. ASSUME NEW h \in FdHandlers, FdCall(h) PROVE Ordered(theap', msec')
  BY <1>0, <1>4 DEF FdCall, addFd, replaceFdModify, replaceFdAdd, removeFd, readyFd
<1>5. ASSUME NEW k \in Tasks, TaskCall(k) PROVE Ordered(theap', msec')
  <2>0. \A d \in Delays : now + d \in Nat BY XEventAssumption DEF Types
  <2>1. CASE addTask(k) \/ replaceTask(k) \/ replaceTaskLaterThan(k)
    <3>1. UNCHANGED <<theap, msec>> \/ \E d \in Delays : Insert(k, now + d)
      BY <2>1 DEF addTask, replaceTask, replaceTaskLaterThan
    <3> QED BY <1>0, <2>0, <3>1, InsertTop
  <2>2. CASE removeTask(k)
    <3>1. k \in Range(theap) /\ theap' = Without(theap, k) /\ UNCHANGED msec BY <2>2 DEF removeTask, InTheap
    <3>2. theap' \in Seq(Tasks) /\ OneLess(theap, EntryOf(theap, k), theap') BY <3>1, Erased DEF Types
    <3> QED BY <3>1, <3>2, LessTop
  <2> QED BY <1>5, <2>1, <2>2 DEF TaskCall
<1>6. ASSUME NEW t \in Threads, work(t) \/ epollError(t) PROVE Ordered(theap', msec')
  <2>1. CASE nextTask(t)
    <3>1. theap # <<>> /\ theap' = Tail(theap) /\ UNCHANGED msec BY <2>1 DEF nextTask
    <3>2. theap' \in Seq(Tasks) /\ OneLess(theap, 1, theap') BY <3>1, Popped DEF Types
    <3> QED BY <3>1, <3>2, LessTop
  <2>2. CASE workEnd(t)
    <3>1. (UNCHANGED theap \/ theap' = <<>>) /\ UNCHANGED msec BY <2>2 DEF workEnd
    <3> QED BY <1>0, <3>1 DEF Ordered
  <2>3. CASE workStart(t) \/ lead(t) \/ nextNull(t) \/ nextFd(t) BY <1>0, <2>3 DEF workStart, lead, nextNull, nextFd
  <2>4. CASE nextSleep(t) \/ epoll(t) \/ epollError(t)
    BY <1>0, <2>4 DEF nextSleep, epoll, epollReady, epollTimeout, epollError
  <2>5. CASE gotPipe(t) \/ (\E fd \in Fds : gotFd(t, fd)) \/ can_run(t) BY <1>0, <2>5 DEF gotPipe, gotFd, can_run
  <2>6. CASE giveUp(t) \/ new_thread(t) BY <1>0, <2>6 DEF giveUp, new_thread
  <2>7. CASE doit(t) \/ destroy(t) BY <1>0, <2>7 DEF doit, destroy
  <2> QED BY <1>6, <2>1, <2>2, <2>3, <2>4, <2>5, <2>6, <2>7 DEF work
<1> QED BY <1>1, <1>2, <1>3, <1>4, <1>5, <1>6, Steps

\* What LeaderAwake says of a leader that is asleep.
Awake ==
  /\ fheap # <<>> \/ canceled => wake <= now
  /\ theap # <<>> /\ ~overslept => wake <= now \/ wake <= TopMsec
Resting == (asks \/ wake <= now) /\ (Coming \/ Awake)

LEMMA SleepIs ==
  /\ SleepInv <=> Ordered(theap, msec) /\ \A t \in Threads : pc[t] = "epoll" => Resting
  /\ SleepInv' <=> Ordered(theap', msec') /\ \A t \in Threads : pc'[t] = "epoll" => Resting'
<1>1. SleepInv <=> Ordered(theap, msec) /\ \A t \in Threads : pc[t] = "epoll" => Resting
  BY DEF SleepInv, LeaderAwake, Resting, Awake
<1>2. SleepInv' <=> Ordered(theap', msec') /\ \A t \in Threads : pc'[t] = "epoll" => Resting'
  BY DEF SleepInv, LeaderAwake, Resting, Awake
<1> QED BY <1>1, <1>2

\* A task is put into the heap while the leader sleeps.
LEMMA RestingInsert ==
  ASSUME Types, Ordered(theap, msec), Resting, NEW k \in Tasks, NEW when \in Nat, Insert(k, when),
         UNCHANGED <<asks, wake, now, fheap, canceled, pipe>>, NEW yes \in BOOLEAN, Interrupt(yes),
         yes \/ ~asks \/ theap # <<>>,
         overslept' = overslept,
         ~yes /\ asks /\ ~overslept => TopMsec <= when
  PROVE  Resting'
<1>0. /\ asks \in BOOLEAN /\ wake \in Nat /\ now \in Nat /\ intr \in Nat /\ pipe \in BOOLEAN /\ overslept \in BOOLEAN
      /\ theap \in Seq(Tasks) /\ msec \in [Tasks -> Nat]
  BY DEF Types
<1>1. intr' = IF yes THEN intr + 1 ELSE intr BY <1>0 DEF Interrupt
<1>2. CASE yes
  <2>1. intr' > 0 BY <1>0, <1>1, <1>2
  <2> QED BY <2>1 DEF Resting, Coming
<1>3. CASE ~asks
  <2>1. wake' <= now' BY <1>3 DEF Resting
  <2> QED BY <2>1 DEF Resting, Awake
<1>4. CASE ~yes /\ asks
  <2>1. Coming => Coming' BY <1>1, <1>4 DEF Coming
  <2>2. CASE overslept
    <3>1. Awake => Awake' BY <2>2 DEF Awake
    <3> HIDE DEF Awake, Coming
    <3> QED BY <1>4, <2>1, <3>1 DEF Resting
  <2>3. CASE ~overslept
    <3>1. theap # <<>> /\ TopMsec <= when BY <1>4, <2>3
    <3>2. TopMsec \in Nat /\ TopMsec' \in Nat /\ TopMsec <= TopMsec' BY <3>1, InsertTop
    <3>3. wake <= TopMsec => wake' <= TopMsec' BY <1>0, <3>2
    <3>4. Awake => Awake' BY <3>1, <3>3 DEF Awake
    <3> HIDE DEF Awake, Coming
    <3> QED BY <1>4, <2>1, <3>4 DEF Resting
  <2> QED BY <2>2, <2>3
<1> QED BY <1>2, <1>3, <1>4

\* As much of it as nobody touches.
LEMMA RestingSame ==
  ASSUME Resting, UNCHANGED <<asks, wake, now, overslept, canceled, theap, msec>>, fheap' # <<>> => fheap # <<>>,
         Coming => Coming'
  PROVE  Resting'
<1>1. TopMsec' = TopMsec BY DEF TopMsec
<1>2. Awake => Awake' BY <1>1 DEF Awake
<1> HIDE DEF Awake, Coming
<1> QED BY <1>2 DEF Resting

LEMMA RestingTask ==
  ASSUME Types, Ordered(theap, msec), Resting, NEW k \in Tasks, TaskCall(k)
  PROVE  Resting'
<1> USE DEF sleepVars, fdVars, endVars, intrVars
<1>0. /\ asks \in BOOLEAN /\ wake \in Nat /\ now \in Nat /\ intr \in Nat /\ overslept \in BOOLEAN
      /\ \A d \in Delays : now + d \in Nat
      /\ theap \in Seq(Tasks) /\ msec \in [Tasks -> Nat]
  BY XEventAssumption DEF Types
<1>a. theap # <<>> => TopMsec \in Nat
  <2>1. theap # <<>> => Head(theap) \in Tasks BY <1>0, Popped
  <2> QED BY <1>0, <2>1 DEF TopMsec
<1>1. CASE addTask(k)
  <2>1. PICK d \in Delays :
           LET yes == asks /\ TopLater(msec[k])
           IN /\ Insert(k, now + d)
              /\ Interrupt(yes)
              /\ overslept' = (overslept \/ (asks /\ ~yes /\ theap # <<>> /\ TopMsec > now + d))
    BY <1>1 DEF addTask
  <2>2. PICK yes \in BOOLEAN : yes <=> asks /\ TopLater(msec[k]) OBVIOUS
  <2>3. Insert(k, now + d) /\ Interrupt(asks /\ TopLater(msec[k]))
        /\ overslept' = (overslept \/ (asks /\ ~yes /\ theap # <<>> /\ TopMsec > now + d))
    BY <2>1, <2>2
  <2>4. Interrupt(yes) BY <2>2, <2>3 DEF Interrupt
  <2>5. UNCHANGED <<asks, wake, now, fheap, canceled, pipe>> BY <1>1 DEF addTask
  <2>6. yes \/ ~asks \/ theap # <<>> BY <2>2 DEF TopLater
  <2>7. now + d \in Nat BY <1>0
  <2>8. CASE overslept' = overslept
    <3>1. ~yes /\ asks /\ ~overslept => TopMsec <= now + d
      <4> SUFFICES ASSUME ~yes, asks, ~overslept PROVE TopMsec <= now + d OBVIOUS
      <4>0. overslept' <=> (overslept \/ (asks /\ ~yes /\ theap # <<>> /\ TopMsec > now + d)) BY <2>3
      <4>1. ~(TopMsec > now + d) BY <2>6, <2>8, <4>0
      <4>2. TopMsec \in Nat BY <1>a, <2>6
      <4> QED BY <2>7, <4>1, <4>2
    <3> QED BY <2>3, <2>4, <2>5, <2>6, <2>7, <2>8, <3>1, RestingInsert
  <2>9. CASE overslept'
    <3>1. Coming => Coming'
      <4>1. intr' >= intr /\ intr' \in Nat BY <1>0, <2>4 DEF Interrupt
      <4>2. intr > 0 => intr' > 0 BY <1>0, <4>1
      <4> QED BY <2>5, <4>2 DEF Coming
    <3>2. Awake => Awake' BY <2>5, <2>9 DEF Awake
    <3> HIDE DEF Awake, Coming
    <3> QED BY <2>5, <3>1, <3>2 DEF Resting
  <2> QED BY <1>0, <2>3, <2>8, <2>9
<1>2. CASE replaceTask(k) \/ replaceTaskLaterThan(k)
  <2>1. \/ UNCHANGED <<theap, msec, intr>>
        \/ \E d \in Delays : Insert(k, now + d) /\ Interrupt(asks /\ TopLater(now + d))
    BY <1>2 DEF replaceTask, replaceTaskLaterThan
  <2>2. UNCHANGED <<asks, wake, overslept, now, fheap, canceled, pipe>> BY <1>2 DEF replaceTask, replaceTaskLaterThan
  <2>3. CASE UNCHANGED <<theap, msec, intr>>
    <3>1. Coming => Coming' BY <2>2, <2>3 DEF Coming
    <3> QED BY <2>2, <2>3, <3>1, RestingSame
  <2>4. ASSUME NEW d \in Delays, Insert(k, now + d), Interrupt(asks /\ TopLater(now + d)) PROVE Resting'
    <3>1. PICK yes \in BOOLEAN : yes <=> asks /\ TopLater(now + d) OBVIOUS
    <3>2. Interrupt(yes) BY <2>4, <3>1 DEF Interrupt
    <3>3. yes \/ ~asks \/ theap # <<>> BY <3>1 DEF TopLater
    <3>4. now + d \in Nat BY <1>0
    <3>5. ~yes /\ asks => TopMsec <= now + d BY <1>a, <3>1, <3>4 DEF TopLater
    <3> QED BY <2>2, <2>4, <3>2, <3>3, <3>4, <3>5, RestingInsert
  <2> QED BY <2>1, <2>3, <2>4
<1>3. CASE removeTask(k)
  <2>1. /\ k \in Range(theap) /\ theap' = Without(theap, k)
        /\ UNCHANGED <<msec, asks, wake, overslept, now, fheap, canceled, pipe, intr>>
    BY <1>3 DEF removeTask, InTheap
  <2>2. theap' \in Seq(Tasks) /\ OneLess(theap, EntryOf(theap, k), theap') BY <1>0, <2>1, Erased
  <2>3. theap' # <<>> => theap # <<>> /\ TopMsec \in Nat /\ TopMsec' \in Nat /\ TopMsec <= TopMsec'
    BY <2>1, <2>2, LessTop
  <2>4. theap' # <<>> => (wake <= TopMsec => wake' <= TopMsec') BY <1>0, <2>1, <2>3
  <2>5. Awake => Awake' BY <2>1, <2>3, <2>4 DEF Awake
  <2>6. Coming => Coming' BY <2>1 DEF Coming
  <2> HIDE DEF Awake, Coming
  <2> QED BY <2>1, <2>5, <2>6 DEF Resting
<1> QED BY <1>1, <1>2, <1>3 DEF TaskCall

\* The heap of descriptors does not become full by a removal.
LEMMA NotFuller ==
  ASSUME Types, NEW g, UNCHANGED fheap \/ (InFheap(g) /\ fheap' = Without(fheap, g))
  PROVE  fheap' # <<>> => fheap # <<>>
<1>1. CASE UNCHANGED fheap BY <1>1
<1>2. CASE InFheap(g) BY <1>2 DEF InFheap, Range
<1> QED BY <1>1, <1>2

LEMMA RestingFd ==
  ASSUME Types, Resting, NEW h \in FdHandlers, FdCall(h)
  PROVE  Resting'
<1> USE DEF sleepVars, taskVars, endVars, intrVars
<1>1. CASE addFd(h) \/ replaceFdAdd(h)
  <2>1. PICK ok \in BOOLEAN : _do_add_fd(h, ok) BY <1>1 DEF addFd, replaceFdAdd
  <2>2. PICK old : old = fd2hr[FdOf[h]] OBVIOUS
  <2>3. UNCHANGED fheap \/ (InFheap(old) /\ fheap' = Without(fheap, old)) BY <2>1, <2>2 DEF _do_add_fd
  <2>4. fheap' # <<>> => fheap # <<>> BY <2>3, NotFuller
  <2>5. UNCHANGED <<asks, wake, now, overslept, canceled, theap, msec, intr, pipe>> BY <1>1 DEF addFd, replaceFdAdd
  <2>6. Coming => Coming' BY <2>5 DEF Coming
  <2> QED BY <2>4, <2>5, <2>6, RestingSame
<1>2. CASE replaceFdModify(h)
  <2>1. UNCHANGED <<asks, wake, now, overslept, canceled, theap, msec, intr, pipe, fheap>>
    BY <1>2 DEF replaceFdModify, fdVars
  <2>2. Coming => Coming' BY <2>1 DEF Coming
  <2> QED BY <2>1, <2>2, RestingSame
<1>3. CASE removeFd(h)
  <2>1. UNCHANGED fheap \/ (InFheap(h) /\ fheap' = Without(fheap, h)) BY <1>3 DEF removeFd
  <2>2. UNCHANGED <<asks, wake, now, overslept, canceled, theap, msec, intr, pipe>> BY <1>3 DEF removeFd
  <2>3. fheap' # <<>> => fheap # <<>> BY <2>1, NotFuller
  <2>4. Coming => Coming' BY <2>2 DEF Coming
  <2> QED BY <2>2, <2>3, <2>4, RestingSame
<1>4. CASE readyFd(h)
  <2>0. asks \in BOOLEAN /\ intr \in Nat BY DEF Types
  <2>1. UNCHANGED <<asks, wake, now, overslept, canceled, theap, msec, pipe>> BY <1>4 DEF readyFd
  <2>2. (UNCHANGED <<fheap, intr>>) \/ Interrupt(asks) BY <1>4 DEF readyFd, Combine
  <2>3. CASE UNCHANGED <<fheap, intr>>
    <3>1. Coming => Coming' BY <2>1, <2>3 DEF Coming
    <3> QED BY <2>1, <2>3, <3>1, RestingSame
  <2>4. CASE Interrupt(asks) /\ asks
    <3>1. intr' > 0 BY <2>0, <2>4 DEF Interrupt
    <3> QED BY <2>1, <2>4, <3>1 DEF Resting, Coming
  <2>5. CASE ~asks
    <3>1. wake' <= now' BY <2>1, <2>5 DEF Resting
    <3> QED BY <3>1 DEF Resting, Awake
  <2> QED BY <2>2, <2>3, <2>4, <2>5
<1> QED BY <1>1, <1>2, <1>3, <1>4 DEF FdCall

LEMMA RestingOutside ==
  ASSUME Types, Resting, Outside, ~cleared
  PROVE  Resting'
<1> USE DEF sleepVars, taskVars, endVars, intrVars, fdVars
<1>0. wake \in Nat /\ now \in Nat /\ intr \in Nat BY DEF Types
<1>1. CASE start \/ startThread \/ waitForCancel \/ idleElapse
  <2>1. UNCHANGED <<asks, wake, now, overslept, canceled, theap, msec, intr, pipe, fheap>>
    BY <1>1 DEF start, startThread, waitForCancel, idleElapse
  <2>2. Coming => Coming' BY <2>1 DEF Coming
  <2> QED BY <2>1, <2>2, RestingSame
<1>2. CASE cancel
  <2>1. UNCHANGED <<asks, wake, now>> /\ Interrupt(TRUE) BY <1>2 DEF cancel
  <2>2. intr' > 0 BY <1>0, <2>1 DEF Interrupt
  <2> QED BY <2>1, <2>2 DEF Resting, Coming
<1>3. CASE WriteInterrupt
  <2>1. UNCHANGED <<asks, wake, now>> /\ pipe' BY <1>3 DEF WriteInterrupt
  <2> QED BY <2>1 DEF Resting, Coming
<1>4. CASE tick
  <2>1. UNCHANGED <<asks, wake, overslept, canceled, theap, msec, intr, pipe, fheap>> /\ now' = now + 1 BY <1>4 DEF tick
  <2>2. wake <= now => wake' <= now' BY <1>0, <2>1
  <2>3. TopMsec' = TopMsec BY <2>1 DEF TopMsec
  <2>4. Awake => Awake' BY <2>1, <2>2, <2>3 DEF Awake
  <2>5. Coming => Coming' BY <2>1 DEF Coming
  <2> HIDE DEF Awake, Coming
  <2> QED BY <2>1, <2>2, <2>4, <2>5 DEF Resting
<1> QED BY <1>1, <1>2, <1>3, <1>4 DEF Outside

\* The leader goes to sleep.
LEMMA RestingSleep ==
  ASSUME Types, NEW t \in Threads, nextSleep(t)
  PROVE  Resting'
<1>0. /\ now \in Nat /\ MaxTimeout \in Nat /\ theap \in Seq(Tasks) /\ msec \in [Tasks -> Nat]
  BY XEventAssumption DEF Types, MaxTimeout
<1>1. theap # <<>> => TopMsec \in Nat
  <2>1. theap # <<>> => Head(theap) \in Tasks BY <1>0, Popped
  <2> QED BY <1>0, <2>1 DEF TopMsec
<1>2. \A m, n \in Nat : /\ Max({m, n}) \in {m, n}
                        /\ Min({m, n}) \in Nat /\ Min({m, n}) <= m /\ Min({m, n}) <= n
  <2> SUFFICES ASSUME NEW m \in Nat, NEW n \in Nat
               PROVE  Max({m, n}) \in {m, n} /\ Min({m, n}) \in Nat /\ Min({m, n}) <= m /\ Min({m, n}) <= n
    OBVIOUS
  <2>1. Max({m, n}) \in {m, n} BY DEF Max
  <2>2. \E x \in {m, n} : \A y \in {m, n} : x <= y
    <3>1. CASE m <= n BY <3>1
    <3>2. CASE n <= m BY <3>2
    <3> QED BY <3>1, <3>2
  <2>3. Min({m, n}) \in {m, n} /\ \A y \in {m, n} : Min({m, n}) <= y BY <2>2 DEF Min
  <2> QED BY <2>1, <2>3
<1>3. PICK m \in Nat : m = IF fheap = <<>> THEN MaxTimeout ELSE now BY <1>0
<1>4. PICK n \in Nat : n = IF theap = <<>> THEN MaxTimeout ELSE Max({TopMsec, now}) BY <1>0, <1>1, <1>2
<1>5. /\ wake' = Min({m, n}) /\ asks' = (wake' > now) /\ ~canceled
      /\ UNCHANGED <<theap, msec, fheap, canceled, now>>
  BY <1>3, <1>4 DEF nextSleep, endVars
<1>6. wake' \in Nat /\ wake' <= m /\ wake' <= n BY <1>2, <1>5
<1>7. fheap # <<>> => wake' <= now BY <1>3, <1>6
<1>8. theap # <<>> => wake' <= now \/ wake' <= TopMsec
  <2>1. theap # <<>> => n = TopMsec \/ n = now BY <1>0, <1>1, <1>2, <1>4
  <2> QED BY <1>6, <2>1
<1>9. TopMsec' = TopMsec BY <1>5 DEF TopMsec
<1>10. Awake' BY <1>5, <1>7, <1>8, <1>9 DEF Awake
<1>11. asks' \/ wake' <= now'
  <2>1. wake' > now \/ wake' <= now BY <1>0, <1>6
  <2> QED BY <1>5, <2>1
<1> QED BY <1>10, <1>11 DEF Resting

LEMMA SleepStep ==
  ASSUME Types, ThreadInv, ThreadInv', PoolInv, PoolInv', SleepInv, [Next]_vars
  PROVE  SleepInv'
<1> USE DEF sleepVars, taskVars, endVars, intrVars, fdVars, ThreadInv
<1>0. Ordered(theap, msec) /\ \A t \in Threads : pc[t] = "epoll" => Resting BY SleepIs
<1>1. Ordered(theap', msec') BY <1>0, OrderStep
<1> SUFFICES ASSUME NEW u \in Threads, pc'[u] = "epoll" PROVE Resting' BY <1>1, SleepIs
<1>a. CASE UNCHANGED <<asks, wake, now, overslept, canceled, theap, msec, intr, pipe, fheap>> /\ pc[u] = "epoll"
  <2>1. Coming => Coming' BY <1>a DEF Coming
  <2>2. Resting BY <1>0, <1>a
  <2> QED BY <1>a, <2>1, <2>2, RestingSame
<1>2. CASE UNCHANGED vars BY <1>2, <1>a DEF vars, runVars
<1>3. CASE Called
  <2>1. pc[u] = "epoll" BY <1>3, CalledMoves
  <2>2. Resting BY <1>0, <2>1
  <2>3. ~cleared BY <2>1 DEF PoolInv, Manned, Alive
  <2>4. ASSUME NEW fd \in Fds, arrive(fd) PROVE Resting' BY <1>a, <2>1, <2>4 DEF arrive
  <2> QED BY <1>0, <1>3, <2>2, <2>3, <2>4, RestingOutside, RestingFd, RestingTask DEF Called
<1>4. ASSUME NEW t \in Threads, work(t) \/ epollError(t) PROVE Resting'
  <2>1. CASE u = t
    <3>a. ASSUME NEW x \in Places, Goto(t, x), x # "epoll" PROVE FALSE BY <2>1, <3>a, GotoIs
    <3>1. CASE nextSleep(t) BY <3>1, RestingSleep
    <3>2. CASE workStart(t) \/ lead(t) \/ nextNull(t) \/ nextFd(t) \/ nextTask(t)
      BY <3>2, <3>a DEF workStart, lead, nextNull, nextFd, nextTask, Places
    <3>3. CASE epoll(t) \/ epollError(t) BY <3>3, <3>a DEF epoll, epollReady, epollTimeout, epollError, Places
    <3>4. CASE gotPipe(t) \/ (\E fd \in Fds : gotFd(t, fd)) BY <3>4, <3>a DEF gotPipe, gotFd, Handled, Places
    <3>5. CASE can_run(t) BY <3>5, <3>a DEF can_run, Places
    <3>6. CASE giveUp(t)
      <4>1. PICK x \in {"exit", "spawn", "run"} : Signal(t, x) BY <3>6 DEF giveUp
      <4>2. pc'[t] = x BY <3>6, <4>1, SignalIs DEF giveUp, Places
      <4> QED BY <2>1, <4>2
    <3>7. CASE new_thread(t) BY <2>1, <3>7, NewThreadIs
    <3>8. CASE doit(t) \/ destroy(t) \/ workEnd(t) BY <3>8, <3>a DEF doit, destroy, workEnd, Places
    <3> QED BY <1>4, <3>1, <3>2, <3>3, <3>4, <3>5, <3>6, <3>7, <3>8 DEF work
  <2>2. CASE u # t
    <3>1. pc[u] = "epoll" BY <1>4, <2>2, Moved
    <3>2. leader = u BY <3>1 DEF OneLeader, Leading
    <3>3. pc[t] \notin Leading BY <2>2, <3>2 DEF OneLeader
    <3>4. ~cleared' BY DEF PoolInv, Manned, Alive
    <3>5. UNCHANGED <<asks, wake, now, overslept, canceled, theap, msec, intr, pipe, fheap>>
      <4> USE <3>3 DEF Leading
      <4>1. CASE workStart(t) \/ lead(t) BY <4>1 DEF workStart, lead
      <4>2. CASE nextNull(t) \/ nextFd(t) \/ nextTask(t) \/ nextSleep(t)
        BY <4>2 DEF nextNull, nextFd, nextTask, nextSleep
      <4>3. CASE epoll(t) \/ epollError(t) \/ gotPipe(t) \/ (\E fd \in Fds : gotFd(t, fd))
        BY <4>3 DEF epoll, epollReady, epollTimeout, epollError, gotPipe, gotFd, Handled
      <4>4. CASE can_run(t) \/ giveUp(t) BY <4>4 DEF can_run, giveUp
      <4>5. CASE new_thread(t) BY <4>5 DEF new_thread
      <4>6. CASE doit(t) \/ destroy(t) BY <4>6 DEF doit, destroy
      <4>7. CASE workEnd(t) BY <3>4, <4>7 DEF workEnd
      <4> QED BY <1>4, <4>1, <4>2, <4>3, <4>4, <4>5, <4>6, <4>7 DEF work
    <3> QED BY <1>a, <3>1, <3>5
  <2> QED BY <2>1, <2>2
<1> QED BY <1>2, <1>3, <1>4, Parts

-----------------------------------------------------------------------------
(* The theorems. *)

LEMMA DispInit ==
  ASSUME Init
  PROVE  DispInv
<1>0. /\ MinThread \in Nat /\ MaxTimeout \in Nat /\ Unset \in Int /\ 0 \in Nat /\ 1 \in Nat
  BY XEventAssumption DEF MaxTimeout, Unset
<1>a. Cardinality({}) = 0 BY FS_EmptySet
<1>1. Types
  <2>1. fheap \in Seq(FdHandlers) /\ theap \in Seq(Tasks) BY DEF Init
  <2>2. pc \in [Threads -> Places] BY DEF Init, Places
  <2>3. fget \in [FdHandlers -> SUBSET {"READ", "WRITE"}] /\ owed \in [FdHandlers -> SUBSET {"READ", "WRITE"}]
    BY DEF Init
  <2>4. chain \in [Handlers -> Seq(EventMans)]
    <3>1. <<>> \in Seq(EventMans) OBVIOUS
    <3> QED BY <3>1 DEF Init
  <2>5. /\ msec \in [Tasks -> Nat] /\ refs \in [Handlers -> Int]
        /\ fd2hr \in [Fds -> FdHandlers \cup {None}] /\ evm \in [Threads -> EventMans \cup {None}]
    BY DEF Init
  <2>7. busy \in [Handlers -> BOOLEAN] /\ findex \in [FdHandlers -> BOOLEAN] BY DEF Init
  <2>8. data \in [Fds -> BOOLEAN] /\ kready \in [Fds -> BOOLEAN] /\ armed \in [Fds -> BOOLEAN] BY DEF Init
  <2>6. /\ leader \in Threads \cup {None} /\ got \subseteq Fds \cup {Pipe} /\ evicted \subseteq FdHandlers
        /\ fref \in Int /\ tref \in Nat /\ wake \in Nat /\ numThread \in Int /\ numIdle \in Int
        /\ setup \in Setups /\ toStart \in Nat /\ intr \in Nat /\ now \in Nat
    BY <1>0 DEF Init
  <2>9. /\ asks \in BOOLEAN /\ overslept \in BOOLEAN /\ spawning \in BOOLEAN /\ started \in BOOLEAN
        /\ canceled \in BOOLEAN /\ cleared \in BOOLEAN /\ pipe \in BOOLEAN
        /\ idleMark \in {"zero", "set", "elapsed"} /\ waiter \in {"none", "wait", "woken", "done"}
    BY DEF Init
  <2> QED BY <2>1, <2>2, <2>3, <2>4, <2>5, <2>6, <2>7, <2>8, <2>9 DEF Types
<1>2. ThreadInv
  <2>1. \A t \in Threads : pc[t] = "off" /\ evm[t] = None /\ leader # t BY XEventAssumption DEF Init
  <2> QED BY <2>1 DEF Init, ThreadInv, OneLeader, InHand, ListWorked, Leading
<1>3. Linked
  <2>1. \A h \in Handlers : chain[h] = <<>> /\ ~busy[h] /\ Runs(h) = {} BY DEF Init, Runs
  <2> QED BY <2>1 DEF Linked
<1>4. PoolInv
  <2>1. Alive = {} /\ Spawners = {} /\ Idlers = {} /\ Leaving = {}
    BY DEF Init, Alive, Spawners, Idlers, Leaving
  <2>2. numThread = 0 /\ numIdle = 0 /\ toStart = 0 /\ ~cleared /\ \A t \in Threads : pc[t] = "off" BY DEF Init
  <2>3. Counted BY <1>a, <2>1, <2>2 DEF Counted
  <2>4. Manned BY <2>1, <2>2 DEF Manned
  <2> QED BY <2>3, <2>4 DEF PoolInv
<1>5. HeapInv BY DEF Init, HeapInv, OnceIn, InFheap, Range
<1>6. SleepInv BY DEF Init, SleepInv, Ordered, LeaderAwake
<1>7. RefsMatch
  <2> SUFFICES ASSUME NEW h \in Handlers
               PROVE  refs[h] = (IF h \in FdHandlers THEN IF fd2hr[FdOf[h]] = h THEN 1 ELSE 0 ELSE 0)
                                + Cardinality(Entries(fheap, h)) + Cardinality(Entries(theap, h)) + Under(h)
    BY DEF RefsMatch
  <2>1. Entries(fheap, h) = {} /\ Entries(theap, h) = {} /\ Live(h) = {} BY DEF Init, Entries, Live
  <2>2. chain[h] = <<>> /\ refs[h] = 0 BY DEF Init
  <2>3. h \in FdHandlers => fd2hr[FdOf[h]] # h BY XEventAssumption DEF Init, Handlers
  <2>4. Len(<<>>) = 0 OBVIOUS
  <2>5. Under(h) = 0 BY <1>a, <2>1, <2>2, <2>4 DEF Under
  <2> QED BY <1>a, <2>1, <2>2, <2>3, <2>5
<1>8. NoEventLost BY DEF Init, NoEventLost
<1>9. NoEdgeLost BY DEF Init, NoEdgeLost
<1> QED BY <1>1, <1>2, <1>3, <1>4, <1>5, <1>6, <1>7, <1>8, <1>9 DEF DispInv

LEMMA DispStep ==
  ASSUME DispInv, [Next]_vars
  PROVE  DispInv'
<1>0. /\ Types /\ ThreadInv /\ Linked /\ PoolInv /\ HeapInv /\ SleepInv
      /\ RefsMatch /\ NoEventLost /\ NoEdgeLost
  BY DEF DispInv
<1>1. InHand /\ Ordered(theap, msec) BY <1>0 DEF ThreadInv, SleepInv
<1>2. Types' BY <1>0, <1>1, TypesStep
<1>3. ThreadInv' BY <1>0, ThreadStep
<1>4. Linked' BY <1>0, <1>1, LinkedStep
<1>5. PoolInv' BY <1>0, <1>1, PoolStep
<1>6. HeapInv' BY <1>0, HeapStep
<1>7. SleepInv' BY <1>0, <1>3, <1>5, SleepStep
<1>8. RefsMatch' BY <1>0, <1>1, <1>2, RefsStep
<1>9. NoEventLost' BY <1>0, <1>1, LostStep
<1>10. NoEdgeLost' BY <1>0, <1>2, EdgeStep
<1> QED BY <1>2, <1>3, <1>4, <1>5, <1>6, <1>7, <1>8, <1>9, <1>10 DEF DispInv

LEMMA DispInductive == Spec => []DispInv
<1>1. Init => DispInv BY DispInit
<1>2. DispInv /\ [Next]_vars => DispInv' BY DispStep
<1> QED BY <1>1, <1>2, PTL DEF Spec

\* No count goes below zero, because of what is counted.
LEMMA DispTypes ==
  ASSUME DispInv
  PROVE  TypeOK
<1>0. Types /\ Counted /\ RefsMatch BY DEF DispInv, PoolInv
<1>1. \A S \in SUBSET Threads : Cardinality(S) \in Nat
  <2>1. IsFiniteSet(Threads) BY XEventAssumption
  <2> QED BY <2>1, FS_Subset, FS_CardinalityType
<1>2. numThread \in Nat /\ numIdle \in Nat
  <2>1. Cardinality(Alive) \in Nat /\ Cardinality(Spawners) \in Nat /\ Cardinality(Idlers) \in Nat
    BY <1>1 DEF Alive, Spawners, Idlers
  <2>2. toStart \in Nat BY <1>0 DEF Types
  <2> QED BY <1>0, <2>1, <2>2 DEF Counted
<1>3. refs \in [Handlers -> Nat]
  <2>1. ASSUME NEW h \in Handlers PROVE refs[h] \in Nat
    <3>1. Cardinality(Entries(fheap, h)) \in Nat /\ Cardinality(Entries(theap, h)) \in Nat
      BY <1>0, EntriesFinite DEF Types
    <3>2. Cardinality(Live(h)) \in Nat BY <1>1 DEF Live
    <3>3. Len(chain[h]) \in Nat
      <4>1. chain[h] \in Seq(EventMans) BY <1>0 DEF Types
      <4> QED BY <4>1
    <3>4. Under(h) \in Nat BY <3>2, <3>3 DEF Under
    <3>5. refs[h] = (IF h \in FdHandlers THEN IF fd2hr[FdOf[h]] = h THEN 1 ELSE 0 ELSE 0)
                    + Cardinality(Entries(fheap, h)) + Cardinality(Entries(theap, h)) + Under(h)
      BY <1>0 DEF RefsMatch
    <3> QED BY <3>1, <3>4, <3>5
  <2>2. refs \in [Handlers -> Int] BY <1>0 DEF Types
  <2> QED BY <2>1, <2>2
<1> QED BY <1>0, <1>2, <1>3 DEF Types, TypeOK

\* At most one runs: the set of those that run has no two elements.
LEMMA DispSerial ==
  ASSUME DispInv
  PROVE  Serialised
<1>0. Linked BY DEF DispInv
<1> SUFFICES ASSUME NEW h \in Handlers \ Concurrent
             PROVE  /\ Cardinality({t \in Live(h) : pc[t] # "evm"}) <= 1
                    /\ chain[h] # <<>> => {t \in Live(h) : pc[t] # "evm"} # {}
  BY DEF Serialised
<1>1. {t \in Live(h) : pc[t] # "evm"} = Runs(h) BY DEF Live, Runs
<1>2. (\A t, u \in Runs(h) : t = u) /\ (busy[h] <=> Runs(h) # {}) /\ (chain[h] # <<>> => busy[h]) BY <1>0 DEF Linked
<1>3. Cardinality(Runs(h)) <= 1
  <2>1. CASE Runs(h) = {} BY <2>1, FS_EmptySet
  <2>2. CASE Runs(h) # {}
    <3>1. PICK t \in Runs(h) : Runs(h) = {t} BY <1>2, <2>2
    <3>2. Cardinality({t}) = 1 BY FS_Singleton
    <3> QED BY <3>1, <3>2
  <2> QED BY <2>1, <2>2
<1> QED BY <1>1, <1>2, <1>3

\* EpollDisp, every operation: each variable keeps its type; in particular
\* _numThread, _numIdle and the reference counts never go below zero, whatever
\* the order of spawning, reaping, failing new_thread() and decRef().
THEOREM DispTypeCorrect == Spec => []TypeOK
<1>1. DispInv => TypeOK BY DispTypes
<1> QED BY <1>1, DispInductive, PTL

\* incRef()/decRef() in addFd, _do_add_fd, removeFd, the loop after
\* epoll_wait(), addTask, replaceTask, removeTask, destroy and clear_handlers:
\* the dispatcher holds one reference for each place a handler is in.
THEOREM DispRefsMatch == Spec => []RefsMatch
<1>1. DispInv => RefsMatch BY DEF DispInv
<1> QED BY <1>1, DispInductive, PTL

\* can_run() and EventMan::destroy(): the events of a handler that is not
\* concurrent run one after the other, and the linked ones have a runner.
THEOREM DispSerialised == Spec => []Serialised
<1>1. DispInv => Serialised BY DispSerial
<1> QED BY <1>1, DispInductive, PTL

\* readyFd(), the loop after epoll_wait() and nextEvent(): an event posted to a
\* handler stays in the heap or in an EventMan until the handler was called.
THEOREM DispNoEventLost == Spec => []NoEventLost
<1>1. DispInv => NoEventLost BY DEF DispInv
<1> QED BY <1>1, DispInductive, PTL

\* epoll_ctl, epoll_wait() and doit(): that a descriptor has become readable is
\* never forgotten, although an edge is reported only once.
THEOREM DispNoEdgeLost == Spec => []NoEdgeLost
<1>1. DispInv => NoEdgeLost BY DEF DispInv
<1> QED BY <1>1, DispInductive, PTL

\* _timeout and interrupt(): the leader never sleeps in epoll_wait() past work
\* that is there, unless the byte that wakes it is on its way.
THEOREM DispLeaderAwake == Spec => []LeaderAwake
<1>1. DispInv => LeaderAwake BY DEF DispInv, SleepInv
<1> QED BY <1>1, DispInductive, PTL

\* nextEvent(), the reaping of idle threads: only a canceled dispatcher loses
\* its last thread and clears its handlers.
THEOREM DispNeverDeserted == Spec => []NeverDeserted
<1>1. DispInv => NeverDeserted BY DEF DispInv, PoolInv, Manned, NeverDeserted
<1> QED BY <1>1, DispInductive, PTL
=============================================================================
