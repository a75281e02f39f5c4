------------------------------- MODULE XEvent -------------------------------
(***************************************************************************)
(* The event dispatcher of xslib (EpollDisp in XEvent.cpp).  A pool of     *)
(* threads runs work(): one thread at a time is the leader, sits in        *)
(* epoll_wait() and takes the next event out of nextEvent(); it gives the  *)
(* leadership up before it runs the event's handler.  Any thread may call  *)
(* addFd, readyFd, addTask, ... meanwhile; they change the dispatcher under*)
(* its lock and, if the leader may be asleep, write one byte to a pipe     *)
(* after they have released the lock.                                      *)
(*                                                                         *)
(* Every block the code runs under the lock is one step.  Events are READ  *)
(* (reported by the kernel) and WRITE (posted by readyFd); milliseconds are*)
(* small numbers, ids (_fd_lastid) are positions in the heap: fheap is in  *)
(* the order in which its entries pop.                                     *)
(***************************************************************************)
EXTENDS Integers, Sequences, FiniteSets, SequencesExt, FiniteSetsExt

CONSTANTS
  Threads,        \* identities for the threads of the pool
  FdHandlers,     \* handlers of file descriptors
  Tasks,          \* handlers of timeouts
  Fds,            \* file descriptors
  FdOf,           \* the descriptor each FdHandler is used with
  Edge, OneShot,  \* FdHandlers added with EDGE_TRIGGER, with ONE_SHOT
  Concurrent,     \* handlers constructed with EventHandler(true)
  MinThread,      \* threadMin of setThreadPool()
  MaxNow,         \* bound: last millisecond of the run
  Delays,         \* timeouts passed to addTask() and replaceTask()
  Setups,         \* handlers used together and threadMax of setThreadPool(); bound: the
                  \* EventMans there may be when an event is posted
  MaxIntr,        \* bound: callers between the unlock and write()
  None

Handlers == FdHandlers \cup Tasks
Pipe == "pipe"
MaxTimeout == MaxNow + 1
Unset == -1
EventMans == [hr : Handlers, events : SUBSET {"READ", "WRITE"}]

ASSUME XEventAssumption ==
  /\ FdOf \in [FdHandlers -> Fds]
  /\ Edge \cup OneShot \subseteq FdHandlers
  /\ FdHandlers \cap Tasks = {} /\ None \notin Handlers \cup Threads \cup EventMans
  /\ IsFiniteSet(Threads)
  /\ Pipe \notin Fds /\ Concurrent \subseteq Handlers
  /\ Setups \subseteq [used : SUBSET Handlers, threads : Nat, pending : Nat]
  /\ MinThread \in Nat \ {0} /\ \A s \in Setups : s.threads >= MinThread
  /\ MaxNow \in Nat /\ Delays \subseteq Nat

VARIABLES
  setup,                       \* the handlers there are (chosen once)
  started, toStart,            \* start(): called; threads it still has to create
  pc, leader, evm,             \* per thread: place in work() and EventMan in hand; _leader
  got,                         \* what epoll_wait() reported and is still to be handled
  fheap, fget, findex, fref,   \* _fheap; _eventsGet, _index >= 0; entries up to _fd_ref_id
  theap, msec, tref,           \* _theap; _msec; _tm_ref_msec
  fd2hr,                       \* _fd2hr
  busy, chain,                 \* _lastEvent # 0; the EventMans linked behind the running one
  refs,                        \* references the dispatcher holds on a handler
  asks, wake,                  \* _timeout # 0; when the epoll_wait() in progress times out
  numThread, numIdle, spawning, idleMark,
  canceled, cleared,           \* _canceled; clear_handlers() has run
  intr, pipe,                  \* callers about to write the interrupt; a byte is in the pipe
  waiter,                      \* the caller of waitForCancel()
  data, kready, armed,         \* the kernel: readable; to be reported; not disabled by ONESHOT
  now,
  owed, overslept, evicted     \* history: posted, not yet run; a stale _msec hid an interrupt;
                               \* its index is wrong since _do_add_fd() reset another one's

poolVars == <<numThread, numIdle, spawning, idleMark>>
fdVars == <<fheap, fget, findex, fref, fd2hr>>
taskVars == <<theap, msec, tref>>
kernelVars == <<data, kready, armed>>
runVars == <<pc, leader, evm, got, busy, chain>>
history == <<owed, evicted>>
intrVars == <<intr, pipe>>
endVars == <<canceled, cleared, waiter>>
startVars == <<setup, started, toStart>>
sleepVars == <<asks, wake, overslept>>
vars == <<startVars, runVars, fdVars, taskVars, refs, sleepVars, poolVars, endVars,
          intrVars, kernelVars, now, owed, evicted>>

MaxThread == setup.threads

Init ==
  /\ setup \in Setups
  /\ started = FALSE /\ toStart = 0
  /\ pc = [t \in Threads |-> "off"]
  /\ leader = None
  /\ evm = [t \in Threads |-> None]
  /\ got = {}
  /\ fheap = <<>> /\ fref = Unset
  /\ fget = [h \in FdHandlers |-> {}]
  /\ findex = [h \in FdHandlers |-> FALSE]
  /\ fd2hr = [fd \in Fds |-> None]
  /\ theap = <<>> /\ tref = 0
  /\ msec = [k \in Tasks |-> 0]
  /\ busy = [h \in Handlers |-> FALSE]
  /\ chain = [h \in Handlers |-> <<>>]
  /\ refs = [h \in Handlers |-> 0]
  /\ asks = TRUE /\ wake = MaxTimeout /\ overslept = FALSE
  /\ numThread = 0 /\ numIdle = 0 /\ spawning = FALSE /\ idleMark = "zero"
  /\ canceled = FALSE /\ cleared = FALSE /\ waiter = "none"
  /\ intr = 0 /\ pipe = FALSE
  /\ data = [fd \in Fds |-> FALSE]
  /\ kready = [fd \in Fds |-> FALSE]
  /\ armed = [fd \in Fds |-> FALSE]
  /\ now = 1
  /\ owed = [h \in FdHandlers |-> {}] /\ evicted = {}

-----------------------------------------------------------------------------
(* Events under way, and the bound on them. *)

\* EventMans of handler h that have been created and not yet destroyed.
Live(h) == {t \in Threads : evm[t] # None /\ evm[t].hr = h}
Under(h) == Cardinality(Live(h)) + Len(chain[h])
InFheap(h) == h \in Range(fheap)
\* Bound: nothing is posted any more once an index has gone wrong.
Bounded == evicted = {} /\ MapThenSumSet(Under, setup.used) < setup.pending

\* Faulty variant: the byte is never written.
InterruptNever(yes) == UNCHANGED intr

\* The interrupt is written after the unlock: the caller is then one of intr.
Interrupt(yes) == intr' = intr + (IF yes THEN 1 ELSE 0)

\* XHeap::erase() of the entry of h (the latest, should h be there twice);
\* fref counts the entries up to _fd_ref_id.
Entries(heap, h) == {i \in DOMAIN heap : heap[i] = h}
EntryOf(heap, h) == Max(Entries(heap, h))
Without(heap, h) == RemoveAt(heap, EntryOf(heap, h))
FrefWithout(h) == IF EntryOf(fheap, h) <= fref THEN fref - 1 ELSE fref

\* What is still owed to h when its heap entry goes: what its EventMans carry.
Carried(h) == UNION ({evm[t].events : t \in {u \in Live(h) : pc[u] # "ran"}}
                     \cup {chain[h][i].events : i \in DOMAIN chain[h]})

-----------------------------------------------------------------------------
(* File descriptors: called by any thread. *)

\* A handler still registered for fd is thrown out.  If it is in the heap its
\* entry goes too, and the index that is reset is that of the new handler.
_do_add_fd(h, ok) ==
  LET fd == FdOf[h]
      old == fd2hr[fd]
      erase == old # None /\ findex[old] /\ InFheap(old)
  IN /\ fd2hr' = [fd2hr EXCEPT ![fd] = IF ok THEN h ELSE None]
     /\ fheap' = IF erase THEN Without(fheap, old) ELSE fheap
     /\ fref' = IF erase THEN FrefWithout(old) ELSE fref
     /\ findex' = IF erase THEN [findex EXCEPT ![h] = FALSE] ELSE findex
     /\ refs' = [x \in Handlers |-> refs[x] + (IF x = h /\ ok THEN 1 ELSE 0)
                                    - (IF x = old THEN IF erase THEN 2 ELSE 1 ELSE 0)]
     /\ owed' = [x \in FdHandlers |-> IF x = old THEN Carried(old) ELSE owed[x]]
     /\ kready' = [kready EXCEPT ![fd] = ok /\ data[fd]]
     /\ armed' = [armed EXCEPT ![fd] = ok]
     /\ evicted' = evicted \cup (IF erase THEN {old} \cup {x \in {h} : findex[x]} ELSE {})
     /\ UNCHANGED <<fget, data>>

addFd(h) ==
  /\ ~canceled /\ fd2hr[FdOf[h]] # h /\ ~findex[h] /\ Bounded
  /\ \E ok \in BOOLEAN : _do_add_fd(h, ok)
  /\ UNCHANGED <<startVars, runVars, taskVars, sleepVars, poolVars, endVars, intrVars, now>>

\* Modify: EPOLL_CTL_MOD makes the kernel look at the descriptor again.  The
\* asked events of a handler are fixed here, so only ONE_SHOT reaches it.
replaceFdModify(h) ==
  /\ ~canceled /\ fd2hr[FdOf[h]] = h /\ h \in OneShot /\ Bounded
  /\ kready' = [kready EXCEPT ![FdOf[h]] = data[FdOf[h]]]
  /\ armed' = [armed EXCEPT ![FdOf[h]] = TRUE]
  /\ UNCHANGED <<startVars, runVars, fdVars, taskVars, refs, sleepVars, poolVars, endVars,
                 intrVars, data, now, history>>

\* Add: unlike addFd it does not ask whether h is in the heap.
replaceFdAdd(h) ==
  /\ ~canceled /\ fd2hr[FdOf[h]] # h /\ Bounded
  /\ \E ok \in BOOLEAN : _do_add_fd(h, ok)
  /\ UNCHANGED <<startVars, runVars, taskVars, sleepVars, poolVars, endVars, intrVars, now>>

removeFd(h) ==
  LET fd == FdOf[h]
      reg == fd2hr[fd] = h
      erase == findex[h] /\ InFheap(h)
  IN /\ reg \/ findex[h]
     /\ fd2hr' = IF reg THEN [fd2hr EXCEPT ![fd] = None] ELSE fd2hr
     /\ kready' = IF reg THEN [kready EXCEPT ![fd] = FALSE] ELSE kready
     /\ armed' = IF reg THEN [armed EXCEPT ![fd] = FALSE] ELSE armed
     /\ fheap' = IF erase THEN Without(fheap, h) ELSE fheap
     /\ fref' = IF erase THEN FrefWithout(h) ELSE fref
     /\ findex' = IF erase THEN [findex EXCEPT ![h] = FALSE] ELSE findex
     /\ refs' = [refs EXCEPT ![h] = @ - (IF reg THEN 1 ELSE 0) - (IF erase THEN 1 ELSE 0)]
     /\ owed' = [owed EXCEPT ![h] = Carried(h)]
     /\ UNCHANGED <<fget, data, startVars, runVars, taskVars, sleepVars, poolVars, endVars,
                    intrVars, now, evicted>>

\* Events get to a handler that waits in the heap by joining those it has.
Push(h, events) ==
  /\ fget' = [fget EXCEPT ![h] = events]
  /\ findex' = [findex EXCEPT ![h] = TRUE]
  /\ fheap' = Append(fheap, h)

\* Faulty variant: the new events take the place of those that wait.
CombineReplaces(h, events) ==
  /\ fget' = [fget EXCEPT ![h] = events]
  /\ UNCHANGED <<findex, fheap>>

\* Faulty variant: a handler that is in the heap is not told of more.
CombineDrops(h, events) == UNCHANGED <<fget, findex, fheap>>

Combine(h, events) ==
  /\ fget' = [fget EXCEPT ![h] = @ \cup events]
  /\ UNCHANGED <<findex, fheap>>

readyFd(h) ==
  /\ ~canceled /\ Bounded /\ intr < MaxIntr
  /\ owed' = [owed EXCEPT ![h] = @ \cup {"WRITE"}]
  /\ IF findex[h]
     THEN Combine(h, {"WRITE"}) /\ UNCHANGED <<refs, intr>>
     ELSE /\ Push(h, {"WRITE"})
          /\ refs' = [refs EXCEPT ![h] = @ + 1]
          /\ Interrupt(asks)
  /\ UNCHANGED <<fref, fd2hr, startVars, runVars, taskVars, sleepVars, poolVars, endVars,
                 pipe, kernelVars, now, evicted>>

\* write(_inter_wfd, "I", 1), after the unlock.
WriteInterrupt ==
  /\ intr > 0
  /\ intr' = intr - 1
  /\ pipe' = (pipe \/ ~cleared)
  /\ UNCHANGED <<startVars, runVars, fdVars, taskVars, refs, sleepVars, poolVars, endVars,
                 kernelVars, now, history>>

-----------------------------------------------------------------------------
(* Tasks: theap is in the order (_msec, _id). *)

InTheap(k) == k \in Range(theap)
TopMsec == msec[Head(theap)]
NotLater(heap, when) == {i \in DOMAIN heap : msec[heap[i]] <= when}

\* The task gets a new _id: it comes after all others of the same millisecond.
Insert(k, when) ==
  LET rest == IF InTheap(k) THEN Without(theap, k) ELSE theap
  IN /\ theap' = InsertAt(rest, Cardinality(NotLater(rest, when)) + 1, k)
     /\ msec' = [msec EXCEPT ![k] = when]

\* Faulty variant: an empty heap needs no interrupt.
TopLaterNonEmpty(when) == theap # <<>> /\ TopMsec > when

\* The leader, if it sleeps, sleeps too long for a task of this time.
TopLater(when) == theap = <<>> \/ TopMsec > when

\* addTask() asks whether the top is later than the msec the handler has had
\* from its last time in the heap, not than the one it is given now.
addTask(k) ==
  /\ ~canceled /\ ~InTheap(k) /\ Bounded /\ intr < MaxIntr
  /\ \E d \in Delays :
       LET yes == asks /\ TopLater(msec[k])
       IN /\ now + d <= MaxNow
          /\ Insert(k, now + d)
          /\ Interrupt(yes)
          /\ overslept' = (overslept \/ (asks /\ ~yes /\ theap # <<>> /\ TopMsec > now + d))
  /\ refs' = [refs EXCEPT ![k] = @ + 1]
  /\ UNCHANGED <<tref, asks, wake, startVars, runVars, fdVars, poolVars, endVars, pipe,
                 kernelVars, now, history>>

\* replaceTask(): the same millisecond leaves the task alone, and then returns
\* before the interrupt is written.
replaceTask(k) ==
  /\ ~canceled /\ Bounded /\ intr < MaxIntr
  /\ \E d \in Delays :
       LET when == now + d
           same == InTheap(k) /\ msec[k] = when
       IN /\ when <= MaxNow
          /\ IF same THEN UNCHANGED <<theap, msec, intr>>
                     ELSE /\ Insert(k, when)
                          /\ Interrupt(asks /\ TopLater(when))
  /\ refs' = [refs EXCEPT ![k] = IF InTheap(k) THEN @ ELSE @ + 1]
  /\ UNCHANGED <<tref, sleepVars, startVars, runVars, fdVars, poolVars, endVars, pipe,
                 kernelVars, now, history>>

\* replaceTaskLaterThan(): only ever brings a waiting task forward.
replaceTaskLaterThan(k) ==
  /\ ~canceled /\ Bounded /\ intr < MaxIntr
  /\ \E d \in Delays :
       LET when == now + d
           keep == InTheap(k) /\ msec[k] <= when
       IN /\ when <= MaxNow
          /\ IF keep THEN UNCHANGED <<theap, msec, intr>>
                     ELSE /\ Insert(k, when)
                          /\ Interrupt(asks /\ TopLater(when))
  /\ refs' = [refs EXCEPT ![k] = IF InTheap(k) THEN @ ELSE @ + 1]
  /\ UNCHANGED <<tref, sleepVars, startVars, runVars, fdVars, poolVars, endVars, pipe,
                 kernelVars, now, history>>

\* Faulty variant: the index is not looked at.
removeTaskTwice(k) ==
  /\ theap' = IF InTheap(k) THEN Without(theap, k) ELSE theap
  /\ refs' = [refs EXCEPT ![k] = @ - 1]
  /\ UNCHANGED <<msec, tref, startVars, runVars, fdVars, sleepVars, poolVars, endVars,
                 intrVars, kernelVars, now, history>>

removeTask(k) ==
  /\ InTheap(k)
  /\ theap' = Without(theap, k)
  /\ refs' = [refs EXCEPT ![k] = @ - 1]
  /\ UNCHANGED <<msec, tref, startVars, runVars, fdVars, sleepVars, poolVars, endVars,
                 intrVars, kernelVars, now, history>>

-----------------------------------------------------------------------------
(* The pool: start(), work(), nextEvent(). *)

start ==
  /\ ~started /\ ~canceled
  /\ started' = TRUE /\ toStart' = MinThread /\ UNCHANGED setup
  /\ numThread' = MinThread /\ numIdle' = MinThread
  /\ UNCHANGED <<spawning, idleMark, runVars, fdVars, taskVars, refs, sleepVars, endVars,
                 intrVars, kernelVars, now, history>>

\* One round of start()'s loop: new_thread(false), which may fail.
startThread ==
  /\ toStart > 0
  /\ toStart' = toStart - 1
  /\ \/ /\ \E t \in Threads : pc[t] = "off" /\ pc' = [pc EXCEPT ![t] = "new"]
        /\ UNCHANGED <<numThread, numIdle>>
     \/ /\ numThread' = numThread - 1 /\ numIdle' = numIdle - 1
        /\ UNCHANGED pc
  /\ UNCHANGED <<setup, started, spawning, idleMark, leader, evm, got, busy, chain, fdVars, taskVars,
                 refs, sleepVars, endVars, intrVars, kernelVars, now, history>>

Goto(t, place) == pc' = [pc EXCEPT ![t] = place]

workStart(t) ==
  /\ pc[t] = "new" /\ Goto(t, "loop")
  /\ spawning' = FALSE
  /\ UNCHANGED <<startVars, leader, evm, got, busy, chain, fdVars, taskVars, refs, sleepVars,
                 numThread, numIdle, idleMark, endVars, intrVars, kernelVars, now, history>>

\* while (_leader != NON_THREAD) _cond.wait(); a signalled thread tries again.
lead(t) ==
  /\ pc[t] = "loop"
  /\ IF leader # None THEN Goto(t, "wait") /\ UNCHANGED leader
                      ELSE Goto(t, "next") /\ leader' = t
  /\ UNCHANGED <<startVars, evm, got, busy, chain, fdVars, taskVars, refs, sleepVars, poolVars,
                 endVars, intrVars, kernelVars, now, history>>

\* nextEvent(), the block under the lock, up to the places where it returns.
Overmanned == numThread > MinThread
\* Faulty variant: the leader also goes when it is the only idle thread.
ReapsLast == numThread >= MinThread /\ numIdle > 0 /\ idleMark = "elapsed"
Reaps == Overmanned /\ numIdle > 1 /\ idleMark = "elapsed"
MarkIdle ==
  idleMark' = IF ~Overmanned THEN idleMark
              ELSE IF numIdle <= 1 THEN "zero"
              ELSE IF idleMark = "zero" THEN "set" ELSE idleMark
\* Faulty variant: no snapshot, whatever is in the heap is taken first.
FrefAll == Len(fheap)
Fref == IF fref = Unset THEN Len(fheap) ELSE fref
Tref == IF tref = 0 THEN now ELSE tref

nextNull(t) ==
  /\ pc[t] = "next"
  /\ \/ canceled /\ UNCHANGED idleMark
     \/ ~canceled /\ Reaps /\ idleMark' = "set"
  /\ evm' = [evm EXCEPT ![t] = None] /\ Goto(t, "give")
  /\ UNCHANGED <<startVars, leader, got, busy, chain, fdVars, taskVars, refs, sleepVars,
                 numThread, numIdle, spawning, endVars, intrVars, kernelVars, now, history>>

\* Only what was in the heap when the leader first looked since epoll_wait().
nextFd(t) ==
  /\ pc[t] = "next" /\ ~canceled /\ ~Reaps /\ MarkIdle
  /\ fheap # <<>> /\ Fref > 0
  /\ fref' = Fref - 1 /\ fheap' = Tail(fheap)
  /\ findex' = [findex EXCEPT ![Head(fheap)] = FALSE]
  /\ fget' = [fget EXCEPT ![Head(fheap)] = {}]  \* not read again before it is set
  /\ evm' = [evm EXCEPT ![t] = [hr |-> Head(fheap), events |-> fget[Head(fheap)]]]
  /\ Goto(t, "evm")
  /\ UNCHANGED <<fd2hr, startVars, leader, got, busy, chain, taskVars, refs, sleepVars,
                 numThread, numIdle, spawning, endVars, intrVars, kernelVars, now, history>>

nextTask(t) ==
  /\ pc[t] = "next" /\ ~canceled /\ ~Reaps /\ MarkIdle
  /\ fheap # <<>> => Fref <= 0
  /\ theap # <<>> /\ TopMsec <= Tref
  /\ fref' = IF fheap = <<>> THEN fref ELSE Fref
  /\ tref' = Tref /\ theap' = Tail(theap)
  /\ evm' = [evm EXCEPT ![t] = [hr |-> Head(theap), events |-> {}]]
  /\ Goto(t, "evm")
  /\ UNCHANGED <<msec, fheap, fget, findex, fd2hr, startVars, leader, got, busy, chain, refs,
                 sleepVars, numThread, numIdle, spawning, endVars, intrVars, kernelVars, now,
                 history>>

\* Nothing to return: _timeout is set and the lock released for epoll_wait().
nextSleep(t) ==
  LET fdTime == IF fheap = <<>> THEN MaxTimeout ELSE now
      tmTime == IF theap = <<>> THEN MaxTimeout ELSE Max({TopMsec, now})
  IN /\ pc[t] = "next" /\ ~canceled /\ ~Reaps /\ MarkIdle
     /\ fheap # <<>> => Fref <= 0
     /\ theap # <<>> => TopMsec > Tref
     /\ fref' = IF fheap = <<>> THEN fref ELSE Fref
     /\ tref' = IF theap = <<>> THEN tref ELSE Tref
     /\ wake' = Min({fdTime, tmTime}) /\ asks' = (wake' > now)
     /\ Goto(t, "epoll")
     /\ UNCHANGED <<overslept, theap, msec, fheap, fget, findex, fd2hr, startVars, leader, evm,
                    got, busy, chain, refs, numThread, numIdle, spawning, endVars, intrVars,
                    kernelVars, now, history>>

\* epoll_wait() returns: edges and one-shot events are reported once.  What
\* the leader resets without the lock (_tm_ref_msec, _fd_ref_id, _timeout) it
\* resets before anyone can tell: a caller that still saw a _timeout would
\* only write one interrupt more.
Reported == {fd \in Fds : kready[fd]} \cup (IF pipe THEN {Pipe} ELSE {})
Woken == fref' = Unset /\ tref' = 0 /\ asks' = FALSE /\ wake' = MaxTimeout /\ overslept' = FALSE

epollReady(t) ==
  /\ pc[t] = "epoll" /\ Reported # {}
  /\ got' = Reported /\ Goto(t, "got") /\ Woken
  /\ kready' = [fd \in Fds |-> kready[fd] /\ fd2hr[fd] \notin Edge \cup OneShot]
  /\ armed' = [fd \in Fds |-> armed[fd] /\ ~(kready[fd] /\ fd2hr[fd] \in OneShot)]
  /\ UNCHANGED <<startVars, leader, evm, busy, chain, fheap, fget, findex, fd2hr, theap, msec,
                 refs, poolVars, endVars, intrVars, data, now, history>>

epollTimeout(t) ==
  /\ pc[t] = "epoll" /\ Reported = {} /\ now >= wake
  /\ Goto(t, "next") /\ Woken
  /\ UNCHANGED <<startVars, leader, evm, got, busy, chain, fheap, fget, findex, fd2hr, theap,
                 msec, refs, poolVars, endVars, intrVars, kernelVars, now, history>>

\* epoll_wait() fails: EINTR goes on as a timeout does, anything else cancels.
epollError(t) ==
  /\ pc[t] = "epoll" /\ Reported = {} /\ Woken
  /\ \/ Goto(t, "next") /\ UNCHANGED <<evm, canceled>>
     \/ canceled' = TRUE /\ evm' = [evm EXCEPT ![t] = None] /\ Goto(t, "give")
  /\ UNCHANGED <<startVars, leader, got, busy, chain, fheap, fget, findex, fd2hr, theap, msec,
                 refs, poolVars, cleared, waiter, intrVars, kernelVars, now, history>>

\* The loop over what was reported; after the last one, goto again.
Handled(t, x) ==
  /\ pc[t] = "got" /\ x \in got
  /\ got' = got \ {x}
  /\ Goto(t, IF got' = {} THEN "next" ELSE "got")

gotPipe(t) ==
  /\ Handled(t, Pipe)
  /\ pipe' = FALSE
  /\ UNCHANGED <<startVars, leader, evm, busy, chain, fdVars, taskVars, refs, sleepVars,
                 poolVars, endVars, intr, kernelVars, now, history>>

\* References: incRef for an entry beside the one in epoll; or the reference of
\* epoll becomes that of the entry, or is dropped if there is an entry.
\* Faulty variant: incRef also when the events are combined.
RefsOnEventAlways(h, special) == IF special THEN 1 ELSE IF findex[h] THEN -1 ELSE 0
RefsOnEvent(h, special) ==
  IF special THEN IF findex[h] THEN 0 ELSE 1 ELSE IF findex[h] THEN -1 ELSE 0

\* One reported descriptor, under the lock: it goes to the handler that has
\* the descriptor now.  A level-triggered handler is taken out of epoll, and
\* the reference it had there becomes that of its heap entry.
gotFd(t, fd) ==
  LET h == fd2hr[fd]
      special == h \in Edge \cup OneShot
  IN /\ Handled(t, fd)
     /\ IF h = None
        THEN UNCHANGED <<fheap, fget, findex, fd2hr, refs, kready, armed, owed>>
        ELSE /\ owed' = [owed EXCEPT ![h] = @ \cup {"READ"}]
             /\ IF findex[h] THEN Combine(h, {"READ"}) ELSE Push(h, {"READ"})
             /\ refs' = [refs EXCEPT ![h] = @ + RefsOnEvent(h, special)]
             /\ fd2hr' = IF special THEN fd2hr ELSE [fd2hr EXCEPT ![fd] = None]
             /\ kready' = IF special THEN kready ELSE [kready EXCEPT ![fd] = FALSE]
             /\ armed' = IF special THEN armed ELSE [armed EXCEPT ![fd] = FALSE]
     /\ UNCHANGED <<fref, data, startVars, leader, evm, busy, chain, taskVars, sleepVars,
                    poolVars, endVars, intrVars, now, evicted>>

\* Faulty variant: events of a handler may always run side by side.
MustQueueNever(h) == FALSE
MustQueue(h) == h \notin Concurrent /\ busy[h]

\* can_run(): while an event of a non-concurrent handler runs, the next one is
\* linked behind it and the leader goes on to look for another event.
can_run(t) ==
  LET h == evm[t].hr
  IN /\ pc[t] = "evm"
     /\ IF MustQueue(h)
        THEN /\ chain' = [chain EXCEPT ![h] = Append(@, evm[t])]
             /\ evm' = [evm EXCEPT ![t] = None]
             /\ Goto(t, "next") /\ UNCHANGED busy
        ELSE /\ busy' = [busy EXCEPT ![h] = h \notin Concurrent]
             /\ Goto(t, "give") /\ UNCHANGED <<chain, evm>>
     /\ UNCHANGED <<startVars, leader, got, fdVars, taskVars, refs, sleepVars, poolVars, endVars,
                    intrVars, kernelVars, now, history>>

\* Faulty variant: no thread is signalled.
SignalNone(t, place) == Goto(t, place)

\* t goes on to place; _cond.signal() wakes one waiting thread, if there is one.
Signal(t, place) ==
  LET waiting == {u \in Threads : pc[u] = "wait"}
  IN IF waiting = {} THEN Goto(t, place)
     ELSE \E u \in waiting : pc' = [pc EXCEPT ![t] = place, ![u] = "loop"]

\* The leadership is given up and one waiting thread signalled; the thread
\* leaves the idle ones, and a new one is spawned if none is left.
giveUp(t) ==
  LET idle == numIdle - 1
      spawn == numThread < MaxThread /\ idle <= 0 /\ ~spawning
      place == IF evm[t] = None THEN "exit" ELSE IF spawn THEN "spawn" ELSE "run"
  IN /\ pc[t] = "give" /\ leader' = None
     /\ Signal(t, place)
     /\ IF evm[t] = None
        THEN UNCHANGED poolVars
        ELSE /\ idleMark' = IF idle <= 1 THEN "zero" ELSE idleMark
             /\ spawning' = (spawning \/ spawn)
             /\ numThread' = IF spawn THEN numThread + 1 ELSE numThread
             /\ numIdle' = IF spawn THEN numIdle ELSE idle
     /\ UNCHANGED <<startVars, evm, got, busy, chain, fdVars, taskVars, refs, sleepVars, endVars,
                    intrVars, kernelVars, now, history>>

spawnFailed ==
  /\ spawning' = FALSE /\ numThread' = numThread - 1 /\ numIdle' = numIdle - 1
  /\ UNCHANGED idleMark

\* new_thread(true); a failure is undone.
new_thread(t) ==
  /\ pc[t] = "spawn"
  /\ \/ /\ \E u \in Threads : pc[u] = "off" /\ pc' = [pc EXCEPT ![t] = "run", ![u] = "new"]
        /\ UNCHANGED poolVars
     \/ Goto(t, "run") /\ spawnFailed
  /\ UNCHANGED <<startVars, leader, evm, got, busy, chain, fdVars, taskVars, refs, sleepVars,
                 endVars, intrVars, kernelVars, now, history>>

\* doit(): the handler of a readable descriptor reads until there is no more.
doit(t) ==
  LET e == evm[t]
  IN /\ pc[t] = "run" /\ Goto(t, "ran")
     /\ owed' = IF e.hr \in FdHandlers THEN [owed EXCEPT ![e.hr] = @ \ e.events] ELSE owed
     /\ data' = IF "READ" \in e.events THEN [data EXCEPT ![FdOf[e.hr]] = FALSE] ELSE data
     /\ kready' = IF "READ" \in e.events THEN [kready EXCEPT ![FdOf[e.hr]] = FALSE] ELSE kready
     /\ UNCHANGED <<armed, startVars, leader, evm, got, busy, chain, fdVars, taskVars, refs,
                    sleepVars, poolVars, endVars, intrVars, now, evicted>>

\* destroy(): on to the event linked behind this one, if there is one; else the
\* thread is idle again.
destroy(t) ==
  LET h == evm[t].hr
      more == chain[h] # <<>>
  IN /\ pc[t] = "ran" /\ Goto(t, IF more THEN "run" ELSE "loop")
     /\ evm' = [evm EXCEPT ![t] = IF more THEN Head(chain[h]) ELSE None]
     /\ chain' = [chain EXCEPT ![h] = IF more THEN Tail(@) ELSE @]
     /\ busy' = [busy EXCEPT ![h] = @ /\ more]
     /\ refs' = [refs EXCEPT ![h] = @ - 1]
     /\ numIdle' = IF more THEN numIdle ELSE numIdle + 1
     /\ UNCHANGED <<numThread, spawning, idleMark, startVars, leader, got, fdVars, taskVars,
                    sleepVars, endVars, intrVars, kernelVars, now, history>>

\* The end of work().  The last thread wakes waitForCancel() and lets go of
\* everything (clear_handlers); an index >= 0 stays in the handlers.
workEnd(t) ==
  LET last == numThread = 1
      InQueue(h) == h \in FdHandlers /\ fd2hr[FdOf[h]] = h
      Held(h) == (IF InQueue(h) THEN 1 ELSE 0)
                 + Cardinality(Entries(fheap, h)) + Cardinality(Entries(theap, h))
  IN /\ pc[t] = "exit" /\ Goto(t, "off")
     /\ numThread' = numThread - 1 /\ numIdle' = numIdle - 1
     /\ IF ~last
        THEN UNCHANGED <<cleared, waiter, fheap, fd2hr, theap, refs, kready, armed, pipe, owed>>
        ELSE /\ cleared' = TRUE
             /\ waiter' = IF waiter = "wait" THEN "woken" ELSE waiter
             /\ fheap' = <<>> /\ theap' = <<>> /\ fd2hr' = [fd \in Fds |-> None]
             /\ refs' = [h \in Handlers |-> refs[h] - Held(h)]
             /\ kready' = [fd \in Fds |-> FALSE] /\ armed' = [fd \in Fds |-> FALSE]
             /\ pipe' = FALSE
             /\ owed' = [h \in FdHandlers |-> {}]
     /\ UNCHANGED <<spawning, idleMark, fget, findex, fref, msec, tref, startVars, leader, evm,
                    got, busy, chain, sleepVars, canceled, intr, data, now, evicted>>

cancel ==
  /\ intr < MaxIntr
  /\ canceled' = TRUE /\ Interrupt(TRUE)
  /\ UNCHANGED <<startVars, runVars, fdVars, taskVars, refs, sleepVars, poolVars, cleared,
                 waiter, pipe, kernelVars, now, history>>

\* waitForCancel(): start(), then wait while there are threads.
waitForCancel ==
  /\ started /\ toStart = 0 /\ waiter \in {"none", "woken"}
  /\ waiter' = IF numThread > 0 THEN "wait" ELSE "done"
  /\ UNCHANGED <<startVars, runVars, fdVars, taskVars, refs, sleepVars, poolVars, canceled,
                 cleared, intrVars, kernelVars, now, history>>

-----------------------------------------------------------------------------
(* The environment: the kernel and the clock. *)

\* Data arrive; a registered descriptor that is not disabled becomes ready.
arrive(fd) ==
  /\ data' = [data EXCEPT ![fd] = TRUE]
  /\ kready' = [kready EXCEPT ![fd] = fd2hr[fd] # None /\ armed[fd]]
  /\ Bounded
  /\ UNCHANGED <<armed, startVars, runVars, fdVars, taskVars, refs, sleepVars, poolVars, endVars,
                 intrVars, now, history>>

tick ==
  /\ setup.used \cap Tasks # {}  \* bound: no one else looks at the clock
  /\ now < MaxNow /\ now' = now + 1
  /\ UNCHANGED <<startVars, runVars, fdVars, taskVars, refs, sleepVars, poolVars, endVars,
                 intrVars, kernelVars, history>>

\* IDLE_INTERVAL has passed; a thread told to go takes less than that to go.
idleElapse ==
  /\ idleMark = "set" /\ idleMark' = "elapsed"
  /\ \A t \in Threads : ~(pc[t] \in {"give", "exit"} /\ evm[t] = None)
  /\ UNCHANGED <<numThread, numIdle, spawning, startVars, runVars, fdVars, taskVars, refs,
                 sleepVars, endVars, intrVars, kernelVars, now, history>>

-----------------------------------------------------------------------------
epoll(t) == epollReady(t) \/ epollTimeout(t)
work(t) ==
  \/ workStart(t) \/ lead(t) \/ nextNull(t) \/ nextFd(t) \/ nextTask(t) \/ nextSleep(t)
  \/ epoll(t) \/ gotPipe(t) \/ (\E fd \in Fds : gotFd(t, fd))
  \/ can_run(t) \/ giveUp(t) \/ new_thread(t) \/ doit(t) \/ destroy(t)
  \/ workEnd(t)

Next ==
  \/ start \/ startThread \/ cancel \/ waitForCancel \/ WriteInterrupt \/ tick \/ idleElapse
  \/ \E h \in FdHandlers \cap setup.used :
       addFd(h) \/ replaceFdModify(h) \/ replaceFdAdd(h) \/ removeFd(h) \/ readyFd(h)
  \/ \E k \in Tasks \cap setup.used : addTask(k) \/ replaceTask(k) \/ replaceTaskLaterThan(k) \/ removeTask(k)
  \/ \E t \in Threads : work(t) \/ epollError(t)
  \/ \E fd \in {FdOf[h] : h \in FdHandlers \cap setup.used} : arrive(fd)

Spec == Init /\ [][Next]_vars

\* Threads are scheduled, handlers return, a caller that left the lock gets to
\* its write(), and time passes.
Fairness ==
  /\ \A t \in Threads : WF_vars(work(t))
  /\ WF_vars(WriteInterrupt) /\ WF_vars(startThread) /\ WF_vars(waitForCancel) /\ WF_vars(tick)

FairSpec == Spec /\ Fairness

-----------------------------------------------------------------------------
(* Properties. *)

Places == {"off", "new", "loop", "wait", "next", "epoll", "got", "evm", "give", "spawn", "run",
           "ran", "exit"}

TypeOK ==
  /\ pc \in [Threads -> Places] /\ leader \in Threads \cup {None}
  /\ evm \in [Threads -> EventMans \cup {None}] /\ got \subseteq Fds \cup {Pipe}
  /\ fheap \in Seq(FdHandlers) /\ fget \in [FdHandlers -> SUBSET {"READ", "WRITE"}]
  /\ findex \in [FdHandlers -> BOOLEAN] /\ fref \in Int
  /\ theap \in Seq(Tasks) /\ msec \in [Tasks -> Nat] /\ tref \in Nat
  /\ fd2hr \in [Fds -> FdHandlers \cup {None}]
  /\ busy \in [Handlers -> BOOLEAN] /\ chain \in [Handlers -> Seq(EventMans)]
  /\ refs \in [Handlers -> Nat]
  /\ asks \in BOOLEAN /\ wake \in Nat /\ overslept \in BOOLEAN
  /\ numThread \in Nat /\ numIdle \in Nat /\ spawning \in BOOLEAN
  /\ idleMark \in {"zero", "set", "elapsed"}
  /\ setup \in Setups /\ started \in BOOLEAN /\ toStart \in Nat
  /\ canceled \in BOOLEAN /\ cleared \in BOOLEAN
  /\ waiter \in {"none", "wait", "woken", "done"}
  /\ intr \in Nat /\ pipe \in BOOLEAN
  /\ data \in [Fds -> BOOLEAN] /\ kready \in [Fds -> BOOLEAN] /\ armed \in [Fds -> BOOLEAN]
  /\ now \in Nat /\ evicted \subseteq FdHandlers /\ owed \in [FdHandlers -> SUBSET {"READ", "WRITE"}]

\* Reference counting (incRef/decRef in every operation): the dispatcher holds
\* exactly one reference for the epoll queue, one for each heap entry and one
\* for each EventMan, so a handler is freed neither early nor never.
RefsMatch ==
  \A h \in Handlers :
    refs[h] = (IF h \in FdHandlers THEN IF fd2hr[FdOf[h]] = h THEN 1 ELSE 0 ELSE 0)
              + Cardinality(Entries(fheap, h)) + Cardinality(Entries(theap, h)) + Under(h)

\* Serialisation (can_run/destroy): two threads never run the handler of a
\* handler that is not concurrent, and what waits behind it has a runner.
Serialised ==
  \A h \in Handlers \ Concurrent :
    LET runs == {t \in Live(h) : pc[t] # "evm"}
    IN /\ Cardinality(runs) <= 1
       /\ chain[h] # <<>> => runs # {}

\* readyFd, gotFd, nextFd: an event that was posted to a handler is in the
\* heap or carried by an EventMan until the handler has been called with it.
NoEventLost ==
  \A h \in FdHandlers :
    h \in evicted \/ owed[h] \subseteq ((IF InFheap(h) THEN fget[h] ELSE {}) \cup Carried(h))

\* epoll_wait, gotFd, doit: when a descriptor is readable and its handler
\* expects to be told, the news is in the kernel, on the leader's list, in the
\* heap or with a handler call that has not read yet.
NoEdgeLost ==
  \A fd \in Fds :
    LET h == fd2hr[fd]
    IN (h # None /\ data[fd] /\ armed[fd]) =>
         \/ kready[fd] \/ fd \in got \/ h \in evicted
         \/ (InFheap(h) /\ "READ" \in fget[h]) \/ "READ" \in Carried(h)

Coming == pipe \/ intr > 0

\* The interrupt pipe (_timeout read under the lock, write() after it): the
\* leader never sleeps on while there is an event in the heap or the
\* dispatcher is canceled, nor past the first task (addTask, replaceTask),
\* unless the byte that wakes it is on its way.  Tasks are exempt once
\* addTask() was misled by an old _msec.
LeaderAwake ==
  \A t \in Threads : (pc[t] = "epoll" /\ ~Coming) =>
    /\ fheap # <<>> \/ canceled => wake <= now
    /\ theap # <<>> /\ ~overslept => wake <= now \/ wake <= TopMsec

\* Idle reaping (nextNull): without a cancel some thread is always left, if
\* start() could make one: a pool that never had a thread is outside.
NeverDeserted ==
  (cleared /\ started) => canceled

\* Liveness: what was posted to a handler is given to it, unless the handler
\* is taken out, the dispatcher is canceled or it never got a thread.
Posted(h) == "WRITE" \in owed[h] /\ h \notin evicted
PostedIsRun ==
  \A h \in FdHandlers : Posted(h) ~> (~Posted(h) \/ canceled \/ numThread = 0)

\* Liveness: a readable descriptor is read even if other handlers are made
\* ready all the time (_fd_ref_id sends the leader back to epoll_wait).
Readable(fd) == fd2hr[fd] \in Edge /\ data[fd] /\ fd2hr[fd] \notin evicted
KernelNotStarved ==
  \A fd \in Fds : Readable(fd) ~> (~Readable(fd) \/ canceled \/ numThread = 0)

\* Liveness: once canceled, every thread ends and waitForCancel() returns.
CancelEnds ==
  (canceled /\ (\E t \in Threads : pc[t] # "off")) ~>
    (cleared /\ (waiter \in {"none", "done"}) /\ (\A t \in Threads : pc[t] = "off"))
=============================================================================
