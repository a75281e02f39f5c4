------------------------------- MODULE XTimer -------------------------------
(***************************************************************************)
(* The timer of xslib, XTimer.cpp: a heap of tasks ordered by the time at  *)
(* which they are due, a thread that sleeps in poll() until the first one  *)
(* is due, and a pipe by which other threads wake it when they put a task  *)
(* in front of the one it sleeps for.  The heap and the flag are protected *)
(* by a mutex; the clock is read before it is taken and the pipe is        *)
(* written after it is released, so a call is up to three steps.           *)
(***************************************************************************)
EXTENDS Integers, FiniteSets

CONSTANTS
  Tasks,       \* XTimerTask objects
  Users,       \* threads that call the timer
  Timeouts,    \* the timeouts they give, in ticks of the clock
  MAX_TIMEOUT, \* the longest poll()
  MaxTime,     \* bound on the clock
  MaxCalls,    \* bound on the calls of the users
  Quiet,       \* do the users keep off the timer once it is canceled?
  None         \* no task

ASSUME TimerAssumption ==
  /\ Timeouts \subseteq Nat
  /\ MAX_TIMEOUT \in Nat \ {0}
  /\ MaxTime \in Nat
  /\ MaxCalls \in Nat
  /\ Quiet \in BOOLEAN
  /\ None \notin Tasks
  /\ "wait" \notin Users

VARIABLES
  now,      \* exact_mono_msec()
  heap,     \* the tasks in _heap, those with _index >= 0
  msec,     \* XTimerTask::_msec; removeTask and the timer thread leave it
  seen,     \* tasks that have been given to the timer before
  canceled, \* _canceled
  pipe,     \* is there a byte in the pipe?
  call,     \* call[u]: the call thread u is in
  calls,    \* calls made so far
  pc,       \* where wait_thread is
  wnow,     \* its local now (its locals are 0 where they are not used)
  base,     \* wnow + timeout, the time it means to sleep to
  until,    \* when poll() will return without an event
  task      \* the task it is running

userVars == <<call, calls>>
waitVars == <<pc, wnow, base, until, task>>
heapVars == <<heap, msec, seen, canceled>>
vars == <<now, heapVars, pipe, userVars, waitVars>>

Idle == [op |-> "idle", task |-> None, msec |-> 0]

(* The timer thread makes calls too, in the runTimerTask() of a task.      *)
Threads == Users \cup {"wait"}

Init ==
  /\ now = 0
  /\ heap = {}
  /\ msec = [t \in Tasks |-> 0]
  /\ seen = {}
  /\ canceled = FALSE
  /\ pipe = FALSE
  /\ call = [u \in Threads |-> Idle]
  /\ calls = 0
  /\ pc = "off"
  /\ wnow = 0
  /\ base = 0
  /\ until = 0
  /\ task = None

\* _heap.top() is one of these.
First == {t \in heap : \A s \in heap : msec[t] <= msec[s]}
\* Faulty variant: an empty heap asks for no interrupt.
TopIsAfterNonEmpty(m) == heap # {} /\ \A t \in heap : msec[t] > m
TopIsAfter(m) == \A t \in heap : msec[t] > m

-----------------------------------------------------------------------------
(* Calls                                                                   *)

MayCall(u) == /\ call[u].op = "idle"
              /\ calls < MaxCalls
              /\ Quiet => ~canceled

\* Faulty variant: the timeout is counted backwards.
BeginEarlier(u, op, t, d) ==
  /\ MayCall(u)
  /\ call' = [call EXCEPT ![u] = [op |-> op, task |-> t, msec |-> now - d]]
  /\ calls' = calls + 1
  /\ seen' = seen \cup {t}
  /\ UNCHANGED <<now, heap, msec, canceled, pipe, waitVars>>

\* The clock is read, the mutex not yet taken.
Begin(u, op, t, d) ==
  /\ MayCall(u)
  /\ call' = [call EXCEPT ![u] = [op |-> op, task |-> t, msec |-> now + d]]
  /\ calls' = calls + 1
  /\ seen' = seen \cup {t}
  /\ UNCHANGED <<now, heap, msec, canceled, pipe, waitVars>>

\* The users of addTask() give it a new task; a task created with
\* XTimerTask::create gives itself again, in the timer thread, after it has run.
BeginAdd(u, t, d) ==
  /\ \/ u \in Users /\ t \notin seen
     \/ u = "wait" /\ pc = "run" /\ t = task /\ d > 0
  /\ Begin(u, "add", t, d)

BeginReplace(u, op, t, d) ==
  /\ u \in Users
  /\ op \in {"replace", "later"}
  /\ \A v \in Threads : ~(call[v].op = "add" /\ call[v].task = t)
  /\ Begin(u, op, t, d)

\* The locked part ends: the call returns, or the pipe is to be written.
Return(u) == call' = [call EXCEPT ![u] = Idle]
Leave(u, interrupt) ==
  call' = [call EXCEPT ![u] = IF interrupt THEN [@ EXCEPT !.op = "write"] ELSE Idle]

Push(t, m) ==
  /\ heap' = heap \cup {t}
  /\ msec' = [msec EXCEPT ![t] = m]

\* NB: the top is compared with the task's old _msec.
AddTask(u) ==
  LET t == call[u].task
  IN /\ call[u].op = "add"
     /\ \/ /\ canceled \/ t \in heap
           /\ Return(u)
           /\ UNCHANGED <<heap, msec>>
        \/ /\ ~canceled /\ t \notin heap
           /\ Leave(u, TopIsAfter(msec[t]))
           /\ Push(t, call[u].msec)
     /\ UNCHANGED <<now, seen, canceled, pipe, calls, waitVars>>

\* replaceTask() keeps a task that is due at the same time,
\* replaceTaskLaterThan() one that is not due later.
Kept(u) ==
  LET m == msec[call[u].task]
  IN IF call[u].op = "replace" THEN m = call[u].msec ELSE m <= call[u].msec

ReplaceTask(u) ==
  LET t == call[u].task
  IN /\ call[u].op \in {"replace", "later"}
     /\ \/ /\ canceled \/ (t \in heap /\ Kept(u))
           /\ Return(u)
           /\ UNCHANGED <<heap, msec>>
        \/ /\ ~canceled /\ ~(t \in heap /\ Kept(u))
           /\ Leave(u, TopIsAfter(call[u].msec))
           /\ Push(t, call[u].msec)
     /\ UNCHANGED <<now, seen, canceled, pipe, calls, waitVars>>

Interrupt(u) ==
  /\ call[u].op = "write"
  /\ pipe' = TRUE
  /\ Return(u)
  /\ UNCHANGED <<now, heapVars, calls, waitVars>>

RemoveTask(u, t) ==
  /\ MayCall(u)
  /\ t \in heap
  /\ heap' = heap \ {t}
  /\ calls' = calls + 1
  /\ UNCHANGED <<now, msec, seen, canceled, pipe, call, waitVars>>

\* Every _msec becomes the current time, which keeps the heap a heap.
RunAllWaitingTasks(u) ==
  /\ MayCall(u)
  /\ heap # {}
  /\ msec' = [t \in Tasks |-> IF t \in heap THEN now ELSE msec[t]]
  /\ pipe' = TRUE
  /\ calls' = calls + 1
  /\ UNCHANGED <<now, heap, seen, canceled, call, waitVars>>

Cancel(u) ==
  /\ MayCall(u)
  /\ ~canceled
  /\ canceled' = TRUE
  /\ pipe' = TRUE
  /\ calls' = calls + 1
  /\ UNCHANGED <<now, heap, msec, seen, call, waitVars>>

Start ==
  /\ pc = "off"
  /\ pc' = "loop"
  /\ UNCHANGED <<now, heapVars, pipe, userVars, wnow, base, until, task>>

-----------------------------------------------------------------------------
(* wait_thread()                                                           *)

\* while (!_canceled): the flag is read without the lock.
Loop ==
  /\ pc = "loop"
  /\ pc' = IF canceled THEN "cleanup" ELSE "scan"
  /\ wnow' = now
  /\ UNCHANGED <<now, heapVars, pipe, userVars, base, until, task>>

\* Look at the top; then, without the lock, poll() for the rest of the time.
Scan ==
  /\ pc = "scan"
  /\ \E m \in {msec[t] : t \in First} \cup (IF heap = {} THEN {wnow + MAX_TIMEOUT} ELSE {}) :
       LET timeout == IF m - wnow > MAX_TIMEOUT THEN MAX_TIMEOUT ELSE m - wnow
       IN IF timeout > 0
          THEN pc' = "poll" /\ base' = wnow + timeout /\ until' = now + timeout
          ELSE pc' = "clock" /\ UNCHANGED <<base, until>>
  /\ wnow' = 0
  /\ UNCHANGED <<now, heapVars, pipe, userVars, task>>

\* poll() returns: an interrupt, whose bytes are read, or the timeout.  The
\* bound on the clock ends every timeout.
Wake ==
  /\ pc = "poll"
  /\ pipe \/ now >= until \/ now = MaxTime
  /\ pipe' = FALSE
  /\ pc' = "clock"
  /\ base' = 0 /\ until' = 0
  /\ UNCHANGED <<now, heapVars, userVars, wnow, task>>

ReadClock ==
  /\ pc = "clock"
  /\ wnow' = now
  /\ pc' = "due"
  /\ UNCHANGED <<now, heapVars, pipe, userVars, base, until, task>>

\* Take the first task if it is due, and run it without the lock.
PopDue(t) ==
  /\ pc = "due"
  /\ t \in First
  /\ msec[t] <= wnow
  /\ heap' = heap \ {t}
  /\ task' = t
  /\ pc' = "run"
  /\ UNCHANGED <<now, msec, seen, canceled, pipe, userVars, wnow, base, until>>

NoneDue ==
  /\ pc = "due"
  /\ TopIsAfter(wnow)
  /\ pc' = "loop"
  /\ wnow' = 0
  /\ UNCHANGED <<now, heapVars, pipe, userVars, base, until, task>>

\* Faulty variant: an exception of runTimerTask() ends the thread.
RunDoneThrows ==
  /\ pc = "run"
  /\ call["wait"].op = "idle"
  /\ task' = None
  /\ pc' = "end"
  /\ UNCHANGED <<now, heapVars, pipe, userVars, wnow, base, until>>

\* runTimerTask() returns.
RunDone ==
  /\ pc = "run"
  /\ call["wait"].op = "idle"
  /\ task' = None
  /\ pc' = "due"
  /\ UNCHANGED <<now, heapVars, pipe, userVars, wnow, base, until>>

\* The timer is canceled: the heap is emptied without the lock.
Cleanup ==
  /\ pc = "cleanup"
  /\ IF heap = {} THEN pc' = "end" /\ UNCHANGED heap
     ELSE (\E t \in First : heap' = heap \ {t}) /\ UNCHANGED pc
  /\ UNCHANGED <<now, msec, seen, canceled, pipe, userVars, wnow, base, until, task>>

Tick ==
  /\ now < MaxTime
  /\ now' = now + 1
  /\ UNCHANGED <<heapVars, pipe, userVars, waitVars>>

-----------------------------------------------------------------------------
UserStep(u) ==
  \/ \E t \in Tasks, d \in Timeouts :
       BeginAdd(u, t, d) \/ \E op \in {"replace", "later"} : BeginReplace(u, op, t, d)
  \/ u \in Users /\ \E t \in Tasks : RemoveTask(u, t)
  \/ u \in Users /\ (RunAllWaitingTasks(u) \/ Cancel(u))

\* A call goes on, once it has begun.
CallStep(u) == AddTask(u) \/ ReplaceTask(u) \/ Interrupt(u)

WaitStep ==
  \/ Loop \/ Scan \/ Wake \/ ReadClock \/ NoneDue \/ RunDone \/ Cleanup
  \/ \E t \in Tasks : PopDue(t)

Next ==
  \/ Start \/ Tick \/ WaitStep
  \/ \E u \in Threads : UserStep(u) \/ CallStep(u)

Spec == Init /\ [][Next]_vars

(* The threads run, the tasks return, and time passes.                     *)
Fairness ==
  /\ WF_vars(WaitStep)
  /\ WF_vars(Tick)
  /\ \A u \in Threads : WF_vars(CallStep(u))

FairSpec == Spec /\ Fairness

-----------------------------------------------------------------------------
(* Every variable has its type.                                            *)
TypeOK ==
  /\ now \in Nat
  /\ heap \in SUBSET Tasks
  /\ msec \in [Tasks -> Nat]
  /\ seen \in SUBSET Tasks
  /\ canceled \in BOOLEAN
  /\ pipe \in BOOLEAN
  /\ call \in [Threads -> [op : {"idle", "add", "replace", "later", "write"},
                           task : Tasks \cup {None}, msec : Nat]]
  /\ calls \in Nat
  /\ pc \in {"off", "loop", "scan", "poll", "clock", "due", "run", "cleanup", "end"}
  /\ wnow \in Nat
  /\ base \in Nat
  /\ until \in Nat
  /\ task \in Tasks \cup {None}

\* A byte is in the pipe, or a thread is about to put one there.
Waking == pipe \/ \E u \in Threads : call[u].op = "write"

(* The timer thread does not sleep past a task: while it is in poll() with *)
(* no interrupt on the way, it means to wake no later than any task of the *)
(* heap is due, and the timer is not canceled.  This is what the           *)
(* comparison with the top before each push is for (XTimer.cpp:151, 178,   *)
(* 219).                                                                   *)
NoOversleep ==
  pc = "poll" /\ ~Waking => ~canceled /\ \A t \in heap : base <= msec[t]

\* Calls that hold a task and have not yet taken the mutex.
Pending(u) == call[u].op \in {"add", "replace", "later"}

(* The inductive invariant behind NoOversleep: a task given to addTask()   *)
(* is unknown to everyone else and still has the _msec of its constructor, *)
(* so that the comparison with the old _msec errs on the safe side; the    *)
(* timer thread makes calls only while it runs a task; and the byte that   *)
(* cancel() writes stays in the pipe until the thread is awake.            *)
FreshIsUntouched ==
  \A t \in Tasks : t \notin seen =>
    /\ t \notin heap /\ msec[t] = 0 /\ task # t
    /\ \A u \in Threads : Pending(u) => call[u].task # t
AddOfFresh ==
  \A u \in Users : call[u].op = "add" =>
    /\ call[u].task \notin heap /\ msec[call[u].task] = 0 /\ task # call[u].task
    /\ \A v \in Threads : Pending(v) /\ call[v].task = call[u].task => v = u
CallsHaveTasks ==
  /\ \A u \in Threads : Pending(u) => call[u].task \in Tasks /\ call[u].task \in seen
  /\ call["wait"].op # "idle" => pc = "run"
  /\ pc = "run" => task \in Tasks /\ task \in seen
  /\ heap \subseteq seen
CancelWakes == canceled /\ pc \in {"scan", "poll"} => pipe
TimerInv ==
  /\ TypeOK /\ FreshIsUntouched /\ AddOfFresh /\ CallsHaveTasks
  /\ CancelWakes /\ NoOversleep

(* A due task is run, unless it is removed or put off or the timer is      *)
(* canceled.                                                               *)
DueTaskRuns ==
  \A t \in Tasks :
    (pc # "off" /\ t \in heap /\ msec[t] <= now)
      ~> (t \notin heap \/ msec[t] > now \/ canceled)

=============================================================================
