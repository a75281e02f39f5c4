---------------------------- MODULE XTimerProofs ----------------------------
(***************************************************************************)
(* NoOversleep of the timer, for every set of tasks and threads, every     *)
(* timeout and every bound.                                                *)
(***************************************************************************)
EXTENDS XTimer, TLAPS

(* addTask() reads the clock.                                              *)
LEMMA BeginAddStep ==
  ASSUME TimerInv,
         NEW u \in Threads, NEW t \in Tasks, NEW d \in Timeouts,
         BeginAdd(u, t, d)
  PROVE  TimerInv'
<1> USE TimerAssumption
    DEF TimerInv, TypeOK, Pending, BeginAdd, Begin, MayCall, Threads,
        heapVars, userVars, waitVars
<1>1. TypeOK'
  OBVIOUS
<1>2. FreshIsUntouched'
  BY DEF FreshIsUntouched, CallsHaveTasks
<1>3. AddOfFresh'
  BY DEF AddOfFresh, FreshIsUntouched, CallsHaveTasks
<1>4. CallsHaveTasks'
  BY DEF CallsHaveTasks
<1>5. CancelWakes'
  BY DEF CancelWakes, CallsHaveTasks
<1>6. NoOversleep'
  BY DEF NoOversleep, Waking, CancelWakes, AddOfFresh, CallsHaveTasks
<1> QED BY <1>1, <1>2, <1>3, <1>4, <1>5, <1>6

(* replaceTask() and replaceTaskLaterThan() read the clock.                *)
LEMMA BeginReplaceStep ==
  ASSUME TimerInv,
         NEW u \in Threads, NEW op \in {"replace", "later"},
         NEW t \in Tasks, NEW d \in Timeouts, BeginReplace(u, op, t, d)
  PROVE  TimerInv'
<1> USE TimerAssumption
    DEF TimerInv, TypeOK, Pending, BeginReplace, Begin, MayCall,
        Threads, heapVars, userVars, waitVars
<1>1. TypeOK'
  OBVIOUS
<1>2. FreshIsUntouched'
  BY DEF FreshIsUntouched, CallsHaveTasks
<1>3. AddOfFresh'
  BY DEF AddOfFresh, FreshIsUntouched, CallsHaveTasks
<1>4. CallsHaveTasks'
  BY DEF CallsHaveTasks
<1>5. CancelWakes'
  BY DEF CancelWakes, CallsHaveTasks
<1>6. NoOversleep'
  BY DEF NoOversleep, Waking, CancelWakes, AddOfFresh, CallsHaveTasks
<1> QED BY <1>1, <1>2, <1>3, <1>4, <1>5, <1>6

(* addTask(), under the lock.                                              *)
LEMMA AddTaskStep ==
  ASSUME TimerInv,
         NEW u \in Threads, AddTask(u)
  PROVE  TimerInv'
<1> USE TimerAssumption
    DEF TimerInv, TypeOK, Pending, AddTask, Return, Leave, Push,
        TopIsAfter, Idle, Threads, heapVars, userVars,
        waitVars
<1>1. TypeOK'
  BY DEF CallsHaveTasks
<1>2. FreshIsUntouched'
  BY DEF FreshIsUntouched, CallsHaveTasks
<1>3. AddOfFresh'
  BY DEF AddOfFresh, FreshIsUntouched, CallsHaveTasks
<1>4. CallsHaveTasks'
  BY DEF CallsHaveTasks
<1>5. CancelWakes'
  BY DEF CancelWakes, CallsHaveTasks
<1>6. NoOversleep'
  BY DEF NoOversleep, Waking, CancelWakes, AddOfFresh, CallsHaveTasks
<1> QED BY <1>1, <1>2, <1>3, <1>4, <1>5, <1>6

(* replaceTask() and replaceTaskLaterThan(), under the lock.               *)
LEMMA ReplaceTaskStep ==
  ASSUME TimerInv,
         NEW u \in Threads, ReplaceTask(u)
  PROVE  TimerInv'
<1> USE TimerAssumption
    DEF TimerInv, TypeOK, Pending, ReplaceTask, Return, Leave, Push,
        TopIsAfter, Idle, Threads, heapVars, userVars,
        waitVars
<1>1. TypeOK'
  BY DEF CallsHaveTasks
<1>2. FreshIsUntouched'
  BY DEF FreshIsUntouched, CallsHaveTasks
<1>3. AddOfFresh'
  BY DEF AddOfFresh, FreshIsUntouched, CallsHaveTasks
<1>4. CallsHaveTasks'
  BY DEF CallsHaveTasks
<1>5. CancelWakes'
  BY DEF CancelWakes, CallsHaveTasks
<1>6. NoOversleep'
  BY DEF NoOversleep, Waking, CancelWakes, AddOfFresh, CallsHaveTasks
<1> QED BY <1>1, <1>2, <1>3, <1>4, <1>5, <1>6

(* The pipe is written.                                                    *)
LEMMA InterruptStep ==
  ASSUME TimerInv,
         NEW u \in Threads, Interrupt(u)
  PROVE  TimerInv'
<1> USE TimerAssumption
    DEF TimerInv, TypeOK, Pending, Interrupt, Return, Idle, Threads,
        heapVars, userVars, waitVars
<1>1. TypeOK'
  OBVIOUS
<1>2. FreshIsUntouched'
  BY DEF FreshIsUntouched, CallsHaveTasks
<1>3. AddOfFresh'
  BY DEF AddOfFresh, FreshIsUntouched, CallsHaveTasks
<1>4. CallsHaveTasks'
  BY DEF CallsHaveTasks
<1>5. CancelWakes'
  BY DEF CancelWakes, CallsHaveTasks
<1>6. NoOversleep'
  BY DEF NoOversleep, Waking, CancelWakes, AddOfFresh, CallsHaveTasks
<1> QED BY <1>1, <1>2, <1>3, <1>4, <1>5, <1>6

(* removeTask().                                                           *)
LEMMA RemoveTaskStep ==
  ASSUME TimerInv,
         NEW u \in Users, NEW t \in Tasks, RemoveTask(u, t)
  PROVE  TimerInv'
<1> USE TimerAssumption
    DEF TimerInv, TypeOK, Pending, RemoveTask, Threads, heapVars,
        userVars, waitVars
<1>1. TypeOK'
  OBVIOUS
<1>2. FreshIsUntouched'
  BY DEF FreshIsUntouched, CallsHaveTasks
<1>3. AddOfFresh'
  BY DEF AddOfFresh, FreshIsUntouched, CallsHaveTasks
<1>4. CallsHaveTasks'
  BY DEF CallsHaveTasks
<1>5. CancelWakes'
  BY DEF CancelWakes, CallsHaveTasks
<1>6. NoOversleep'
  BY DEF NoOversleep, Waking, CancelWakes, AddOfFresh, CallsHaveTasks
<1> QED BY <1>1, <1>2, <1>3, <1>4, <1>5, <1>6

(* runAllWaitingTasks().                                                   *)
LEMMA RunAllStep ==
  ASSUME TimerInv,
         NEW u \in Users, RunAllWaitingTasks(u)
  PROVE  TimerInv'
<1> USE TimerAssumption
    DEF TimerInv, TypeOK, Pending, RunAllWaitingTasks, Threads,
        heapVars, userVars, waitVars
<1>1. TypeOK'
  OBVIOUS
<1>2. FreshIsUntouched'
  BY DEF FreshIsUntouched, CallsHaveTasks
<1>3. AddOfFresh'
  BY DEF AddOfFresh, FreshIsUntouched, CallsHaveTasks
<1>4. CallsHaveTasks'
  BY DEF CallsHaveTasks
<1>5. CancelWakes'
  BY DEF CancelWakes, CallsHaveTasks
<1>6. NoOversleep'
  BY DEF NoOversleep, Waking, CancelWakes, AddOfFresh, CallsHaveTasks
<1> QED BY <1>1, <1>2, <1>3, <1>4, <1>5, <1>6

(* cancel().                                                               *)
LEMMA CancelStep == ASSUME TimerInv, NEW u \in Users, Cancel(u) PROVE TimerInv'
<1> USE TimerAssumption
    DEF TimerInv, TypeOK, Pending, Cancel, Threads, heapVars,
        userVars, waitVars
<1>1. TypeOK'
  OBVIOUS
<1>2. FreshIsUntouched'
  BY DEF FreshIsUntouched, CallsHaveTasks
<1>3. AddOfFresh'
  BY DEF AddOfFresh, FreshIsUntouched, CallsHaveTasks
<1>4. CallsHaveTasks'
  BY DEF CallsHaveTasks
<1>5. CancelWakes'
  BY DEF CancelWakes, CallsHaveTasks
<1>6. NoOversleep'
  BY DEF NoOversleep, Waking, CancelWakes, AddOfFresh, CallsHaveTasks
<1> QED BY <1>1, <1>2, <1>3, <1>4, <1>5, <1>6

(* The timer thread looks at the top of the heap.                          *)
LEMMA ScanStep == ASSUME TimerInv, Scan PROVE TimerInv'
<1> USE TimerAssumption
    DEF TimerInv, TypeOK, Pending, Scan, First, Threads, heapVars,
        userVars, waitVars
<1>1. TypeOK'
  OBVIOUS
<1>2. FreshIsUntouched'
  BY DEF FreshIsUntouched, CallsHaveTasks
<1>3. AddOfFresh'
  BY DEF AddOfFresh, FreshIsUntouched, CallsHaveTasks
<1>4. CallsHaveTasks'
  BY DEF CallsHaveTasks
<1>5. CancelWakes'
  BY DEF CancelWakes, CallsHaveTasks
<1>6. NoOversleep'
  BY DEF NoOversleep, Waking, CancelWakes, AddOfFresh, CallsHaveTasks
<1> QED BY <1>1, <1>2, <1>3, <1>4, <1>5, <1>6

(* The timer thread takes a due task.                                      *)
LEMMA PopDueStep == ASSUME TimerInv, NEW t \in Tasks, PopDue(t) PROVE TimerInv'
<1> USE TimerAssumption
    DEF TimerInv, TypeOK, Pending, PopDue, First, Threads, heapVars,
        userVars, waitVars
<1>1. TypeOK'
  OBVIOUS
<1>2. FreshIsUntouched'
  BY DEF FreshIsUntouched, CallsHaveTasks
<1>3. AddOfFresh'
  BY DEF AddOfFresh, FreshIsUntouched, CallsHaveTasks
<1>4. CallsHaveTasks'
  BY DEF CallsHaveTasks
<1>5. CancelWakes'
  BY DEF CancelWakes, CallsHaveTasks
<1>6. NoOversleep'
  BY DEF NoOversleep, Waking, CancelWakes, AddOfFresh, CallsHaveTasks
<1> QED BY <1>1, <1>2, <1>3, <1>4, <1>5, <1>6

(* The canceled timer thread empties the heap.                             *)
LEMMA CleanupStep == ASSUME TimerInv, Cleanup PROVE TimerInv'
<1> USE TimerAssumption
    DEF TimerInv, TypeOK, Pending, Cleanup, First, Threads, heapVars,
        userVars, waitVars
<1>1. TypeOK'
  OBVIOUS
<1>2. FreshIsUntouched'
  BY DEF FreshIsUntouched, CallsHaveTasks
<1>3. AddOfFresh'
  BY DEF AddOfFresh, FreshIsUntouched, CallsHaveTasks
<1>4. CallsHaveTasks'
  BY DEF CallsHaveTasks
<1>5. CancelWakes'
  BY DEF CancelWakes, CallsHaveTasks
<1>6. NoOversleep'
  BY DEF NoOversleep, Waking, CancelWakes, AddOfFresh, CallsHaveTasks
<1> QED BY <1>1, <1>2, <1>3, <1>4, <1>5, <1>6

(* The other steps of the timer thread, its start, and the clock.          *)
LEMMA ThreadStep ==
  ASSUME TimerInv,
         Start \/ Tick \/ Loop \/ Wake \/ ReadClock \/ NoneDue \/
         RunDone
  PROVE  TimerInv'
<1> USE TimerAssumption
    DEF TimerInv, TypeOK, Pending, Start, Tick, Loop, Wake, ReadClock,
        NoneDue, RunDone, TopIsAfter, Threads, heapVars,
        userVars, waitVars
<1>1. TypeOK'
  <2>1. CASE Start BY <2>1
  <2>2. CASE Tick BY <2>2
  <2>3. CASE Loop BY <2>3
  <2>4. CASE Wake BY <2>4
  <2>5. CASE ReadClock BY <2>5
  <2>6. CASE NoneDue BY <2>6
  <2>7. CASE RunDone BY <2>7
  <2> QED BY <2>1, <2>2, <2>3, <2>4, <2>5, <2>6, <2>7
<1>2. FreshIsUntouched'
  BY DEF FreshIsUntouched, CallsHaveTasks
<1>3. AddOfFresh'
  BY DEF AddOfFresh, FreshIsUntouched, CallsHaveTasks
<1>4. CallsHaveTasks'
  BY DEF CallsHaveTasks
<1>5. CancelWakes'
  BY DEF CancelWakes, CallsHaveTasks
<1>6. NoOversleep'
  BY DEF NoOversleep, Waking, CancelWakes, AddOfFresh, CallsHaveTasks
<1> QED BY <1>1, <1>2, <1>3, <1>4, <1>5, <1>6

(* TimerInv holds of the timer that the constructor makes.                 *)
LEMMA TimerInvInit == ASSUME Init PROVE TimerInv
BY TimerAssumption
DEF Init, TimerInv, TypeOK, FreshIsUntouched, AddOfFresh, CallsHaveTasks,
    CancelWakes, NoOversleep, Pending, Idle, Threads

(* Every step keeps TimerInv.                                              *)
LEMMA TimerInvStep == ASSUME TimerInv, [Next]_vars PROVE TimerInv'
<1>1. CASE UNCHANGED vars
  BY <1>1
  DEF vars, heapVars, userVars, waitVars, TimerInv, TypeOK, FreshIsUntouched,
      AddOfFresh, CallsHaveTasks, CancelWakes, NoOversleep, Waking, Pending
<1>2. ASSUME NEW u \in Threads, UserStep(u) PROVE TimerInv'
  BY <1>2, BeginAddStep, BeginReplaceStep, RemoveTaskStep, RunAllStep, CancelStep
  DEF UserStep
<1>3. ASSUME NEW u \in Threads, CallStep(u) PROVE TimerInv'
  BY <1>3, AddTaskStep, ReplaceTaskStep, InterruptStep DEF CallStep
<1>4. CASE WaitStep
  BY <1>4, ScanStep, PopDueStep, CleanupStep, ThreadStep DEF WaitStep
<1>5. CASE Start \/ Tick
  BY <1>5, ThreadStep
<1> QED BY <1>1, <1>2, <1>3, <1>4, <1>5 DEF Next

(* Every variable of the timer always has its type.                        *)
THEOREM TimerTypeCorrect == Spec => []TypeOK
<1>1. Spec => []TimerInv
  BY TimerInvInit, TimerInvStep, PTL DEF Spec
<1>2. TimerInv => TypeOK
  BY DEF TimerInv
<1> QED BY <1>1, <1>2, PTL

(* The timer thread never sleeps past a task of the heap, nor past a       *)
(* cancel(), unless a byte to wake it is in the pipe or about to be        *)
(* (wait_thread and the three calls that push, XTimer.cpp:138-245).        *)
THEOREM TimerNoOversleep == Spec => []NoOversleep
<1>1. Spec => []TimerInv
  BY TimerInvInit, TimerInvStep, PTL DEF Spec
<1>2. TimerInv => NoOversleep
  BY DEF TimerInv
<1> QED BY <1>1, <1>2, PTL
=============================================================================
