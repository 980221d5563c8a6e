-------------------------- MODULE SchedulingProofs --------------------------
(***************************************************************************)
(* Proofs about Scheduling for any set of processes and any slice length.  *)
(***************************************************************************)
EXTENDS Scheduling, KSchedProofs

LEMMA GotoType ==
    ASSUME TypeOK, NEW m \in Mode, Goto(m)
    PROVE  (mode \in [Task -> Mode])'
BY DEF TypeOK, Goto

LEMMA InitType == Init => TypeOK
<1> SUFFICES ASSUME Init PROVE TypeOK
  OBVIOUS
<1>1. run_list \in Seq(Proc)
  BY DEF Init
<1>2. need_resched \in [Task -> BOOLEAN]
  BY Zenon DEF Init
<1>3. mode \in [Task -> Mode]
  BY DEF Init, Home, Mode
<1>4. time_slice \in [Task -> 0 .. MAX_TIME_SLICE]
  BY SliceAssumption DEF Init
<1>5. pstate \in [Task -> State] /\ wait_state \in [Task -> WaitState]
  BY DEF Init, State, WaitState
<1> QED BY <1>1, <1>2, <1>3, <1>4, <1>5 DEF Init, TypeOK, SchedTypeOK, Task

LEMMA NextType == TypeOK /\ [Next]_vars => TypeOK'
<1> SUFFICES ASSUME TypeOK, [Next]_vars PROVE TypeOK'
  OBVIOUS
<1> USE TypeOK
<1>call. AfterCall \in Mode
  BY DEF AfterCall, Mode
<1>1. ASSUME NEW p \in Proc, Fork(p) PROVE TypeOK'
  BY <1>1, <1>call, WakeupType, GotoType DEF Fork, TypeOK
<1>2. ASSUME NEW p \in Proc, WakeOther(p) PROVE TypeOK'
  BY <1>2, <1>call, WakeupType, GotoType DEF WakeOther, TypeOK
<1>3. ASSUME NEW p \in Proc, InterruptWake(p) PROVE TypeOK'
  BY <1>3, WakeupType DEF InterruptWake, TypeOK
<1>4. CASE Yield
  BY <1>4, GotoType DEF Yield, TypeOK, SchedTypeOK, Mode
<1>5. ASSUME NEW why \in WaitState \ {"none"}, Block(why) PROVE TypeOK'
  BY <1>5, SleepType, GotoType DEF Block, TypeOK, Mode
<1>6. CASE Exit
  BY <1>6, GotoType DEF Exit, TypeOK, SchedTypeOK, Mode, State
<1>7. CASE BlockSchedule
  BY <1>7, <1>call, ScheduleType, GotoType DEF BlockSchedule, TypeOK, Mode
<1>8. CASE KernelSchedule
  BY <1>8, ScheduleType DEF KernelSchedule, TypeOK
<1>9. CASE TrapReturn
  BY <1>9, ScheduleType, GotoType DEF TrapReturn, TypeOK, SchedTypeOK, sched_vars, Mode
<1>10. CASE TimerInterrupt
  BY <1>10 DEF TimerInterrupt, TypeOK, SchedTypeOK, sched_vars
<1>11. CASE InterruptReturn
  <2>1. (IF mode[current] = "user" THEN "trapret" ELSE mode[current]) \in Mode
    BY DEF TypeOK, SchedTypeOK, Mode
  <2>2. SchedTypeOK' /\ (mode \in [Task -> Mode])'
    BY <1>11, <2>1, TickType, GotoType DEF InterruptReturn, TypeOK
  <2>3. irq' \in BOOLEAN /\ (ran' = ran \/ ran' = ran + 1)
    BY <1>11 DEF InterruptReturn
  <2>4. ran' \in Nat
    BY <2>3 DEF TypeOK
  <2> QED BY <2>2, <2>3, <2>4 DEF TypeOK
<1>12. CASE UNCHANGED vars
  BY <1>12 DEF vars, sched_vars, TypeOK, SchedTypeOK
<1> QED BY [Next]_vars, <1>1, <1>2, <1>3, <1>4, <1>5, <1>6, <1>7, <1>8, <1>9, <1>10, <1>11, <1>12 DEF Next

(* Every variable keeps its type: in particular no tick takes a time slice *)
(* below zero, and the run queue only ever holds processes.                *)
THEOREM TypeCorrect == Spec => []TypeOK
BY InitType, NextType, PTL DEF Spec

-----------------------------------------------------------------------------
(* The inductive invariant.  RunQueueExact alone does not survive          *)
(* schedule(), Block or a wakeup: it needs to know that the process on the *)
(* hart can run unless it is on its way to schedule(), that only such a    *)
(* process has gone to sleep on the hart, and that idleproc never sleeps.  *)
IdleRuns == pstate[idleproc] = "RUNNABLE"

SafeInv == TypeOK /\ RunQueueExact /\ CurrentCanRun /\ WaitersAsleep /\ IdleRuns

LEMMA SafeInit == Init => SafeInv
<1> SUFFICES ASSUME Init PROVE SafeInv
  OBVIOUS
<1>1. RunQueueExact
  BY EmptyMembers, IdleAssumption DEF Init, RunQueueExact, IsInjective, Task
<1>2. CurrentCanRun /\ IdleRuns
  BY DEF Init, CurrentCanRun, IdleRuns, Task
<1>3. WaitersAsleep
  BY IdleAssumption DEF Init, WaitersAsleep, Task
<1> QED BY <1>1, <1>2, <1>3, InitType DEF SafeInv

(* A wakeup keeps every part but the mode of the process that makes it. *)
LEMMA SafeWakeup ==
    ASSUME SafeInv, NEW p \in Proc, wakeup_proc(p)
    PROVE  RunQueueExact' /\ WaitersAsleep' /\ IdleRuns' /\ current' = current
           /\ (pstate[current] = "RUNNABLE" => pstate'[current] = "RUNNABLE")
<1>1. RunQueueExact'
  BY WakeupQueue DEF SafeInv, TypeOK
<1>2. WaitersAsleep'
  BY DEF SafeInv, TypeOK, SchedTypeOK, WaitersAsleep, wakeup_proc, sched_vars, Task
<1>3. IdleRuns' /\ current' = current
  BY DEF SafeInv, TypeOK, SchedTypeOK, IdleRuns, wakeup_proc, sched_vars, Task
<1>4. pstate[current] = "RUNNABLE" => pstate'[current] = "RUNNABLE"
  BY DEF SafeInv, TypeOK, SchedTypeOK, wakeup_proc, sched_vars, Task
<1> QED BY <1>1, <1>2, <1>3, <1>4

LEMMA SafeSchedule ==
    ASSUME SafeInv, schedule
    PROVE  RunQueueExact' /\ WaitersAsleep' /\ IdleRuns' /\ CurrentCanRun'
<1>1. RunQueueExact' /\ (current' \in Proc => pstate[current'] = "RUNNABLE")
  BY ScheduleQueue DEF SafeInv, TypeOK
<1>2. current' \in Task /\ pstate' = pstate /\ wait_state' = wait_state
  BY ScheduleType DEF SafeInv, TypeOK, schedule, SchedTypeOK
<1>3. WaitersAsleep' /\ IdleRuns'
  BY <1>2 DEF SafeInv, WaitersAsleep, IdleRuns
<1>4. CurrentCanRun'
  BY <1>1, <1>2 DEF SafeInv, IdleRuns, CurrentCanRun, Task
<1> QED BY <1>1, <1>3, <1>4

LEMMA SafeNext == SafeInv /\ [Next]_vars => SafeInv'
<1> SUFFICES ASSUME SafeInv, [Next]_vars PROVE SafeInv'
  OBVIOUS
<1>type. TypeOK /\ TypeOK'
  BY NextType DEF SafeInv
<1>own. InOwnCode => pstate[current] = "RUNNABLE"
  BY DEF SafeInv, InOwnCode, CurrentCanRun, Home
<1>1. ASSUME NEW p \in Proc, Fork(p) \/ WakeOther(p) PROVE SafeInv'
  <2>1. wakeup_proc(p) /\ InOwnCode
    BY <1>1 DEF Fork, WakeOther
  <2> QED BY <2>1, <1>own, <1>type, SafeWakeup DEF SafeInv, CurrentCanRun
<1>2. ASSUME NEW p \in Proc, InterruptWake(p) PROVE SafeInv'
  <2>1. wakeup_proc(p) /\ mode' = mode
    BY <1>2 DEF InterruptWake
  <2> QED BY <2>1, <1>type, SafeWakeup DEF SafeInv, CurrentCanRun
<1>3. CASE Yield
  BY <1>3, <1>own, <1>type DEF SafeInv, Yield, CurrentCanRun, RunQueueExact, WaitersAsleep, IdleRuns
<1>4. ASSUME NEW why \in WaitState \ {"none"}, Block(why) PROVE SafeInv'
  <2>1. /\ current \in Proc
        /\ pstate' = [pstate EXCEPT ![current] = "SLEEPING"]
        /\ wait_state' = [wait_state EXCEPT ![current] = why]
        /\ run_list' = run_list /\ current' = current
        /\ mode' = [mode EXCEPT ![current] = "blocking"]
    BY <1>4, <1>type DEF Block, GoToSleep, Goto, TypeOK, SchedTypeOK, Task
  <2>2. RunQueueExact'
    BY <2>1, <1>type DEF SafeInv, RunQueueExact, TypeOK, SchedTypeOK, Task
  <2>3. WaitersAsleep'
    BY <2>1, <1>type DEF SafeInv, WaitersAsleep, TypeOK, SchedTypeOK, Task
  <2>4. CurrentCanRun' /\ IdleRuns'
    BY <2>1, <1>type, IdleAssumption
    DEF SafeInv, CurrentCanRun, IdleRuns, TypeOK, SchedTypeOK, Task
  <2> QED BY <2>2, <2>3, <2>4, <1>type DEF SafeInv
<1>5. CASE Exit
  <2>1. /\ current \in Proc
        /\ pstate[current] = "RUNNABLE"
        /\ pstate' = [pstate EXCEPT ![current] = "ZOMBIE"]
        /\ wait_state' = wait_state /\ run_list' = run_list /\ current' = current
        /\ mode' = [mode EXCEPT ![current] = "blocking"]
    BY <1>5, <1>own, <1>type DEF Exit, Goto, TypeOK, SchedTypeOK, Task
  <2>2. RunQueueExact'
    BY <2>1, <1>type DEF SafeInv, RunQueueExact, TypeOK, SchedTypeOK, Task
  <2>3. WaitersAsleep'
    BY <2>1, <1>type DEF SafeInv, WaitersAsleep, TypeOK, SchedTypeOK, Task
  <2>4. CurrentCanRun' /\ IdleRuns'
    BY <2>1, <1>type, IdleAssumption
    DEF SafeInv, CurrentCanRun, IdleRuns, TypeOK, SchedTypeOK, Task
  <2> QED BY <2>2, <2>3, <2>4, <1>type DEF SafeInv
<1>6. CASE BlockSchedule \/ KernelSchedule
  BY <1>6, <1>type, SafeSchedule DEF BlockSchedule, KernelSchedule, SafeInv
<1>7. CASE TrapReturn
  <2>1. CASE need_resched[current]
    BY <2>1, <1>7, <1>type, SafeSchedule DEF TrapReturn, SafeInv
  <2>2. CASE ~need_resched[current]
    <3>1. UNCHANGED sched_vars /\ mode[current] = "trapret"
      BY <2>2, <1>7 DEF TrapReturn
    <3> QED BY <3>1, <1>type
            DEF SafeInv, sched_vars, CurrentCanRun, RunQueueExact, WaitersAsleep, IdleRuns
  <2> QED BY <2>1, <2>2
<1>8. CASE TimerInterrupt
  BY <1>8, <1>type
  DEF TimerInterrupt, SafeInv, sched_vars, CurrentCanRun, RunQueueExact, WaitersAsleep, IdleRuns
<1>9. CASE InterruptReturn
  <2>1. /\ UNCHANGED <<pstate, wait_state, run_list, current>>
        /\ mode'[current] = "blocking" <=> mode[current] = "blocking"
    BY <1>9, <1>type DEF InterruptReturn, proc_tick, Goto, TypeOK, SchedTypeOK
  <2> QED BY <2>1, <1>type
          DEF SafeInv, CurrentCanRun, RunQueueExact, WaitersAsleep, IdleRuns
<1>10. CASE UNCHANGED vars
  BY <1>10, <1>type
  DEF vars, sched_vars, SafeInv, CurrentCanRun, RunQueueExact, WaitersAsleep, IdleRuns
<1> QED BY <1>1, <1>2, <1>3, <1>4, <1>5, <1>6, <1>7, <1>8, <1>9, <1>10 DEF Next

LEMMA SafeAlways == Spec => []SafeInv
BY SafeInit, SafeNext, PTL DEF Spec

(* No runnable process is ever missing from the run queue or in it twice.  *)
THEOREM QueueAlwaysExact == Spec => []RunQueueExact
BY SafeAlways, PTL DEF SafeInv

(* schedule() never gives the hart to a sleeping process or a zombie.      *)
THEOREM CurrentAlwaysRuns == Spec => []CurrentCanRun
BY SafeAlways, PTL DEF SafeInv

(* What do_kill, do_exit and the timer read in wait_state tells whether    *)
(* the process sleeps, so none of them ever wakes a zombie.                *)
THEOREM WaitStateTellsSleep == Spec => []WaitersAsleep
BY SafeAlways, PTL DEF SafeInv
-----------------------------------------------------------------------------
(* The slice bound.  What is left of the current process's slice and the   *)
(* ticks it has taken never exceed the slice; a process in the queue has   *)
(* something left; and one that has nothing left is at the end of trap(),  *)
(* with need_resched set.                                                  *)
ModesOK ==
    /\ \A p \in KernelTask : mode[p] \in {"kernel", "blocking"}
    /\ \A p \in Task \ KernelTask : mode[p] \in {"user", "trapret", "blocking"}
    /\ irq /\ current \notin KernelTask => mode[current] = "user"

QueuedSlices == \A p \in Proc : Contains(run_list, p) => time_slice[p] > 0

RunningSlice ==
    mode[current] \in {"user", "trapret"} =>
        /\ ran + time_slice[current] <= MAX_TIME_SLICE
        /\ time_slice[current] = 0 => mode[current] = "trapret" /\ need_resched[current]

SliceInv == SafeInv /\ ModesOK /\ QueuedSlices /\ RunningSlice

LEMMA SliceInit == Init => SliceInv
<1> SUFFICES ASSUME Init PROVE SliceInv
  OBVIOUS
<1>1. ModesOK
  BY IdleAssumption, KThreadAssumption DEF Init, ModesOK, Home, Task, KernelTask
<1>2. QueuedSlices
  BY EmptyMembers DEF Init, QueuedSlices
<1>3. mode[current] = "kernel"
  BY DEF Init, Home, KernelTask, Task
<1> QED BY <1>1, <1>2, <1>3, SafeInit DEF SliceInv, RunningSlice

(* A wakeup changes the slice only of the process that it enqueues. *)
LEMMA WakeupSlices ==
    ASSUME SafeInv, QueuedSlices, NEW p \in Proc, wakeup_proc(p)
    PROVE  /\ QueuedSlices'
           /\ current' = current /\ need_resched' = need_resched
           /\ time_slice'[current] = time_slice[current]
<1> USE DEF SafeInv, TypeOK, SchedTypeOK
<1>1. CASE pstate[p] = "RUNNABLE"
  BY <1>1 DEF wakeup_proc, sched_vars, QueuedSlices
<1>2. CASE pstate[p] # "RUNNABLE" /\ ~JoinsQueue(p)
  BY <1>2 DEF wakeup_proc, QueuedSlices
<1>3. CASE pstate[p] # "RUNNABLE" /\ JoinsQueue(p)
  <2>1. /\ run_list' = Append(run_list, p) /\ p # current
        /\ time_slice' = [time_slice EXCEPT ![p] = Refill(time_slice[p])]
        /\ current' = current /\ need_resched' = need_resched
    BY <1>3 DEF wakeup_proc, RR_enqueue, JoinsQueue
  <2>2. p \in Task /\ current \in Task /\ Refill(time_slice[p]) \in 1 .. MAX_TIME_SLICE
    BY RefillRange DEF Task
  <2>3. \A x \in Proc : Contains(run_list', x) => Contains(run_list, x) \/ x = p
    BY <2>1, AppendMembers
  <2>4. \A x \in Proc : time_slice'[x] = IF x = p THEN Refill(time_slice[p]) ELSE time_slice[x]
    BY <2>1, <2>2 DEF Task
  <2>5. \A n \in 1 .. MAX_TIME_SLICE : n > 0
    BY SliceAssumption
  <2>6. QueuedSlices'
    BY <2>2, <2>3, <2>4, <2>5 DEF QueuedSlices
  <2> QED BY <2>1, <2>2, <2>6
<1> QED BY <1>1, <1>2, <1>3

(* schedule() chooses a process that has some of its slice left. *)
LEMMA ScheduleSlices ==
    ASSUME SafeInv, QueuedSlices, schedule
    PROVE  QueuedSlices' /\ (current' \in Proc => time_slice'[current'] \in 1 .. MAX_TIME_SLICE)
<1> USE DEF SafeInv, TypeOK, SchedTypeOK
<1> DEFINE ready == IF StaysReady THEN RR_enqueue(run_list, current) ELSE run_list
<1>1. /\ ready \in Seq(Proc)
      /\ \A x \in Proc : Contains(ready, x) => Contains(run_list, x) \/ (StaysReady /\ x = current)
  <2>1. CASE StaysReady
    <3>1. current \in Proc
      BY <2>1 DEF StaysReady, Task
    <3>2. ready = Append(run_list, current)
      BY <2>1 DEF RR_enqueue
    <3>3. Append(run_list, current) \in Seq(Proc)
      BY <3>1
    <3>4. \A x \in Proc : Contains(Append(run_list, current), x) => Contains(run_list, x) \/ x = current
      BY <3>1, AppendMembers
    <3> HIDE DEF ready
    <3> QED BY <2>1, <3>2, <3>3, <3>4
  <2>2. CASE ~StaysReady
    BY <2>2
  <2> QED BY <2>1, <2>2
<1>2. time_slice' = IF StaysReady THEN [time_slice EXCEPT ![current] = Refill(time_slice[current])]
                    ELSE time_slice
  BY DEF schedule
<1>3. Refill(time_slice[current]) \in 1 .. MAX_TIME_SLICE
  BY RefillRange
<1> HIDE DEF ready
<1>4. ASSUME NEW x \in Proc, Contains(ready, x) PROVE time_slice'[x] \in 1 .. MAX_TIME_SLICE
  <2>1. x \in Task
    BY DEF Task
  <2>2. CASE StaysReady /\ x = current
    BY <1>2, <1>3, <2>1, <2>2
  <2>3. CASE ~(StaysReady /\ x = current)
    <3>1. time_slice'[x] = time_slice[x]
      BY <1>2, <2>1, <2>3
    <3>2. time_slice[x] > 0
      BY <1>1, <1>4, <2>3 DEF QueuedSlices
    <3> QED BY <2>1, <3>1, <3>2, SliceAssumption
  <2> QED BY <2>2, <2>3
<1>5. ASSUME NEW x \in Proc, Contains(run_list', x) \/ x = current' PROVE Contains(ready, x)
  <2>1. IF ready = <<>> THEN current' = idleproc /\ run_list' = <<>>
        ELSE current' = Head(ready) /\ run_list' = Tail(ready)
    BY DEF schedule, ready
  <2>2. CASE ready = <<>>
    BY <1>5, <2>1, <2>2, EmptyMembers, IdleAssumption
  <2>3. CASE ready # <<>>
    <3>1. Contains(ready, Head(ready))
      BY <1>1, <2>3 DEF Contains
    <3>2. Contains(Tail(ready), x) => Contains(ready, x)
      <4>1. \A i \in 1 .. Len(Tail(ready)) : i + 1 \in 1 .. Len(ready) /\ Tail(ready)[i] = ready[i + 1]
        BY <1>1, <2>3
      <4> QED BY <4>1 DEF Contains
    <3> QED BY <1>5, <2>1, <2>3, <3>1, <3>2
  <2> QED BY <2>2, <2>3
<1>6. \A n \in 1 .. MAX_TIME_SLICE : n > 0
  BY SliceAssumption
<1> QED BY <1>4, <1>5, <1>6 DEF QueuedSlices

LEMMA SliceNext == SliceInv /\ [Next]_vars => SliceInv'
<1> SUFFICES ASSUME SliceInv, [Next]_vars PROVE SliceInv'
  OBVIOUS
<1>type. TypeOK /\ TypeOK' /\ SafeInv /\ SafeInv'
  BY NextType, SafeNext DEF SliceInv, SafeInv
<1>inv. ModesOK /\ QueuedSlices /\ RunningSlice
  BY DEF SliceInv
<1>cur. current \in Task /\ KernelTask \subseteq Task /\ mode \in [Task -> Mode]
  BY <1>type, KThreadAssumption DEF TypeOK, SchedTypeOK, KernelTask, Task
<1>num. MAX_TIME_SLICE \in Nat /\ ran \in Nat /\ time_slice \in [Task -> 0 .. MAX_TIME_SLICE]
  BY <1>type, SliceAssumption DEF TypeOK, SchedTypeOK
<1>own. InOwnCode => AfterCall = IF current \in KernelTask THEN "kernel" ELSE "trapret"
  BY DEF AfterCall
(* The steps that call schedule(). *)
<1>sched. ASSUME schedule, ran' = 0, ModesOK', QueuedSlices, SafeInv PROVE QueuedSlices' /\ RunningSlice'
  <2>1. QueuedSlices' /\ (current' \in Proc => time_slice'[current'] \in 1 .. MAX_TIME_SLICE)
    BY <1>sched, ScheduleSlices
  <2>2. current' \in Task
    BY <1>type DEF TypeOK, SchedTypeOK
  <2>3. mode'[current'] \in {"user", "trapret"} => current' \in Proc
    BY <1>sched, <2>2 DEF ModesOK, KernelTask, Task
  <2>4. \A n \in 1 .. MAX_TIME_SLICE : 0 + n <= MAX_TIME_SLICE /\ n # 0
    BY <1>num
  <2> QED BY <1>sched, <2>1, <2>3, <2>4 DEF RunningSlice
<1>1. ASSUME NEW p \in Proc, Fork(p) \/ WakeOther(p) PROVE SliceInv'
  <2>1. /\ InOwnCode /\ wakeup_proc(p) /\ irq' = irq /\ ran' = ran
        /\ mode' = [mode EXCEPT ![current] = AfterCall]
    BY <1>1 DEF Fork, WakeOther, Goto
  <2>2. /\ QueuedSlices' /\ current' = current /\ need_resched' = need_resched
        /\ time_slice'[current] = time_slice[current]
    BY <1>type, <1>inv, <2>1, WakeupSlices
  <2>3. ModesOK'
    BY <1>cur, <1>inv, <2>1, <2>2 DEF ModesOK, AfterCall, InOwnCode
  <2>4. mode[current] = IF current \in KernelTask THEN "kernel" ELSE "user"
    BY <2>1 DEF InOwnCode, Home
  <2>5. RunningSlice'
    BY <1>cur, <1>inv, <2>1, <2>2, <2>4 DEF RunningSlice, AfterCall
  <2> QED BY <1>type, <2>2, <2>3, <2>5 DEF SliceInv
<1>2. ASSUME NEW p \in Proc, InterruptWake(p) PROVE SliceInv'
  <2>1. wakeup_proc(p) /\ mode' = mode /\ irq' = irq /\ ran' = ran
    BY <1>2 DEF InterruptWake
  <2>2. /\ QueuedSlices' /\ current' = current /\ need_resched' = need_resched
        /\ time_slice'[current] = time_slice[current]
    BY <1>type, <1>inv, <2>1, WakeupSlices
  <2> QED BY <1>type, <1>inv, <2>1, <2>2 DEF SliceInv, ModesOK, RunningSlice
<1>3. CASE Yield
  <2>1. /\ ~irq /\ current \notin KernelTask /\ mode[current] = "user"
        /\ mode' = [mode EXCEPT ![current] = "trapret"]
        /\ UNCHANGED <<run_list, current, time_slice, irq, ran>>
    BY <1>3 DEF Yield, InOwnCode, Home, Goto
  <2>2. ModesOK' /\ QueuedSlices'
    BY <1>cur, <1>inv, <2>1 DEF ModesOK, QueuedSlices
  <2>3. RunningSlice'
    BY <1>cur, <1>inv, <2>1 DEF RunningSlice
  <2> QED BY <1>type, <2>2, <2>3 DEF SliceInv
<1>4. ASSUME NEW why \in WaitState \ {"none"}, Block(why) PROVE SliceInv'
  <2>1. /\ ~irq /\ mode' = [mode EXCEPT ![current] = "blocking"]
        /\ UNCHANGED <<run_list, current, time_slice, irq, ran>>
    BY <1>4 DEF Block, GoToSleep, InOwnCode, Goto
  <2> QED BY <1>type, <1>cur, <1>inv, <2>1 DEF SliceInv, ModesOK, QueuedSlices, RunningSlice
<1>5. CASE Exit
  <2>1. /\ ~irq /\ mode' = [mode EXCEPT ![current] = "blocking"]
        /\ UNCHANGED <<run_list, current, time_slice, irq, ran>>
    BY <1>5 DEF Exit, InOwnCode, Goto
  <2> QED BY <1>type, <1>cur, <1>inv, <2>1 DEF SliceInv, ModesOK, QueuedSlices, RunningSlice
<1>6. CASE BlockSchedule
  <2>1. /\ ~irq /\ irq' = irq /\ schedule /\ ran' = 0
        /\ mode' = [mode EXCEPT ![current] = IF pstate[current] = "ZOMBIE" THEN "blocking" ELSE AfterCall]
    BY <1>6 DEF BlockSchedule, Goto
  <2>2. ModesOK'
    BY <1>cur, <1>inv, <2>1 DEF ModesOK, AfterCall
  <2> QED BY <1>type, <1>inv, <1>sched, <2>1, <2>2 DEF SliceInv
<1>7. CASE KernelSchedule
  <2>1. schedule /\ ran' = 0 /\ ~irq /\ mode' = mode /\ irq' = irq
    BY <1>7 DEF KernelSchedule
  <2>2. ModesOK'
    BY <1>inv, <2>1 DEF ModesOK
  <2> QED BY <1>type, <1>inv, <1>sched, <2>1, <2>2 DEF SliceInv
<1>8. CASE TrapReturn
  <2>1. ~irq /\ irq' = irq /\ mode[current] = "trapret" /\ mode' = [mode EXCEPT ![current] = "user"]
    BY <1>8 DEF TrapReturn, Goto
  <2>2. ModesOK'
    BY <1>cur, <1>inv, <2>1 DEF ModesOK
  <2>3. CASE need_resched[current]
    <3>1. schedule /\ ran' = 0
      BY <1>8, <2>3 DEF TrapReturn
    <3> QED BY <1>type, <1>inv, <1>sched, <2>2, <3>1 DEF SliceInv
  <2>4. CASE ~need_resched[current]
    <3>1. UNCHANGED sched_vars /\ ran' = ran
      BY <1>8, <2>4 DEF TrapReturn
    <3>2. QueuedSlices' /\ RunningSlice'
      BY <1>cur, <1>inv, <2>1, <2>4, <3>1 DEF QueuedSlices, RunningSlice, sched_vars
    <3> QED BY <1>type, <2>2, <3>2 DEF SliceInv
  <2> QED BY <2>3, <2>4
<1>9. CASE TimerInterrupt
  <2>1. InterruptsOn /\ mode' = mode /\ UNCHANGED sched_vars /\ ran' = ran
    BY <1>9 DEF TimerInterrupt
  <2>2. ModesOK'
    BY <1>inv, <2>1 DEF ModesOK, InterruptsOn, sched_vars
  <2> QED BY <1>type, <1>inv, <2>1, <2>2 DEF SliceInv, QueuedSlices, RunningSlice, sched_vars
<1>10. CASE InterruptReturn
  <2>1. /\ irq /\ irq' = FALSE /\ proc_tick /\ current' = current /\ run_list' = run_list
        /\ ran' = IF mode[current] = "user" THEN ran + 1 ELSE ran
        /\ mode' = [mode EXCEPT ![current] = IF mode[current] = "user" THEN "trapret" ELSE mode[current]]
    BY <1>10 DEF InterruptReturn, proc_tick, Goto
  <2>2. ModesOK'
    BY <1>cur, <1>inv, <2>1 DEF ModesOK
  <2>3. QueuedSlices'
    <3>1. \A x \in Proc : Contains(run_list, x) => x # current
      BY <1>type DEF SafeInv, RunQueueExact
    <3>2. \A x \in Proc : x # current => time_slice'[x] = time_slice[x]
      BY <1>num, <2>1 DEF proc_tick, Task
    <3> QED BY <1>inv, <2>1, <3>1, <3>2 DEF QueuedSlices
  <2>4. CASE mode[current] # "user"
    <3>1. mode'[current] \notin {"user", "trapret"}
      BY <1>cur, <1>inv, <2>1, <2>4 DEF ModesOK
    <3> QED BY <1>type, <2>1, <2>2, <2>3, <3>1 DEF SliceInv, RunningSlice
  <2>5. CASE mode[current] = "user"
    <3>1. current \in Proc
      BY <1>cur, <1>inv, <2>5 DEF ModesOK, KernelTask, Task
    <3>2. ran + time_slice[current] <= MAX_TIME_SLICE /\ time_slice[current] \in Nat /\ time_slice[current] > 0
      BY <1>cur, <1>inv, <1>num, <2>5 DEF RunningSlice
    <3>3. /\ time_slice' = [time_slice EXCEPT ![current] = SliceAfterTick(time_slice[current])]
          /\ need_resched' = [need_resched EXCEPT
                                 ![current] = need_resched[current] \/ SliceOver(time_slice[current])]
      BY <2>1, <3>1, IdleAssumption DEF proc_tick
    <3>4. time_slice'[current] = time_slice[current] - 1
      BY <1>cur, <1>num, <3>2, <3>3 DEF SliceAfterTick
    <3>5. time_slice'[current] = 0 => need_resched'[current]
      <4>1. time_slice'[current] = 0 => SliceOver(time_slice[current])
        BY <1>cur, <1>num, <3>3 DEF SliceOver
      <4>2. current \in DOMAIN need_resched
        BY <1>type, <1>cur DEF TypeOK, SchedTypeOK
      <4> QED BY <3>3, <4>1, <4>2, Zenon
    <3>6. ran' + time_slice'[current] <= MAX_TIME_SLICE
      BY <1>num, <2>1, <2>5, <3>2, <3>4
    <3>7. mode'[current] = "trapret"
      BY <1>cur, <2>1, <2>5
    <3> QED BY <1>type, <2>1, <2>2, <2>3, <3>5, <3>6, <3>7 DEF SliceInv, RunningSlice
  <2> QED BY <2>4, <2>5
<1>11. CASE UNCHANGED vars
  BY <1>11, <1>type, <1>inv DEF vars, sched_vars, SliceInv, ModesOK, QueuedSlices, RunningSlice
<1> QED BY <1>1, <1>2, <1>3, <1>4, <1>5, <1>6, <1>7, <1>8, <1>9, <1>10, <1>11 DEF Next

LEMMA SliceInvImplies == SliceInv => SliceBounded
<1> SUFFICES ASSUME SliceInv, mode[current] = "user" PROVE ran < MAX_TIME_SLICE
  BY DEF SliceBounded
<1>1. ran + time_slice[current] <= MAX_TIME_SLICE /\ time_slice[current] # 0
  BY DEF SliceInv, RunningSlice
<1>2. ran \in Nat /\ time_slice[current] \in Nat /\ MAX_TIME_SLICE \in Nat
  BY SliceAssumption DEF SliceInv, SafeInv, TypeOK, SchedTypeOK
<1> QED BY <1>1, <1>2

(* Preemption, for any slice length and any number of processes: between   *)
(* two schedule()s a process in user mode never takes more ticks than one  *)
(* slice.                                                                  *)
THEOREM SliceAlwaysBounded == Spec => []SliceBounded
BY SliceInit, SliceNext, SliceInvImplies, PTL DEF Spec

=============================================================================
