-------------------------- MODULE SemaphoreProofs --------------------------
(***************************************************************************)
(* Proofs about Semaphore for any finite set of threads, any set of        *)
(* semaphores and any initial values.                                      *)
(***************************************************************************)
EXTENDS Semaphore, KSchedProofs, FiniteSetTheorems

LEMMA GotoType ==
    ASSUME TypeOK, NEW where \in PC, Goto(where)
    PROVE  (pc \in [Task -> PC])'
BY DEF TypeOK, Goto

LEMMA InitType == Init => TypeOK
<1> SUFFICES ASSUME Init PROVE TypeOK
  OBVIOUS
<1>1. run_list \in Seq(Proc)
  <2>1. Cardinality(Proc) \in Nat
    BY ProcAssumption, FS_CardinalityType
  <2> QED BY <2>1 DEF Init
<1>2. need_resched \in [Task -> BOOLEAN]
  BY Zenon DEF Init
<1>3. pstate \in [Task -> State] /\ wait_state \in [Task -> WaitState]
  BY DEF Init, State, WaitState
<1>4. time_slice \in [Task -> 0 .. MAX_TIME_SLICE] /\ current \in Task
  BY SliceAssumption DEF Init, Task
<1>5. SemTypeOK
  BY InitialAssumption DEF Init, sem_init, SemTypeOK
<1>6. pc \in [Task -> PC] /\ want \in [Proc -> Sem \cup {NoSem}] /\ held \in [Proc -> SUBSET Sem]
  BY DEF Init, PC
<1> QED BY <1>1, <1>2, <1>3, <1>4, <1>5, <1>6 DEF Init, TypeOK, SchedTypeOK

(* wakeup_wait keeps the types. *)
LEMMA WakeupWaitType ==
    ASSUME SchedTypeOK, SemTypeOK, NEW s \in Sem, wait_queue[s] # <<>>, wakeup_wait(s)
    PROVE  /\ SchedTypeOK'
           /\ (wait_queue \in [Sem -> Seq(Proc)])'
           /\ (wakeup_flags \in [Proc -> {"WT_KSEM", "WT_INTERRUPTED"}])'
<1>1. Head(wait_queue[s]) \in Proc /\ Tail(wait_queue[s]) \in Seq(Proc)
  BY DEF SemTypeOK
<1>2. SchedTypeOK'
  BY <1>1, WakeupType DEF wakeup_wait
<1>3. (wait_queue \in [Sem -> Seq(Proc)])'
  BY <1>1 DEF SemTypeOK, wakeup_wait
<1>4. (wakeup_flags \in [Proc -> {"WT_KSEM", "WT_INTERRUPTED"}])'
  BY <1>1 DEF SemTypeOK, wakeup_wait
<1> QED BY <1>2, <1>3, <1>4

LEMMA NextType == TypeOK /\ [Next]_vars => TypeOK'
<1> SUFFICES ASSUME TypeOK, [Next]_vars PROVE TypeOK'
  OBVIOUS
<1> USE TypeOK
<1>held. ASSUME NEW s \in Sem, current \in Proc
         PROVE  /\ [held EXCEPT ![current] = @ \cup {s}] \in [Proc -> SUBSET Sem]
                /\ [held EXCEPT ![current] = @ \ {s}] \in [Proc -> SUBSET Sem]
  BY <1>held DEF TypeOK
<1>1. ASSUME NEW s \in Sem, DownTakes(s) PROVE TypeOK'
  <2>1. (value \in [Sem -> Nat])'
    BY <1>1 DEF DownTakes, Take, CanTake, TypeOK, SemTypeOK
  <2> QED BY <1>1, <2>1, <1>held DEF DownTakes, Running, Take, sched_vars, TypeOK, SchedTypeOK, SemTypeOK
<1>2. ASSUME NEW s \in Sem, DownWaits(s) PROVE TypeOK'
  <2>1. SchedTypeOK'
    BY <1>2, SleepType DEF DownWaits, Wait, TypeOK, WaitState
  <2>2. SemTypeOK'
    <3>1. current \in Proc /\ wait_queue[s] \in Seq(Proc) /\ Append(wait_queue[s], current) \in Seq(Proc)
      BY <1>2 DEF DownWaits, Running, TypeOK, SemTypeOK
    <3>2. wait_queue' = [wait_queue EXCEPT ![s] = Append(@, current)]
      BY <1>2 DEF DownWaits, Wait, Enqueued
    <3>3. (wait_queue \in [Sem -> Seq(Proc)])'
      BY <3>1, <3>2 DEF TypeOK, SemTypeOK
    <3>4. (wakeup_flags \in [Proc -> {"WT_KSEM", "WT_INTERRUPTED"}])'
      BY <3>1, <1>2 DEF DownWaits, Wait, TypeOK, SemTypeOK
    <3> QED BY <1>2, <3>3, <3>4 DEF DownWaits, Wait, TypeOK, SemTypeOK
  <2>3. (pc \in [Task -> PC])' /\ (want \in [Proc -> Sem \cup {NoSem}])'
    BY <1>2, GotoType DEF DownWaits, TypeOK, PC
  <2> QED BY <1>2, <2>1, <2>2, <2>3 DEF DownWaits, TypeOK
<1>3. ASSUME NEW s \in Sem, DownReturns(s) PROVE TypeOK'
  <2>1. (wait_queue \in [Sem -> Seq(Proc)])'
    <3>1. Without(wait_queue[s], current) \in Seq(Proc)
      BY WithoutType DEF TypeOK, SemTypeOK
    <3> QED BY <1>3, <3>1 DEF DownReturns, StopWaiting, TypeOK, SemTypeOK
  <2>2. (pc \in [Task -> PC])' /\ (want \in [Proc -> Sem \cup {NoSem}])'
    BY <1>3, GotoType DEF DownReturns, TypeOK, PC
  <2>3. (held \in [Proc -> SUBSET Sem])'
    BY <1>3, <1>held DEF DownReturns, Running, TypeOK
  <2> QED BY <1>3, <2>1, <2>2, <2>3
          DEF DownReturns, StopWaiting, sched_vars, TypeOK, SchedTypeOK, SemTypeOK
<1>4. ASSUME NEW s \in Sem, UpGives(s) PROVE TypeOK'
  <2>1. CASE UpAssertion(s)
    <3>1. (value \in [Sem -> Nat])'
      <4>1. TokensAfterUp(s) \in Nat
        BY DEF TokensAfterUp, TypeOK, SemTypeOK
      <4> QED BY <1>4, <2>1, <4>1 DEF UpGives, Up, TypeOK, SemTypeOK
    <3>2. SchedTypeOK' /\ SemTypeOK'
      <4>1. CASE wait_queue[s] = <<>>
        BY <1>4, <2>1, <3>1, <4>1 DEF UpGives, Up, sched_vars, TypeOK, SchedTypeOK, SemTypeOK
      <4>2. CASE wait_queue[s] # <<>>
        BY <1>4, <2>1, <3>1, <4>2, WakeupWaitType DEF UpGives, Up, TypeOK, SemTypeOK
      <4> QED BY <4>1, <4>2
    <3> QED BY <1>4, <2>1, <3>2, <1>held DEF UpGives, Running, TypeOK
  <2>2. CASE ~UpAssertion(s)
    <3>1. (pc \in [Task -> PC])'
      BY <1>4, <2>2, GotoType DEF UpGives, PC
    <3> QED BY <1>4, <2>2, <3>1 DEF UpGives, sched_vars, sem_vars, TypeOK, SchedTypeOK, SemTypeOK
  <2> QED BY <2>1, <2>2
<1>5. CASE Nap
  <2>1. SchedTypeOK' /\ (pc \in [Task -> PC])'
    BY <1>5, SleepType, GotoType DEF Nap, TypeOK, WaitState, Interruptible, PC
  <2> QED BY <1>5, <2>1 DEF Nap, sem_vars, TypeOK, SemTypeOK
<1>6. CASE NapReturns
  <2>1. (pc \in [Task -> PC])'
    BY <1>6, GotoType DEF NapReturns, PC
  <2> QED BY <1>6, <2>1 DEF NapReturns, sched_vars, sem_vars, TypeOK, SchedTypeOK, SemTypeOK
<1>7. ASSUME NEW p \in Proc, Kill(p) \/ InterruptWake(p) PROVE TypeOK'
  <2>1. SchedTypeOK'
    BY <1>7, WakeupType DEF Kill, InterruptWake, TypeOK
  <2> QED BY <1>7, <2>1 DEF Kill, InterruptWake, sem_vars, TypeOK, SemTypeOK
<1>8. CASE SleepSchedule
  <2>1. SchedTypeOK' /\ (pc \in [Task -> PC])'
    BY <1>8, ScheduleType, GotoType DEF SleepSchedule, TypeOK, PC
  <2> QED BY <1>8, <2>1 DEF SleepSchedule, sem_vars, TypeOK, SemTypeOK
<1>9. CASE Resched
  <2>1. SchedTypeOK'
    BY <1>9, ScheduleType DEF Resched, TypeOK
  <2> QED BY <1>9, <2>1 DEF Resched, sem_vars, TypeOK, SemTypeOK
<1>10. CASE TimerInterrupt
  BY <1>10 DEF TimerInterrupt, sched_vars, sem_vars, TypeOK, SchedTypeOK, SemTypeOK
<1>11. CASE InterruptReturn
  <2>1. SchedTypeOK'
    BY <1>11, TickType DEF InterruptReturn, TypeOK
  <2> QED BY <1>11, <2>1 DEF InterruptReturn, sem_vars, TypeOK, SemTypeOK
<1>12. CASE UNCHANGED vars
  BY <1>12 DEF vars, sched_vars, sem_vars, TypeOK, SchedTypeOK, SemTypeOK
<1> QED BY <1>1, <1>2, <1>3, <1>4, <1>5, <1>6, <1>7, <1>8, <1>9, <1>10, <1>11, <1>12 DEF Next

(* Every variable keeps its type: no semaphore's value goes below zero and *)
(* a wait queue only holds processes.                                      *)
THEOREM TypeCorrect == Spec => []TypeOK
BY InitType, NextType, PTL DEF Spec

-----------------------------------------------------------------------------
(* The inductive invariant.  The assertions and the token count rest on    *)
(* where each thread is: one that is not marked asleep on the hart can     *)
(* run; one in its own code waits for nothing; one that waits has not got  *)
(* the token yet; one whose wait_t has left the queue carries up()'s flag. *)
IdleRuns == pstate[idleproc] = "RUNNABLE"

AsleepOnHart ==
    pstate[current] # "RUNNABLE" => current \in Proc /\ pc[current] = "asleep"

WaitInv ==
    \A p \in Proc :
        /\ pc[p] = "run" => want[p] = NoSem
        /\ want[p] \notin held[p]
        /\ \A s \in Sem : want[p] = s /\ ~InQueue(p, s) => wakeup_flags[p] = "WT_KSEM"

QueuesDistinct == \A s \in Sem : IsInjective(wait_queue[s])

SemInv ==
    /\ TypeOK
    /\ RunQueueExact /\ IdleRuns /\ AsleepOnHart
    /\ WaitInv /\ QueuesDistinct /\ QueuedAreAsleep /\ NoPanic
    /\ TokensConserved /\ NoTokenIgnored

(* The hart: a thread in its own code, or past its schedule(), can run,    *)
(* and then it is in no wait queue.                                        *)
LEMMA RunningNotQueued ==
    ASSUME SemInv, NEW where \in {"run", "back"}, Running(where)
    PROVE  /\ current \in Proc
           /\ pc[current] = where
           /\ pstate[current] = "RUNNABLE"
           /\ \A s \in Sem : ~InQueue(current, s)
BY DEF SemInv, AsleepOnHart, QueuedAreAsleep, Running

LEMMA HeadWaiter ==
    ASSUME SemInv, NEW s \in Sem, wait_queue[s] # <<>>
    PROVE  /\ Head(wait_queue[s]) \in Proc
           /\ InQueue(Head(wait_queue[s]), s)
           /\ pstate[Head(wait_queue[s])] = "SLEEPING"
           /\ wait_state[Head(wait_queue[s])] = "WT_KSEM"
           /\ want[Head(wait_queue[s])] = s
           /\ \A p : Contains(Tail(wait_queue[s]), p)
                        <=> InQueue(p, s) /\ p # Head(wait_queue[s])
           /\ IsInjective(Tail(wait_queue[s]))
<1>1. wait_queue[s] \in Seq(Proc) /\ IsInjective(wait_queue[s])
  BY DEF SemInv, TypeOK, SemTypeOK, QueuesDistinct
<1> QED BY <1>1, HeadTail DEF InQueue, SemInv, QueuedAreAsleep

(* up()'s assertion holds. *)
LEMMA UpAsserts == ASSUME SemInv, NEW s \in Sem PROVE UpAssertion(s)
BY HeadWaiter DEF UpAssertion

LEMMA SemInit == Init => SemInv
<1> SUFFICES ASSUME Init PROVE SemInv
  OBVIOUS
<1>1. RunQueueExact /\ IdleRuns /\ AsleepOnHart
  BY IdleAssumption DEF Init, RunQueueExact, IdleRuns, AsleepOnHart, Task
<1>2. \A s \in Sem : \A p : ~InQueue(p, s)
  BY EmptyMembers DEF Init, sem_init, InQueue
<1>3. QueuesDistinct
  BY DEF Init, sem_init, QueuesDistinct, IsInjective
<1>4. WaitInv /\ QueuedAreAsleep /\ NoPanic
  BY <1>2, NoSemAssumption DEF Init, WaitInv, QueuedAreAsleep, NoPanic, Task
<1>5. TokensConserved
  <2>1. \A s \in Sem : Owners(s) = {}
    BY NoSemAssumption DEF Init, Owners, HandedOff
  <2>2. \A s \in Sem : Cardinality(Owners(s)) = 0
    BY <2>1, FS_EmptySet
  <2>3. value = initial /\ \A s \in Sem : initial[s] \in Nat
    BY InitialAssumption DEF Init, sem_init
  <2> QED BY <2>2, <2>3 DEF TokensConserved
<1>6. NoTokenIgnored
  BY DEF Init, sem_init, NoTokenIgnored
<1> QED BY <1>1, <1>3, <1>4, <1>5, <1>6, InitType DEF SemInv

-----------------------------------------------------------------------------
(* The scheduler's part is kept by every step. *)
LEMMA SchedPart ==
    ASSUME SemInv, [Next]_vars
    PROVE  RunQueueExact' /\ IdleRuns' /\ AsleepOnHart'
<1> USE DEF SemInv
<1>type. TypeOK /\ SchedTypeOK
  BY DEF TypeOK
<1>same. ASSUME UNCHANGED <<pstate, run_list, current>>, pc'[current] = pc[current] \/ pstate[current] = "RUNNABLE"
         PROVE  RunQueueExact' /\ IdleRuns' /\ AsleepOnHart'
  BY <1>same DEF RunQueueExact, IdleRuns, AsleepOnHart
<1>wake. ASSUME NEW p \in Proc, wakeup_proc(p), pc' = pc
         PROVE  RunQueueExact' /\ IdleRuns' /\ AsleepOnHart'
  <2>1. RunQueueExact'
    BY <1>type, <1>wake, WakeupQueue
  <2>2. IdleRuns' /\ AsleepOnHart'
    BY <1>type, <1>wake, WakeupEffect DEF IdleRuns, AsleepOnHart, SchedTypeOK, Task
  <2> QED BY <2>1, <2>2
<1>sleep. ASSUME NEW why, current \in Proc, GoToSleep(why), Goto("asleep")
          PROVE  RunQueueExact' /\ IdleRuns' /\ AsleepOnHart'
  <2>1. /\ pstate' = [pstate EXCEPT ![current] = "SLEEPING"]
        /\ run_list' = run_list /\ current' = current
        /\ pc'[current] = "asleep"
    BY <1>type, <1>sleep DEF GoToSleep, Goto, TypeOK, SchedTypeOK
  <2>2. RunQueueExact'
    BY <2>1, <1>type DEF RunQueueExact, SchedTypeOK, Task
  <2>3. IdleRuns' /\ AsleepOnHart'
    BY <2>1, <1>sleep, <1>type, IdleAssumption DEF IdleRuns, AsleepOnHart, SchedTypeOK, Task
  <2> QED BY <2>2, <2>3
<1>sched. ASSUME schedule PROVE RunQueueExact' /\ IdleRuns' /\ AsleepOnHart'
  <2>1. RunQueueExact' /\ (current' \in Proc => pstate[current'] = "RUNNABLE")
    BY <1>type, <1>sched, ScheduleQueue
  <2>2. current' \in Task /\ pstate' = pstate
    BY <1>type, <1>sched, ScheduleType DEF schedule, SchedTypeOK
  <2> QED BY <2>1, <2>2 DEF IdleRuns, AsleepOnHart, Task
<1>1. ASSUME NEW s \in Sem, DownTakes(s) PROVE RunQueueExact' /\ IdleRuns' /\ AsleepOnHart'
  BY <1>1, <1>same DEF DownTakes, Take, sched_vars
<1>2. ASSUME NEW s \in Sem, DownWaits(s) PROVE RunQueueExact' /\ IdleRuns' /\ AsleepOnHart'
  BY <1>2, <1>sleep DEF DownWaits, Wait, Running
<1>3. ASSUME NEW s \in Sem, DownReturns(s) PROVE RunQueueExact' /\ IdleRuns' /\ AsleepOnHart'
  BY <1>3, <1>same, RunningNotQueued DEF DownReturns, StopWaiting, sched_vars
<1>4. ASSUME NEW s \in Sem, UpGives(s) PROVE RunQueueExact' /\ IdleRuns' /\ AsleepOnHart'
  <2>1. Up(s) /\ pc' = pc
    BY <1>4, UpAsserts DEF UpGives
  <2>2. CASE wait_queue[s] = <<>>
    BY <2>1, <2>2, <1>same DEF Up, sched_vars
  <2>3. CASE wait_queue[s] # <<>>
    BY <2>1, <2>3, <1>wake, HeadWaiter DEF Up, wakeup_wait
  <2> QED BY <2>2, <2>3
<1>5. CASE Nap
  BY <1>5, <1>sleep DEF Nap, Running
<1>6. CASE NapReturns
  BY <1>6, <1>same, RunningNotQueued DEF NapReturns, sched_vars
<1>7. ASSUME NEW p \in Proc, Kill(p) \/ InterruptWake(p)
      PROVE  RunQueueExact' /\ IdleRuns' /\ AsleepOnHart'
  BY <1>7, <1>wake DEF Kill, InterruptWake
<1>8. CASE SleepSchedule \/ Resched
  BY <1>8, <1>sched DEF SleepSchedule, Resched
<1>9. CASE TimerInterrupt \/ InterruptReturn
  BY <1>9, <1>same DEF TimerInterrupt, InterruptReturn, proc_tick, sched_vars
<1>10. CASE UNCHANGED vars
  BY <1>10, <1>same DEF vars, sched_vars
<1> QED BY <1>1, <1>2, <1>3, <1>4, <1>5, <1>6, <1>7, <1>8, <1>9, <1>10 DEF Next

-----------------------------------------------------------------------------
(* What each waiter's variables say of one another is kept by every step.  *)
Waiting == WaitInv /\ QueuesDistinct /\ QueuedAreAsleep /\ NoPanic

(* A wait_t joins the queue of one semaphore only. *)
LEMMA DownWaitsQueue ==
    ASSUME SemInv, NEW s \in Sem, DownWaits(s)
    PROVE  /\ \A t \in Sem : \A p : InQueue(p, t)' <=> InQueue(p, t) \/ (t = s /\ p = current)
           /\ QueuesDistinct'
<1>1. current \in Proc /\ ~InQueue(current, s)
  BY RunningNotQueued DEF DownWaits
<1>2. wait_queue[s] \in Seq(Proc) /\ IsInjective(wait_queue[s])
  BY DEF SemInv, TypeOK, SemTypeOK, QueuesDistinct
<1>3. /\ wait_queue'[s] = Append(wait_queue[s], current)
      /\ \A t \in Sem : t # s => wait_queue'[t] = wait_queue[t]
  BY DEF DownWaits, Wait, Enqueued, SemInv, TypeOK, SemTypeOK
<1>4. \A p : Contains(wait_queue'[s], p) <=> Contains(wait_queue[s], p) \/ p = current
  BY <1>1, <1>2, <1>3, AppendMembers
<1>5. IsInjective(wait_queue'[s])
  BY <1>1, <1>2, <1>3, AppendDistinct DEF InQueue
<1>6. \A t \in Sem : \A p : InQueue(p, t)' <=> InQueue(p, t) \/ (t = s /\ p = current)
  BY <1>3, <1>4 DEF InQueue
<1>7. QueuesDistinct'
  BY <1>3, <1>5 DEF QueuesDistinct, SemInv
<1> QED BY <1>6, <1>7

(* up() takes the first waiter out of its queue. *)
LEMMA WakeupWaitQueue ==
    ASSUME SemInv, NEW s \in Sem, wait_queue[s] # <<>>, wakeup_wait(s)
    PROVE  /\ \A t \in Sem : \A p :
                  InQueue(p, t)' <=> InQueue(p, t) /\ ~(t = s /\ p = Head(wait_queue[s]))
           /\ QueuesDistinct'
<1>1. /\ wait_queue'[s] = Tail(wait_queue[s])
      /\ \A t \in Sem : t # s => wait_queue'[t] = wait_queue[t]
  BY DEF wakeup_wait, SemInv, TypeOK, SemTypeOK
<1>2. \A t \in Sem : \A p :
          InQueue(p, t)' <=> InQueue(p, t) /\ ~(t = s /\ p = Head(wait_queue[s]))
  BY <1>1, HeadWaiter DEF InQueue
<1>3. QueuesDistinct'
  BY <1>1, HeadWaiter DEF QueuesDistinct, SemInv
<1> QED BY <1>2, <1>3

LEMMA WaitPart == SemInv /\ [Next]_vars => Waiting'
<1> SUFFICES ASSUME SemInv, [Next]_vars PROVE Waiting'
  OBVIOUS
<1>type. /\ SchedTypeOK /\ SemTypeOK
         /\ pc \in [Task -> PC] /\ want \in [Proc -> Sem \cup {NoSem}] /\ held \in [Proc -> SUBSET Sem]
         /\ Proc \subseteq Task
  BY DEF SemInv, TypeOK, Task
<1>old. Waiting
  BY DEF SemInv, Waiting
<1>1. ASSUME NEW s \in Sem, DownTakes(s) PROVE Waiting'
  <2>1. current \in Proc /\ pc[current] = "run" /\ want[current] = NoSem /\ s # NoSem
    BY <1>1, <1>old, NoSemAssumption DEF DownTakes, Running, Waiting, WaitInv
  <2>2. /\ UNCHANGED <<pstate, wait_state, wait_queue, wakeup_flags, pc, want>>
        /\ held' = [held EXCEPT ![current] = @ \cup {s}]
    BY <1>1 DEF DownTakes, Take, sched_vars
  <2>3. QueuesDistinct' /\ QueuedAreAsleep' /\ NoPanic'
    BY <2>2, <1>old DEF Waiting, QueuesDistinct, QueuedAreAsleep, NoPanic, InQueue
  <2>4. WaitInv'
    BY <2>1, <2>2, <1>type, <1>old DEF Waiting, WaitInv, InQueue
  <2> QED BY <2>3, <2>4 DEF Waiting
<1>2. ASSUME NEW s \in Sem, DownWaits(s) PROVE Waiting'
  <2>1. current \in Proc /\ \A t \in Sem : ~InQueue(current, t)
    BY <1>2, RunningNotQueued DEF DownWaits
  <2>2. s \notin held[current]
    BY <1>2, BeforeAssumption DEF DownWaits, MayAsk
  <2>3. /\ pstate' = [pstate EXCEPT ![current] = "SLEEPING"]
        /\ wait_state' = [wait_state EXCEPT ![current] = "WT_KSEM"]
        /\ wakeup_flags' = [wakeup_flags EXCEPT ![current] = "WT_INTERRUPTED"]
        /\ want' = [want EXCEPT ![current] = s]
        /\ pc' = [pc EXCEPT ![current] = "asleep"]
        /\ held' = held
    BY <1>2 DEF DownWaits, Wait, GoToSleep, Goto
  <2>4. QueuedAreAsleep'
    BY <2>1, <2>3, <1>2, <1>type, <1>old, DownWaitsQueue
       DEF Waiting, QueuedAreAsleep, SchedTypeOK
  <2>5. WaitInv'
    BY <2>1, <2>2, <2>3, <1>2, <1>type, <1>old, DownWaitsQueue DEF Waiting, WaitInv, SemTypeOK
  <2>6. NoPanic'
    BY <2>3, <1>type, <1>old DEF Waiting, NoPanic
  <2> QED BY <2>4, <2>5, <2>6, <1>2, DownWaitsQueue DEF Waiting
<1>3. ASSUME NEW s \in Sem, DownReturns(s) PROVE Waiting'
  <2>1. current \in Proc /\ want[current] = s /\ ~InQueue(current, s)
    BY <1>3, RunningNotQueued DEF DownReturns
  <2>2. wakeup_flags[current] = "WT_KSEM" /\ s \notin held[current] /\ s # NoSem
    BY <2>1, <1>old, NoSemAssumption DEF Waiting, WaitInv
  <2>3. wait_queue' = wait_queue
    <3>1. Without(wait_queue[s], current) = wait_queue[s]
      BY <2>1, <1>type, WithoutType DEF SemTypeOK, InQueue
    <3> QED BY <1>3, <3>1, <1>type DEF DownReturns, StopWaiting, SemTypeOK
  <2>4. /\ UNCHANGED <<pstate, wait_state, wakeup_flags>>
        /\ want' = [want EXCEPT ![current] = NoSem]
        /\ pc' = [pc EXCEPT ![current] = "run"]
        /\ held' = [held EXCEPT ![current] = @ \cup {s}]
    BY <1>3, <2>2 DEF DownReturns, StopWaiting, sched_vars, Goto
  <2>5. QueuesDistinct' /\ NoPanic'
    BY <2>3, <2>4, <1>type, <1>old DEF Waiting, QueuesDistinct, NoPanic
  <2>6. QueuedAreAsleep'
    BY <1>3, <2>3, <2>4, <1>type, <1>old, RunningNotQueued
       DEF DownReturns, Waiting, QueuedAreAsleep, InQueue
  <2>7. WaitInv'
    BY <2>1, <2>2, <2>3, <2>4, <1>type, <1>old, NoSemAssumption DEF Waiting, WaitInv, InQueue
  <2> QED BY <2>5, <2>6, <2>7 DEF Waiting
<1>4. ASSUME NEW s \in Sem, UpGives(s) PROVE Waiting'
  <2>1. /\ Up(s) /\ UNCHANGED <<pc, want>>
        /\ held' = [held EXCEPT ![current] = @ \ {s}]
        /\ current \in Proc
    BY <1>4, UpAsserts DEF UpGives, Running
  <2>2. NoPanic'
    BY <2>1, <1>old DEF Waiting, NoPanic
  <2>3. CASE wait_queue[s] = <<>>
    <3>1. UNCHANGED <<pstate, wait_state, wait_queue, wakeup_flags>>
      BY <2>1, <2>3 DEF Up, sched_vars
    <3>2. WaitInv'
      BY <2>1, <3>1, <1>type, <1>old DEF Waiting, WaitInv, InQueue
    <3> QED BY <2>1, <2>2, <3>1, <3>2, <1>old
            DEF Waiting, QueuesDistinct, QueuedAreAsleep, InQueue
  <2>4. CASE wait_queue[s] # <<>>
    <3> DEFINE w == Head(wait_queue[s])
    <3>1. wakeup_wait(s)
      BY <2>1, <2>4 DEF Up
    <3>2. w \in Proc /\ InQueue(w, s) /\ want[w] = s
      BY <2>4, HeadWaiter
    <3>3. /\ wakeup_proc(w)
          /\ wakeup_flags' = [wakeup_flags EXCEPT ![w] = "WT_KSEM"]
      BY <3>1 DEF wakeup_wait
    <3>4. /\ \A t \in Sem : \A p : InQueue(p, t)' <=> InQueue(p, t) /\ ~(t = s /\ p = w)
          /\ QueuesDistinct'
      BY <2>4, <3>1, WakeupWaitQueue
    <3> HIDE DEF w
    <3>5. \A x \in Task : x # w => pstate'[x] = pstate[x] /\ wait_state'[x] = wait_state[x]
      BY <3>2, <3>3, <1>type, WakeupEffect
    <3>6. QueuedAreAsleep'
      BY <2>1, <3>2, <3>4, <3>5, <1>type, <1>old DEF Waiting, QueuedAreAsleep
    <3>7. WaitInv'
      BY <2>1, <3>2, <3>3, <3>4, <1>type, <1>old DEF Waiting, WaitInv, SemTypeOK
    <3> QED BY <2>2, <3>4, <3>6, <3>7 DEF Waiting
  <2> QED BY <2>3, <2>4
<1>same. ASSUME UNCHANGED <<wait_queue, wakeup_flags, want, held>>,
                NEW x \in Task, \A s \in Sem : ~InQueue(x, s),
                \A p \in Task : p # x => pstate'[p] = pstate[p] /\ wait_state'[p] = wait_state[p],
                \A p \in Proc : /\ pc'[p] # "panic"
                                /\ pc'[p] = "run" => pc[p] = "run" \/ want[p] = NoSem
         PROVE  Waiting'
  <2>1. QueuesDistinct' /\ NoPanic'
    BY <1>same, <1>old DEF Waiting, QueuesDistinct, NoPanic
  <2>2. QueuedAreAsleep'
    BY <1>same, <1>old, <1>type DEF Waiting, QueuedAreAsleep, InQueue
  <2>3. WaitInv'
    BY <1>same, <1>old DEF Waiting, WaitInv, InQueue
  <2> QED BY <2>1, <2>2, <2>3 DEF Waiting
<1>idle. idleproc \in Task /\ \A s \in Sem : ~InQueue(idleproc, s)
  BY <1>type, IdleAssumption DEF Task, InQueue, SemTypeOK, Contains
<1>5. CASE Nap
  <2>1. current \in Proc /\ \A t \in Sem : ~InQueue(current, t)
    BY <1>5, RunningNotQueued DEF Nap
  <2>2. /\ UNCHANGED <<wait_queue, wakeup_flags, want, held>>
        /\ pc' = [pc EXCEPT ![current] = "asleep"]
        /\ pstate' = [pstate EXCEPT ![current] = "SLEEPING"]
        /\ wait_state' = [wait_state EXCEPT ![current] = "WT_TIMER"]
    BY <1>5 DEF Nap, GoToSleep, Goto, sem_vars
  <2> QED BY <2>1, <2>2, <1>type, <1>old, <1>same DEF Waiting, NoPanic, SchedTypeOK
<1>6. CASE NapReturns
  <2>1. /\ UNCHANGED <<pstate, wait_state, wait_queue, wakeup_flags, want, held>>
        /\ pc' = [pc EXCEPT ![current] = "run"]
        /\ want[current] = NoSem /\ current \in Task
    BY <1>6, <1>type DEF NapReturns, Running, Goto, sched_vars, sem_vars
  <2> QED BY <2>1, <1>type, <1>old, <1>same, <1>idle DEF Waiting, NoPanic
<1>7. ASSUME NEW p \in Proc, Kill(p) \/ InterruptWake(p) PROVE Waiting'
  <2>1. wakeup_proc(p) /\ UNCHANGED <<wait_queue, wakeup_flags, want, held, pc>>
    BY <1>7 DEF Kill, InterruptWake, sem_vars
  <2>2. \A t \in Sem : ~InQueue(p, t)
    BY <1>7, <1>old DEF Kill, InterruptWake, Interruptible, Waiting, QueuedAreAsleep
  <2>3. \A x \in Task : x # p => pstate'[x] = pstate[x] /\ wait_state'[x] = wait_state[x]
    BY <2>1, <1>type, WakeupEffect
  <2> QED BY <2>1, <2>2, <2>3, <1>type, <1>old, <1>same DEF Waiting, NoPanic
<1>8. CASE SleepSchedule
  <2>1. /\ UNCHANGED <<pstate, wait_state, wait_queue, wakeup_flags, want, held>>
        /\ pc' = [pc EXCEPT ![current] = "back"]
    BY <1>8 DEF SleepSchedule, schedule, sem_vars, Goto
  <2> QED BY <2>1, <1>type, <1>old, <1>same, <1>idle DEF Waiting, NoPanic
<1>9. CASE Resched \/ TimerInterrupt \/ InterruptReturn \/ UNCHANGED vars
  <2>1. UNCHANGED <<pstate, wait_state, wait_queue, wakeup_flags, want, held, pc>>
    BY <1>9 DEF Resched, schedule, TimerInterrupt, InterruptReturn, proc_tick, vars, sched_vars, sem_vars
  <2> QED BY <2>1, <1>old, <1>same, <1>idle DEF Waiting, NoPanic
<1> QED BY <1>1, <1>2, <1>3, <1>4, <1>5, <1>6, <1>7, <1>8, <1>9 DEF Next

-----------------------------------------------------------------------------
(* The token count.  A step moves a token of s by changing value[s] and    *)
(* the set of its owners together, or changes neither.                     *)
LEMMA OwnersFinite ==
    ASSUME NEW s
    PROVE  /\ Owners(s) \subseteq Proc
           /\ IsFiniteSet(Owners(s))
           /\ Cardinality(Owners(s)) \in Nat
<1>1. Owners(s) \subseteq Proc
  BY DEF Owners, HandedOff
<1>2. IsFiniteSet(Owners(s))
  BY <1>1, ProcAssumption, FS_Subset
<1> QED BY <1>1, <1>2, FS_CardinalityType

Tokens == TokensConserved /\ NoTokenIgnored

LEMMA TokenPart == SemInv /\ [Next]_vars => Tokens'
<1> SUFFICES ASSUME SemInv, [Next]_vars PROVE Tokens'
  OBVIOUS
<1>type. /\ value \in [Sem -> Nat] /\ want \in [Proc -> Sem \cup {NoSem}] /\ held \in [Proc -> SUBSET Sem]
         /\ \A s \in Sem : initial[s] \in Nat
  BY InitialAssumption DEF SemInv, TypeOK, SemTypeOK
<1>old. WaitInv /\ Tokens
  BY DEF SemInv, Tokens
<1>same. ASSUME \A s \in Sem : value'[s] = value[s] /\ Owners(s)' = Owners(s)
         PROVE  TokensConserved'
  BY <1>same, <1>old DEF Tokens, TokensConserved
<1>ignored. ASSUME UNCHANGED <<value, wait_queue>> PROVE NoTokenIgnored'
  BY <1>ignored, <1>old DEF Tokens, NoTokenIgnored
<1>move. ASSUME NEW s \in Sem,
                value'[s] + Cardinality(Owners(s)') = value[s] + Cardinality(Owners(s)),
                \A t \in Sem : t # s => value'[t] = value[t] /\ Owners(t)' = Owners(t)
         PROVE  TokensConserved'
  <2> SUFFICES ASSUME NEW t \in Sem
               PROVE  value'[t] + Cardinality(Owners(t)') = initial[t]
    BY DEF TokensConserved
  <2>1. value[t] + Cardinality(Owners(t)) = initial[t]
    BY <1>old DEF Tokens, TokensConserved
  <2>2. CASE t = s
    BY <1>move, <2>1, <2>2
  <2>3. CASE t # s
    BY <1>move, <2>1, <2>3
  <2> QED BY <2>2, <2>3
<1>1. ASSUME NEW s \in Sem, DownTakes(s) PROVE Tokens'
  <2>1. /\ current \in Proc /\ want[current] = NoSem /\ s \notin held[current]
        /\ UNCHANGED <<wait_queue, want>>
        /\ value[s] > 0
        /\ value' = [value EXCEPT ![s] = @ - 1]
        /\ held' = [held EXCEPT ![current] = @ \cup {s}]
    BY <1>1, <1>old DEF DownTakes, Take, CanTake, Running, WaitInv
  <2>2. Owners(s)' = Owners(s) \cup {current}
    BY <2>1, <1>type DEF Owners, HandedOff, InQueue
  <2>3. \A t \in Sem : t # s => value'[t] = value[t] /\ Owners(t)' = Owners(t)
    BY <2>1, <1>type DEF Owners, HandedOff, InQueue
  <2>4. current \notin Owners(s)
    BY <2>1, NoSemAssumption DEF Owners, HandedOff
  <2>5. Cardinality(Owners(s)') = Cardinality(Owners(s)) + 1
    BY <2>2, <2>4, OwnersFinite, FS_AddElement
  <2>6. value[s] \in Nat /\ value'[s] = value[s] - 1
    BY <2>1, <1>type
  <2>7. value'[s] + Cardinality(Owners(s)') = value[s] + Cardinality(Owners(s))
    BY <2>5, <2>6, OwnersFinite
  <2>8. NoTokenIgnored'
    <3>1. wait_queue[s] = <<>>
      BY <2>1, <1>old DEF Tokens, NoTokenIgnored
    <3> QED BY <2>1, <2>3, <3>1, <1>old DEF Tokens, NoTokenIgnored
  <2> QED BY <2>3, <2>7, <2>8, <1>move DEF Tokens
<1>2. ASSUME NEW s \in Sem, DownWaits(s) PROVE Tokens'
  <2>1. /\ current \in Proc /\ want[current] = NoSem
        /\ UNCHANGED <<value, held>>
        /\ want' = [want EXCEPT ![current] = s]
    BY <1>2, <1>old DEF DownWaits, Wait, Running, WaitInv
  <2>2. \A t \in Sem : \A p : InQueue(p, t)' <=> InQueue(p, t) \/ (t = s /\ p = current)
    BY <1>2, DownWaitsQueue
  <2>3. \A t \in Sem : HandedOff(t)' = HandedOff(t)
    BY <2>1, <2>2, <1>type, NoSemAssumption DEF HandedOff
  <2>4. \A t \in Sem : Owners(t)' = Owners(t)
    BY <2>1, <2>3 DEF Owners
  <2>5. value[s] = 0 /\ \A t \in Sem : t # s => wait_queue'[t] = wait_queue[t]
    BY <1>2, <1>type DEF DownWaits, Wait, CanTake
  <2>6. NoTokenIgnored'
    BY <2>1, <2>5, <1>old DEF Tokens, NoTokenIgnored
  <2> QED BY <2>1, <2>4, <2>6, <1>same DEF Tokens
<1>3. ASSUME NEW s \in Sem, DownReturns(s) PROVE Tokens'
  <2>1. current \in Proc /\ want[current] = s /\ \A t \in Sem : ~InQueue(current, t)
    BY <1>3, RunningNotQueued DEF DownReturns
  <2>2. wakeup_flags[current] = "WT_KSEM"
    BY <2>1, <1>old DEF WaitInv
  <2>3. wait_queue' = wait_queue
    <3>1. wait_queue \in [Sem -> Seq(Proc)]
      BY DEF SemInv, TypeOK, SemTypeOK
    <3>2. Without(wait_queue[s], current) = wait_queue[s]
      BY <2>1, <3>1, WithoutType DEF InQueue
    <3> QED BY <1>3, <3>1, <3>2 DEF DownReturns, StopWaiting
  <2>4. /\ value' = value
        /\ want' = [want EXCEPT ![current] = NoSem]
        /\ held' = [held EXCEPT ![current] = @ \cup {s}]
    BY <1>3, <2>2 DEF DownReturns, StopWaiting
  <2>5. \A t \in Sem : Owners(t)' = Owners(t)
    BY <2>1, <2>3, <2>4, <1>type, NoSemAssumption DEF Owners, HandedOff, InQueue
  <2> QED BY <2>3, <2>4, <2>5, <1>same, <1>ignored DEF Tokens
<1>4. ASSUME NEW s \in Sem, UpGives(s) PROVE Tokens'
  <2>1. /\ current \in Proc /\ want[current] = NoSem /\ s \in held[current]
        /\ Up(s) /\ want' = want
        /\ held' = [held EXCEPT ![current] = @ \ {s}]
        /\ \A t \in Sem : ~InQueue(current, t)
    BY <1>4, <1>old, UpAsserts, RunningNotQueued DEF UpGives, Running, WaitInv
  <2>2. current \in Owners(s)
    BY <2>1 DEF Owners
  <2>3. Cardinality(Owners(s) \ {current}) = Cardinality(Owners(s)) - 1
    BY <2>2, OwnersFinite, FS_RemoveElement
  <2>4. CASE wait_queue[s] = <<>>
    <3>1. wait_queue' = wait_queue /\ value' = [value EXCEPT ![s] = value[s] + 1]
      BY <2>1, <2>4 DEF Up, TokensAfterUp
    <3>2. Owners(s)' = Owners(s) \ {current}
      BY <2>1, <3>1, <1>type, NoSemAssumption DEF Owners, HandedOff, InQueue
    <3>3. \A t \in Sem : t # s => value'[t] = value[t] /\ Owners(t)' = Owners(t)
      BY <2>1, <3>1, <1>type DEF Owners, HandedOff, InQueue
    <3>4. value[s] \in Nat /\ value'[s] = value[s] + 1
      BY <3>1, <1>type
    <3>5. value'[s] + Cardinality(Owners(s)') = value[s] + Cardinality(Owners(s))
      BY <2>3, <3>2, <3>4, OwnersFinite
    <3>6. NoTokenIgnored'
      BY <2>4, <3>1, <3>3, <1>old DEF Tokens, NoTokenIgnored
    <3> QED BY <3>3, <3>5, <3>6, <1>move DEF Tokens
  <2>5. CASE wait_queue[s] # <<>>
    <3> DEFINE w == Head(wait_queue[s])
    <3>1. wakeup_wait(s) /\ value' = value
      <4>1. TokensAfterUp(s) = value[s]
        BY <2>5 DEF TokensAfterUp
      <4> QED BY <2>1, <2>5, <4>1, <1>type DEF Up
    <3>2. w \in Proc /\ InQueue(w, s) /\ want[w] = s
      BY <2>5, HeadWaiter
    <3>3. \A t \in Sem : \A p : InQueue(p, t)' <=> InQueue(p, t) /\ ~(t = s /\ p = w)
      BY <2>5, <3>1, WakeupWaitQueue
    <3>q. \A t \in Sem : t # s => wait_queue'[t] = wait_queue[t]
      BY <3>1 DEF wakeup_wait, SemInv, TypeOK, SemTypeOK
    <3> HIDE DEF w
    <3>4. w # current /\ w \notin Owners(s)
      BY <2>1, <3>2, <1>old DEF Owners, HandedOff, WaitInv
    <3>5. /\ HandedOff(s)' = HandedOff(s) \cup {w}
          /\ \A t \in Sem : t # s => HandedOff(t)' = HandedOff(t)
      BY <2>1, <3>2, <3>3 DEF HandedOff
    <3>6. Owners(s)' = (Owners(s) \ {current}) \cup {w}
      BY <2>1, <3>4, <3>5, <1>type, NoSemAssumption DEF Owners, HandedOff
    <3>7. \A t \in Sem : t # s => value'[t] = value[t] /\ Owners(t)' = Owners(t)
      BY <2>1, <3>1, <3>5, <1>type DEF Owners
    <3>8. Cardinality((Owners(s) \ {current}) \cup {w}) = Cardinality(Owners(s) \ {current}) + 1
      <4>1. IsFiniteSet(Owners(s) \ {current})
        BY OwnersFinite, FS_RemoveElement
      <4> QED BY <3>4, <4>1, FS_AddElement
    <3>9. Cardinality(Owners(s)') = Cardinality(Owners(s))
      BY <2>3, <3>6, <3>8, OwnersFinite
    <3>10. value'[s] + Cardinality(Owners(s)') = value[s] + Cardinality(Owners(s))
      BY <3>1, <3>9
    <3>11. NoTokenIgnored'
      BY <2>5, <3>1, <3>q, <1>old DEF Tokens, NoTokenIgnored
    <3> QED BY <3>7, <3>10, <3>11, <1>move DEF Tokens
  <2> QED BY <2>4, <2>5
<1>5. ASSUME UNCHANGED <<value, wait_queue, want, held>> PROVE Tokens'
  <2>1. \A s \in Sem : value'[s] = value[s] /\ Owners(s)' = Owners(s)
    BY <1>5 DEF Owners, HandedOff, InQueue
  <2> QED BY <2>1, <1>5, <1>same, <1>ignored DEF Tokens
<1>6. CASE (\E p \in Proc : Kill(p) \/ InterruptWake(p)) \/ Nap \/ NapReturns
  BY <1>5, <1>6 DEF Kill, InterruptWake, Nap, NapReturns, sem_vars
<1>7. CASE SleepSchedule \/ Resched \/ TimerInterrupt \/ InterruptReturn \/ UNCHANGED vars
  BY <1>5, <1>7 DEF SleepSchedule, Resched, TimerInterrupt, InterruptReturn, vars, sem_vars
<1> QED BY <1>1, <1>2, <1>3, <1>4, <1>6, <1>7 DEF Next

-----------------------------------------------------------------------------
LEMMA SemNext == SemInv /\ [Next]_vars => SemInv'
BY NextType, SchedPart, WaitPart, TokenPart DEF SemInv, Waiting, Tokens

LEMMA SemAlways == Spec => []SemInv
BY SemInit, SemNext, PTL DEF Spec

(* Whatever the threads do to one another, and whenever a tick comes,      *)
(* down() and up() neither lose a token of a semaphore nor make one up.    *)
THEOREM TokensAlwaysConserved == Spec => []TokensConserved
<1>1. SemInv => TokensConserved
  BY DEF SemInv
<1> QED BY <1>1, SemAlways, PTL

(* Nobody sleeps in front of a semaphore that has a token: __down's test   *)
(* of the value and its wait_current_set are one section, and up() hands   *)
(* its token to the first waiter.                                          *)
THEOREM NobodyIgnoresAToken == Spec => []NoTokenIgnored
<1>1. SemInv => NoTokenIgnored
  BY DEF SemInv
<1> QED BY <1>1, SemAlways, PTL

(* The processes of a wait queue are asleep on that semaphore: a wait_t,   *)
(* which lives on its process's stack, never outlives __down.              *)
THEOREM WaitersSleep == Spec => []QueuedAreAsleep
<1>1. SemInv => QueuedAreAsleep
  BY DEF SemInv
<1> QED BY <1>1, SemAlways, PTL

(* The assertions of up() and down() never fail.                           *)
THEOREM AssertionsHold == Spec => []NoPanic
<1>1. SemInv => NoPanic
  BY DEF SemInv
<1> QED BY <1>1, SemAlways, PTL

(* A semaphore initialised with one is held by at most one thread.         *)
THEOREM OneHolder == Spec => []MutualExclusion
<1>1. SemInv => MutualExclusion
  <2> SUFFICES ASSUME SemInv, NEW s \in Sem, initial[s] = 1,
                      NEW p \in Proc, NEW q \in Proc, s \in held[p], s \in held[q], p # q
               PROVE  FALSE
    BY DEF MutualExclusion
  <2>1. value[s] \in Nat /\ value[s] + Cardinality(Owners(s)) = 1
    BY DEF SemInv, TypeOK, SemTypeOK, TokensConserved
  <2>2. p \in Owners(s) /\ q \in Owners(s) \ {p}
    BY DEF Owners
  <2>3. Cardinality(Owners(s) \ {p}) = Cardinality(Owners(s)) - 1
    BY <2>2, OwnersFinite, FS_RemoveElement
  <2>4. IsFiniteSet(Owners(s) \ {p}) /\ Cardinality(Owners(s) \ {p}) \in Nat
    BY OwnersFinite, FS_RemoveElement, FS_CardinalityType
  <2>5. Cardinality(Owners(s) \ {p}) = 0
    BY <2>1, <2>3, <2>4, OwnersFinite
  <2> QED BY <2>2, <2>4, <2>5, FS_EmptySet
<1> QED BY <1>1, SemAlways, PTL

-----------------------------------------------------------------------------
(* The refinement.  A token in the hand of a waiter that has not run yet   *)
(* counts as free, so the steps that move tokens are those by which        *)
(* `current' takes one, leaves down() with one, or gives one back.         *)
tokens == [s \in Sem |-> value[s] + Cardinality(HandedOff(s))]

LEMMA HandedOffFinite ==
    ASSUME NEW s
    PROVE  /\ HandedOff(s) \subseteq Proc
           /\ IsFiniteSet(HandedOff(s))
           /\ Cardinality(HandedOff(s)) \in Nat
<1>1. HandedOff(s) \subseteq Proc
  BY DEF HandedOff
<1>2. IsFiniteSet(HandedOff(s))
  BY <1>1, ProcAssumption, FS_Subset
<1> QED BY <1>1, <1>2, FS_CardinalityType

LEMMA CountingInit == Init => Counting!Init
<1> SUFFICES ASSUME Init PROVE Counting!Init
  OBVIOUS
<1>1. \A s \in Sem : HandedOff(s) = {}
  BY NoSemAssumption DEF Init, HandedOff
<1>2. \A s \in Sem : Cardinality(HandedOff(s)) = 0
  BY <1>1, FS_EmptySet
<1>3. value = initial /\ initial \in [Sem -> Nat]
  BY InitialAssumption DEF Init, sem_init
<1>4. \A s \in Sem : value[s] + Cardinality(HandedOff(s)) = initial[s]
  BY <1>2, <1>3
<1>5. tokens = initial
  BY <1>3, <1>4, Zenon DEF tokens
<1> QED BY <1>5 DEF Init, Counting!Init, tokens

LEMMA CountingStep == SemInv /\ [Next]_vars => [Counting!Next]_(Counting!vars)
<1> SUFFICES ASSUME SemInv, [Next]_vars
             PROVE  Counting!Next \/ UNCHANGED <<tokens, want, held>>
  BY Zenon DEF tokens, Counting!vars
<1>type. /\ value \in [Sem -> Nat] /\ want \in [Proc -> Sem \cup {NoSem}] /\ held \in [Proc -> SUBSET Sem]
         /\ wait_queue \in [Sem -> Seq(Proc)]
  BY DEF SemInv, TypeOK, SemTypeOK
<1>old. WaitInv
  BY DEF SemInv
<1>same. ASSUME \A t \in Sem : value'[t] + Cardinality(HandedOff(t)') = value[t] + Cardinality(HandedOff(t))
         PROVE  tokens' = tokens
  BY <1>same, Zenon DEF tokens
<1>move. ASSUME NEW s \in Sem, NEW n,
                value'[s] + Cardinality(HandedOff(s)') = n,
                \A t \in Sem : t # s => value'[t] + Cardinality(HandedOff(t)') = value[t] + Cardinality(HandedOff(t))
         PROVE  tokens' = [tokens EXCEPT ![s] = n]
  BY <1>move DEF tokens
<1>1. ASSUME NEW s \in Sem, DownTakes(s) PROVE Counting!Next
  <2>1. /\ current \in Proc /\ want[current] = NoSem
        /\ UNCHANGED <<wait_queue, want>>
        /\ value[s] > 0
        /\ value' = [value EXCEPT ![s] = @ - 1]
        /\ held' = [held EXCEPT ![current] = @ \cup {s}]
    BY <1>1, <1>old DEF DownTakes, Take, CanTake, Running, WaitInv
  <2>2. \A t \in Sem : HandedOff(t)' = HandedOff(t)
    BY <2>1 DEF HandedOff, InQueue
  <2>3. value'[s] + Cardinality(HandedOff(s)') = tokens[s] - 1 /\ tokens[s] > 0
    BY <2>1, <2>2, <1>type, HandedOffFinite DEF tokens
  <2>4. tokens' = [tokens EXCEPT ![s] = tokens[s] - 1]
    BY <2>1, <2>2, <2>3, <1>type, <1>move
  <2>5. Counting!TakeAtOnce(current, s)
    BY <2>1, <2>3, <2>4 DEF Counting!TakeAtOnce, Counting!TakeOne, tokens
  <2>6. current \in Proc
    BY <2>1
  <2> QED BY <2>5, <2>6 DEF Counting!Next, Counting!TakeAtOnce
<1>2. ASSUME NEW s \in Sem, DownWaits(s) PROVE Counting!Next
  <2>1. /\ current \in Proc /\ want[current] = NoSem
        /\ UNCHANGED <<value, held>>
        /\ want' = [want EXCEPT ![current] = s]
    BY <1>2, <1>old DEF DownWaits, Wait, Running, WaitInv
  <2>2. \A t \in Sem : \A p : InQueue(p, t)' <=> InQueue(p, t) \/ (t = s /\ p = current)
    BY <1>2, DownWaitsQueue
  <2>3. \A t \in Sem : HandedOff(t)' = HandedOff(t)
    BY <2>1, <2>2, <1>type, NoSemAssumption DEF HandedOff
  <2>4. tokens' = tokens
    BY <2>1, <2>3, <1>same
  <2>5. Counting!Ask(current, s)
    BY <2>1, <2>4 DEF Counting!Ask, tokens
  <2> QED BY <2>1, <2>5 DEF Counting!Next
<1>3. ASSUME NEW s \in Sem, DownReturns(s) PROVE Counting!Next
  <2>1. current \in Proc /\ want[current] = s /\ \A t \in Sem : ~InQueue(current, t)
    BY <1>3, RunningNotQueued DEF DownReturns
  <2>2. wakeup_flags[current] = "WT_KSEM"
    BY <2>1, <1>old DEF WaitInv
  <2>3. wait_queue' = wait_queue
    <3>1. Without(wait_queue[s], current) = wait_queue[s]
      BY <2>1, <1>type, WithoutType DEF InQueue
    <3> QED BY <1>3, <1>type, <3>1 DEF DownReturns, StopWaiting
  <2>4. /\ value' = value
        /\ want' = [want EXCEPT ![current] = NoSem]
        /\ held' = [held EXCEPT ![current] = @ \cup {s}]
    BY <1>3, <2>2 DEF DownReturns, StopWaiting
  <2>5. /\ current \in HandedOff(s)
        /\ HandedOff(s)' = HandedOff(s) \ {current}
        /\ \A t \in Sem : t # s => HandedOff(t)' = HandedOff(t)
    BY <2>1, <2>3, <2>4, <1>type, NoSemAssumption DEF HandedOff, InQueue
  <2>6. /\ Cardinality(HandedOff(s) \ {current}) = Cardinality(HandedOff(s)) - 1
        /\ Cardinality(HandedOff(s)) \in Nat
        /\ Cardinality(HandedOff(s) \ {current}) \in Nat
    BY <2>5, HandedOffFinite, FS_RemoveElement, FS_CardinalityType
  <2>7. value'[s] + Cardinality(HandedOff(s)') = tokens[s] - 1 /\ tokens[s] > 0
    BY <2>4, <2>5, <2>6, <1>type DEF tokens
  <2>8. tokens' = [tokens EXCEPT ![s] = tokens[s] - 1]
    BY <2>4, <2>5, <2>7, <1>move
  <2>9. Counting!TakeOne(current, s)
    BY <2>4, <2>7, <2>8 DEF Counting!TakeOne, tokens
  <2>10. Counting!Enter(current)
    BY <2>1, <2>4, <2>9 DEF Counting!Enter
  <2> QED BY <2>1, <2>10 DEF Counting!Next
<1>4. ASSUME NEW s \in Sem, UpGives(s) PROVE Counting!Next
  <2>1. /\ current \in Proc /\ want[current] = NoSem /\ s \in held[current]
        /\ Up(s) /\ want' = want
        /\ held' = [held EXCEPT ![current] = @ \ {s}]
    BY <1>4, <1>old, UpAsserts, RunningNotQueued DEF UpGives, Running, WaitInv
  <2>2. ASSUME value'[s] + Cardinality(HandedOff(s)') = tokens[s] + 1,
               \A t \in Sem : t # s => value'[t] = value[t] /\ HandedOff(t)' = HandedOff(t)
        PROVE  Counting!Next
    <3>1. tokens' = [tokens EXCEPT ![s] = tokens[s] + 1]
      BY <2>2, <1>move
    <3>2. Counting!Leave(current, s)
      BY <2>1, <3>1 DEF Counting!Leave, tokens
    <3> QED BY <2>1, <3>2 DEF Counting!Next
  <2>3. CASE wait_queue[s] = <<>>
    <3>1. wait_queue' = wait_queue /\ value' = [value EXCEPT ![s] = value[s] + 1]
      BY <2>1, <2>3 DEF Up, TokensAfterUp
    <3>2. \A t \in Sem : HandedOff(t)' = HandedOff(t)
      BY <2>1, <3>1 DEF HandedOff, InQueue
    <3>3. value'[s] + Cardinality(HandedOff(s)') = tokens[s] + 1
      BY <3>1, <3>2, <1>type, HandedOffFinite DEF tokens
    <3> QED BY <2>2, <3>1, <3>2, <3>3, <1>type
  <2>4. CASE wait_queue[s] # <<>>
    <3> DEFINE w == Head(wait_queue[s])
    <3>1. wakeup_wait(s) /\ value' = value
      <4>1. TokensAfterUp(s) = value[s]
        BY <2>4 DEF TokensAfterUp
      <4> QED BY <2>1, <2>4, <4>1, <1>type DEF Up
    <3>2. w \in Proc /\ InQueue(w, s) /\ want[w] = s
      BY <2>4, HeadWaiter
    <3>3. \A t \in Sem : \A p : InQueue(p, t)' <=> InQueue(p, t) /\ ~(t = s /\ p = w)
      BY <2>4, <3>1, WakeupWaitQueue
    <3> HIDE DEF w
    <3>4. /\ w \notin HandedOff(s)
          /\ HandedOff(s)' = HandedOff(s) \cup {w}
          /\ \A t \in Sem : t # s => HandedOff(t)' = HandedOff(t)
      BY <2>1, <3>2, <3>3 DEF HandedOff
    <3>5. Cardinality(HandedOff(s) \cup {w}) = Cardinality(HandedOff(s)) + 1
      BY <3>4, HandedOffFinite, FS_AddElement
    <3>6. value'[s] + Cardinality(HandedOff(s)') = tokens[s] + 1
      BY <3>1, <3>4, <3>5, <1>type, HandedOffFinite DEF tokens
    <3> QED BY <2>2, <3>1, <3>4, <3>6
  <2> QED BY <2>3, <2>4
<1>5. ASSUME UNCHANGED <<value, wait_queue, want, held>> PROVE UNCHANGED <<tokens, want, held>>
  <2>1. \A s \in Sem : HandedOff(s)' = HandedOff(s)
    BY <1>5 DEF HandedOff, InQueue
  <2> QED BY <2>1, <1>5, <1>same
<1>6. CASE (\E p \in Proc : Kill(p) \/ InterruptWake(p)) \/ Nap \/ NapReturns
  BY <1>5, <1>6 DEF Kill, InterruptWake, Nap, NapReturns, sem_vars
<1>7. CASE SleepSchedule \/ Resched \/ TimerInterrupt \/ InterruptReturn \/ UNCHANGED vars
  BY <1>5, <1>7 DEF SleepSchedule, Resched, TimerInterrupt, InterruptReturn, vars, sem_vars
<1> QED BY <1>1, <1>2, <1>3, <1>4, <1>6, <1>7 DEF Next

(* down() and up() implement the counting semaphore: a process leaves      *)
(* down() only with a token nobody else has, up() frees exactly one, and   *)
(* neither an interrupt, nor a kill, nor the scheduler shows at the        *)
(* abstract level.                                                         *)
THEOREM SemaphoreImplementsCounting == Spec => Counting!Safety
BY CountingInit, CountingStep, SemAlways, PTL DEF Spec, Counting!Safety
=============================================================================
