---------------------------- MODULE StdinProofs -----------------------------
(***************************************************************************)
(* Proofs about Stdin for any processes, characters and size of the ring.  *)
(***************************************************************************)
EXTENDS Stdin, KSchedProofs, FiniteSetTheorems

-----------------------------------------------------------------------------
(* The ring. *)
LEMMA SlotType == \A pos \in Nat : Slot(pos) \in 0 .. STDIN_BUFSIZE - 1
BY StdinAssumption DEF Slot

(* What ReadLoop copies: all there is, or all that is missing.             *)
LEMMA CopyType ==
    ASSUME TypeOK, current \in Proc
    PROVE  /\ Missing \in Nat /\ Copied \in Nat
           /\ Copied <= Missing /\ p_rpos + Copied <= p_wpos
           /\ p_wpos - p_rpos <= Missing => p_rpos + Copied = p_wpos
           /\ p_wpos - p_rpos >= Missing => Copied = Missing
           /\ Len(got[current]) + Missing = len[current]
<1>1. /\ p_rpos \in Nat /\ p_wpos \in Nat /\ p_rpos <= p_wpos
      /\ len[current] \in Nat /\ Len(got[current]) \in Nat /\ Len(got[current]) <= len[current]
  BY StdinAssumption DEF TypeOK
<1> QED BY <1>1 DEF Missing, Copied

LEMMA GotoType ==
    ASSUME TypeOK, NEW where \in PC, Goto(where)
    PROVE  /\ pc' \in [Task -> PC] /\ pc'[current] = where
           /\ \A p \in Task : p # current => pc'[p] = pc[p]
BY DEF TypeOK, SchedTypeOK, Goto

LEMMA InitType == Init => TypeOK
<1> SUFFICES ASSUME Init PROVE TypeOK
  OBVIOUS
<1>1. run_list \in Seq(Proc)
  <2>1. Cardinality(Proc) \in Nat
    BY StdinAssumption, FS_CardinalityType
  <2> QED BY <2>1 DEF Init
<1>2. need_resched \in [Task -> BOOLEAN]
  BY Zenon DEF Init
<1>3. (CHOOSE c \in Char : TRUE) \in Char
  BY StdinAssumption
<1>4. p_rpos \in 0 .. p_wpos /\ p_wpos \in 0 .. p_rpos + STDIN_BUFSIZE
  BY StdinAssumption DEF Init
<1>5. time_slice \in [Task -> 0 .. MAX_TIME_SLICE]
  BY SliceAssumption DEF Init
<1>6. len \in [Proc -> 0 .. MaxRead] /\ got \in [Proc -> Seq(Char)]
      /\ \A p \in Proc : Len(got[p]) <= len[p]
  BY StdinAssumption DEF Init
<1>7. stdin_buffer \in [0 .. STDIN_BUFSIZE - 1 -> Char]
  BY <1>3 DEF Init
<1>8. pstate \in [Task -> State] /\ wait_state \in [Task -> WaitState] /\ pc \in [Task -> PC]
  BY DEF Init, State, WaitState, PC
<1> QED BY <1>1, <1>2, <1>4, <1>5, <1>6, <1>7, <1>8 DEF Init, TypeOK, SchedTypeOK, Task

(* wakeup_queue at a tick: every reader in the queue wakes.                *)
LEMMA TypedType ==
    ASSUME TypeOK, RunQueueExact, IsInjective(wait_queue), NEW c \in Char, TickTyped(c)
    PROVE  /\ SchedTypeOK' /\ wait_queue' = <<>> /\ current' = current
           /\ run_list' = AllEnqueued(wait_queue)
           /\ \A p \in Proc : p \in ToSet(wait_queue) <=> Contains(wait_queue, p)
           /\ p_rpos' \in 0 .. p_wpos' /\ p_wpos' \in 0 .. p_rpos' + STDIN_BUFSIZE
           /\ stdin_buffer' \in [0 .. STDIN_BUFSIZE - 1 -> Char]
           /\ wakeup_flags' \in [Proc -> {"WT_KBD", "WT_INTERRUPTED"}]
           /\ pc' \in [Task -> PC]
           /\ \A p \in Task : pc'[p] = IF p = current /\ p # idleproc THEN "trap" ELSE pc[p]
<1>1. Waked = wait_queue /\ wait_queue \in Seq(Proc) /\ SchedTypeOK
  BY DEF Waked, TypeOK
<1>2. wait_queue' = <<>>
  BY <1>1 DEF TickTyped, WakeReaders
<1>3. \A p \in Proc : p \in ToSet(wait_queue) <=> Contains(wait_queue, p)
  BY <1>1 DEF ToSet, Contains
<1>4. run_list' = AllEnqueued(wait_queue) /\ run_list' \in Seq(Proc)
  BY <1>1, EnqueueAll DEF TickTyped, WakeReaders
<1>5. /\ pstate' = [p \in Task |-> IF p \in Woken(wait_queue) THEN "RUNNABLE" ELSE pstate[p]]
      /\ wait_state' = [p \in Task |-> IF p \in Woken(wait_queue) THEN "none" ELSE wait_state[p]]
      /\ current' = current
  BY <1>1 DEF TickTyped, WakeReaders, Charge
<1>6. pstate' \in [Task -> State] /\ wait_state' \in [Task -> WaitState]
  BY <1>1, <1>5 DEF SchedTypeOK, State, WaitState
<1>7. time_slice' \in [Task -> 0 .. MAX_TIME_SLICE]
  <2>1. ASSUME NEW n \in 0 .. MAX_TIME_SLICE
        PROVE  SliceAfterTick(n) \in 0 .. MAX_TIME_SLICE /\ Refill(n) \in 0 .. MAX_TIME_SLICE
    BY SliceAssumption DEF SliceAfterTick, Refill
  <2> QED BY <1>1, <2>1 DEF TickTyped, Charge, SchedTypeOK
<1>8. need_resched' \in [Task -> BOOLEAN]
  <2> DEFINE b == need_resched[current] \/ current = idleproc \/ SliceOver(time_slice[current])
  <2>1. need_resched' = [need_resched EXCEPT ![current] = b]
    BY DEF TickTyped, Charge
  <2>2. b \in BOOLEAN
    BY <1>1, Zenon DEF SchedTypeOK
  <2> HIDE DEF b
  <2> QED BY <1>1, <2>1, <2>2 DEF SchedTypeOK
<1>9. SchedTypeOK'
  BY <1>1, <1>4, <1>5, <1>6, <1>7, <1>8 DEF SchedTypeOK
<1>10. /\ p_rpos' \in 0 .. p_wpos' /\ p_wpos' \in 0 .. p_rpos' + STDIN_BUFSIZE
       /\ stdin_buffer' \in [0 .. STDIN_BUFSIZE - 1 -> Char]
  <2>1. /\ p_rpos' = p_rpos /\ stdin_buffer' = [stdin_buffer EXCEPT ![Slot(p_wpos)] = c]
        /\ p_wpos' = IF p_wpos - p_rpos < STDIN_BUFSIZE THEN p_wpos + 1 ELSE p_wpos
    BY DEF TickTyped, Store, Advances
  <2>2. /\ p_rpos \in Nat /\ p_wpos \in Nat /\ p_rpos <= p_wpos /\ p_wpos <= p_rpos + STDIN_BUFSIZE
        /\ STDIN_BUFSIZE \in Nat
    BY StdinAssumption DEF TypeOK
  <2>3. p_wpos' \in Nat /\ p_rpos <= p_wpos' /\ p_wpos' <= p_rpos + STDIN_BUFSIZE
    BY <2>1, <2>2
  <2>4. stdin_buffer' \in [0 .. STDIN_BUFSIZE - 1 -> Char]
    BY <2>1 DEF TypeOK
  <2> QED BY <2>1, <2>2, <2>3, <2>4
<1>11. wakeup_flags' \in [Proc -> {"WT_KBD", "WT_INTERRUPTED"}]
  BY DEF TickTyped, WakeReaders, TypeOK
<1>12. /\ pc' \in [Task -> PC]
       /\ \A p \in Task : pc'[p] = IF p = current /\ p # idleproc THEN "trap" ELSE pc[p]
  BY DEF TickTyped, Goto, TypeOK, PC
<1> QED BY <1>2, <1>3, <1>4, <1>5, <1>9, <1>10, <1>11, <1>12

-----------------------------------------------------------------------------
(* The inductive invariant.  Somebody who is not on the hart is in user    *)
(* mode, inside the schedule() of dev_stdin_read, or dead.                 *)
Places ==
    /\ pc[idleproc] = "user"
    /\ \A p \in Proc : p # current => pc[p] \in {"user", "back", "dead"}

(* Where a process is tells its state; only a reader on its way to         *)
(* schedule() and a zombie are on the hart without being RUNNABLE.         *)
StatesTell ==
    /\ \A p \in Proc :
        /\ wait_state[p] = IF pstate[p] = "SLEEPING" THEN "WT_KBD" ELSE "none"
        /\ pstate[p] \in {"RUNNABLE", "SLEEPING", "ZOMBIE"}
        /\ pstate[p] = "ZOMBIE" <=> pc[p] = "dead"
        /\ pstate[p] = "SLEEPING" => pc[p] \in {"asleep", "back"}
        /\ pc[p] = "asleep" => pstate[p] = "SLEEPING"
    /\ current \in Proc /\ pc[current] = "back" => pstate[current] = "RUNNABLE"

(* A reader whose flags do not say WT_KBD is still in the wait queue.      *)
Waiting ==
    \A p \in Proc :
        /\ Contains(wait_queue, p) => pc[p] \in {"asleep", "back"}
        /\ pc[p] \in {"asleep", "back"} /\ wakeup_flags[p] # "WT_KBD" => Contains(wait_queue, p)

(* ShortReadIsKilled, up to the next read.                                 *)
ShortUntilDead ==
    \A p \in Proc : pc[p] \in {"trap", "user", "resched"} /\ Len(got[p]) < len[p] => p \in exiting

StdinInv ==
    /\ TypeOK /\ RunQueueExact
    /\ Places /\ StatesTell /\ Waiting /\ NoInputIgnored /\ ShortUntilDead
-----------------------------------------------------------------------------
(* Each action preserves the invariant. *)
LEMMA InitInv == Init => StdinInv
<1> SUFFICES ASSUME Init PROVE StdinInv
  OBVIOUS
<1>1. TypeOK
  BY InitType
<1>2. RunQueueExact
  BY IdleAssumption DEF Init, RunQueueExact, Task
<1>3. Places /\ StatesTell /\ Waiting /\ ShortUntilDead
  BY IdleAssumption, EmptyMembers DEF Init, Places, StatesTell, Waiting, ShortUntilDead, Task
<1>4. NoInputIgnored
  BY EmptyMembers DEF Init, NoInputIgnored, IsInjective, Task
<1> QED BY <1>1, <1>2, <1>3, <1>4 DEF StdinInv

LEMMA ReadKeeps ==
    ASSUME StdinInv, NEW n \in 1 .. MaxRead, Read(n)
    PROVE  StdinInv'
<1>1. current \in Proc /\ pc[current] = "user" /\ TypeOK /\ current \in Task
  BY DEF Read, Running, StdinInv, Task
<1>2. /\ pc' \in [Task -> PC] /\ pc'[current] = "read"
      /\ \A p \in Task : p # current => pc'[p] = pc[p]
  BY <1>1, GotoType DEF Read, PC
<1>3. UNCHANGED <<sched_vars, stdin_vars, exiting>>
  BY DEF Read
<1>4. /\ len' \in [Proc -> 0 .. MaxRead] /\ got' \in [Proc -> Seq(Char)]
      /\ \A p \in Proc : /\ len'[p] = IF p = current THEN n ELSE len[p]
                         /\ got'[p] = IF p = current THEN <<>> ELSE got[p]
  BY <1>1 DEF Read, TypeOK
<1>5. TypeOK'
  <2>1. \A p \in Proc : Len(got'[p]) <= len'[p]
    BY <1>1, <1>4 DEF TypeOK
  <2> QED BY <1>1, <1>2, <1>3, <1>4, <2>1 DEF TypeOK, SchedTypeOK, sched_vars, stdin_vars
<1>6. RunQueueExact' /\ NoInputIgnored'
  BY <1>3 DEF StdinInv, RunQueueExact, NoInputIgnored, sched_vars, stdin_vars
<1>7. Places' /\ StatesTell' /\ Waiting' /\ ShortUntilDead'
  BY <1>1, <1>2, <1>3, <1>4, IdleAssumption
     DEF StdinInv, Places, StatesTell, Waiting, ShortUntilDead, sched_vars, stdin_vars, Task
<1> QED BY <1>5, <1>6, <1>7 DEF StdinInv

(* The copying of the loop, whichever way it ends. *)
LEMMA CopyKeepsTypes ==
    ASSUME TypeOK, current \in Proc, ReadLoop
    PROVE  /\ p_rpos' \in 0 .. p_wpos' /\ p_wpos' \in 0 .. p_rpos' + STDIN_BUFSIZE
           /\ stdin_buffer' = stdin_buffer /\ len' = len /\ exiting' = exiting
           /\ p_wpos' = p_wpos /\ p_rpos' = p_rpos + Copied
           /\ got' \in [Proc -> Seq(Char)]
           /\ \A p \in Proc : Len(got'[p]) = IF p = current THEN Len(got[p]) + Copied ELSE Len(got[p])
           /\ \A p \in Proc : Len(got'[p]) <= len'[p]
<1> DEFINE new == [k \in 1 .. Copied |-> stdin_buffer[Slot(p_rpos + k - 1)]]
<1>1. /\ got' = [got EXCEPT ![current] = @ \o new] /\ p_rpos' = p_rpos + Copied
      /\ UNCHANGED <<stdin_buffer, p_wpos, len, exiting>>
  BY DEF ReadLoop
<1>2. /\ Missing \in Nat /\ Copied \in Nat
      /\ Copied <= Missing /\ p_rpos + Copied <= p_wpos
      /\ Len(got[current]) + Missing = len[current]
  BY CopyType
<1>3. /\ p_rpos \in Nat /\ p_wpos \in Nat /\ p_rpos <= p_wpos /\ p_wpos <= p_rpos + STDIN_BUFSIZE
      /\ STDIN_BUFSIZE \in Nat
  BY StdinAssumption DEF TypeOK
<1>4. \A k \in 1 .. Copied : stdin_buffer[Slot(p_rpos + k - 1)] \in Char
  <2>1. \A k \in 1 .. Copied : p_rpos + k - 1 \in Nat
    BY <1>2, <1>3
  <2> QED BY <2>1, SlotType DEF TypeOK
<1>5. new \in Seq(Char) /\ Len(new) = Copied
  BY <1>2, <1>4
<1> HIDE DEF new
<1>6. /\ got' \in [Proc -> Seq(Char)]
      /\ \A p \in Proc : Len(got'[p]) = IF p = current THEN Len(got[p]) + Copied ELSE Len(got[p])
  <2>1. \A p \in Proc : got[p] \in Seq(Char)
    BY DEF TypeOK
  <2>2. got[current] \o new \in Seq(Char) /\ Len(got[current] \o new) = Len(got[current]) + Copied
    BY <1>5, <2>1
  <2> QED BY <1>1, <2>1, <2>2 DEF TypeOK
<1>7. \A p \in Proc : Len(got'[p]) <= len'[p]
  BY <1>1, <1>2, <1>6 DEF TypeOK
<1>8. p_rpos' \in 0 .. p_wpos' /\ p_wpos' \in 0 .. p_rpos' + STDIN_BUFSIZE
  BY <1>1, <1>2, <1>3
<1> QED BY <1>1, <1>6, <1>7, <1>8

LEMMA ReadEndsKeeps ==
    ASSUME StdinInv, ReadLoop, ReadEnds
    PROVE  StdinInv'
<1>1. current \in Proc /\ pc[current] = "read" /\ TypeOK /\ current \in Task
  BY DEF ReadEnds, Running, StdinInv, Task
<1>2. /\ pc' \in [Task -> PC] /\ pc'[current] = "trap"
      /\ \A p \in Task : p # current => pc'[p] = pc[p]
  BY <1>1, GotoType DEF ReadEnds, PC
<1>3. UNCHANGED <<sched_vars, wait_queue, wakeup_flags>>
  BY DEF ReadEnds
<1>4. /\ p_rpos' \in 0 .. p_wpos' /\ p_wpos' \in 0 .. p_rpos' + STDIN_BUFSIZE
      /\ stdin_buffer' = stdin_buffer /\ len' = len /\ exiting' = exiting
      /\ p_wpos' = p_wpos /\ p_rpos' = p_rpos + Copied
      /\ got' \in [Proc -> Seq(Char)]
      /\ \A p \in Proc : Len(got'[p]) = IF p = current THEN Len(got[p]) + Copied ELSE Len(got[p])
      /\ \A p \in Proc : Len(got'[p]) <= len'[p]
  BY <1>1, CopyKeepsTypes
<1>5. Copied \in Nat /\ Copied = Missing /\ p_rpos + Copied <= p_wpos /\ p_rpos \in Nat
      /\ p_wpos \in Nat /\ Len(got[current]) + Missing = len[current]
  BY <1>1, CopyType DEF ReadEnds, TypeOK
<1>6. TypeOK'
  BY <1>1, <1>2, <1>3, <1>4 DEF TypeOK, SchedTypeOK, sched_vars
<1>7. RunQueueExact'
  BY <1>3 DEF StdinInv, RunQueueExact, sched_vars
<1>8. NoInputIgnored'
  <2>1. p_rpos = p_wpos => p_rpos' = p_wpos'
    BY <1>4, <1>5
  <2> QED BY <1>3, <1>4, <2>1 DEF StdinInv, NoInputIgnored, sched_vars
<1>9. Places' /\ StatesTell' /\ Waiting'
  BY <1>1, <1>2, <1>3, IdleAssumption
     DEF StdinInv, Places, StatesTell, Waiting, sched_vars, Task
<1>10. ShortUntilDead'
  <2> SUFFICES ASSUME NEW p \in Proc, pc'[p] \in {"trap", "user", "resched"}, Len(got'[p]) < len'[p]
               PROVE  p \in exiting'
    BY DEF ShortUntilDead
  <2>1. p # current
    BY <1>1, <1>4, <1>5 DEF TypeOK
  <2>2. p \in Task /\ pc'[p] = pc[p] /\ Len(got'[p]) = Len(got[p]) /\ len' = len /\ exiting' = exiting
    BY <1>2, <1>4, <2>1 DEF Task
  <2> QED BY <2>2 DEF StdinInv, ShortUntilDead
<1> QED BY <1>6, <1>7, <1>8, <1>9, <1>10 DEF StdinInv

LEMMA ReadWaitsKeeps ==
    ASSUME StdinInv, ReadLoop, ReadWaits
    PROVE  StdinInv'
<1>1. current \in Proc /\ pc[current] = "read" /\ TypeOK /\ current \in Task
  BY DEF ReadWaits, Running, StdinInv, Task
<1>2. /\ pc' \in [Task -> PC] /\ pc'[current] = "asleep"
      /\ \A p \in Task : p # current => pc'[p] = pc[p]
  BY <1>1, GotoType DEF ReadWaits, PC
<1>3. SchedTypeOK' /\ UNCHANGED <<run_list, current, time_slice, need_resched>>
      /\ \A p \in Task : /\ pstate'[p] = IF p = current THEN "SLEEPING" ELSE pstate[p]
                         /\ wait_state'[p] = IF p = current THEN "WT_KBD" ELSE wait_state[p]
  <2>1. GoToSleep("WT_KBD") /\ "WT_KBD" \in WaitState
    BY DEF ReadWaits, WaitState, Interruptible
  <2> QED BY <1>1, <2>1, SleepType DEF GoToSleep, SchedTypeOK, TypeOK
<1>4. /\ p_rpos' \in 0 .. p_wpos' /\ p_wpos' \in 0 .. p_rpos' + STDIN_BUFSIZE
      /\ stdin_buffer' = stdin_buffer /\ len' = len /\ exiting' = exiting
      /\ p_wpos' = p_wpos /\ p_rpos' = p_rpos + Copied
      /\ got' \in [Proc -> Seq(Char)]
      /\ \A p \in Proc : Len(got'[p]) = IF p = current THEN Len(got[p]) + Copied ELSE Len(got[p])
      /\ \A p \in Proc : Len(got'[p]) <= len'[p]
  BY <1>1, CopyKeepsTypes
<1>5. p_rpos' = p_wpos'
  <2>1. p_rpos \in Nat /\ p_wpos \in Nat /\ Missing \in Nat
    BY <1>1, CopyType DEF TypeOK
  <2>2. p_wpos - p_rpos <= Missing
    BY <2>1 DEF ReadWaits
  <2> QED BY <1>1, <1>4, <2>2, CopyType
<1>6. /\ wait_queue' \in Seq(Proc) /\ IsInjective(wait_queue')
      /\ \A p \in Proc : Contains(wait_queue', p) <=> Contains(wait_queue, p) \/ p = current
  <2>1. ~ Contains(wait_queue, current)
    BY <1>1 DEF StdinInv, Waiting
  <2>2. wait_queue' = Append(wait_queue, current) /\ wait_queue \in Seq(Proc) /\ IsInjective(wait_queue)
    BY <1>1 DEF ReadWaits, TypeOK, StdinInv, NoInputIgnored
  <2> QED BY <1>1, <2>1, <2>2, AppendDistinct, AppendMembers
<1>7. /\ wakeup_flags' \in [Proc -> {"WT_KBD", "WT_INTERRUPTED"}]
      /\ \A p \in Proc : p # current => wakeup_flags'[p] = wakeup_flags[p]
  BY <1>1 DEF ReadWaits, TypeOK
<1>8. TypeOK'
  BY <1>1, <1>2, <1>3, <1>4, <1>6, <1>7 DEF TypeOK
<1>9. RunQueueExact'
  BY <1>1, <1>3 DEF StdinInv, RunQueueExact, Task
<1>10. NoInputIgnored'
  BY <1>3, <1>4, <1>5, <1>6 DEF StdinInv, NoInputIgnored, Task
<1>11. Places' /\ StatesTell' /\ Waiting'
  BY <1>1, <1>2, <1>3, <1>6, <1>7, IdleAssumption
     DEF StdinInv, Places, StatesTell, Waiting, Task
<1>12. ShortUntilDead'
  BY <1>1, <1>2, <1>4 DEF StdinInv, ShortUntilDead, Task
<1> QED BY <1>8, <1>9, <1>10, <1>11, <1>12 DEF StdinInv

(* The three schedule()s: of a reader that goes to sleep, of a process     *)
(* that is preempted or dead, and of idleproc.                             *)
LEMMA SchedulesKeep ==
    ASSUME StdinInv, schedule, UNCHANGED <<stdin_vars, len, got, exiting>>,
           pc' \in [Task -> PC],
           \A p \in Task : p # current => pc'[p] = pc[p],
           \/ pc[current] = "asleep" /\ pc'[current] = "back" /\ current \in Proc
           \/ pc[current] = "resched" /\ pc'[current] = "user" /\ current \in Proc
           \/ pc[current] = "dead" /\ pc'[current] = "dead" /\ current \in Proc
           \/ current = idleproc /\ pc'[current] = pc[current]
    PROVE  StdinInv'
<1>1. TypeOK /\ RunQueueExact
  BY DEF StdinInv
<1>2. SchedTypeOK' /\ RunQueueExact' /\ UNCHANGED <<pstate, wait_state>>
      /\ (current' \in Proc => pstate[current'] = "RUNNABLE")
  BY <1>1, ScheduleType, ScheduleQueue DEF TypeOK, schedule
<1>3. TypeOK'
  BY <1>1, <1>2 DEF TypeOK, stdin_vars
<1>4. NoInputIgnored'
  BY <1>2 DEF StdinInv, NoInputIgnored, stdin_vars
<1>5. Places' /\ StatesTell'
  BY <1>2, IdleAssumption DEF StdinInv, Places, StatesTell, Task
<1>6. Waiting' /\ ShortUntilDead'
  BY IdleAssumption DEF StdinInv, Waiting, ShortUntilDead, stdin_vars, Task
<1> QED BY <1>2, <1>3, <1>4, <1>5, <1>6 DEF StdinInv

LEMMA ReadSchedulesKeeps ==
    ASSUME StdinInv, ReadSchedules
    PROVE  StdinInv'
<1>1. current \in Proc /\ pc[current] = "asleep" /\ TypeOK
  BY DEF ReadSchedules, Running, StdinInv
<1>2. /\ pc' \in [Task -> PC] /\ pc'[current] = "back"
      /\ \A p \in Task : p # current => pc'[p] = pc[p]
  BY <1>1, GotoType DEF ReadSchedules, PC
<1> QED BY <1>1, <1>2, SchedulesKeep DEF ReadSchedules

LEMMA RescheduleKeeps ==
    ASSUME StdinInv, Reschedule
    PROVE  StdinInv'
<1>1. TypeOK /\ schedule /\ UNCHANGED <<stdin_vars, len, got, exiting>>
  BY DEF Reschedule, StdinInv
<1>2. CASE Running("resched") /\ Goto("user")
  <2>1. /\ pc' \in [Task -> PC] /\ pc'[current] = "user"
        /\ \A p \in Task : p # current => pc'[p] = pc[p]
    BY <1>1, <1>2, GotoType DEF PC
  <2> QED BY <1>1, <1>2, <2>1, SchedulesKeep DEF Running
<1>3. CASE Running("dead") /\ UNCHANGED pc
  BY <1>1, <1>3, SchedulesKeep DEF Running, TypeOK
<1>4. CASE current = idleproc /\ UNCHANGED pc
  BY <1>1, <1>4, SchedulesKeep DEF TypeOK
<1> QED BY <1>2, <1>3, <1>4 DEF Reschedule

(* wait_current_del, and the test of the wakeup flags.                     *)
LEMMA ReadWakesKeeps ==
    ASSUME StdinInv, ReadWakes
    PROVE  StdinInv'
<1>1. current \in Proc /\ pc[current] = "back" /\ TypeOK /\ current \in Task
  BY DEF ReadWakes, Running, StdinInv, Task
<1>2. /\ pc' \in [Task -> PC]
      /\ pc'[current] = IF TriesAgain(current) THEN "read" ELSE "trap"
      /\ \A p \in Task : p # current => pc'[p] = pc[p]
  <2>1. (IF TriesAgain(current) THEN "read" ELSE "trap") \in PC
    BY DEF PC
  <2> QED BY <1>1, <2>1, GotoType DEF ReadWakes
<1>3. UNCHANGED <<sched_vars, stdin_buffer, p_rpos, p_wpos, wakeup_flags, len, got, exiting>>
  BY DEF ReadWakes
<1>4. /\ wait_queue' \in Seq(Proc) /\ IsInjective(wait_queue')
      /\ \A p \in Proc : Contains(wait_queue', p) <=> Contains(wait_queue, p) /\ p # current
      /\ wait_queue' # <<>> => wait_queue # <<>>
  <2>1. wait_queue' = Without(wait_queue, current) /\ wait_queue \in Seq(Proc) /\ IsInjective(wait_queue)
    BY <1>1 DEF ReadWakes, TypeOK, StdinInv, NoInputIgnored
  <2>2. wait_queue = <<>> => Without(wait_queue, current) = <<>>
    BY <2>1, WithoutType, EmptyMembers
  <2> QED BY <2>1, <2>2, WithoutMembers
<1>5. TypeOK'
  BY <1>1, <1>2, <1>3, <1>4 DEF TypeOK, SchedTypeOK, sched_vars
<1>6. RunQueueExact'
  BY <1>3 DEF StdinInv, RunQueueExact, sched_vars
<1>7. pstate[current] = "RUNNABLE" /\ wait_state[current] = "none"
  BY <1>1 DEF StdinInv, StatesTell
<1>8. NoInputIgnored'
  BY <1>3, <1>4, <1>7 DEF StdinInv, NoInputIgnored, sched_vars
<1>9. Places' /\ StatesTell' /\ Waiting'
  BY <1>1, <1>2, <1>3, <1>4, <1>7, IdleAssumption
     DEF StdinInv, Places, StatesTell, Waiting, sched_vars, Task
<1>10. ~ TriesAgain(current) => current \in exiting
  BY <1>1, <1>7 DEF StdinInv, Waiting, NoInputIgnored, TriesAgain
<1>11. ShortUntilDead'
  BY <1>1, <1>2, <1>3, <1>10 DEF StdinInv, ShortUntilDead, Task
<1> QED BY <1>5, <1>6, <1>8, <1>9, <1>11 DEF StdinInv

(* Whoever do_kill wakes is marked, and stays in the wait queue.           *)
LEMMA KillKeeps ==
    ASSUME StdinInv, NEW q \in Proc, do_kill(q)
    PROVE  StdinInv'
<1>1. current \in Proc /\ pc[current] = "user" /\ TypeOK /\ current \in Task
  BY DEF do_kill, Running, StdinInv, Task
<1>2. /\ pc' \in [Task -> PC] /\ pc'[current] = "trap"
      /\ \A p \in Task : p # current => pc'[p] = pc[p]
  BY <1>1, GotoType DEF do_kill, PC
<1>3. UNCHANGED <<stdin_vars, len, got>> /\ exiting' = exiting \cup {q}
  BY DEF do_kill
<1>4. /\ SchedTypeOK' /\ RunQueueExact' /\ current' = current
      /\ \A p \in Proc :
            /\ \/ pstate'[p] = pstate[p] /\ wait_state'[p] = wait_state[p]
               \/ /\ p = q /\ pstate[q] = "SLEEPING"
                  /\ pstate'[q] = "RUNNABLE" /\ wait_state'[q] = "none"
  <2>1. CASE wait_state[q] \in Interruptible
    <3>1. wakeup_proc(q)
      BY <2>1 DEF do_kill
    <3>2. pstate[q] = "SLEEPING"
      BY <2>1 DEF StdinInv, StatesTell, Interruptible
    <3>3. pstate'[q] = "RUNNABLE" /\ wait_state'[q] = "none"
      BY <1>1, <3>1, <3>2 DEF wakeup_proc, TypeOK, SchedTypeOK, Task
    <3> QED BY <1>1, <3>1, <3>2, <3>3, WakeupType, WakeupQueue, WakeupEffect DEF StdinInv, TypeOK, Task
  <2>2. CASE wait_state[q] \notin Interruptible
    BY <2>2 DEF do_kill, StdinInv, TypeOK, SchedTypeOK, RunQueueExact, sched_vars
  <2> QED BY <2>1, <2>2
<1>5. TypeOK'
  BY <1>1, <1>2, <1>3, <1>4 DEF TypeOK, stdin_vars
<1>6. NoInputIgnored'
  BY <1>3, <1>4 DEF StdinInv, NoInputIgnored, stdin_vars
<1>7. Places' /\ StatesTell'
  BY <1>1, <1>2, <1>4, IdleAssumption DEF StdinInv, Places, StatesTell, Task
<1>8. Waiting' /\ ShortUntilDead'
  BY <1>1, <1>2, <1>3 DEF StdinInv, Waiting, ShortUntilDead, stdin_vars, Task
<1> QED BY <1>4, <1>5, <1>6, <1>7, <1>8 DEF StdinInv

LEMMA TrapEndsKeeps ==
    ASSUME StdinInv, TrapEnds
    PROVE  StdinInv'
<1>1. current \in Proc /\ pc[current] = "trap" /\ TypeOK /\ current \in Task
  BY DEF TrapEnds, Running, StdinInv, Task
<1>2. UNCHANGED <<wait_state, run_list, current, time_slice, need_resched>>
      /\ UNCHANGED <<stdin_vars, len, got, exiting>>
  BY DEF TrapEnds
<1>3. pstate[current] = "RUNNABLE"
  BY <1>1 DEF StdinInv, StatesTell
<1>4. /\ pc' \in [Task -> PC]
      /\ \A p \in Task : p # current => pc'[p] = pc[p]
      /\ pstate' \in [Task -> State]
      /\ \A p \in Task : p # current => pstate'[p] = pstate[p]
      /\ \/ pc'[current] = "dead" /\ pstate'[current] = "ZOMBIE"
         \/ pc'[current] \in {"user", "resched"} /\ pstate'[current] = "RUNNABLE"
  <2>1. CASE current \in exiting
    BY <1>1, <2>1, GotoType DEF TrapEnds, PC, TypeOK, SchedTypeOK, State
  <2>2. CASE current \notin exiting
    <3>1. (IF need_resched[current] THEN "resched" ELSE "user") \in PC
      BY DEF PC
    <3> QED BY <1>1, <1>3, <2>2, <3>1, GotoType DEF TrapEnds, TypeOK, SchedTypeOK
  <2> QED BY <2>1, <2>2
<1>5. TypeOK'
  BY <1>1, <1>2, <1>4 DEF TypeOK, SchedTypeOK, stdin_vars
<1>6. RunQueueExact'
  BY <1>1, <1>2, <1>4 DEF StdinInv, RunQueueExact, Task
<1>7. NoInputIgnored'
  BY <1>2 DEF StdinInv, NoInputIgnored, stdin_vars
<1>8. Places' /\ StatesTell'
  BY <1>1, <1>2, <1>3, <1>4, IdleAssumption DEF StdinInv, Places, StatesTell, Task
<1>9. Waiting' /\ ShortUntilDead'
  BY <1>1, <1>2, <1>4 DEF StdinInv, Waiting, ShortUntilDead, stdin_vars, Task
<1> QED BY <1>5, <1>6, <1>7, <1>8, <1>9 DEF StdinInv

(* A tick with a character: everybody in the wait queue was asleep in      *)
(* dev_stdin_read or marked, and can now run.                              *)
LEMMA TickTypedKeeps ==
    ASSUME StdinInv, NEW c \in Char, TickTyped(c)
    PROVE  StdinInv'
<1>1. /\ TypeOK /\ RunQueueExact /\ IsInjective(wait_queue) /\ SchedTypeOK
      /\ wait_queue \in Seq(Proc)
      /\ pc[current] = "user" /\ current \in Task /\ Waked = wait_queue
  BY DEF StdinInv, NoInputIgnored, TickTyped, InterruptsEnabled, TypeOK, SchedTypeOK, Waked
<1>2. /\ SchedTypeOK' /\ wait_queue' = <<>> /\ current' = current
      /\ run_list' = AllEnqueued(wait_queue)
      /\ \A p \in Proc : p \in ToSet(wait_queue) <=> Contains(wait_queue, p)
      /\ p_rpos' \in 0 .. p_wpos' /\ p_wpos' \in 0 .. p_rpos' + STDIN_BUFSIZE
      /\ stdin_buffer' \in [0 .. STDIN_BUFSIZE - 1 -> Char]
      /\ wakeup_flags' \in [Proc -> {"WT_KBD", "WT_INTERRUPTED"}]
      /\ pc' \in [Task -> PC]
      /\ \A p \in Task : pc'[p] = IF p = current /\ p # idleproc THEN "trap" ELSE pc[p]
  BY <1>1, TypedType
<1>3. /\ UNCHANGED <<len, got, exiting>>
      /\ \A p \in Proc :
            /\ pstate'[p] = IF p \in Woken(wait_queue) THEN "RUNNABLE" ELSE pstate[p]
            /\ wait_state'[p] = IF p \in Woken(wait_queue) THEN "none" ELSE wait_state[p]
            /\ wakeup_flags'[p] = IF Contains(wait_queue, p) THEN "WT_KBD" ELSE wakeup_flags[p]
  BY <1>1, <1>2 DEF TickTyped, WakeReaders, Task
<1>4. \A p \in Proc : p \in Woken(wait_queue) <=> Contains(wait_queue, p) /\ pstate[p] # "RUNNABLE"
  BY <1>2 DEF Woken
<1>5. TypeOK'
  <2>1. wait_queue' \in Seq(Proc)
    BY <1>2
  <2> QED BY <1>1, <1>2, <1>3, <2>1 DEF TypeOK
<1>6. RunQueueExact'
  <2>1. /\ IsInjective(run_list')
        /\ \A p : Contains(run_list', p) <=> Contains(run_list, p) \/ p \in Joined(wait_queue)
    BY <1>1, <1>2, EnqueueAll
  <2>2. \A p \in Proc : p \in Joined(wait_queue) <=> p \in Woken(wait_queue) /\ p # current
    BY IdleAssumption DEF Joined, JoinsQueue
  <2>3. \A p \in Proc : Contains(run_list', p) <=> pstate'[p] = "RUNNABLE" /\ p # current'
    <3>1. ASSUME NEW p \in Proc
          PROVE  Contains(run_list', p) <=> pstate'[p] = "RUNNABLE" /\ p # current'
      <4>1. Contains(run_list', p) <=> Contains(run_list, p) \/ (p \in Woken(wait_queue) /\ p # current)
        BY <2>1, <2>2
      <4>2. Contains(run_list, p) <=> pstate[p] = "RUNNABLE" /\ p # current
        BY <1>1 DEF RunQueueExact
      <4> QED BY <1>2, <1>3, <4>1, <4>2
    <3> QED BY <3>1
  <2> QED BY <2>1, <2>3 DEF RunQueueExact
<1>7. NoInputIgnored'
  <2>1. \A p \in Proc : wait_state'[p] # "WT_KBD"
    BY <1>3, <1>4 DEF StdinInv, StatesTell, NoInputIgnored
  <2>2. IsInjective(wait_queue')
    BY <1>2 DEF IsInjective
  <2> QED BY <1>2, <2>1, <2>2, EmptyMembers DEF NoInputIgnored
<1>8. Places'
  BY <1>1, <1>2, IdleAssumption DEF StdinInv, Places, Task
<1>9. StatesTell'
  <2>1. ASSUME NEW p \in Proc
        PROVE  /\ wait_state'[p] = IF pstate'[p] = "SLEEPING" THEN "WT_KBD" ELSE "none"
               /\ pstate'[p] \in {"RUNNABLE", "SLEEPING", "ZOMBIE"}
               /\ pstate'[p] = "ZOMBIE" <=> pc'[p] = "dead"
               /\ pstate'[p] = "SLEEPING" => pc'[p] \in {"asleep", "back"}
               /\ pc'[p] = "asleep" => pstate'[p] = "SLEEPING"
    <3>1. CASE p = current
      <4>1. pc[p] = "user" /\ pc'[p] = "trap" /\ pstate[p] = "RUNNABLE"
        BY <1>1, <1>2, <3>1, IdleAssumption DEF StdinInv, StatesTell, Task
      <4> QED BY <1>3, <1>4, <4>1 DEF StdinInv, StatesTell
    <3>2. CASE p # current
      <4>1. pc'[p] = pc[p] /\ pc[p] # "asleep"
        BY <1>2, <3>2 DEF StdinInv, Places, Task
      <4>2. p \in Woken(wait_queue) => pc[p] = "back"
        BY <1>4, <4>1 DEF StdinInv, Waiting
      <4> QED BY <1>3, <4>1, <4>2 DEF StdinInv, StatesTell
    <3> QED BY <3>1, <3>2
  <2>2. current' \in Proc => pc'[current'] # "back"
    BY <1>1, <1>2, IdleAssumption DEF Task
  <2> QED BY <2>1, <2>2 DEF StatesTell
<1>10. Waiting'
  BY <1>1, <1>2, <1>3, EmptyMembers DEF StdinInv, Waiting, Task
<1>11. ShortUntilDead'
  BY <1>1, <1>2, <1>3, IdleAssumption DEF StdinInv, ShortUntilDead, Task
<1> QED BY <1>5, <1>6, <1>7, <1>8, <1>9, <1>10, <1>11 DEF StdinInv

LEMMA TickOnlyKeeps ==
    ASSUME StdinInv, TickOnly
    PROVE  StdinInv'
<1>1. TypeOK /\ pc[current] = "user" /\ current \in Task
  BY DEF StdinInv, TickOnly, InterruptsEnabled, TypeOK, SchedTypeOK
<1>2. /\ SchedTypeOK' /\ UNCHANGED <<pstate, wait_state, run_list, current>>
      /\ UNCHANGED <<stdin_vars, len, got, exiting>>
  BY <1>1, TickType DEF TickOnly, proc_tick, TypeOK
<1>3. /\ pc' \in [Task -> PC]
      /\ \A p \in Task : pc'[p] = IF p = current /\ p # idleproc THEN "trap" ELSE pc[p]
  BY <1>1 DEF TickOnly, Goto, TypeOK, PC
<1>4. TypeOK'
  BY <1>1, <1>2, <1>3 DEF TypeOK, stdin_vars
<1>5. RunQueueExact' /\ NoInputIgnored'
  BY <1>2 DEF StdinInv, RunQueueExact, NoInputIgnored, stdin_vars
<1>6. Places' /\ StatesTell'
  BY <1>1, <1>2, <1>3, IdleAssumption DEF StdinInv, Places, StatesTell, Task
<1>7. Waiting' /\ ShortUntilDead'
  BY <1>1, <1>2, <1>3, IdleAssumption DEF StdinInv, Waiting, ShortUntilDead, stdin_vars, Task
<1> QED BY <1>4, <1>5, <1>6, <1>7 DEF StdinInv

LEMMA StdinInductive == StdinInv /\ [Next]_vars => StdinInv'
<1> SUFFICES ASSUME StdinInv, [Next]_vars PROVE StdinInv'
  OBVIOUS
<1>1. CASE \E n \in 1 .. MaxRead : Read(n)
  BY <1>1, ReadKeeps
<1>2. CASE ReadLoop
  BY <1>2, ReadEndsKeeps, ReadWaitsKeeps DEF ReadLoop
<1>3. CASE ReadSchedules
  BY <1>3, ReadSchedulesKeeps
<1>4. CASE ReadWakes
  BY <1>4, ReadWakesKeeps
<1>5. CASE \E p \in Proc : do_kill(p)
  BY <1>5, KillKeeps
<1>6. CASE TrapEnds
  BY <1>6, TrapEndsKeeps
<1>7. CASE Reschedule
  BY <1>7, RescheduleKeeps
<1>8. CASE \E c \in Char : TickTyped(c)
  BY <1>8, TickTypedKeeps
<1>9. CASE TickOnly
  BY <1>9, TickOnlyKeeps
<1>10. CASE UNCHANGED vars
  BY <1>10 DEF StdinInv, TypeOK, SchedTypeOK, RunQueueExact, Places, StatesTell, Waiting,
               NoInputIgnored, ShortUntilDead, vars, sched_vars, stdin_vars
<1> QED BY <1>1, <1>2, <1>3, <1>4, <1>5, <1>6, <1>7, <1>8, <1>9, <1>10 DEF Next

THEOREM StdinInvariant == Spec => []StdinInv
<1> QED BY InitInv, StdinInductive, PTL DEF Spec
-----------------------------------------------------------------------------
(* TypeOK: the positions stay within STDIN_BUFSIZE of each other, and no   *)
(* read() copies more than it was asked for.                               *)
THEOREM TypeCorrect == Spec => []TypeOK
<1>1. StdinInv => TypeOK
  BY DEF StdinInv
<1> QED BY <1>1, StdinInvariant, PTL

(* NoInputIgnored: a reader goes to sleep only after it has emptied the    *)
(* ring, dev_stdin_write takes everybody out of the wait queue and wakes   *)
(* them, so nobody sleeps while there is something to read; and whoever    *)
(* sleeps on the keyboard is in the queue, where the next character finds  *)
(* it.                                                                     *)
THEOREM NobodySleepsBesideInput == Spec => []NoInputIgnored
<1>1. StdinInv => NoInputIgnored
  BY DEF StdinInv
<1> QED BY <1>1, StdinInvariant, PTL

(* ShortReadIsKilled: dev_stdin_read leaves its loop early only when its   *)
(* wakeup flags are not WT_KBD, which takes a do_kill; trap() then makes   *)
(* the process exit before it returns to its program.                      *)
THEOREM ShortReadsAreKilled == Spec => []ShortReadIsKilled
<1>1. StdinInv => ShortReadIsKilled
  BY DEF StdinInv, ShortUntilDead, ShortReadIsKilled
<1> QED BY <1>1, StdinInvariant, PTL

-----------------------------------------------------------------------------
(* The ring buffer implements the terminal. *)

(* Two positions less than the size of the ring apart share no slot, and   *)
(* two positions one ring apart share theirs.                              *)
LEMMA Multiples ==
    \A S \in Nat \ {0}, d \in Int :
        /\ S * d \in Int
        /\ d <= 0 => S * d <= 0
        /\ d >= 1 => S * d >= S
        /\ d >= 2 => S * d >= 2 * S
OBVIOUS

LEMMA Division ==
    ASSUME NEW S \in Nat \ {0}, NEW a \in Nat, NEW b \in Nat
    PROVE  /\ a % S \in 0 .. S - 1 /\ b % S \in 0 .. S - 1
           /\ \E d \in Int : b - a = S * d + ((b % S) - (a % S))
<1> DEFINE p == a \div S
           q == b \div S
<1>1. a % S \in 0 .. S - 1 /\ b % S \in 0 .. S - 1 /\ p \in Int /\ q \in Int
  OBVIOUS
<1>2. a = S * p + (a % S)
  OBVIOUS
<1>3. b = S * q + (b % S)
  OBVIOUS
<1>4. S * (q - p) = S * q - S * p /\ S * q \in Int /\ S * p \in Int /\ q - p \in Int
  BY <1>1
<1> HIDE DEF p, q
<1>5. b - a = S * (q - p) + ((b % S) - (a % S))
  BY <1>1, <1>2, <1>3, <1>4
<1> QED BY <1>1, <1>4, <1>5

LEMMA SlotsDiffer ==
    ASSUME NEW a \in Nat, NEW b \in Nat, a < b, b < a + STDIN_BUFSIZE
    PROVE  Slot(a) # Slot(b)
<1> SUFFICES ASSUME a % STDIN_BUFSIZE = b % STDIN_BUFSIZE PROVE FALSE
  BY DEF Slot
<1> DEFINE S == STDIN_BUFSIZE
<1>1. S \in Nat \ {0}
  BY StdinAssumption
<1>2. PICK d \in Int : b - a = S * d + ((b % S) - (a % S))
  BY <1>1, Division
<1>3. a % S \in Int
  BY <1>1, Division
<1>4. b - a = S * d
  BY <1>1, <1>2, <1>3
<1>5. (d <= 0 => S * d <= 0) /\ (d >= 1 => S * d >= S)
  BY <1>1, Multiples
<1> QED BY <1>1, <1>4, <1>5

LEMMA SlotAround ==
    ASSUME NEW a \in Nat
    PROVE  Slot(a + STDIN_BUFSIZE) = Slot(a)
<1> DEFINE S == STDIN_BUFSIZE
<1>1. S \in Nat \ {0} /\ a + S \in Nat
  BY StdinAssumption
<1>2. PICK d \in Int : (a + S) - a = S * d + (((a + S) % S) - (a % S))
  BY <1>1, Division
<1>3. (a + S) % S \in 0 .. S - 1 /\ a % S \in 0 .. S - 1
  BY <1>1, Division
<1>4. S * d \in Int /\ (d <= 0 => S * d <= 0) /\ (d >= 2 => S * d >= 2 * S)
  BY <1>1, Multiples
<1>5. d = 1
  BY <1>1, <1>2, <1>3, <1>4
<1>6. S * d = S
  BY <1>1, <1>5
<1>7. (a + S) % S = a % S
  BY <1>1, <1>2, <1>3, <1>6
<1> QED BY <1>7 DEF Slot

(* The abstract variable of the refinement. *)
Unread == [k \in 1 .. p_wpos - p_rpos |-> stdin_buffer[Slot(p_rpos + k - 1)]]

LEMMA UnreadType ==
    ASSUME TypeOK
    PROVE  /\ Unread \in Seq(Char) /\ Len(Unread) = p_wpos - p_rpos
           /\ p_rpos \in Nat /\ p_wpos \in Nat /\ p_wpos - p_rpos \in 0 .. STDIN_BUFSIZE
           /\ \A k \in 1 .. p_wpos - p_rpos : Unread[k] = stdin_buffer[Slot(p_rpos + k - 1)]
<1>1. p_rpos \in Nat /\ p_wpos \in Nat /\ p_wpos - p_rpos \in 0 .. STDIN_BUFSIZE
  BY StdinAssumption DEF TypeOK
<1>2. \A k \in 1 .. p_wpos - p_rpos : stdin_buffer[Slot(p_rpos + k - 1)] \in Char
  <2>1. \A k \in 1 .. p_wpos - p_rpos : p_rpos + k - 1 \in Nat
    BY <1>1
  <2> QED BY <2>1, SlotType DEF TypeOK
<1>3. p_wpos - p_rpos \in Nat
  BY <1>1
<1> QED BY <1>1, <1>2, <1>3 DEF Unread

(* A read starts with nothing. *)
LEMMA ReadMaps ==
    ASSUME TypeOK, NEW n \in 1 .. MaxRead, Read(n)
    PROVE  \E p \in Proc : Term!StartRead(p)
<1>1. current \in Proc /\ got' = [got EXCEPT ![current] = <<>>] /\ UNCHANGED stdin_vars
  BY DEF Read, Running
<1>2. Unread' = Unread
  BY <1>1 DEF stdin_vars, Unread
<1> QED BY <1>1, <1>2 DEF Term!StartRead, Unread

(* The loop takes the oldest characters, as many as it copies. *)
LEMMA LoopMaps ==
    ASSUME TypeOK, current \in Proc, ReadLoop
    PROVE  \/ UNCHANGED <<Unread, got>>
           \/ \E p \in Proc : \E n \in 1 .. Len(Unread) : Term!Take(p, n)
<1> DEFINE new == [k \in 1 .. Copied |-> stdin_buffer[Slot(p_rpos + k - 1)]]
<1>1. /\ got' = [got EXCEPT ![current] = got[current] \o new] /\ p_rpos' = p_rpos + Copied
      /\ UNCHANGED <<stdin_buffer, p_wpos>>
  BY DEF ReadLoop
<1>2. Copied \in Nat /\ p_rpos + Copied <= p_wpos
  BY CopyType
<1>3. /\ Unread \in Seq(Char) /\ Len(Unread) = p_wpos - p_rpos
      /\ p_rpos \in Nat /\ p_wpos \in Nat
      /\ \A k \in 1 .. p_wpos - p_rpos : Unread[k] = stdin_buffer[Slot(p_rpos + k - 1)]
  BY UnreadType
<1>4. got[current] \in Seq(Char) /\ got \in [Proc -> Seq(Char)]
  BY DEF TypeOK
<1>5. CASE Copied = 0
  <2>1. new = <<>>
    BY <1>5
  <2> HIDE DEF new
  <2>2. got[current] \o new = got[current]
    BY <1>4, <2>1
  <2>3. got' = got
    BY <1>1, <1>4, <2>2
  <2>4. p_rpos' = p_rpos
    BY <1>1, <1>3, <1>5
  <2>5. Unread' = Unread
    BY <1>1, <2>4 DEF Unread
  <2> QED BY <2>3, <2>5
<1>6. CASE Copied # 0
  <2>1. Copied \in 1 .. Len(Unread)
    BY <1>2, <1>3, <1>6
  <2>2. new = SubSeq(Unread, 1, Copied)
    <3>1. SubSeq(Unread, 1, Copied) = [k \in 1 .. Copied |-> Unread[k]]
      BY <1>2, <1>3
    <3>2. \A k \in 1 .. Copied : Unread[k] = stdin_buffer[Slot(p_rpos + k - 1)]
      BY <1>2, <1>3
    <3> QED BY <3>1, <3>2
  <2> HIDE DEF new
  <2>3. Unread' = SubSeq(Unread, Copied + 1, Len(Unread))
    <3> DEFINE left == p_wpos - (p_rpos + Copied)
    <3>1. left \in Nat /\ left = 1 + Len(Unread) - (Copied + 1)
      BY <1>2, <1>3
    <3>2. SubSeq(Unread, Copied + 1, Len(Unread)) = [k \in 1 .. left |-> Unread[k + Copied]]
      <4>1. \A k \in 1 .. left : k + (Copied + 1) - 1 = k + Copied
        BY <1>2, <3>1
      <4> HIDE DEF left
      <4> QED BY <1>2, <1>3, <3>1, <4>1
    <3>3. \A k \in 1 .. left :
             Unread[k + Copied] = stdin_buffer[Slot(p_rpos + Copied + k - 1)]
      <4>1. ASSUME NEW k \in 1 .. left
            PROVE  /\ k + Copied \in 1 .. p_wpos - p_rpos
                   /\ p_rpos + (k + Copied) - 1 = p_rpos + Copied + k - 1
        BY <1>2, <1>3, <3>1
      <4> QED BY <1>3, <4>1
    <3>4. Unread' = [k \in 1 .. left |-> stdin_buffer[Slot(p_rpos + Copied + k - 1)]]
      BY <1>1 DEF Unread
    <3> HIDE DEF left
    <3> QED BY <3>2, <3>3, <3>4
  <2>4. Term!Take(current, Copied)
    BY <1>1, <2>2, <2>3 DEF Term!Take, Unread
  <2> QED BY <2>1, <2>4
<1> QED BY <1>5, <1>6

(* A character goes behind the others, or takes the place of the oldest.   *)
LEMMA TypedMaps ==
    ASSUME TypeOK, NEW c \in Char, TickTyped(c)
    PROVE  Term!Type(c)
<1> DEFINE n == p_wpos - p_rpos
<1>1. /\ p_rpos' = p_rpos /\ got' = got
      /\ stdin_buffer' = [stdin_buffer EXCEPT ![Slot(p_wpos)] = c]
      /\ p_wpos' = IF n < STDIN_BUFSIZE THEN p_wpos + 1 ELSE p_wpos
  BY DEF TickTyped, Store, Advances
<1>2. /\ Unread \in Seq(Char) /\ Len(Unread) = n
      /\ p_rpos \in Nat /\ p_wpos \in Nat /\ n \in 0 .. STDIN_BUFSIZE
      /\ \A k \in 1 .. n : Unread[k] = stdin_buffer[Slot(p_rpos + k - 1)]
      /\ STDIN_BUFSIZE \in Nat \ {0}
  BY UnreadType, StdinAssumption
<1>3. Slot(p_wpos) \in DOMAIN stdin_buffer
  BY <1>2, SlotType DEF TypeOK
<1>4. CASE n < STDIN_BUFSIZE
  <2>1. p_wpos' - p_rpos' = n + 1 /\ n \in Nat
    BY <1>1, <1>2, <1>4
  <2>2. Unread' = [k \in 1 .. n + 1 |-> stdin_buffer'[Slot(p_rpos + k - 1)]]
    BY <1>1, <2>1 DEF Unread
  <2>3. ASSUME NEW k \in 1 .. n
        PROVE  stdin_buffer'[Slot(p_rpos + k - 1)] = Unread[k]
    <3>1. /\ p_rpos + k - 1 \in Nat /\ p_rpos + k - 1 < p_wpos
          /\ p_wpos < (p_rpos + k - 1) + STDIN_BUFSIZE
      BY <1>2, <1>4
    <3>2. Slot(p_rpos + k - 1) # Slot(p_wpos)
      BY <1>2, <3>1, SlotsDiffer
    <3>3. Slot(p_rpos + k - 1) \in DOMAIN stdin_buffer
      BY <3>1, SlotType DEF TypeOK
    <3> QED BY <1>1, <1>2, <3>2, <3>3
  <2>4. stdin_buffer'[Slot(p_rpos + (n + 1) - 1)] = c
    <3>1. p_rpos + (n + 1) - 1 = p_wpos
      BY <1>2
    <3> QED BY <1>1, <1>3, <3>1
  <2> HIDE DEF n
  <2>5. Unread' = Append(Unread, c)
    <3> DEFINE f == [k \in 1 .. n + 1 |-> stdin_buffer'[Slot(p_rpos + k - 1)]]
    <3>1. Append(Unread, c) = [k \in 1 .. n + 1 |-> IF k <= n THEN Unread[k] ELSE c]
      <4> DEFINE a == Append(Unread, c)
      <4>1. /\ a \in Seq(Char) /\ Len(a) = n + 1 /\ a[n + 1] = c
            /\ \A k \in 1 .. n : a[k] = Unread[k]
        BY <1>2, <2>1
      <4> HIDE DEF a
      <4>2. a = [k \in 1 .. n + 1 |-> a[k]]
        BY <2>1, <4>1
      <4>3. \A k \in 1 .. n + 1 : a[k] = IF k <= n THEN Unread[k] ELSE c
        BY <2>1, <4>1
      <4> QED BY <4>2, <4>3 DEF a
    <3>2. \A k \in 1 .. n + 1 : f[k] = IF k <= n THEN Unread[k] ELSE c
      BY <2>1, <2>3, <2>4
    <3> QED BY <2>2, <3>1, <3>2
  <2> QED BY <1>1, <1>2, <1>4, <2>5 DEF Term!Type, Unread
<1>5. CASE n = STDIN_BUFSIZE
  <2>1. p_wpos' = p_wpos /\ n \in Nat /\ n >= 1 /\ p_wpos = p_rpos + STDIN_BUFSIZE
    BY <1>1, <1>2, <1>5
  <2>2. Unread' = [k \in 1 .. n |-> stdin_buffer'[Slot(p_rpos + k - 1)]]
    BY <1>1, <2>1 DEF Unread
  <2>3. Slot(p_wpos) = Slot(p_rpos)
    BY <1>2, <2>1, SlotAround
  <2>4. ASSUME NEW k \in 2 .. n
        PROVE  stdin_buffer'[Slot(p_rpos + k - 1)] = Unread[k]
    <3>1. /\ p_rpos + k - 1 \in Nat /\ p_rpos < p_rpos + k - 1 /\ k \in 1 .. n
          /\ p_rpos + k - 1 < p_rpos + STDIN_BUFSIZE
      BY <1>2, <1>5
    <3>2. Slot(p_rpos) # Slot(p_rpos + k - 1)
      BY <1>2, <3>1, SlotsDiffer
    <3>3. Slot(p_rpos + k - 1) \in DOMAIN stdin_buffer
      BY <3>1, SlotType DEF TypeOK
    <3> QED BY <1>1, <1>2, <2>3, <3>1, <3>2, <3>3
  <2>5. stdin_buffer'[Slot(p_rpos + 1 - 1)] = c
    <3>1. p_rpos + 1 - 1 = p_rpos
      BY <1>2
    <3> QED BY <1>1, <1>3, <2>3, <3>1
  <2> HIDE DEF n
  <2>6. Unread' = <<c>> \o Tail(Unread)
    <3> DEFINE f == [k \in 1 .. n |-> stdin_buffer'[Slot(p_rpos + k - 1)]]
               g == <<c>> \o Tail(Unread)
    <3>1. /\ Tail(Unread) \in Seq(Char) /\ Len(Tail(Unread)) = n - 1
          /\ \A k \in 1 .. n - 1 : Tail(Unread)[k] = Unread[k + 1]
      BY <1>2, <2>1
    <3>2. /\ g \in Seq(Char) /\ Len(g) = n /\ g[1] = c
          /\ \A k \in 2 .. n : g[k] = Unread[k]
      <4>1. <<c>> \in Seq(Char) /\ Len(<<c>>) = 1 /\ <<c>>[1] = c
        OBVIOUS
      <4>2. \A k \in 2 .. n : g[k] = Tail(Unread)[k - 1] /\ k - 1 \in 1 .. n - 1 /\ (k - 1) + 1 = k
        BY <2>1, <3>1, <4>1
      <4> QED BY <2>1, <3>1, <4>1, <4>2
    <3>3. g = [k \in 1 .. n |-> g[k]]
      BY <2>1, <3>2
    <3> HIDE DEF g
    <3>4. \A k \in 1 .. n : f[k] = g[k]
      <4>1. \A k \in 1 .. n : k = 1 \/ k \in 2 .. n
        BY <2>1
      <4> QED BY <2>1, <2>4, <2>5, <3>2, <4>1
    <3> QED BY <2>2, <3>3, <3>4 DEF g
  <2>7. ~ (Len(Unread) < STDIN_BUFSIZE)
    BY <1>2, <1>5
  <2> QED BY <1>1, <2>6, <2>7 DEF Term!Type, Unread
<1>6. n < STDIN_BUFSIZE \/ n = STDIN_BUFSIZE
  BY <1>2
<1> QED BY <1>4, <1>5, <1>6

(* TerminalSpec: the characters that are stored are read once each, in the *)
(* order they were typed, by one reader or another; wakeups, kills and     *)
(* preemptions in between change nothing of it.                            *)
THEOREM StdinImplementsTerminal == Spec => TerminalSpec
<1>1. Init => Term!Init
  <2> SUFFICES ASSUME Init PROVE Term!Init
    OBVIOUS
  <2>1. Unread = <<>>
    BY DEF Init, Unread
  <2> QED BY <2>1 DEF Init, Term!Init, Unread
<1>2. StdinInv /\ [Next]_vars => [Term!Next]_<<Unread, got>>
  <2> SUFFICES ASSUME StdinInv, [Next]_vars
               PROVE  Term!Next \/ UNCHANGED <<Unread, got>>
    OBVIOUS
  <2>1. TypeOK
    BY DEF StdinInv
  <2>2. CASE \E n \in 1 .. MaxRead : Read(n)
    BY <2>1, <2>2, ReadMaps DEF Term!Next
  <2>3. CASE ReadLoop
    <3>1. current \in Proc
      BY <2>3 DEF ReadLoop, ReadEnds, ReadWaits, Running
    <3> QED BY <2>1, <2>3, <3>1, LoopMaps DEF Term!Next, Unread
  <2>4. CASE \E c \in Char : TickTyped(c)
    BY <2>1, <2>4, TypedMaps DEF Term!Next
  <2>5. CASE \/ ReadSchedules \/ ReadWakes \/ \E p \in Proc : do_kill(p)
             \/ TrapEnds \/ Reschedule \/ TickOnly \/ UNCHANGED vars
    <3>1. UNCHANGED <<stdin_buffer, p_rpos, p_wpos, got>>
      BY <2>5 DEF ReadSchedules, ReadWakes, do_kill, TrapEnds, Reschedule, TickOnly, vars, stdin_vars
    <3> QED BY <3>1 DEF Unread
  <2> QED BY <2>2, <2>3, <2>4, <2>5 DEF Next
<1> QED BY <1>1, <1>2, StdinInvariant, PTL DEF Spec, TerminalSpec, Term!Spec, Unread
=============================================================================
