------------------------------- MODULE KSched -------------------------------
(***************************************************************************)
(* The scheduler core of the lab7/lab8 kernels: kern/schedule/sched.c on   *)
(* top of the round-robin class kern/schedule/default_sched_c.c.           *)
(*                                                                         *)
(* The machine has one hart.  `current' is the process on it; everybody    *)
(* else is suspended inside switch_to().  The module declares the state    *)
(* the scheduler owns and one operator per scheduler operation; it has no  *)
(* next-state relation.  The modules that extend it (Scheduling, KSem,     *)
(* KTimer) add the callers.                                                *)
(***************************************************************************)
EXTENDS Naturals, SequencesExt

CONSTANTS
    Proc,            \* the processes other than idleproc
    idleproc,        \* process 0, cpu_idle(); it never enters the run queue
    MAX_TIME_SLICE   \* rq->max_time_slice

ASSUME IdleAssumption == idleproc \notin Proc
ASSUME SliceAssumption == MAX_TIME_SLICE \in Nat \ {0}

VARIABLES
    pstate,       \* proc->state
    wait_state,   \* proc->wait_state ("none" stands for 0)
    run_list,     \* rq->run_list, front first; rq->proc_num is its length
    current,      \* the running process
    time_slice,   \* proc->time_slice
    need_resched  \* proc->need_resched

sched_vars == <<pstate, wait_state, run_list, current, time_slice, need_resched>>

Task == Proc \cup {idleproc}

State == {"UNINIT", "SLEEPING", "RUNNABLE", "ZOMBIE"}

(* The wait states whose WT_INTERRUPTED bit is set, and all of them. *)
Interruptible_all == {"WT_CHILD", "WT_TIMER", "WT_KBD", "WT_KSEM"}
Interruptible == {"WT_CHILD", "WT_TIMER", "WT_KBD"}
WaitState     == Interruptible \cup {"none", "WT_KSEM"}

SchedTypeOK ==
    /\ pstate \in [Task -> State]
    /\ wait_state \in [Task -> WaitState]
    /\ run_list \in Seq(Proc)
    /\ current \in Task
    /\ time_slice \in [Task -> 0 .. MAX_TIME_SLICE]
    /\ need_resched \in [Task -> BOOLEAN]

-----------------------------------------------------------------------------
(* RR_enqueue: a process joins the back of the queue, with a full slice if *)
(* it had used up its last one.                                            *)
RR_enqueue_front(queue, p) == <<p>> \o queue
RR_enqueue(queue, p) == Append(queue, p)

Refill(slice) == IF slice = 0 \/ slice > MAX_TIME_SLICE THEN MAX_TIME_SLICE ELSE slice

(* wakeup_proc.  Waking the process that is still on the hart (between its *)
(* wait_current_set and its schedule()) does not enqueue it.               *)
JoinsQueue_even_current(p) == p # idleproc
JoinsQueue(p) == p # current /\ p # idleproc

wakeup_proc(p) ==
    IF pstate[p] # "RUNNABLE"
    THEN /\ pstate' = [pstate EXCEPT ![p] = "RUNNABLE"]
         /\ wait_state' = [wait_state EXCEPT ![p] = "none"]
         /\ IF JoinsQueue(p)
            THEN /\ run_list' = RR_enqueue(run_list, p)
                 /\ time_slice' = [time_slice EXCEPT ![p] = Refill(@)]
            ELSE UNCHANGED <<run_list, time_slice>>
         /\ UNCHANGED <<current, need_resched>>
    ELSE UNCHANGED sched_vars

(* schedule.  A current process that is still RUNNABLE goes to the back of *)
(* the queue; the front of the queue, or idleproc, takes the hart.         *)
StaysReady_any_state == current # idleproc
StaysReady == pstate[current] = "RUNNABLE" /\ current # idleproc

schedule ==
    LET ready == IF StaysReady THEN RR_enqueue(run_list, current) ELSE run_list
    IN  /\ need_resched' = [need_resched EXCEPT ![current] = FALSE]
        /\ time_slice' = IF StaysReady
                         THEN [time_slice EXCEPT ![current] = Refill(@)]
                         ELSE time_slice
        /\ IF ready = <<>>
           THEN current' = idleproc /\ run_list' = <<>>
           ELSE current' = Head(ready) /\ run_list' = Tail(ready)
        /\ UNCHANGED <<pstate, wait_state>>

(* sched_class_proc_tick and RR_proc_tick: the time accounting of a tick.  *)
SliceAfterTick(slice) == IF slice > 0 THEN slice - 1 ELSE 0

SliceOver_late(slice) == slice = 0
SliceOver(slice) == SliceAfterTick(slice) = 0

proc_tick ==
    /\ IF current = idleproc
       THEN /\ need_resched' = [need_resched EXCEPT ![idleproc] = TRUE]
            /\ UNCHANGED time_slice
       ELSE /\ time_slice' = [time_slice EXCEPT ![current] = SliceAfterTick(@)]
            /\ need_resched' = [need_resched EXCEPT
                                   ![current] = @ \/ SliceOver(time_slice[current])]
    /\ UNCHANGED <<pstate, wait_state, run_list, current>>

(* A process marks itself asleep before it calls schedule(). *)
GoToSleep(why) ==
    /\ pstate' = [pstate EXCEPT ![current] = "SLEEPING"]
    /\ wait_state' = [wait_state EXCEPT ![current] = why]
    /\ UNCHANGED <<run_list, current, time_slice, need_resched>>

(* wakeup_proc on the processes of a list in turn (run_timer_list,         *)
(* wakeup_queue); for one that is RUNNABLE it does nothing.                *)
Woken(list)  == {p \in ToSet(list) : pstate[p] # "RUNNABLE"}
Joined(list) == {p \in Woken(list) : JoinsQueue(p)}
AllEnqueued(list) ==
    LET queue[k \in 0 .. Len(list)] ==
            IF k = 0 THEN run_list
            ELSE IF list[k] \in Joined(list) THEN RR_enqueue(queue[k - 1], list[k])
            ELSE queue[k - 1]
    IN  queue[Len(list)]

(* A list of timers or wait_t's without the one of p: wait_current_del,    *)
(* which takes it out if nobody else did.                                  *)
Without(list, p) ==
    IF Contains(list, p)
    THEN RemoveAt(list, CHOOSE i \in 1 .. Len(list) : list[i] = p)
    ELSE list

-----------------------------------------------------------------------------
(* The run queue holds exactly the RUNNABLE processes that are not on the  *)
(* hart, each of them once: no wakeup is lost in the window between a      *)
(* thread's going to sleep and its schedule(), and RR_enqueue's            *)
(* assert(list_empty(&(proc->run_link))) never fails.                      *)
RunQueueExact ==
    /\ \A p \in Proc : Contains(run_list, p) <=> (pstate[p] = "RUNNABLE" /\ p # current)
    /\ IsInjective(run_list)
=============================================================================
