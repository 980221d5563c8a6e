-------------------------------- MODULE KSem --------------------------------
(***************************************************************************)
(* Kernel semaphores: kern/sync/sem.c over the wait queues of              *)
(* kern/sync/wait.c.  The module adds their state to the scheduler core    *)
(* and gives one operator per section that the code runs with interrupts   *)
(* disabled; the modules that extend it put the schedule() between them.   *)
(***************************************************************************)
EXTENDS KSched

CONSTANT Sem   \* the semaphores

VARIABLES
    value,         \* sem->value
    wait_queue,    \* sem->wait_queue, as the processes of its wait_t's, oldest first
    wakeup_flags   \* wait->wakeup_flags of the wait_t on each process's stack

sem_vars == <<value, wait_queue, wakeup_flags>>

InQueue(p, s) == Contains(wait_queue[s], p)

SemTypeOK ==
    /\ value \in [Sem -> Nat]
    /\ wait_queue \in [Sem -> Seq(Proc)]
    /\ wakeup_flags \in [Proc -> {"WT_KSEM", "WT_INTERRUPTED"}]

(* sem_init of every semaphore; a wait_t exists only inside __down. *)
sem_init(initial) ==
    /\ value = initial
    /\ wait_queue = [s \in Sem |-> <<>>]
    /\ wakeup_flags = [p \in Proc |-> "WT_INTERRUPTED"]

-----------------------------------------------------------------------------
(* try_down, and __down while there is a token. *)
CanTake(s) == value[s] > 0

Take(s) ==
    /\ CanTake(s)
    /\ value' = [value EXCEPT ![s] = @ - 1]
    /\ UNCHANGED <<sched_vars, wait_queue, wakeup_flags>>

(* __down without a token: wait_current_set. *)
Enqueued_last_in(queue, p) == <<p>> \o queue
Enqueued(queue, p) == Append(queue, p)

Wait(s) ==
    /\ ~CanTake(s)
    /\ GoToSleep("WT_KSEM")
    /\ wait_queue' = [wait_queue EXCEPT ![s] = Enqueued(@, current)]
    /\ wakeup_flags' = [wakeup_flags EXCEPT ![current] = "WT_INTERRUPTED"]
    /\ UNCHANGED value

(* The end of __down after its schedule(): wait_current_del.               *)
StopWaiting(s) ==
    /\ wait_queue' = [wait_queue EXCEPT ![s] = Without(@, current)]
    /\ UNCHANGED <<sched_vars, value, wakeup_flags>>

(* __up: with nobody waiting the token goes back to the semaphore;         *)
(* otherwise it is handed to the first waiter and the value stays as it is. *)
TokensAfterUp_always(s) == value[s] + 1
TokensAfterUp(s) == IF wait_queue[s] = <<>> THEN value[s] + 1 ELSE value[s]

(* wakeup_wait with del = 1 on the first waiter. *)
wakeup_wait_keeps(s) ==
    /\ wakeup_flags' = [wakeup_flags EXCEPT ![Head(wait_queue[s])] = "WT_KSEM"]
    /\ wakeup_proc(Head(wait_queue[s]))
    /\ UNCHANGED wait_queue

wakeup_wait(s) ==
    /\ wait_queue' = [wait_queue EXCEPT ![s] = Tail(@)]
    /\ wakeup_flags' = [wakeup_flags EXCEPT ![Head(wait_queue[s])] = "WT_KSEM"]
    /\ wakeup_proc(Head(wait_queue[s]))

Up(s) ==
    /\ value' = [value EXCEPT ![s] = TokensAfterUp(s)]
    /\ IF wait_queue[s] = <<>>
       THEN UNCHANGED <<sched_vars, wait_queue, wakeup_flags>>
       ELSE wakeup_wait(s)

(* __up's assert(wait->proc->wait_state == wait_state). *)
UpAssertion(s) ==
    wait_queue[s] # <<>> => wait_state[Head(wait_queue[s])] = "WT_KSEM"
=============================================================================
