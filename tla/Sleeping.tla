------------------------------ MODULE Sleeping ------------------------------
(***************************************************************************)
(* Kernel threads in do_sleep: they set a timer on their own stack, sleep, *)
(* are woken by run_timer_list or before their time by do_kill, and take   *)
(* the timer back.  The clock may tick wherever interrupts are enabled.    *)
(***************************************************************************)
EXTENDS KTimer

CONSTANT MaxTicks   \* bound: the longest time a thread asks do_sleep for

ASSUME MaxTicksAssumption == MaxTicks \in Nat \ {0}

VARIABLES
    pc,       \* where each thread is, see PC
    exiting   \* the threads whose PF_EXITING flag is set

vars == <<sched_vars, timer_vars, pc, exiting>>

(***************************************************************************)
(* "run"     in the thread's own code                                      *)
(* "set"     inside do_sleep, between local_intr_restore and schedule()    *)
(* "back"    inside that schedule(), and after it                          *)
(* "dead"    a zombie on its way to schedule()                             *)
(***************************************************************************)
PC == {"run", "set", "back", "dead"}

TypeOK ==
    /\ SchedTypeOK
    /\ TimerTypeOK
    /\ pc \in [Task -> PC]
    /\ exiting \subseteq Proc

Init ==
    /\ pstate = [p \in Task |-> "RUNNABLE"]
    /\ wait_state = [p \in Task |-> "none"]
    /\ run_list \in {q \in [1 .. Cardinality(Proc) -> Proc] :
                        IsInjective(q) /\ \A p \in Proc : Contains(q, p)}
    /\ current = idleproc
    /\ time_slice = [p \in Task |-> MAX_TIME_SLICE]
    /\ need_resched = [p \in Task |-> p = idleproc]
    /\ timer_init
    /\ pc = [p \in Task |-> "run"]
    /\ exiting = {}

-----------------------------------------------------------------------------
Running(where) == current \in Proc /\ pc[current] = where

Goto(where) == pc' = [pc EXCEPT ![current] = where]

(* do_sleep up to its schedule(). *)
do_sleep(ticks) ==
    /\ Running("run")
    /\ GoToSleep("WT_TIMER")
    /\ add_timer(current, ticks)
    /\ Goto("set")
    /\ UNCHANGED exiting

(* add_timer's assert(list_empty(&(timer->timer_link))) is about the timer *)
(* that timer_init has just made.                                          *)
SleepSchedule ==
    /\ Running("set")
    /\ schedule
    /\ Goto("back")
    /\ UNCHANGED <<timer_vars, exiting>>

(* The rest of do_sleep. *)
SleepReturns ==
    /\ Running("back")
    /\ del_timer(current)
    /\ Goto("run")
    /\ UNCHANGED <<sched_vars, exiting>>

(* do_kill: once per process, and a wakeup if the wait may be interrupted. *)
do_kill(p) ==
    /\ Running("run")
    /\ p \notin exiting
    /\ exiting' = exiting \cup {p}
    /\ IF wait_state[p] \in Interruptible THEN wakeup_proc(p) ELSE UNCHANGED sched_vars
    /\ UNCHANGED <<timer_vars, pc>>

(* do_exit of a kernel thread, up to and with its schedule(). *)
Exit ==
    /\ Running("run")
    /\ pstate' = [pstate EXCEPT ![current] = "ZOMBIE"]
    /\ Goto("dead")
    /\ UNCHANGED <<wait_state, run_list, current, time_slice, need_resched, timer_vars, exiting>>

ExitSchedule ==
    /\ Running("dead")
    /\ schedule
    /\ UNCHANGED <<timer_vars, pc, exiting>>

Resched ==
    /\ pc[current] = "run"
    /\ current = idleproc => need_resched[idleproc]
    /\ schedule
    /\ UNCHANGED <<timer_vars, pc, exiting>>

(* The timer interrupt: the handler runs with interrupts disabled.         *)
Tick ==
    /\ run_timer_list
    /\ UNCHANGED <<pc, exiting>>

Next ==
    \/ \E ticks \in 1 .. MaxTicks : do_sleep(ticks)
    \/ \E p \in Proc : do_kill(p)
    \/ SleepSchedule \/ SleepReturns
    \/ Exit \/ ExitSchedule \/ Resched
    \/ Tick

Spec == Init /\ [][Next]_vars

(* The clock keeps ticking and the hart executing; no thread runs forever  *)
(* without calling schedule().                                             *)
Fairness ==
    /\ WF_vars(Tick)
    /\ SF_vars(SleepSchedule \/ SleepReturns \/ ExitSchedule)
    /\ SF_vars(Resched)

FairSpec == Spec /\ Fairness

-----------------------------------------------------------------------------
(* A timer is in the list, once, while its thread is inside do_sleep and   *)
(* it has not expired: the list never points into the stack frame of a     *)
(* do_sleep that has returned, or of a thread that has exited.             *)
TimersLiveInDoSleep ==
    /\ IsInjective(timer_list)
    /\ \A p \in Proc : Pending(p) => pc[p] \in {"set", "back"}
    /\ \A p \in Proc : wait_state[p] = "WT_TIMER" => Pending(p) /\ Remaining(p) > 0

(* Every do_sleep returns. *)
SleepEnds == \A p \in Proc : pc[p] = "set" ~> pc[p] = "run"

(* The delta list implements one alarm per thread: ticks, kills and other  *)
(* threads' timers never change how long a thread sleeps.                  *)
Alarm ==
    INSTANCE AlarmClock WITH
        Sleeper <- Proc,
        left    <- [p \in Proc |-> Remaining(p)],
        dozing  <- {p \in Proc : wait_state[p] = "WT_TIMER"}

AlarmSpec == Alarm!Spec
=============================================================================
