----------------------------- MODULE Scheduling -----------------------------
(***************************************************************************)
(* Round-robin scheduling of user processes and kernel threads: the        *)
(* scheduler core of KSched driven by system calls, by kernel threads that *)
(* sleep and wake one another, and by the timer interrupt, whose trap()    *)
(* reschedules only when it returns to user mode.                          *)
(***************************************************************************)
EXTENDS KSched

CONSTANT KThread   \* the processes that are kernel threads (proc->mm == NULL)

ASSUME KThreadAssumption == KThread \subseteq Proc

VARIABLES
    mode,   \* where each process is, see Mode
    irq,    \* the timer interrupt handler is running on top of `current'
    ran     \* history: ticks `current' took in user mode since schedule() chose it

vars == <<sched_vars, mode, irq, ran>>

(***************************************************************************)
(* "user"      in user mode, interrupts enabled                            *)
(* "kernel"    a kernel thread (idleproc is one) in its own code,          *)
(*             interrupts enabled                                          *)
(* "trapret"   at the end of trap() for a trap that came from user mode    *)
(* "blocking"  asleep or a zombie, on the way to schedule()                *)
(* A process that is not `current' is suspended where its mode says.       *)
(***************************************************************************)
Mode == {"user", "kernel", "trapret", "blocking"}

KernelTask == KThread \cup {idleproc}
Home(p) == IF p \in KernelTask THEN "kernel" ELSE "user"

TypeOK ==
    /\ SchedTypeOK
    /\ mode \in [Task -> Mode]
    /\ irq \in BOOLEAN
    /\ ran \in Nat

(* proc_init: idleproc is the process that boots. *)
Init ==
    /\ pstate = [p \in Task |-> IF p = idleproc THEN "RUNNABLE" ELSE "UNINIT"]
    /\ wait_state = [p \in Task |-> "none"]
    /\ run_list = <<>>
    /\ current = idleproc
    /\ time_slice = [p \in Task |-> 0]
    /\ need_resched = [p \in Task |-> p = idleproc]
    /\ mode = [p \in Task |-> Home(p)]
    /\ irq = FALSE
    /\ ran = 0

-----------------------------------------------------------------------------
(* What `current' does in its own code.  A system call of a user process   *)
(* ends at the bottom of trap().                                           *)
InOwnCode == ~irq /\ mode[current] = Home(current)

AfterCall == IF current \in KernelTask THEN "kernel" ELSE "trapret"

Goto(m) == mode' = [mode EXCEPT ![current] = m]

(* do_fork: the new process becomes RUNNABLE. *)
Fork(p) ==
    /\ InOwnCode
    /\ pstate[p] = "UNINIT"
    /\ wakeup_proc(p)
    /\ Goto(AfterCall)
    /\ UNCHANGED <<irq, ran>>

(* up(), do_exit() or do_kill() wakes a process that waits; only the wait  *)
(* state is looked at.                                                     *)
WakeOther(p) ==
    /\ InOwnCode
    /\ wait_state[p] # "none"
    /\ wakeup_proc(p)
    /\ Goto(AfterCall)
    /\ UNCHANGED <<irq, ran>>

(* do_yield. *)
Yield ==
    /\ InOwnCode
    /\ current \notin KernelTask
    /\ need_resched' = [need_resched EXCEPT ![current] = TRUE]
    /\ Goto("trapret")
    /\ UNCHANGED <<pstate, wait_state, run_list, current, time_slice, irq, ran>>

(* down(), do_wait(), do_sleep() or dev_stdin_read() puts `current' to sleep. *)
Block(why) ==
    /\ InOwnCode
    /\ current # idleproc
    /\ GoToSleep(why)
    /\ Goto("blocking")
    /\ UNCHANGED <<irq, ran>>

(* do_exit up to its schedule(). *)
Exit ==
    /\ InOwnCode
    /\ current # idleproc
    /\ pstate' = [pstate EXCEPT ![current] = "ZOMBIE"]
    /\ Goto("blocking")
    /\ UNCHANGED <<wait_state, run_list, current, time_slice, need_resched, irq, ran>>

(* The schedule() of a process that blocked. *)
BlockSchedule ==
    /\ ~irq
    /\ mode[current] = "blocking"
    /\ schedule
    /\ Goto(IF pstate[current] = "ZOMBIE" THEN "blocking" ELSE AfterCall)
    /\ ran' = 0
    /\ UNCHANGED irq

(* A kernel thread calls schedule() without sleeping, as init_main does;   *)
(* cpu_idle does so when it is asked to.                                   *)
KernelSchedule ==
    /\ ~irq
    /\ mode[current] = "kernel"
    /\ current = idleproc => need_resched[idleproc]
    /\ schedule
    /\ ran' = 0
    /\ UNCHANGED <<mode, irq>>

(* The end of trap() for a trap from user mode. *)
TrapReturn ==
    /\ ~irq
    /\ mode[current] = "trapret"
    /\ Goto("user")
    /\ IF need_resched[current]
       THEN schedule /\ ran' = 0
       ELSE UNCHANGED <<sched_vars, ran>>
    /\ UNCHANGED irq

-----------------------------------------------------------------------------
(* The timer interrupt: IRQ_S_TIMER in interrupt_handler().  It can arrive *)
(* in user mode and in kernel threads, also between the moment a thread    *)
(* marks itself asleep and its schedule(); not inside a system call, which *)
(* runs with sstatus.SIE clear.                                            *)
InterruptsOn ==
    \/ mode[current] = "user"
    \/ current \in KernelTask /\ mode[current] \in {"kernel", "blocking"}

TimerInterrupt ==
    /\ ~irq
    /\ InterruptsOn
    /\ irq' = TRUE
    /\ UNCHANGED <<sched_vars, mode, ran>>

(* One wakeup made by the handler: an expired timer or a typed character. *)
InterruptWake(p) ==
    /\ irq
    /\ wait_state[p] \in {"WT_TIMER", "WT_KBD"}
    /\ wakeup_proc(p)
    /\ UNCHANGED <<mode, irq, ran>>

(* The handler charges the tick and returns. *)
InterruptReturn ==
    /\ irq
    /\ proc_tick
    /\ irq' = FALSE
    /\ ran' = IF mode[current] = "user" THEN ran + 1 ELSE ran
    /\ Goto(IF mode[current] = "user" THEN "trapret" ELSE mode[current])

Next ==
    \/ \E p \in Proc : Fork(p) \/ WakeOther(p) \/ InterruptWake(p)
    \/ Yield
    \/ \E why \in WaitState \ {"none"} : Block(why)
    \/ Exit
    \/ BlockSchedule
    \/ KernelSchedule
    \/ TrapReturn
    \/ TimerInterrupt
    \/ InterruptReturn

Spec == Init /\ [][Next]_vars

(* The hart keeps executing, between two interrupts too.  A pending timer  *)
(* interrupt is taken as soon as interrupts are enabled, so a process that *)
(* keeps making system calls cannot put it off forever.  A kernel thread,  *)
(* which is never preempted, calls schedule() again and again, as          *)
(* init_main and cpu_idle do, or blocks or exits.                          *)
Fairness ==
    /\ SF_vars(BlockSchedule)
    /\ WF_vars(TrapReturn)
    /\ WF_vars(InterruptReturn)
    /\ SF_vars(TimerInterrupt)
    /\ \A p \in KernelTask : SF_vars(current = p /\ KernelSchedule)

FairSpec == Spec /\ Fairness

-----------------------------------------------------------------------------
(* schedule() never gives the hart to a sleeping process or to a zombie:   *)
(* the current process is RUNNABLE unless it is itself on the way to       *)
(* schedule().                                                             *)
CurrentCanRun ==
    pstate[current] # "RUNNABLE" => mode[current] = "blocking"

(* A process that waits for something is asleep, and one that is asleep    *)
(* says what it waits for: what do_kill, do_exit and run_timer_list rely   *)
(* on when they look at wait_state alone before they call wakeup_proc,     *)
(* which must never be given a zombie.                                     *)
WaitersAsleep ==
    \A p \in Proc : wait_state[p] # "none" <=> pstate[p] = "SLEEPING"

(* Preemption: a process in user mode runs for at most MAX_TIME_SLICE      *)
(* ticks before schedule() chooses again, whatever slice it had left when  *)
(* it last blocked.                                                        *)
SliceBounded ==
    mode[current] = "user" => ran < MAX_TIME_SLICE

(* A RUNNABLE process gets the hart. *)
NoStarvation ==
    \A p \in Proc : pstate[p] = "RUNNABLE" ~> current = p
=============================================================================
