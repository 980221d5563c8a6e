----------------------------- MODULE Semaphore -----------------------------
(***************************************************************************)
(* Kernel threads that take and give back semaphores, sleep while they     *)
(* hold them, kill one another and are interrupted by the clock.  Kernel   *)
(* threads run with interrupts enabled and are never preempted: another    *)
(* thread runs only when `current' calls schedule().                       *)
(***************************************************************************)
EXTENDS KSem

CONSTANTS
    initial,   \* the value each semaphore is initialised with
    NoSem,     \* the semaphore of a process that waits for none
    Before(_, _),  \* the order in which a thread that holds one takes another
    Nappers        \* the threads that also sleep on something else

ASSUME ProcAssumption == IsFiniteSet(Proc)
ASSUME InitialAssumption == initial \in [Sem -> Nat]
ASSUME NoSemAssumption == NoSem \notin Sem
ASSUME BeforeAssumption == \A s \in Sem : ~Before(s, s)
ASSUME NappersAssumption == Nappers \subseteq Proc

VARIABLES
    pc,     \* where each thread is, see PC
    want,   \* the semaphore each thread is inside __down of
    held,   \* the semaphores each thread holds a token of
    irq     \* the timer interrupt handler is running

vars == <<sched_vars, sem_vars, pc, want, held, irq>>

(***************************************************************************)
(* "run"      in the thread's own code                                     *)
(* "asleep"   marked asleep, between local_intr_restore and schedule()     *)
(* "back"     inside that schedule(), and after it                         *)
(* "panic"    an assertion failed                                          *)
(***************************************************************************)
PC == {"run", "asleep", "back", "panic"}

TypeOK ==
    /\ SchedTypeOK
    /\ SemTypeOK
    /\ pc \in [Task -> PC]
    /\ want \in [Proc -> Sem \cup {NoSem}]
    /\ held \in [Proc -> SUBSET Sem]
    /\ irq \in BOOLEAN

(* The threads have been created, in some order, and idleproc runs. *)
Init ==
    /\ pstate = [p \in Task |-> "RUNNABLE"]
    /\ wait_state = [p \in Task |-> "none"]
    /\ run_list \in {q \in [1 .. Cardinality(Proc) -> Proc] :
                        IsInjective(q) /\ \A p \in Proc : Contains(q, p)}
    /\ current = idleproc
    /\ time_slice = [p \in Task |-> MAX_TIME_SLICE]
    /\ need_resched = [p \in Task |-> p = idleproc]
    /\ sem_init(initial)
    /\ pc = [p \in Task |-> "run"]
    /\ want = [p \in Proc |-> NoSem]
    /\ held = [p \in Proc |-> {}]
    /\ irq = FALSE

-----------------------------------------------------------------------------
Running(where) == ~irq /\ current \in Proc /\ pc[current] = where

Goto(where) == pc' = [pc EXCEPT ![current] = where]

(* A thread that holds a semaphore asks only for one that comes after it. *)
MayAsk(s) == \A t \in held[current] : Before(t, s)

(* down(s) when there is a token, or a successful try_down(s). *)
DownTakes(s) ==
    /\ Running("run")
    /\ s \notin held[current]
    /\ Take(s)
    /\ held' = [held EXCEPT ![current] = @ \cup {s}]
    /\ UNCHANGED <<pc, want, irq>>

(* down(s) up to the local_intr_restore before its schedule(). *)
DownWaits(s) ==
    /\ Running("run")
    /\ MayAsk(s)
    /\ Wait(s)
    /\ want' = [want EXCEPT ![current] = s]
    /\ Goto("asleep")
    /\ UNCHANGED <<held, irq>>

(* The rest of down(s): its assert(flags == 0) fails unless up() woke it. *)
DownReturns(s) ==
    /\ Running("back")
    /\ want[current] = s
    /\ StopWaiting(s)
    /\ want' = [want EXCEPT ![current] = NoSem]
    /\ IF wakeup_flags[current] = "WT_KSEM"
       THEN Goto("run") /\ held' = [held EXCEPT ![current] = @ \cup {s}]
       ELSE Goto("panic") /\ UNCHANGED held
    /\ UNCHANGED irq

(* up(s) by a thread that holds s. *)
UpGives(s) ==
    /\ Running("run")
    /\ s \in held[current]
    /\ IF UpAssertion(s)
       THEN /\ Up(s)
            /\ held' = [held EXCEPT ![current] = @ \ {s}]
            /\ UNCHANGED pc
       ELSE Goto("panic") /\ UNCHANGED <<sched_vars, sem_vars, held>>
    /\ UNCHANGED <<want, irq>>

(* A thread sleeps on something else, such as do_sleep or the disk, maybe  *)
(* with semaphores held.                                                   *)
Nap ==
    /\ Running("run")
    /\ current \in Nappers
    /\ GoToSleep("WT_TIMER")
    /\ Goto("asleep")
    /\ UNCHANGED <<sem_vars, want, held, irq>>

NapReturns ==
    /\ Running("back")
    /\ want[current] = NoSem
    /\ Goto("run")
    /\ UNCHANGED <<sched_vars, sem_vars, want, held, irq>>

(* do_kill(p) wakes p if its wait may be interrupted. *)
Kill(p) ==
    /\ Running("run")
    /\ p # current
    /\ wait_state[p] \in Interruptible
    /\ wakeup_proc(p)
    /\ UNCHANGED <<sem_vars, pc, want, held, irq>>

(* The schedule() of a thread that marked itself asleep. *)
SleepSchedule ==
    /\ Running("asleep")
    /\ schedule
    /\ Goto("back")
    /\ UNCHANGED <<sem_vars, want, held, irq>>

(* A thread offers the hart; cpu_idle does when a tick tells it to. *)
Resched ==
    /\ ~irq
    /\ pc[current] = "run"
    /\ current = idleproc => need_resched[idleproc]
    /\ schedule
    /\ UNCHANGED <<sem_vars, pc, want, held, irq>>

-----------------------------------------------------------------------------
(* The timer interrupt comes at any point where interrupts are enabled. *)
TimerInterrupt ==
    /\ ~irq
    /\ irq' = TRUE
    /\ UNCHANGED <<sched_vars, sem_vars, pc, want, held>>

(* The handler wakes a thread whose timer expired ... *)
InterruptWake(p) ==
    /\ irq
    /\ wait_state[p] = "WT_TIMER"
    /\ wakeup_proc(p)
    /\ UNCHANGED <<sem_vars, pc, want, held, irq>>

(* ... charges the tick and returns to the kernel thread. *)
InterruptReturn ==
    /\ irq
    /\ proc_tick
    /\ irq' = FALSE
    /\ UNCHANGED <<sem_vars, pc, want, held>>

Next ==
    \/ \E s \in Sem : DownTakes(s) \/ DownWaits(s) \/ DownReturns(s) \/ UpGives(s)
    \/ \E p \in Proc : Kill(p) \/ InterruptWake(p)
    \/ Nap \/ NapReturns \/ SleepSchedule \/ Resched
    \/ TimerInterrupt \/ InterruptReturn

Spec == Init /\ [][Next]_vars

(* The hart executes, between two ticks too; ticks keep coming and timers  *)
(* expire.  About the threads: they are never preempted, so none may run   *)
(* forever without calling schedule(), and each gives back what it holds.  *)
KernelStep == SleepSchedule \/ NapReturns \/ \E s \in Sem : DownReturns(s)

Fairness ==
    /\ WF_vars(TimerInterrupt)
    /\ WF_vars(InterruptReturn)
    /\ SF_vars(KernelStep)
    /\ SF_vars(Resched)
    /\ \A p \in Nappers : SF_vars(InterruptWake(p))
    /\ \A p \in Proc : SF_vars(current = p /\ \E s \in Sem : UpGives(s))

FairSpec == Spec /\ Fairness

-----------------------------------------------------------------------------
(* A process owns a token of s when it is past its down(s), and already    *)
(* when up() has handed it one and it has not run since.                   *)
HandedOff(s) == {p \in Proc : want[p] = s /\ ~InQueue(p, s)}
Owners(s)    == {p \in Proc : s \in held[p]} \cup HandedOff(s)

(* Tokens are neither lost nor made: those in the semaphore and those with *)
(* an owner add up to the value sem_init gave it.                          *)
TokensConserved ==
    \A s \in Sem : value[s] + Cardinality(Owners(s)) = initial[s]

(* No lost wakeup: nobody sleeps in the queue of a semaphore that has a    *)
(* token, and everyone in a queue is asleep there, once, and nowhere else. *)
NoTokenIgnored ==
    \A s \in Sem : wait_queue[s] # <<>> => value[s] = 0

QueuedAreAsleep ==
    \A s \in Sem : \A p \in Proc :
        InQueue(p, s) => want[p] = s /\ pstate[p] = "SLEEPING" /\ wait_state[p] = "WT_KSEM"

(* A semaphore that starts at one is a lock. *)
MutualExclusion ==
    \A s \in Sem : initial[s] = 1 =>
        \A p, q \in Proc : s \in held[p] /\ s \in held[q] => p = q

(* The assertions of up() and down() hold: in particular do_kill and the   *)
(* timer never make down() return without a token.                         *)
NoPanic == \A p \in Proc : pc[p] # "panic"

(* Every down() returns. *)
DownEventuallyReturns ==
    \A p \in Proc : \A s \in Sem : want[p] = s ~> s \in held[p]

(* Semaphores implement counting semaphores.  A token handed to a waiter   *)
(* counts as free until the waiter runs and leaves down(): up() is then an *)
(* abstract Leave and the return from down() an abstract Enter, and the    *)
(* hand-off provides the fairness the abstract specification promises.     *)
Counting ==
    INSTANCE CountingSemaphore WITH
        Nothing <- NoSem,
        tokens  <- [s \in Sem |-> value[s] + Cardinality(HandedOff(s))],
        asks    <- want,
        holds   <- held

CountingSpec == Counting!Spec
=============================================================================
