---------------------------- MODULE Philosophers ----------------------------
(***************************************************************************)
(* check_sync() of kern/sync/check_sync.c, its semaphore half: initproc    *)
(* starts N philosophers and waits for them.  It is the kernel's own test  *)
(* of do_sleep, semaphores, do_exit and do_wait together, so the module    *)
(* composes KTimer and KSem over one scheduler.  user_main, which shares   *)
(* the hart in lab7, is left out: it takes no part in the protocol.        *)
(***************************************************************************)
EXTENDS KTimer, KSem

CONSTANTS
    N,           \* the philosophers are 0 .. N - 1
    TIMES,       \* how often each of them eats
    SLEEP_TIME,  \* the ticks they think or eat
    initproc,    \* the thread that runs check_sync
    mutex        \* the semaphore of the critical section

Phil == 0 .. N - 1

ASSUME PhilAssumption == N \in Nat \ {0, 1} /\ TIMES \in Nat \ {0} /\ SLEEP_TIME \in Nat \ {0}
ASSUME ProcIsPhil == Proc = Phil \cup {initproc} /\ initproc \notin Phil
ASSUME SemIsPhil == Sem = Phil \cup {mutex} /\ mutex \notin Phil   \* s[i] is i

VARIABLES
    state_sema,   \* state_sema[i]
    stage,        \* the statement each philosopher is at, see Stage
    at,           \* where in a blocking call a thread is, see At
    iter,         \* how often each philosopher has gone round its loop
    waits_for     \* the i of check_sync's loop of do_wait calls

vars == <<sched_vars, timer_vars, sem_vars, state_sema, stage, at, iter, waits_for>>

(***************************************************************************)
(* One round of philosopher_using_semaphore; "quit" is do_exit after the   *)
(* last.  "think" and "eat" are do_sleep(SLEEP_TIME).                      *)
(* phi_take_forks_sema: "take" down(&mutex); "hungry" state_sema[i] =      *)
(* HUNGRY and phi_test_sema(i); "leave" up(&mutex); "want" down(&s[i]).    *)
(* phi_put_forks_sema: "put" down(&mutex); "full" state_sema[i] = THINKING *)
(* and phi_test_sema(LEFT); "right" phi_test_sema(RIGHT); "done" up(&mutex). *)
(***************************************************************************)
Round ==
    <<"think", "take", "hungry", "leave", "want", "eat", "put", "full", "right", "done">>

After(here) == Round[1 + ((CHOOSE k \in 1 .. Len(Round) : Round[k] = here) % Len(Round))]

Stage == ToSet(Round) \cup {"quit"}

(* "run" in its own code; "asleep" before the schedule() of the call it    *)
(* blocks in; "back" in that schedule() and after it; "panic" an assertion *)
(* failed.                                                                 *)
At == {"run", "asleep", "back", "panic"}

TypeOK ==
    /\ SchedTypeOK
    /\ TimerTypeOK
    /\ SemTypeOK
    /\ state_sema \in [Phil -> {"THINKING", "HUNGRY", "EATING"}]
    /\ stage \in [Phil -> Stage]
    /\ at \in [Proc -> At]
    /\ iter \in [Phil -> 1 .. TIMES]
    /\ waits_for \in 0 .. N

(* check_sync has initialised the semaphores and started the philosophers. *)
Init ==
    /\ pstate = [p \in Task |-> "RUNNABLE"]
    /\ wait_state = [p \in Task |-> "none"]
    /\ run_list = [k \in 1 .. N |-> k - 1]
    /\ current = initproc
    /\ time_slice = [p \in Task |-> MAX_TIME_SLICE]
    /\ need_resched = [p \in Task |-> p = idleproc]
    /\ timer_init
    /\ sem_init([s \in Sem |-> IF s = mutex THEN 1 ELSE 0])
    /\ state_sema = [i \in Phil |-> "THINKING"]
    /\ stage = [i \in Phil |-> "think"]
    /\ at = [p \in Proc |-> "run"]
    /\ iter = [i \in Phil |-> 1]
    /\ waits_for = 0

-----------------------------------------------------------------------------
Left_no_wrap(i) == IF i = 0 THEN 0 ELSE i - 1
Left(i)  == (i + N - 1) % N
Right(i) == (i + 1) % N

PhilAt(i, where, here) == current = i /\ at[i] = where /\ stage[i] = here

Goto(where) == at' = [at EXCEPT ![current] = where]
Advance     == stage' = [stage EXCEPT ![current] = After(@)]

own_vars == <<state_sema, stage, iter, waits_for>>

(* do_sleep: the timer is set, and taken back on return. *)
SleepStart(i) ==
    /\ \E here \in {"think", "eat"} : PhilAt(i, "run", here)
    /\ GoToSleep("WT_TIMER")
    /\ add_timer(i, SLEEP_TIME)
    /\ Goto("asleep")
    /\ UNCHANGED <<sem_vars, own_vars>>

SleepReturns(i) ==
    /\ \E here \in {"think", "eat"} : PhilAt(i, "back", here)
    /\ del_timer(i)
    /\ Goto("run")
    /\ Advance
    /\ UNCHANGED <<sched_vars, sem_vars, state_sema, iter, waits_for>>

(* The semaphore of the down() or up() a stage stands for. *)
SemOf(i) == IF stage[i] = "want" THEN i ELSE mutex

Downs == {"take", "want", "put"}

DownTakes(i) ==
    /\ \E here \in Downs : PhilAt(i, "run", here)
    /\ Take(SemOf(i))
    /\ Advance
    /\ UNCHANGED <<timer_vars, state_sema, at, iter, waits_for>>

DownWaits(i) ==
    /\ \E here \in Downs : PhilAt(i, "run", here)
    /\ Wait(SemOf(i))
    /\ Goto("asleep")
    /\ UNCHANGED <<timer_vars, own_vars>>

DownReturns(i) ==
    /\ \E here \in Downs : PhilAt(i, "back", here)
    /\ StopWaiting(SemOf(i))
    /\ IF wakeup_flags[i] = "WT_KSEM"
       THEN Goto("run") /\ Advance
       ELSE Goto("panic") /\ UNCHANGED stage
    /\ UNCHANGED <<timer_vars, state_sema, iter, waits_for>>

(* up(&mutex); after the second one the loop goes round or ends. *)
Leave(i) ==
    /\ PhilAt(i, "run", "leave")
    /\ Up(mutex)
    /\ Advance
    /\ UNCHANGED <<timer_vars, state_sema, at, iter, waits_for>>

LoopEnd(i) ==
    /\ PhilAt(i, "run", "done")
    /\ Up(mutex)
    /\ IF iter[i] < TIMES
       THEN Advance /\ iter' = [iter EXCEPT ![i] = @ + 1]
       ELSE stage' = [stage EXCEPT ![i] = "quit"] /\ UNCHANGED iter
    /\ UNCHANGED <<timer_vars, state_sema, at, waits_for>>

(* phi_test_sema(j), after the caller has set its own state to `mine'. *)
ForksFree_left_only(i, states) == states[i] = "HUNGRY" /\ states[Left(i)] # "EATING"
ForksFree(i, states) ==
    states[i] = "HUNGRY" /\ states[Left(i)] # "EATING" /\ states[Right(i)] # "EATING"

phi_test_sema(j, states) ==
    IF ForksFree(j, states)
    THEN state_sema' = [states EXCEPT ![j] = "EATING"] /\ Up(j)
    ELSE state_sema' = states /\ UNCHANGED <<sched_vars, sem_vars>>

Hungry(i) ==
    /\ PhilAt(i, "run", "hungry")
    /\ phi_test_sema(i, [state_sema EXCEPT ![i] = "HUNGRY"])
    /\ Advance
    /\ UNCHANGED <<timer_vars, at, iter, waits_for>>

(* The pseudo-code above the function leaves the assignment out. *)
Thinks_not(i) == state_sema
Thinks(i) == [state_sema EXCEPT ![i] = "THINKING"]

TestLeft(i) ==
    /\ PhilAt(i, "run", "full")
    /\ phi_test_sema(Left(i), Thinks(i))
    /\ Advance
    /\ UNCHANGED <<timer_vars, at, iter, waits_for>>

TestRight(i) ==
    /\ PhilAt(i, "run", "right")
    /\ phi_test_sema(Right(i), state_sema)
    /\ Advance
    /\ UNCHANGED <<timer_vars, at, iter, waits_for>>

(* do_exit of a philosopher: initproc is woken if it waits for a child. *)
Exit(i) ==
    /\ PhilAt(i, "run", "quit")
    /\ IF wait_state[initproc] = "WT_CHILD"
       THEN /\ pstate' = [pstate EXCEPT ![i] = "ZOMBIE", ![initproc] = "RUNNABLE"]
            /\ wait_state' = [wait_state EXCEPT ![initproc] = "none"]
            /\ run_list' = RR_enqueue(run_list, initproc)
            /\ time_slice' = [time_slice EXCEPT ![initproc] = Refill(@)]
       ELSE /\ pstate' = [pstate EXCEPT ![i] = "ZOMBIE"]
            /\ UNCHANGED <<wait_state, run_list, time_slice>>
    /\ Goto("asleep")
    /\ UNCHANGED <<current, need_resched, timer_vars, sem_vars, own_vars>>

-----------------------------------------------------------------------------
(* do_wait(pids[i], NULL) by initproc: a zombie is freed, ... *)
WaitReaps ==
    /\ current = initproc /\ at[initproc] # "asleep"
    /\ waits_for < N
    /\ pstate[waits_for] = "ZOMBIE"
    /\ pstate' = [pstate EXCEPT ![waits_for] = "UNINIT"]
    /\ waits_for' = waits_for + 1
    /\ Goto("run")
    /\ UNCHANGED <<wait_state, run_list, current, time_slice, need_resched>>
    /\ UNCHANGED <<timer_vars, sem_vars, state_sema, stage, iter>>

(* ... a child that is alive is waited for. *)
WaitSleeps ==
    /\ current = initproc /\ at[initproc] # "asleep"
    /\ waits_for < N
    /\ pstate[waits_for] # "ZOMBIE"
    /\ GoToSleep("WT_CHILD")
    /\ Goto("asleep")
    /\ UNCHANGED <<timer_vars, sem_vars, own_vars>>

(* The schedule() of the blocking calls and of do_exit, and of cpu_idle. *)
Reschedule ==
    /\ IF current = idleproc
       THEN need_resched[idleproc] /\ UNCHANGED at
       ELSE at[current] = "asleep" /\ Goto("back")
    /\ schedule
    /\ UNCHANGED <<timer_vars, sem_vars, own_vars>>

(* The timer interrupt, at any point where interrupts are enabled. *)
Tick ==
    /\ run_timer_list
    /\ UNCHANGED <<sem_vars, at, own_vars>>

HartStep ==
    \/ \E i \in Phil : \/ SleepStart(i) \/ SleepReturns(i)
                       \/ DownTakes(i) \/ DownWaits(i) \/ DownReturns(i)
                       \/ Hungry(i) \/ Leave(i)
                       \/ TestLeft(i) \/ TestRight(i) \/ LoopEnd(i)
                       \/ Exit(i)
    \/ WaitReaps \/ WaitSleeps
    \/ Reschedule

Next == HartStep \/ Tick

Spec == Init /\ [][Next]_vars

(* The hart executes and the clock ticks. *)
FairSpec == Spec /\ WF_vars(HartStep) /\ WF_vars(Tick)

-----------------------------------------------------------------------------
(* A philosopher is at the table from the down(&s[i]) that lets it eat to  *)
(* the assignment that ends the meal.                                      *)
AtTable(i) == stage[i] \in {"eat", "put", "full"}

(* The token of s[i]: in the semaphore, given to i and not yet used, or     *)
(* spent on the meal i is having.                                          *)
HandedOff(i) == stage[i] = "want" /\ at[i] \in {"asleep", "back"} /\ ~InQueue(i, i)

Invited(i) == value[i] + (IF HandedOff(i) THEN 1 ELSE 0) + (IF AtTable(i) THEN 1 ELSE 0)

(* Two neighbours never eat at the same time, because state_sema and the   *)
(* semaphores agree: a meal is announced once, and no token of s[i] is     *)
(* left over for a later round.                                            *)
NeighboursNeverEat ==
    /\ \A i \in Phil : ~(AtTable(i) /\ AtTable(Right(i)))
    /\ \A i \in Phil : Invited(i) = IF state_sema[i] = "EATING" THEN 1 ELSE 0

(* A hungry philosopher that is not invited has an eating neighbour: no    *)
(* missed phi_test_sema leaves forks on the table beside a hungry one.     *)
(* While somebody is putting forks back its two tests are still to come.   *)
PuttingBack == \E i \in Phil : stage[i] = "right"

NobodyForgotten ==
    ~PuttingBack => \A i \in Phil :
        state_sema[i] = "HUNGRY" =>
            \E j \in {Left(i), Right(i)} : state_sema[j] = "EATING"

(* check_sync returns: every philosopher eats TIMES times and quits, and   *)
(* no do_wait misses an exit, although all of them share one wait state.   *)
CheckSyncReturns == <>(waits_for = N)
=============================================================================
