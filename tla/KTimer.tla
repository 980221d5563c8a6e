------------------------------- MODULE KTimer -------------------------------
(***************************************************************************)
(* Kernel timers: add_timer, del_timer and run_timer_list of               *)
(* kern/schedule/sched.c.  A timer lives on the stack of the process that  *)
(* is inside do_sleep, so a process stands for its timer.  The list is a   *)
(* delta list: `expires' counts the ticks after the timer before it.       *)
(***************************************************************************)
EXTENDS KSched

VARIABLES
    timer_list,   \* the processes of the pending timers, next to expire first
    expires       \* timer->expires of each process's timer

timer_vars == <<timer_list, expires>>

Pending(p) == Contains(timer_list, p)

TimerTypeOK ==
    /\ timer_list \in Seq(Proc)
    /\ expires \in [Proc -> Nat]

timer_init == timer_list = <<>> /\ expires = [p \in Proc |-> 0]

(* The ticks until the first i timers have expired. *)
Due(i) == FoldLeft(LAMBDA ticks, p : ticks + expires[p], 0, SubSeq(timer_list, 1, i))

(* The ticks process p has left to sleep; 0 without a timer. *)
Remaining(p) ==
    IF Pending(p) THEN Due(CHOOSE i \in 1 .. Len(timer_list) : timer_list[i] = p) ELSE 0

-----------------------------------------------------------------------------
(* add_timer: the walk stops at the first timer that expires after the new *)
(* one, which goes in front of it; of two that expire together, the new    *)
(* one comes second.                                                       *)
Before(ticks) == Cardinality({i \in 1 .. Len(timer_list) : Due(i) <= ticks})

NextPays(i, delta) ==
    IF i < Len(timer_list) THEN [expires EXCEPT ![timer_list[i + 1]] = @ - delta] ELSE expires

add_timer(p, ticks) ==
    LET i     == Before(ticks)
        delta == ticks - Due(i)
    IN  /\ timer_list' = InsertAt(timer_list, i + 1, p)
        /\ expires' = [NextPays(i, delta) EXCEPT ![p] = delta]

(* del_timer: the timer behind takes over the ticks that were left, so     *)
(* that it does not fire early when a sleeper is woken before its time.    *)
TakeOver_lost(i) == expires
TakeOver(i) ==
    IF i < Len(timer_list)
    THEN [expires EXCEPT ![timer_list[i + 1]] = @ + expires[timer_list[i]]]
    ELSE expires

del_timer_not(p) == UNCHANGED timer_vars

del_timer(p) ==
    IF Pending(p)
    THEN LET i == CHOOSE j \in 1 .. Len(timer_list) : timer_list[j] = p
         IN  /\ expires' = TakeOver(i)
             /\ timer_list' = RemoveAt(timer_list, i)
    ELSE UNCHANGED timer_vars

-----------------------------------------------------------------------------
(* run_timer_list: the tick is taken off the first timer, every timer that *)
(* has then no ticks left wakes its process and leaves the list, and the   *)
(* scheduler is told of the tick.                                          *)
AfterTick ==
    IF timer_list = <<>> THEN expires ELSE [expires EXCEPT ![Head(timer_list)] = @ - 1]

Expired ==
    SubSeq(timer_list, 1, Cardinality({i \in 1 .. Len(timer_list) :
                                           \A j \in 1 .. i : AfterTick[timer_list[j]] = 0}))

run_timer_list ==
    /\ expires' = AfterTick
    /\ timer_list' = SubSeq(timer_list, Len(Expired) + 1, Len(timer_list))
    /\ pstate' = [p \in Task |-> IF p \in Woken(Expired) THEN "RUNNABLE" ELSE pstate[p]]
    /\ wait_state' = [p \in Task |-> IF p \in Woken(Expired) THEN "none" ELSE wait_state[p]]
    /\ run_list' = AllEnqueued(Expired)
    /\ IF current = idleproc
       THEN /\ need_resched' = [need_resched EXCEPT ![current] = TRUE]
            /\ time_slice' = [p \in Task |-> IF p \in Joined(Expired) THEN Refill(time_slice[p])
                                                                    ELSE time_slice[p]]
       ELSE /\ need_resched' = [need_resched EXCEPT ![current] = @ \/ SliceOver(time_slice[current])]
            /\ time_slice' = [p \in Task |-> IF p = current THEN SliceAfterTick(time_slice[p])
                                             ELSE IF p \in Joined(Expired) THEN Refill(time_slice[p])
                                             ELSE time_slice[p]]
    /\ UNCHANGED current

=============================================================================
