------------------------------- MODULE Stdin --------------------------------
(***************************************************************************)
(* The stdin device, kern/fs/devs/dev_stdin.c.  The handler of the timer   *)
(* interrupt writes what was typed into a ring buffer; user processes read *)
(* it with a system call and sleep while it is empty.  Interrupts are off  *)
(* for the whole of a system call, so a tick finds the hart in user mode   *)
(* or in cpu_idle.                                                         *)
(***************************************************************************)
EXTENDS KSched

CONSTANTS
    Char,            \* the characters somebody may type
    STDIN_BUFSIZE,
    MaxRead,         \* bound: the longest read() asks for this many
    MaxTyped         \* bound: p_wpos, hence the characters that are stored

ASSUME StdinAssumption ==
    /\ IsFiniteSet(Proc) /\ Char # {}
    /\ STDIN_BUFSIZE \in Nat \ {0} /\ MaxRead \in Nat \ {0} /\ MaxTyped \in Nat

VARIABLES
    stdin_buffer,
    p_rpos, p_wpos,
    wait_queue,     \* the processes of its wait_t's, oldest first
    wakeup_flags,   \* wait->wakeup_flags of the wait_t on each process's stack
    pc,             \* where each process is, see PC
    len,            \* the argument of each process's read
    got,            \* what it has copied to its buffer
    exiting         \* the processes whose PF_EXITING flag is set

stdin_vars == <<stdin_buffer, p_rpos, p_wpos, wait_queue, wakeup_flags>>
vars == <<sched_vars, stdin_vars, pc, len, got, exiting>>

(***************************************************************************)
(* "user"    in user mode (for idleproc: in cpu_idle)                      *)
(* "read"    in the loop of dev_stdin_read, at try_again                   *)
(* "asleep"  before the schedule() of that loop; "back" in and after it    *)
(* "trap"    at the end of trap()                                          *)
(* "resched" in the schedule() there, and after it                         *)
(* "dead"    in do_exit                                                    *)
(***************************************************************************)
PC == {"user", "read", "asleep", "back", "trap", "resched", "dead"}

TypeOK ==
    /\ SchedTypeOK
    /\ stdin_buffer \in [0 .. STDIN_BUFSIZE - 1 -> Char]
    /\ p_rpos \in 0 .. p_wpos /\ p_wpos \in 0 .. p_rpos + STDIN_BUFSIZE
    /\ wait_queue \in Seq(Proc)
    /\ wakeup_flags \in [Proc -> {"WT_KBD", "WT_INTERRUPTED"}]
    /\ pc \in [Task -> PC]
    /\ len \in [Proc -> 0 .. MaxRead]
    /\ got \in [Proc -> Seq(Char)] /\ \A p \in Proc : Len(got[p]) <= len[p]
    /\ exiting \subseteq Proc

Init ==
    /\ pstate = [p \in Task |-> "RUNNABLE"]
    /\ wait_state = [p \in Task |-> "none"]
    /\ run_list \in {q \in [1 .. Cardinality(Proc) -> Proc] :
                        IsInjective(q) /\ \A p \in Proc : Contains(q, p)}
    /\ current = idleproc
    /\ time_slice = [p \in Task |-> MAX_TIME_SLICE]
    /\ need_resched = [p \in Task |-> p = idleproc]
    /\ stdin_buffer = [k \in 0 .. STDIN_BUFSIZE - 1 |-> CHOOSE c \in Char : TRUE]
    /\ p_rpos = 0 /\ p_wpos = 0
    /\ wait_queue = <<>>
    /\ wakeup_flags = [p \in Proc |-> "WT_INTERRUPTED"]
    /\ pc = [p \in Task |-> "user"]
    /\ len = [p \in Proc |-> 0]
    /\ got = [p \in Proc |-> <<>>]
    /\ exiting = {}

-----------------------------------------------------------------------------
Running(where) == current \in Proc /\ pc[current] = where

Goto(where) == pc' = [pc EXCEPT ![current] = where]

(* The system call read(stdin, buf, n) reaches dev_stdin_read. *)
Read(n) ==
    /\ Running("user")
    /\ len' = [len EXCEPT ![current] = n]
    /\ got' = [got EXCEPT ![current] = <<>>]
    /\ Goto("read")
    /\ UNCHANGED <<sched_vars, stdin_vars, exiting>>

(* The loop, up to the return or to the next wait. *)
Slot(pos) == pos % STDIN_BUFSIZE

Missing == len[current] - Len(got[current])
Copied  == IF p_wpos - p_rpos < Missing THEN p_wpos - p_rpos ELSE Missing

ReadEnds ==
    /\ Running("read")
    /\ p_wpos - p_rpos >= Missing
    /\ Goto("trap")
    /\ UNCHANGED <<sched_vars, wait_queue, wakeup_flags>>

ReadWaits ==
    /\ Running("read")
    /\ p_wpos - p_rpos < Missing
    /\ GoToSleep("WT_KBD")
    /\ wait_queue' = Append(wait_queue, current)
    /\ wakeup_flags' = [wakeup_flags EXCEPT ![current] = "WT_INTERRUPTED"]
    /\ Goto("asleep")

ReadLoop ==
    /\ ReadEnds \/ ReadWaits
    /\ got' = [got EXCEPT ![current] =
                  @ \o [k \in 1 .. Copied |-> stdin_buffer[Slot(p_rpos + k - 1)]]]
    /\ p_rpos' = p_rpos + Copied
    /\ UNCHANGED <<stdin_buffer, p_wpos, len, exiting>>

ReadSchedules ==
    /\ Running("asleep")
    /\ schedule
    /\ Goto("back")
    /\ UNCHANGED <<stdin_vars, len, got, exiting>>

(* A reader that was not woken by a character returns what it has. *)
TriesAgain_never(p) == FALSE
TriesAgain(p) == wakeup_flags[p] = "WT_KBD"

ReadWakes ==
    /\ Running("back")
    /\ wait_queue' = Without(wait_queue, current)
    /\ Goto(IF TriesAgain(current) THEN "read" ELSE "trap")
    /\ UNCHANGED <<sched_vars, stdin_buffer, p_rpos, p_wpos, wakeup_flags, len, got, exiting>>

(* do_kill(p), for a process that is not marked yet. *)
do_kill(p) ==
    /\ Running("user")
    /\ p \notin exiting
    /\ exiting' = exiting \cup {p}
    /\ IF wait_state[p] \in Interruptible
       THEN wakeup_proc(p)
       ELSE UNCHANGED sched_vars
    /\ Goto("trap")
    /\ UNCHANGED <<stdin_vars, len, got>>

(* The end of trap(): a marked process exits, another may be preempted. *)
TrapEnds ==
    /\ Running("trap")
    /\ IF current \in exiting
       THEN Goto("dead") /\ pstate' = [pstate EXCEPT ![current] = "ZOMBIE"]
       ELSE Goto(IF need_resched[current] THEN "resched" ELSE "user") /\ UNCHANGED pstate
    /\ UNCHANGED <<wait_state, run_list, current, time_slice, need_resched>>
    /\ UNCHANGED <<stdin_vars, len, got, exiting>>

(* The schedule() of a preempted process, of do_exit and of cpu_idle. *)
Reschedule ==
    /\ \/ Running("resched") /\ Goto("user")
       \/ Running("dead") /\ UNCHANGED pc
       \/ current = idleproc /\ need_resched[idleproc] /\ UNCHANGED pc
    /\ schedule
    /\ UNCHANGED <<stdin_vars, len, got, exiting>>

-----------------------------------------------------------------------------
(* dev_stdin_write: a character typed when the buffer is full lands on the *)
(* oldest unread one, since p_wpos stays where it is.                      *)
Advances_always == TRUE
Advances == p_wpos - p_rpos < STDIN_BUFSIZE

Store(c) ==
    /\ stdin_buffer' = [stdin_buffer EXCEPT ![Slot(p_wpos)] = c]
    /\ p_wpos' = IF Advances THEN p_wpos + 1 ELSE p_wpos

(* wakeup_queue(wait_queue, WT_KBD, 1): everyone is taken out and woken; a *)
(* reader that do_kill has woken already loses its WT_INTERRUPTED.         *)
Waked_first == IF wait_queue = <<>> THEN <<>> ELSE <<Head(wait_queue)>>
Waked == wait_queue

WakeReaders ==
    /\ wait_queue' = SubSeq(wait_queue, Len(Waked) + 1, Len(wait_queue))
    /\ wakeup_flags' = [p \in Proc |-> IF p \in ToSet(Waked) THEN "WT_KBD" ELSE wakeup_flags[p]]
    /\ pstate' = [p \in Task |-> IF p \in Woken(Waked) THEN "RUNNABLE" ELSE pstate[p]]
    /\ wait_state' = [p \in Task |-> IF p \in Woken(Waked) THEN "none" ELSE wait_state[p]]
    /\ run_list' = AllEnqueued(Waked)

(* The tick: run_timer_list charges it, then dev_stdin_write(cons_getc()). *)
InterruptsEnabled == pc[current] = "user"

Charge ==
    /\ time_slice' = [p \in Task |->
           IF p = current /\ p # idleproc THEN SliceAfterTick(time_slice[p])
           ELSE IF p \in Joined(Waked) THEN Refill(time_slice[p])
           ELSE time_slice[p]]
    /\ need_resched' = [need_resched EXCEPT
           ![current] = @ \/ current = idleproc \/ SliceOver(time_slice[current])]
    /\ UNCHANGED current

TickTyped(c) ==
    /\ InterruptsEnabled
    /\ p_wpos < MaxTyped
    /\ Store(c)
    /\ WakeReaders
    /\ Charge
    /\ IF current = idleproc THEN UNCHANGED pc ELSE Goto("trap")
    /\ UNCHANGED <<p_rpos, len, got, exiting>>

TickOnly ==
    /\ InterruptsEnabled
    /\ proc_tick
    /\ IF current = idleproc THEN UNCHANGED pc ELSE Goto("trap")
    /\ UNCHANGED <<stdin_vars, len, got, exiting>>

Next ==
    \/ \E n \in 1 .. MaxRead : Read(n)
    \/ ReadLoop \/ ReadSchedules \/ ReadWakes
    \/ \E p \in Proc : do_kill(p)
    \/ TrapEnds \/ Reschedule
    \/ \E c \in Char : TickTyped(c)
    \/ TickOnly

Spec == Init /\ [][Next]_vars

-----------------------------------------------------------------------------
(* Nobody sleeps beside unread input: a reader in the wait queue that no   *)
(* do_kill has woken is asleep there, once, and has read all there is.     *)
NoInputIgnored ==
    /\ IsInjective(wait_queue)
    /\ wait_queue # <<>> => p_rpos = p_wpos
    /\ \A p \in Proc :
           /\ wait_state[p] = "WT_KBD" => Contains(wait_queue, p)
           /\ Contains(wait_queue, p) => wait_state[p] = "WT_KBD" \/ p \in exiting

(* A read returns fewer characters than it was asked for only in a process *)
(* that has been killed, and that then exits: programs never see it.       *)
ShortReadIsKilled ==
    \A p \in Proc : pc[p] \in {"trap", "user"} /\ Len(got[p]) < len[p] => p \in exiting

(* The ring buffer implements the terminal: nothing is read twice, out of  *)
(* order or by two readers, whatever wakes them.                           *)
Term ==
    INSTANCE Terminal WITH
        Reader <- Proc,
        Size   <- STDIN_BUFSIZE,
        unread <- [k \in 1 .. p_wpos - p_rpos |-> stdin_buffer[Slot(p_rpos + k - 1)]]

TerminalSpec == Term!Spec
=============================================================================
