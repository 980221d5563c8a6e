------------------------------ MODULE Process ------------------------------
(***************************************************************************)
(* The life of a process: do_fork, do_exit, do_wait, do_kill and do_yield  *)
(* of kern/process/proc.c, the end of trap(), and the loop of init_main    *)
(* that reaps orphans.  User processes are preempted at the end of trap(); *)
(* their system calls run with interrupts disabled.                        *)
(***************************************************************************)
EXTENDS KSched

CONSTANTS
    initproc,      \* process 1, a kernel thread
    NoProc,        \* the NULL pointer
    AnyChild,           \* do_wait's pid 0
    MAX_PROCESS,
    Killable       \* bound: the processes that do_kill is called on

User == Proc \ {initproc}

ASSUME InitprocAssumption == initproc \in Proc
ASSUME NoProcAssumption == NoProc \notin Task /\ AnyChild \notin Task \cup {NoProc}
ASSUME MaxProcessAssumption == MAX_PROCESS \in Nat /\ MAX_PROCESS > 2
ASSUME KillableAssumption == Killable \subseteq User

VARIABLES
    parent, cptr, optr, yptr,   \* the pointers of the process tree
    nr_process,
    exiting,    \* the processes with PF_EXITING set
    at,         \* where each process is, see At
    waits_for   \* the pid argument of the do_wait each process is in

tree_vars == <<parent, cptr, optr, yptr, nr_process>>
vars == <<sched_vars, tree_vars, exiting, at, waits_for>>

(***************************************************************************)
(* "user"      in user mode                                                *)
(* "trapret"   at the end of trap()                                        *)
(* "wait"      at `repeat' in do_wait                                      *)
(* "waiting"   asleep in do_wait, on the way to schedule()                 *)
(* "woken"     inside that schedule(), and after it                        *)
(* "exit"      in do_exit, marked as a zombie                              *)
(* "orphans"   in do_exit, in the loop that gives the children to initproc *)
(* "gone"      at do_exit's schedule()                                     *)
(* "reaped"    initproc, after a do_wait that found a zombie               *)
(* "end"       initproc, after a do_wait that found no child               *)
(***************************************************************************)
At == {"user", "trapret", "wait", "waiting", "woken", "exit", "orphans", "gone", "reaped", "end"}

Link == Proc \cup {NoProc}

TypeOK ==
    /\ SchedTypeOK
    /\ parent \in [Proc -> Task \cup {NoProc}]
    /\ cptr \in [Task -> Link] /\ optr \in [Proc -> Link] /\ yptr \in [Proc -> Link]
    /\ nr_process \in 1 .. MAX_PROCESS
    /\ exiting \subseteq User
    /\ at \in [Proc -> At]
    /\ waits_for \in [Proc -> User \cup {AnyChild}]

(* proc_init and init_main: initproc has forked user_main and is about to  *)
(* wait.                                                                   *)
Init ==
    \E u \in User :
        /\ pstate = [p \in Task |-> IF p \in {idleproc, initproc, u} THEN "RUNNABLE" ELSE "UNINIT"]
        /\ wait_state = [p \in Task |-> "none"]
        /\ run_list = <<u>>
        /\ current = initproc
        /\ time_slice = [p \in Task |-> IF p = u THEN MAX_TIME_SLICE ELSE 0]
        /\ need_resched = [p \in Task |-> FALSE]
        /\ parent = [p \in Proc |-> CASE p = initproc -> idleproc
                                      [] p = u        -> initproc
                                      [] OTHER        -> NoProc]
        /\ cptr = [p \in Task |-> CASE p = idleproc -> initproc
                                    [] p = initproc -> u
                                    [] OTHER        -> NoProc]
        /\ optr = [p \in Proc |-> NoProc]
        /\ yptr = [p \in Proc |-> NoProc]
        /\ nr_process = 3
        /\ exiting = {}
        /\ at = [p \in Proc |-> IF p = initproc THEN "wait" ELSE "user"]
        /\ waits_for = [p \in Proc |-> AnyChild]

-----------------------------------------------------------------------------
Running(where) == current \in Proc /\ at[current] = where
Goto(where) == at' = [at EXCEPT ![current] = where]

Free(p) == pstate[p] = "UNINIT"

(* set_links: the child becomes its parent's youngest. *)
YoungerOf(p, f) == IF p = NoProc THEN yptr ELSE [yptr EXCEPT ![p] = f]

set_links(c, p) ==
    /\ parent' = [parent EXCEPT ![c] = p]
    /\ optr' = [optr EXCEPT ![c] = cptr[p]]
    /\ yptr' = [YoungerOf(cptr[p], c) EXCEPT ![c] = NoProc]
    /\ cptr' = [cptr EXCEPT ![p] = c, ![c] = NoProc]
    /\ nr_process' = nr_process + 1

(* remove_links, of a proc_struct that is freed next: a free one has the   *)
(* pointers that alloc_proc will give it.                                  *)
FirstChildAfter_keeps(c) == cptr
FirstChildAfter(c) ==
    IF yptr[c] = NoProc THEN [cptr EXCEPT ![parent[c]] = optr[c]] ELSE cptr

remove_links(c) ==
    /\ parent' = [parent EXCEPT ![c] = NoProc]
    /\ yptr' = [YoungerOf(optr[c], yptr[c]) EXCEPT ![c] = NoProc]
    /\ optr' = IF yptr[c] = NoProc
               THEN [optr EXCEPT ![c] = NoProc]
               ELSE [optr EXCEPT ![yptr[c]] = optr[c], ![c] = NoProc]
    /\ cptr' = FirstChildAfter(c)
    /\ nr_process' = nr_process - 1

(* What is left of kfree and put_kstack: the slot may be used again. *)
kfree(c) ==
    /\ pstate' = [pstate EXCEPT ![c] = "UNINIT"]
    /\ time_slice' = [time_slice EXCEPT ![c] = 0]
    /\ need_resched' = [need_resched EXCEPT ![c] = FALSE]
    /\ exiting' = exiting \ {c}
    /\ UNCHANGED <<wait_state, run_list, current>>

(* do_fork.  It calls alloc_proc twice and uses the second proc_struct; the *)
(* first, which nothing points to, is outside Proc.                        *)
Fork(c) ==
    /\ Running("user")
    /\ nr_process < MAX_PROCESS
    /\ Free(c)
    /\ set_links(c, current)
    /\ wakeup_proc(c)
    /\ at' = [at EXCEPT ![current] = "trapret", ![c] = "user"]
    /\ UNCHANGED <<exiting, waits_for>>

(* do_fork with too many processes, or without memory for the kernel stack *)
(* or the address space.                                                   *)
ForkFails ==
    /\ Running("user")
    /\ Goto("trapret")
    /\ UNCHANGED <<sched_vars, tree_vars, exiting, waits_for>>

(* do_yield. *)
Yield ==
    /\ Running("user")
    /\ need_resched' = [need_resched EXCEPT ![current] = TRUE]
    /\ Goto("trapret")
    /\ UNCHANGED <<pstate, wait_state, run_list, current, time_slice, tree_vars, exiting, waits_for>>

(* do_kill.  Killing initproc, whose do_exit panics, is left out. *)
Kill(p) ==
    /\ Running("user")
    /\ p \in Killable /\ ~Free(p)
    /\ exiting' = exiting \cup {p}
    /\ IF p \notin exiting /\ wait_state[p] \in Interruptible
       THEN wakeup_proc(p)
       ELSE UNCHANGED sched_vars
    /\ Goto("trapret")
    /\ UNCHANGED <<tree_vars, waits_for>>

-----------------------------------------------------------------------------
(* do_wait(pid), or do_wait(0) for any child. *)
Wait(pid) ==
    /\ Running("user")
    /\ waits_for' = [waits_for EXCEPT ![current] = pid]
    /\ Goto("wait")
    /\ UNCHANGED <<sched_vars, tree_vars, exiting>>

(* What one round of do_wait sees: whether there is a child to wait for,   *)
(* and the first zombie among them, youngest first.                        *)
HasKid_dead_only == cptr[current] # NoProc /\ pstate[cptr[current]] = "ZOMBIE"
HasKid ==
    IF waits_for[current] = AnyChild
    THEN cptr[current] # NoProc
    ELSE ~Free(waits_for[current]) /\ parent[waits_for[current]] = current

YoungestZombie(p) ==
    LET first[c \in Link] ==
            IF c = NoProc \/ pstate[c] = "ZOMBIE" THEN c ELSE first[optr[c]]
    IN  first[cptr[p]]

Found ==
    IF waits_for[current] = AnyChild THEN YoungestZombie(current)
    ELSE IF HasKid /\ pstate[waits_for[current]] = "ZOMBIE" THEN waits_for[current]
    ELSE NoProc

Scanning == Running("wait") \/ (Running("woken") /\ current \notin exiting)

(* The child's proc_struct and kernel stack are freed. *)
WaitReaps ==
    /\ Scanning
    /\ Found # NoProc
    /\ remove_links(Found)
    /\ kfree(Found)
    /\ at' = [at EXCEPT ![current] = IF current = initproc THEN "reaped" ELSE "trapret",
                        ![Found] = "user"]
    /\ UNCHANGED waits_for

WaitSleeps ==
    /\ Scanning
    /\ Found = NoProc /\ HasKid
    /\ GoToSleep("WT_CHILD")
    /\ Goto("waiting")
    /\ UNCHANGED <<tree_vars, exiting, waits_for>>

WaitFails ==
    /\ Scanning
    /\ ~HasKid
    /\ Goto(IF current = initproc THEN "end" ELSE "trapret")
    /\ UNCHANGED <<sched_vars, tree_vars, exiting, waits_for>>

WaitSchedule ==
    /\ Running("waiting")
    /\ schedule
    /\ Goto("woken")
    /\ UNCHANGED <<tree_vars, exiting, waits_for>>

(* init_main calls schedule() after every child it has reaped. *)
InitSchedule ==
    /\ Running("reaped")
    /\ schedule
    /\ Goto("wait")
    /\ UNCHANGED <<tree_vars, exiting, waits_for>>

-----------------------------------------------------------------------------
(* do_exit, called by the process itself, by do_wait and by trap().        *)
BecomeZombie ==
    /\ pstate' = [pstate EXCEPT ![current] = "ZOMBIE"]
    /\ Goto("exit")
    /\ UNCHANGED <<wait_state, run_list, current, time_slice, need_resched, tree_vars, exiting, waits_for>>

Exit       == Running("user") /\ BecomeZombie
WaitKilled == Running("woken") /\ current \in exiting /\ BecomeZombie
TrapKilled == Running("trapret") /\ current \in exiting /\ BecomeZombie

WakesWaiter_specific_only(p) == wait_state[p] = "WT_CHILD" /\ waits_for[p] = current
WakesWaiter(p) == wait_state[p] = "WT_CHILD"

ExitWakesParent ==
    /\ Running("exit")
    /\ IF WakesWaiter(parent[current]) THEN wakeup_proc(parent[current]) ELSE UNCHANGED sched_vars
    /\ Goto("orphans")
    /\ UNCHANGED <<tree_vars, exiting, waits_for>>

(* One round of the loop over the children. *)
OrphanWakes_never(c) == FALSE
OrphanWakes(c) == pstate[c] = "ZOMBIE" /\ wait_state[initproc] = "WT_CHILD"

GiveOrphan ==
    LET c == cptr[current]
    IN  /\ Running("orphans")
        /\ c # NoProc
        /\ parent' = [parent EXCEPT ![c] = initproc]
        /\ optr' = [optr EXCEPT ![c] = cptr[initproc]]
        /\ yptr' = [YoungerOf(cptr[initproc], c) EXCEPT ![c] = NoProc]
        /\ cptr' = [cptr EXCEPT ![current] = optr[c], ![initproc] = c]
        /\ IF OrphanWakes(c) THEN wakeup_proc(initproc) ELSE UNCHANGED sched_vars
        /\ UNCHANGED <<nr_process, exiting, at, waits_for>>

ExitSchedule ==
    /\ Running("orphans")
    /\ cptr[current] = NoProc
    /\ schedule
    /\ Goto("gone")
    /\ UNCHANGED <<tree_vars, exiting, waits_for>>

-----------------------------------------------------------------------------
(* The end of trap(): PF_EXITING is looked at before schedule(), not after. *)
TrapReturn ==
    /\ Running("trapret")
    /\ current \notin exiting
    /\ Goto("user")
    /\ IF need_resched[current] THEN schedule ELSE UNCHANGED sched_vars
    /\ UNCHANGED <<tree_vars, exiting, waits_for>>

(* The timer interrupt in user mode and in initproc.  idleproc does not    *)
(* run: a process without children never sleeps here.                      *)
Tick ==
    /\ proc_tick
    /\ \/ Running("user") /\ Goto("trapret")
       \/ current = initproc /\ at[initproc] # "end" /\ UNCHANGED at
    /\ UNCHANGED <<tree_vars, exiting, waits_for>>

Next ==
    \/ \E p \in User : Fork(p) \/ Kill(p)
    \/ ForkFails \/ Yield
    \/ \E pid \in User \cup {AnyChild} : Wait(pid)
    \/ WaitReaps \/ WaitSleeps \/ WaitFails \/ WaitSchedule \/ InitSchedule
    \/ Exit \/ WaitKilled \/ TrapKilled \/ ExitWakesParent \/ GiveOrphan \/ ExitSchedule
    \/ TrapReturn \/ Tick

Spec == Init /\ [][Next]_vars

(* The kernel's own steps happen, and the clock ticks.  Nothing is assumed *)
(* about what user processes do: they may compute forever.                 *)
KernelStep ==
    \/ WaitReaps \/ WaitSleeps \/ WaitFails \/ WaitSchedule \/ InitSchedule
    \/ WaitKilled \/ TrapKilled \/ ExitWakesParent \/ GiveOrphan \/ ExitSchedule
    \/ TrapReturn

Fairness == WF_vars(KernelStep) /\ SF_vars(Tick)

FairSpec == Spec /\ Fairness

-----------------------------------------------------------------------------
Children(p) == {c \in Proc : ~Free(c) /\ parent[c] = p}

Giving == Running("exit") \/ Running("orphans")

(* A free proc_struct, whose kernel stack has been freed too, is not on    *)
(* the hart, in the run queue or in the tree.                              *)
FreedIsUnused ==
    \A p \in Proc : Free(p) =>
        /\ p # current /\ ~Contains(run_list, p)
        /\ cptr[p] = NoProc
        /\ \A q \in Task : cptr[q] # p
        /\ \A q \in Proc : ~Free(q) => parent[q] # p /\ optr[q] # p /\ yptr[q] # p

(* The pointers describe one tree: from cptr through optr one meets every  *)
(* child once, yptr leads back, and every process but idleproc has a       *)
(* parent that is neither free nor, unless it is in do_exit, a zombie.     *)
(* Nothing leads to a proc_struct that has been freed.                     *)
FamilyTree ==
    /\ \A p \in Task :
        /\ cptr[p] = NoProc <=> Children(p) = {}
        /\ cptr[p] # NoProc => cptr[p] \in Children(p) /\ ((p = current /\ Giving) \/ yptr[cptr[p]] = NoProc)
    /\ \A c \in Proc : ~Free(c) =>
        /\ parent[c] \in Task /\ pstate[parent[c]] # "UNINIT"
        /\ pstate[parent[c]] = "ZOMBIE" => parent[c] = current /\ Giving
        /\ optr[c] # NoProc => optr[c] \in Children(parent[c]) /\ yptr[optr[c]] = c
        /\ cptr[parent[c]] = c \/ (\E older \in Children(parent[c]) : optr[older] = c)
    /\ nr_process = 1 + Cardinality({p \in Proc : ~Free(p)})
    /\ FreedIsUnused

(* A parent does not sleep in do_wait while a child it waits for is a      *)
(* zombie: the exit of a child, also of one it inherited, is not missed.   *)
NoExitMissed ==
    \A p \in Proc : wait_state[p] = "WT_CHILD" =>
        \A c \in Children(p) :
            pstate[c] = "ZOMBIE" /\ waits_for[p] \in {AnyChild, c} => c = current /\ Running("exit")

(* init_main's last assertions: when initproc finds no child to wait for,  *)
(* it and idleproc are the only processes.                                 *)
InitFinishesLast ==
    at[initproc] = "end" =>
        /\ cptr[initproc] = NoProc /\ yptr[initproc] = NoProc /\ optr[initproc] = NoProc
        /\ nr_process = 2

(* While there is a zombie that nobody but initproc can reap, initproc     *)
(* reaps, whatever user processes do.  It need not reap that one: do_wait  *)
(* takes the youngest, and a chain of processes that fork and exit can     *)
(* keep an older zombie waiting forever.                                   *)
InitKeepsReaping ==
    (\E p \in User : pstate[p] = "ZOMBIE" /\ parent[p] = initproc) ~> at[initproc] = "reaped"

=============================================================================
