# A verification of the uCore labs' kernel

The repository holds nine stages (`lab0` to `lab8`) of uCore, a teaching kernel
for one RISC-V hart. Later labs contain the earlier ones; labs 2 to 6 are
completed, labs 7 and 8 leave some exercises empty (`alloc_proc`, `proc_run`,
`do_fork`, `load_icode`, lab8's stride class, `cond_wait`/`cond_signal`, the
transfer loop of `sfs_io_nolock`). Each component below is modelled from the lab
in which its code is complete: synchronisation, timers and stdin from lab8, the
round-robin class from lab7, processes from lab6 (with lab8's `do_exit`, `do_wait`
and `do_kill`, which are the same), the stride class from lab6, page allocators
from lab8 (first fit) and lab2 (best fit), page replacement from lab3, the file
system from lab8.

## 1. The system

### 1.1 How it runs

There is one hart. A process leaves it only by calling `schedule()`. Code runs
in one of four settings, and which one decides what can interleave:

| setting | interrupts | who may come in between |
|---|---|---|
| user mode | on | the clock; `trap()` then calls `do_exit` if `PF_EXITING` is set, and `schedule()` if `need_resched` is set |
| a system call | off for its whole length | nobody, until the call itself goes to sleep in `schedule()` |
| a kernel thread or `cpu_idle` | on, except inside `local_intr_save` | the clock's handler, which returns to the thread: `trap()` does not reschedule when it came from the kernel |
| the handler of the clock | off | nobody |

The clock's handler (`trap.c`) runs the expired timers, charges the slice of the
process on the hart and hands typed characters to stdin. These steps are why a
one-hart kernel has races: between the moment a thread marks itself asleep and
its `schedule()` the handler, or a process woken by it, may change its state.

### 1.2 Components

| component | state | operations | works with |
|---|---|---|---|
| scheduler core and round-robin class (`sched.c`, `default_sched_c.c`) | run queue, `current`, `state`, `wait_state`, `time_slice`, `need_resched` | `wakeup_proc`, `schedule`, `enqueue`/`dequeue`/`pick_next`, `proc_tick` | called by everything that sleeps, wakes or forks |
| wait queues and semaphores (`wait.c`, `sem.c`) | value, queue of `wait_t` on the waiters' stacks, `wakeup_flags` | `down`, `try_down`, `up`, `wait_current_set`/`del`, `wakeup_wait` | scheduler; used by philosophers, file system locks, devices |
| kernel timers (`sched.c`) | delta list of timers on the sleepers' stacks | `add_timer`, `del_timer`, `run_timer_list`, `do_sleep` | scheduler, the clock |
| process life cycle (`proc.c`) | process tree, `nr_process`, `flags`, exit state | `do_fork`, `do_exit`, `do_wait`, `do_kill`, `do_yield`, `init_main` | scheduler, traps |
| dining philosophers (`check_sync.c`) | `state_sema`, `mutex`, `s[i]` | `phi_take_forks_sema`, `phi_put_forks_sema`, `check_sync` | semaphores, timers, processes |
| stdin device (`dev_stdin.c`) | ring buffer, its two positions, wait queue | `dev_stdin_write` (handler), `dev_stdin_read` (system call) | wait queues, scheduler, `do_kill` |
| page allocators (`default_pmm.c`, `best_fit_pmm.c`) | doubly linked list of free blocks, `property`, flags, `nr_free` | `init_memmap`, `alloc_pages`, `free_pages` | everything that needs memory |
| stride class (lab6 `default_sched.c`) | skew heap by stride, pass, priority | as the RR class | scheduler core |
| page faults (lab3 `vmm.c`, `pmm.c`), copy-on-write (`lab5/cow`) | page-table entries, page reference counts | `do_pgfault`, `page_insert`, `copy_range` | page allocators, page replacement, fork and exit |
| page replacement (lab3 `swap*.c`) | list of swappable pages, clock hand and bits, swap device | `swap_out`, `swap_in`, `map_swappable`, victim choice | page faults |
| buddy allocator (lab2) | free lists and counts per order | alloc, free with merging | page allocators' interface |
| SLUB, SLOB | object lists | alloc, free | page allocators |
| open-file table (`file.c`, `fs.c`) | status and open count of each descriptor, position, inode, current directory, sharers | open, close, read, write, seek, dup, `chdir`, and the parts of fork, exec and exit | VFS; shared by threads of one process |
| VFS (`vfs/`) | `ref_count`, `open_count` of inodes, device list | lookup, open, close, reclaim | open-file table, SFS, devices |
| SFS (`sfs/`) | inodes in memory with `reclaim_count` and `dirty`, disk inodes, indirect blocks, free map | load, reclaim, lookup, growing and truncating, write-back | VFS, disk device |
| other devices, console, clock, traps, boot, user programs, libraries | little or none | | |

### 1.3 What is hard, and what makes each part correct

`PROJECT.json` lists the hazards with their lines and the properties that cover them.
In short:

* *Scheduler.* A wakeup that falls into the window before `schedule()` must not
  be lost or queue a process twice; zombies and sleepers must not be chosen;
  nobody runnable may starve.
* *Semaphores.* `up` hands its token to a waiter without raising the value, and
  the assertions in `up` and `down` assume that only `up` can wake a queued
  waiter. Tokens must be neither lost nor made; no token may lie beside a waiter.
* *Timers.* The list is relative, timers live on stacks, and a sleeper can be
  woken by `do_kill` before its time: the list must never hold a timer whose
  `do_sleep` has returned, and taking one out must not move the others.
* *Processes.* Three sibling pointers are rewired by hand, orphans change
  parents while they exit, and `do_wait` frees what the scheduler might use: no
  exit may be missed, nothing freed may be reachable.
* *Stdin.* One character wakes every reader, a killed reader shares the flag with
  the one that is woken by input, and the ring overwrites the oldest character.
* *Philosophers.* The repository's own test of all of the above together.
* *Page allocators.* What a list operation leaves behind shows only when a much
  later call follows the stale link, flag or size.
* *Stride class.* The order of strides is a signed difference of words that wrap:
  it is no order at all once strides lie far apart, and the heap must survive that.
* *Page replacement.* A page's frame, entry, address, place in the list and copy on
  the device are five pieces of state that one fault changes, with the eviction
  that its own allocation may cause in the middle.
* *Files.* Two counts per inode, one per descriptor, one per table and one for
  reclaiming, changed on some thirty paths, most of which can fail halfway; a read
  of stdin sleeps while others close, exit or exec.
* *SFS.* The disk fills while a file grows; inodes go to the disk at the last close,
  the free map at shutdown, and together they must make sense.

## 2. Modules

    KSched                 scheduler state, one operator per operation
      KSched + callers  -> Scheduling     (system calls, threads, the clock)
      KSem              -> Semaphore      implements CountingSemaphore
      KTimer            -> Sleeping       implements AlarmClock
      KSem + KTimer     -> Philosophers
      Process           (EXTENDS KSched)
      Stdin             (EXTENDS KSched)  implements Terminal
    Stride                                (the other scheduling class)
    PagePool                              implements PageAllocator
    Swap                                  implements PagedMemory
    Sfs               ->  Files           (system calls over the file system)

    KSchedProofs           lemmas about the operators of KSched
      SchedulingProofs, SemaphoreProofs, PhilosophersProofs, ProcessProofs, StdinProofs
    SwapProofs             EXTENDS Swap
    FilesProofs            EXTENDS Files

`MCx` gives the constants of `x` for TLC. In every module an
action that calls a kernel function contains all that the function changes up to
the next point where somebody else can run; such a point is a `pc`/`mode`/`at`
value with a name of its own.

**KSched.** `pstate`, `wait_state`, `time_slice` and `need_resched` are the fields
of `proc_struct`; `run_list` is `rq->run_list` (and its length `rq->proc_num`) as
a sequence, front first. `wakeup_proc(p)`, `schedule` and `proc_tick` are the
functions with the class's `enqueue`, `dequeue`, `pick_next` expanded. `idleproc`
is outside `Proc`: it never enters the queue. `GoToSleep` is the pair of
assignments that every sleeping caller makes. `wait_state` is a name instead of
a bit mask; `Interruptible` are the names whose `WT_INTERRUPTED` bit is set.
`Woken`, `Joined` and `AllEnqueued` are a loop of `wakeup_proc` over a list
(`run_timer_list`, `wakeup_queue`); `Without` takes one process's entry out of a list.

**Scheduling** adds who calls: system calls of user processes that end at the
bottom of `trap()`, kernel threads, `cpu_idle`, and the clock's handler, which is
several actions (`TimerInterrupt`, wakeups, `InterruptReturn`) so that it can wake
any number of processes. `ran` is a history variable: ticks of the present turn.

**KSem, Semaphore.** A wait queue is the sequence of the processes whose
`wait_t` is in it. `Take`, `Wait`, `Up`, `StopWaiting` are the sections of
`__down` and `__up` between `local_intr_save` and `local_intr_restore`. In
`Semaphore` threads hold tokens, sleep on timers too, and kill one another; an
assertion that would fail moves a thread to `"panic"`. The order in which threads
take semaphores is a constant (`Before`): deadlock by a wrong order is
the callers' affair. The abstract `CountingSemaphore` has no queue; a token
handed to a waiter counts as free until the waiter has left `down`.

**KTimer, Sleeping.** The delta list with the additions and subtractions of
`add_timer`, `del_timer` and `run_timer_list`. `Sleeping` is `do_sleep` with its
window before `schedule()`, `do_kill`, `do_exit` and the tick. The abstract
`AlarmClock` gives every thread a counter of its own. The assertions of `run_timer_list` hold by the
same refinement: no timer in the list ever has zero ticks left at a tick.

**Process.** `parent`, `cptr`, `optr`, `yptr` are the four pointers of the tree;
`at` is the place in `do_wait`, `do_exit`, `trap()` or `init_main`. Freed
structures may be allocated again (`Proc` are slots). `do_exit` is cut into the
wakeup of the parent, one step per orphan and `schedule()`. Left out: address spaces,
`execve`, `get_pid`, killing initproc, and the path for a failed `alloc_proc`, which
uses a null pointer.

**Philosophers.** `check_sync`'s semaphore half with `N = 5`, statement by statement
where another thread can come in between; its state is that of `KTimer` and
`KSem`, so the module runs the real operations on one scheduler. The
condition-variable half calls functions whose bodies are empty.

**Stdin.** `stdin_buffer`, `p_rpos`, `p_wpos` and the wait queue with
`wakeup_queue`, which sets every waiter's flag and leaves the `wait_t` to be
deleted by its owner. The abstract `Terminal` is a bounded sequence of unread
characters where a new one replaces the *oldest* when it is full: that is what
the code does (`stdin_buffer[p_wpos % STDIN_BUFSIZE] = c` comes before the test).

**PagePool.** The only module that models links: `link.next` and `link.prev` with
`list_add` and `list_del` writing them one after the other, because what
`free_pages` does wrong lies in a link. `Blocks` is the list as a walk from its
head finds it; both managers are in one module and differ in `Fit`. The abstract
`PageAllocator` knows only the set of used pages and chooses by policy.

**Stride.** lab6's class with its skew heap as it is built: `left`, `right` and
`parent` of each process, `skew_heap_merge` as a recursive function, removal by the
parent pointer. Strides are words of `Width` bits and wrap as the code's 32 bits do.
`alloc_proc` does not set a new process's stride and priority, so `Fork` takes any,
0 included: `AtLeast1` counts a priority of 0 as 1, in `lab6_set_priority` because the
code does, in `Fork` because the target's division by 0 gives the largest word.
A process that falls asleep keeps its stride and may come back with one that is far
behind. Slices are left out: the hart may be given away at any time.

**Swap.** lab3's `do_pgfault` as one step (its interrupts are off) with
everything it calls: `alloc_pages` with the `swap_out` it may need, `swap_in`,
`page_insert`, `swap_map_swappable`, the assignment of `pra_vaddr`. The three
managers differ in `Victim` and in what they keep; the clock's hand is the frame
it stands on. `tlb` is what the hart may have cached: an access may use an old
translation until `tlb_invalidate`. `KernelAlloc` is any single page that the
kernel takes for itself and that may push out a user's page. `arrived` is a
history variable. The abstract `PagedMemory` is one value per page.

**Sfs.** The file system as operators from a state record to the next, because one
system call composes many of them in one step: no system call is preempted, the
RAM disk answers at once, and so no semaphore of the file system is ever waited for.
The record holds the two counts of every inode, the `struct sfs_inode`s on the hash
list, the disk inodes, the entries of indirect blocks, and the free map in memory
and on the disk. `panic` is set by the first assertion that fails. Transfers move no
data (`sfs_io_nolock`'s loop is an exercise) but have their effect on size and
blocks. Directories do not change: the code has no operation that writes them.

**Files.** Descriptors, `files_struct`s and the system calls as actions; `copy_files`
of fork, `do_execve`'s closing and opening, `put_files` of exit. `mm` tells a user
program from the kernel thread `user_main`, whose only call is the exec it starts with
and which has no `mm` to give its table back by. A read of stdin is two actions, because a process that shares the table may do anything in between.
`lost` and `orphaned` count what the code forgets (see the observations), so that
the counting invariants stay exact.

## 3. Runs

| run | instance | shows |
|---|---|---|
| `scheduling` | 2 user processes, 1 kernel thread, slice 2; 41,581 states | the queue is exact (`RunQueueExact`); only who can run has the hart (`CurrentCanRun`); slices are kept (`SliceBounded`); every runnable process runs (`NoStarvation`) |
| `semaphore` | 3 threads, 1 binary semaphore, two threads also sleep on timers, all kill; 16,492 states | `TokensConserved`, `NoTokenIgnored`, `QueuedAreAsleep`, `NoPanic`; every `down` returns (`DownEventuallyReturns`); refinement of `CountingSemaphore` with its fairness |
| `sleeping` | 3 threads, sleeps of 1 to 3 ticks; 151,004 states | `TimersLiveInDoSleep`, `SleepEnds`, refinement of `AlarmClock` |
| `process` | initproc and 3 slots, one of which may be killed, `MAX_PROCESS` 5; 911,814 states | the tree and what is freed (`FamilyTree`), `NoExitMissed`, `InitFinishesLast`, `InitKeepsReaping` |
| `philosophers` | 5 philosophers, 2 meals, 2 ticks; 78,775 states | `NeighboursNeverEat`, `NobodyForgotten`, `CheckSyncReturns` |
| `stdin` | 3 processes, 2 characters, ring of 2, reads of up to 2, 3 characters stored; 537,639 states | `NoInputIgnored`, `ShortReadIsKilled`, refinement of `Terminal` |
| `pages` | 8 pages, both policies, last page never handed out; 256 states | the list and what is free (`BlocksAreFree`), `RefusesOnlyWhenFull`, refinement of `PageAllocator` |
| `pages_exhausted` | 4 pages, all may be handed out | the finding |
| `stride` | 3 processes, 3-bit strides, priorities 1, 2, 7; 198,865 states | `HeapWellFormed`, `SharesFollowPriority`, `NoStarvation` |
| `stride_priority_1` | the same with priorities 1 and 2 | the finding about `BiggerValueGetsMore` |
| `swap` | 4 virtual pages, 3 frames, 2 contents, each of the 3 managers; 823,260 states | `FramesAccounted`, `EvictsOldest`, refinement of `PagedMemory` |
| `files` | 2 processes, 2 tables of 3 descriptors, 2 devices, 2 directories, 2 files, 3 disk blocks, one direct and three indirect pointers; 313,434 states | `CountsAreHolders`, `CachedIffReferenced`, `ReadersHoldSlot`, `TablesAreShared`, `AssertionsHold`; `BlocksConserved`, `ClosedIsOnDisk`, `ImageConsistent` |

### Bounds, and why they are enough

* Three processes (or threads) besides `idleproc`: one on the hart, one that it
  acts on, and one queued behind or between them. A slice of 1 makes every tick
  end a turn; `scheduling` uses 2 so that a turn can also be cut short.
* One semaphore, initially 1, in `semaphore`: the state of the hand-off. What two of
  them add, a thread that holds one and waits for another, is in `philosophers`, with
  six semaphores, and in the proofs, which hold for any set of them.
* `Nappers`: two threads that sleep while they hold the semaphore are enough for a
  timer to fire for a holder, for a waiter and for nobody.
* `MaxTicks = 3`: timers that expire before, with and after another one.
* `Killable`: one of the three users may be killed, in every place; which one is
  immaterial, since their roles in the tree are not fixed.
* `MAX_PROCESS = 5` allows all three slots at once; a smaller limit adds only forks
  that fail, which is `ForkFails` already.
* Five philosophers are the code's number. Two meals let a philosopher come round
  to a neighbour that is still in its first; two ticks let meals overlap partly.
* A ring of two and three stored characters: the ring wraps, fills and overwrites.
  `MaxTyped` bounds `p_wpos`, `MaxRead` the length asked for.
* Eight pages allow three free blocks with used ones between them and a choice of
  sizes. `VIEW View` identifies states that differ only in the stale link and
  `property` of pages outside the list; the code writes these fields before it
  reads them. `MayExhaust = FALSE` keeps the last page free, the condition under
  which the list stays sound: the finding below is what happens without it.
* `Width = 3`: eight strides; every difference that is positive, negative, zero or the
  ambiguous half of the range occurs within a few turns, and strides wrap all the
  time. Priorities 1, 2 and 7 give passes 7, 3 and 1: the one that is -1, the largest
  that is less than half of the range, the smallest. Three processes are the fewest among which the order
  of strides is not transitive. `stride_priority_1` needs no more than 1 and 2, two of the
  priorities that `user/priority.c` sets.
* `swap`: with three frames, one of which the kernel may hold, two or three are on
  the list, so the hand can wrap and stop before, at and after the victim; four
  pages force evictions also when the kernel holds nothing. Two contents tell
  whether a page came back with its own. `KernelPages` must stay below the number
  of frames: no manager copes with an empty list (see the observations).
* `files`: two processes that share a table or have one each; descriptor 2 lets a
  file be open beside stdin and stdout. `MaxLeaks = 1` bounds `lost` and `orphaned`;
  nothing depends on how large they are. Two files together need more blocks than the
  disk has; growth ends in the direct part, in the indirect block, and in the middle when
  the disk is full. `SfsAssumption` says that a file can map all of the disk's blocks,
  as in the repository's image.
* `TablesOrVolume`, the CONSTRAINT of `files`, keeps its two questions from being
  multiplied with each other. What is explored is every sharing of tables and descriptors over
  a volume without a file in memory, and everything one process can do to the volume with one
  file open at a time, on up to two descriptors. A step out of this region (another process
  opens a file) is taken and its state is checked, but not gone on from. The counts see a file
  as they see a directory, and two files meet only in the free map; the theorems of
  `FilesProofs` are not bounded in this way.
* Symmetry is used in `stdin`, `swap` and `files`, which have no liveness property.
* `CHECK_DEADLOCK FALSE` in `process`: the system stops when initproc has
  reaped everybody and `init_main` returns. In `files`: after
  `fs_cleanup` with no process left, or an assertion that fails, nothing goes on.

### Fairness

There is one hart, it executes, and the clock interrupts whatever has interrupts
on. Where another actor can come in first again and again, as the clock's handler
can, the step of the hart has strong fairness; an interrupt that is pending is
taken as soon as `sstatus.SIE` is set, which is why the tick has it too.
* `Scheduling`: the steps of the kernel and the tick. A kernel thread is never
  preempted, so `NoStarvation` also assumes that each calls `schedule()` again.
* `Semaphore`: also that holders give their tokens back and timers expire.
* `Sleeping`, `Philosophers`: the hart and the tick, nothing about who wins.
* `Stride`: the clock ends every turn. `NoStarvation` has a premise, that from some
  time on nobody joins the heap: a process that is created, or wakes up, with a
  stride behind the others' is chosen before them, so those who keep joining can
  starve the rest. `Settled` is the other half of it: a process that changes its
  priority between 1, which takes its stride back, and another again and again can
  do the same. Changes among priorities of at least 2 are allowed, and with fixed priorities
  1 is as well: then the stride comes round the whole range (2^31 turns later) and the others
  have theirs. TLC shows the starvation when either half is left out.
* `Process`: the kernel's steps and the tick; user processes may compute forever.
  `InitKeepsReaping` does not say that a *given* zombie is reaped: `do_wait(0)`
  takes the youngest, and processes that keep forking and exiting can keep an
  older one waiting. TLC shows that when the property is written that way.

`Swap`, `Files`, `Sfs` and `PagePool` promise nothing about progress: their callers do
what they like.

### Findings

*A block freed at the end of the free list is linked to itself*
(`default_pmm.c:147`, `best_fit_pmm.c:208`). The insertion loop has no `break`
after it adds the block behind the last one and adds it once more behind itself.
The next `list_del` of that block leaves it in the list, and `default_check`'s
`total == nr_free_pages()` fails. It needs a block that lies
behind every free block, so it never happens while the last page is free.

*A process of priority 1 gets more of the hart than one of priority 2*
(`default_sched.c:137`). Its pass is 2^32 - 1, the same as -1: the stride goes back by
one at every turn, so the process is chosen turn after turn while the others wait,
until its stride is half the range behind. `proc.h:86` says "bigger value will get
more CPU time". `user/priority.c:33` sets priority 1 for its first child, a priority of 0
is turned into 1, and a new process has whatever its memory held. `BiggerValueGetsMore`
holds when 1 is not among the priorities.

### Observations made while modelling

Points where the code does something that its callers or comments may not expect.
Where a model depends on one of them, the bound or variable that says so is named.

Processes and stdin:
* lab6's `do_fork` calls `alloc_proc` twice (`proc.c:454`, `457`) and forgets the first
  result; when `alloc_proc` fails it reaches the cleanup of the kernel stack with a null
  pointer.
* `PF_EXITING` is read before the `schedule()` in `trap()` and not after it.
* A reader that `do_kill` woke and that a character then wakes once more before it runs
  loses its `WT_INTERRUPTED` (`dev_stdin.c:59`); if another reader takes that character,
  it goes back to sleep. `proc.h:73` calls that wait interruptible.
* The console's ring of 512 characters does not compare its two positions.

Scheduling by strides:
* `lab6_stride` and `lab6_priority` are not initialised by `alloc_proc`.

Memory:
* The three replacement managers always choose the page that was mapped first
  (`EvictsOldest`): the LRU list and the clock's bits change only when a page is
  mapped, never when it is used, although `lab3.md:669` describes LRU as replacing
  the page whose last use is longest ago.
* With no page to swap out, FIFO asks for the page of a null victim, LRU takes the list head for
  a page, and the clock's loop never ends. `KernelPages` excludes it.
* A page of a vma without `VM_WRITE` is mapped with neither `PTE_R` nor `PTE_W`
  (`vmm.c:349`), so the next fault takes its entry for a swap entry. `Swap` models a
  writable vma, as those that lab3 touches are.
* `alloc_pages` swaps out one page at a time and tries again for as long as memory is full
  (`pmm.c:62`); labs 4 to 8 keep the loop with a `check_mm_struct` that is null.
* lab5's `copy_range` steps on only inside the branch for mapped pages (`cow/pmm.c:413`) and
  allocates a page before it looks at `share` (`:369`).

Files:
* Opening an existing file with `O_CREAT` and `O_EXCL` gives `E_EXISTS` and keeps the reference of
  the lookup (`vfsfile.c:47`); after 65,536 times the assertion in `inode.c:114` fails.
  `lost` counts these. `O_CREAT` on an existing file truncates it.
* A process whose `load_icode` fails has no `mm` when it exits, and `put_files` is called only
  for processes with one (`proc.c:511`): its table stays allocated. So does the one of
  `user_main`, a kernel thread, when it cannot open its program. `orphaned` counts these.
* Growing a file that finds the disk full leaves blocks that the size does not cover. A later
  truncation to the size the file has then fails `assert(tblks == din->blocks)`
  (`sfs_inode.c:903`). `AssertionsHold` and the properties of the volume leave this one out; `files` reaches it
  when they do not: fill the disk with one file, let another grow halfway, and open that one
  with `O_TRUNC`.
* `__vop_op` asserts that an inode has the operation: `read`, `fsync` and the like on a
  directory or a device stop the kernel.
* An entry added to an indirect block that exists does not mark the inode dirty by itself; the
  callers do. A write at a position past an end that was truncated since sets the size to that
  position although no block is there.
* No program in the tree passes `CLONE_FS`. `Files` models it because `do_fork` does; without
  it a table has one process and a descriptor has no sleeping reader when it is closed.

## 4. Proofs

A theorem holds for every value of the constants that satisfies the named
assumptions of its modules: `IdleAssumption` and `SliceAssumption` for all that runs on
the scheduler; for semaphores also that the threads are finitely many, that
initial values are natural numbers and that the taking order is irreflexive
(`ProcAssumption`, `InitialAssumption`, `BeforeAssumption`); `PhilAssumption` (two or more
philosophers); `InitprocAssumption`, `NoProcAssumption`, `MaxProcessAssumption` and
`KillableAssumption` (names differ, `MAX_PROCESS` is more than 2, `initproc` is not killed;
processes may be infinitely many); `StdinAssumption` (finitely many processes, at
least one character, a ring of at least one); `SwapAssumption`; `SfsAssumption` and
`FilesAssumption`, which say what a mounted volume is like. TLC evaluates each of them in
a run, so none is contradictory. No theorem uses the bounds of section 3 as more than
natural numbers.

| module | proved | inductive invariant |
|---|---|---|
| SchedulingProofs | `RunQueueExact`, `CurrentCanRun`, `WaitersAsleep`, `SliceBounded` | `SafeInv`, `SliceInv` |
| SemaphoreProofs | `TokensConserved`, `NoTokenIgnored`, `QueuedAreAsleep`, `NoPanic`, `MutualExclusion`; implements `CountingSemaphore` | `SemInv` |
| PhilosophersProofs | `NeighboursNeverEat`, `NobodyForgotten` | `TableInv` |
| ProcessProofs | `FamilyTree`, `NoExitMissed`, `InitFinishesLast` | `ProcInv` |
| StdinProofs | `NoInputIgnored`, `ShortReadIsKilled`; implements `Terminal` | `StdinInv` |
| SwapProofs | `FramesAccounted`, `EvictsOldest`; implements `PagedMemory` | `SwapInv` |
| FilesProofs | `CountsAreHolders`, `CachedIffReferenced`, `ReadersHoldSlot`, `TablesAreShared`, `AssertionsHold`, `BlocksConserved`, `ClosedIsOnDisk`, `ImageConsistent` | `FilesInv` |

**KSchedProofs** states once what the scheduler's operators do: they keep the types,
`wakeup_proc` and `schedule` keep `RunQueueExact` (with lemmas about `Append`,
`Head` and `Tail` of a sequence without repetitions), `schedule` picks a
runnable process or `idleproc`, and a loop of `wakeup_proc` over a list adds to the run
queue exactly those of the list that slept (`EnqueueAll`). `EnqueueAll` is about a recursive
function: its instance for `n` is reached from that for `n - 1` by `Interval`, an
induction stated with a set instead of an operator (a set of integers that is
bounded below has a least element, `Least`). `FilesProofs` treats the loop that closes
all descriptors in the same way.

**SchedulingProofs.** The inductive invariant `SafeInv` joins `TypeOK`,
`RunQueueExact`, `CurrentCanRun` and `WaitersAsleep` with `IdleRuns`. None of them
is inductive alone: `wakeup_proc` of a zombie that is still on the hart would leave it
runnable outside the queue, and only `WaitersAsleep` excludes that; `schedule()`
trusts `state`, and only `RunQueueExact` says that what it picks is runnable.
`SliceInv` adds for `SliceBounded` that everybody in the queue has some of its slice
left (`RR_enqueue` refills), that the ticks of this turn and what is left of the slice
never exceed the limit, and that a slice used up means `need_resched` is set and the
process is on its way through `trap()`.

**SemaphoreProofs.** `SemInv` has three layers, each with a
lemma of its own for the step: the scheduler (`SchedPart`: the queue is exact, a
thread marked asleep is on the hart or not runnable), the wait queues (`WaitPart`:
who is in a queue waits there, is asleep and is in no other; no assertion fails),
the tokens (`TokenPart`: cardinalities of the owners' sets). The assertion of
`down` needs the second layer, because a thread returns there only after `up` took
it out of the queue; the count needs it too, because a hand-off moves a token from
`value` to a thread that is `Owner` before it runs. `SemaphoreImplementsCounting`: the
abstract number of free tokens is `value` plus the tokens handed to threads that
have not yet left `down`, so `up` frees one token whether or not somebody waits,
and the hand-off itself is a stutter.

**PhilosophersProofs.** For the code's five philosophers and for any other number from
two on. `TableInv` needs nothing of the scheduler and nothing of `mutex`: no kernel
thread is preempted between two statements of `phi_take_forks_sema` or
`phi_put_forks_sema` except where it may sleep, so each test of the
neighbours is one step. It does need the tokens of the private semaphores: a
philosopher passes `down(&s[i])` only with the token that `phi_test_sema` made when it
wrote `EATING` (`InvitedOnce`), and such a token is made at most once. `HungryWaitsFor`
has the one exception that makes `NobodyForgotten` inductive: between the two tests of
`phi_put_forks_sema` the right neighbour may be hungry beside nobody who eats.

**ProcessProofs.** `FamilyTree` says what one step sees; it does not exclude a ring of
siblings or of parents beside the tree, and with one `do_wait` would search for ever and
`init_main` would find no child while processes live. `Tree`, in `ProcInv`, excludes both: there is a rank that falls from each
child to its older sibling (`Ranked`) and a depth that falls from each process to its
parent, down to `initproc` (`Rooted`). Every process that is not free is then on its
parent's chain (`Reached`). `ChildAdded`, `ChildGiven` and `ChildRemoved` show that
`set_links`, a round of `do_exit`'s loop and `remove_links` keep the tree; they are stated of
pointers without a process around them. In the middle of `do_exit` the new first
child of the process may have a younger sibling that now is `initproc`'s, hence the exception
in `Youngest`. `ZombieFound`: do_wait's search ends, and finds a zombie if there is
one (`YoungestZombie` is a recursive function; its instance is reached along the ranks by
`Interval`). With it a parent that falls asleep has no zombie to reap, and
`NoExitMissed` is kept because whoever becomes a zombie, or hands one to `initproc`, wakes the
parent before anybody else runs. `InitFinishesLast` needs the depths: if `initproc` has no
child, the process least deep besides it would have no parent (`NobodyLeft`).

**StdinProofs.** `StdinInv` says where a process can be when it is not on the hart
(`Places`), that its place tells its scheduler state (`StatesTell`), and that a
reader whose flag is not `WT_KBD` is still in the wait queue (`Waiting`). Then a reader
that leaves the loop early was in the queue and awake, which only `do_kill` brings
about. `StdinImplementsTerminal` maps the ring to the sequence of its unread characters;
its arithmetic is that positions less than one ring apart have different slots
(`SlotsDiffer`) and positions exactly one ring apart the same (`SlotAround`), so
that a character typed into a full ring replaces the oldest.

**SwapProofs.** `SwapInv` is `OthersTypeOK` and `PagesInv`: page table, list of
swappable pages and allocator describe the same frames (`Mapped`, `InOnePlace`), the
list is in the order the pages were mapped (`InOrder`), and the clock's hand stands on the
list's head or on its last entry (`HandAtEnd`), which is why the clock evicts what FIFO
evicts. `PagesInv` is stated of a record, because one fault goes through
several such states (`swap_out`, `swap_in`, `page_insert`) and each keeps it.
`SwapImplementsMemory` needs it for one fact: two pages never share a frame, so a
store changes one page.

**FilesProofs.** `FilesInv` says that every inode's two counts are its holders
(`Held`, over descriptors, current directories, the kernel's own references and `lost`),
that every descriptor's `open_count` is its one opener and its sleeping readers
(`FdOK`), and that `files_count` is the number of sharers (`TablesAreShared`). The counts are
claimed while no assertion has failed (`fs.panic = "none"`), because a panic
leaves a call halfway; a failed call that returns an error is covered. The proofs
go down the calls: each operator of `Sfs` keeps or moves a holder, each system call
composes them, and the actions only move what the calls return.

The other half of `Held` is the volume (`VolOK`), and it is what `AssertionsHold`,
`BlocksConserved`, `ClosedIsOnDisk` and `ImageConsistent` follow from. Unlike the counts it
is claimed also after a panic. `Volume` is about memory: no block is named by two
pointers, a block that no pointer names is free and the reverse, whoever owns it
(`Owned`); the first `blocks` pointers of an inode are there (`Filled`);
`unused` counts the free blocks. `Written` is about the disk: an inode that is
not dirty is there with its size and pointers, and so is the free map unless
`super_dirty` is set; what is dirty is in core, and open as long as nothing has
panicked. The two need each other. An inode that leaves the cache is read back from the
disk, so `Owned` is kept only because reclaiming finds nothing that is not written; and
the image is consistent only because memory is. Two details made the invariant harder
than the properties. `blocks` may be *behind* on the disk: entries added to an indirect
block that was there do not mark the inode dirty, and if the growth then finds the disk full
nothing else does; so `Written` claims of `blocks` on the disk only that it is no more
than in memory. And in the middle of `sfs_bmap_get_nolock` a block
is taken from the free map that no pointer names yet, so `Owned` has the set of free
blocks as a parameter, and the lemmas of `sfs_block_alloc` and `sfs_block_free` speak
of that set. The loop of `sfs_truncfile` is a recursive function, again reached by
`Interval`. `MapOfVolume` goes from pointers and places to the sets and
cardinalities in which the properties are stated.

Model-checked only:

* All liveness (`NoStarvation`, `DownEventuallyReturns`, `SleepEnds`,
  `CheckSyncReturns`, `InitKeepsReaping`): the prover
  has neither fairness nor `ENABLED`. The refinements are proved for the safety part of the
  abstract specifications (`CountingSemaphore`'s `Safety`); the fairness that `CountingSemaphore`
  and `AlarmClock` promise is checked.
* `TimersLiveInDoSleep` (`Sleeping`): the timer list's ticks are a fold, which is out
  of the prover's reach as it is written.
* `BlocksAreFree` and `RefusesOnlyWhenFull` (`PagePool`), `HeapWellFormed` (`Stride`): they
  need invariants about chains of links, and `Stride` merges its heaps by recursion
  over two trees, an induction over data. Their refinements and action properties
  likewise.

## 5. What is not modelled, and why

* Condition variables and the monitor: their bodies are empty in the repository.
* SLUB: not in any build. SLOB: a free list under disabled interrupts, with no
  policy beyond what `PagePool` shows.
* `load_icode`, page-table walking, ELF, the trap frame, `switch.S`, boot: straight-line
  code without control that interleaves.
* The console's ring and the SBI: the models take a typed character as an action.
* User programs and libraries: they act through the system calls.
* Copy-on-write (`lab5/cow`): its `copy_range` does not get past an unmapped page, so what
  follows it cannot be reached as written; reported above.
* The list of vmas and the page-table walk: sorted insertion and index arithmetic.
* `lab5/kern/pmm.c` and `lab5/kern/vmm.c` (outside `kern/mm`) are unfinished drafts
  that no Makefile names.
* `getcwd` (`vfs_getcwd`, `sfs_namefile`): its loop takes and gives back references on the way up,
  and is not covered by `CountsAreHolders`. The names of directory entries: string handling. `unlink`, `link`, `rename` and
  `mkdir` have no implementation in SFS.
* The locks of the file system: never contended, see `Sfs` above.
* The buddy allocator (lab2): see the plan.

## 6. Plan

Done, in this order: `KSched`/`Scheduling`, `KSem`/`Semaphore`, their proofs,
`KTimer`/`Sleeping`, `Process`, `Philosophers`, `Stdin`, `PagePool`, `Sfs`/`Files`, `Stride`,
`Swap`.

To be modelled, if the code is taken further: `Buddy` (lab2), its counters per order
(`buddy_pmm.c:106`) and the largest order (`:113`); `get_pid`'s search.

Proved, in this order: `Scheduling`, `Semaphore`, `Swap`, `Philosophers`, `Files`, `Stdin`, `Process`.

To be proved, most valuable first:

1. `Sleeping`: type correctness and `TimersLiveInDoSleep`, with the sums of the delta
   list as a recursive function; then the safety part of the refinement to `AlarmClock`.
2. `PagePool`: `BlocksAreFree`, with the walk along the list as a function.
