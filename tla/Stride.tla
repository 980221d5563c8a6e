------------------------------- MODULE Stride -------------------------------
(***************************************************************************)
(* The stride scheduling class of lab6 (default_sched.c), its skew heap    *)
(* and the parts of sched.c and proc.c that move a process between the     *)
(* hart, the heap and sleep.                                               *)
(*                                                                         *)
(* lab6's alloc_proc sets neither lab6_stride nor lab6_priority: a new     *)
(* process has what the memory held.  Time slices work as in the           *)
(* round-robin class (Scheduling.tla); here the hart may be given away     *)
(* after any tick.                                                         *)
(***************************************************************************)
EXTENDS Integers, FiniteSets, FiniteSetsExt

CONSTANTS
    Proc, idleproc, NULL,
    Width,      \* the bits of lab6_stride and lab6_priority
    Priority    \* the priorities there are; lab6_set_priority is called with 0 as well

ASSUME ProcAssumption == IsFiniteSet(Proc) /\ idleproc \notin Proc /\ NULL \notin Proc
ASSUME WidthAssumption == Width \in Nat \ {0, 1}

Word == 0 .. 2^Width - 1
BIG_STRIDE == 2^Width - 1   \* (uint32_t) -1

ASSUME PriorityAssumption == Priority \subseteq Word \ {0} /\ Priority # {}

VARIABLES
    pstate, current,
    lab6_stride, lab6_priority,
    left, right, parent,    \* the fields of lab6_run_pool in each proc_struct
    lab6_run_pool,          \* the root of the heap, in the run queue
    proc_num

heap == <<left, right, parent, lab6_run_pool, proc_num>>
vars == <<pstate, current, lab6_stride, lab6_priority, heap>>

Pointer == Proc \cup {NULL}

TypeOK ==
    /\ pstate \in [Proc -> {"UNINIT", "RUNNABLE", "SLEEPING"}]
    /\ current \in Proc \cup {idleproc}
    /\ lab6_stride \in [Proc -> Word]
    /\ lab6_priority \in [Proc -> Priority \cup {1}]
    /\ {left, right, parent} \subseteq [Proc -> Pointer]
    /\ lab6_run_pool \in Pointer /\ proc_num \in Nat

-----------------------------------------------------------------------------
(* The order of two strides: the sign of their difference as an int32_t.   *)
proc_stride_comp_f_unsigned(s, a, b) ==
    IF s[a] > s[b] THEN 1 ELSE IF s[a] = s[b] THEN 0 ELSE -1
proc_stride_comp_f(s, a, b) ==
    LET c == (s[a] - s[b]) % 2^Width
    IN  IF c = 0 THEN 0 ELSE IF c < 2^(Width - 1) THEN 1 ELSE -1

(* The skew heap h = [top, left, right, parent] under the strides s: the   *)
(* roots of two heaps, merged along their right sides.                     *)
skew_heap_merge(s, h, x, y) ==
    LET merge[a \in Pointer, b \in Pointer] ==
            IF a = NULL THEN [h EXCEPT !.top = b]
            ELSE IF b = NULL THEN [h EXCEPT !.top = a]
            ELSE LET first == proc_stride_comp_f(s, a, b) = -1
                     t == IF first THEN a ELSE b
                     l == IF first THEN merge[h.right[a], b] ELSE merge[a, h.right[b]]
                 IN  [l EXCEPT !.top = t, !.left[t] = l.top, !.right[t] = h.left[t],
                               !.parent[l.top] = t]
    IN  merge[x, y]

skew_heap_insert(s, h, b) ==
    skew_heap_merge(s, [h EXCEPT !.left[b] = NULL, !.right[b] = NULL, !.parent[b] = NULL],
                    h.top, b)

Replace_keeps_parent(h, b, rep) ==
    LET p == h.parent[b]
    IN  IF p = NULL THEN [h EXCEPT !.top = rep]
        ELSE IF h.left[p] = b THEN [h EXCEPT !.left[p] = rep] ELSE [h EXCEPT !.right[p] = rep]
Replace(h, b, rep) ==
    LET p == h.parent[b]
        g == IF rep = NULL THEN h ELSE [h EXCEPT !.parent[rep] = p]
    IN  IF p = NULL THEN [g EXCEPT !.top = rep]
        ELSE IF g.left[p] = b THEN [g EXCEPT !.left[p] = rep] ELSE [g EXCEPT !.right[p] = rep]

skew_heap_remove(s, h, b) ==
    LET m == skew_heap_merge(s, h, h.left[b], h.right[b])
    IN  Replace([m EXCEPT !.top = h.top], b, m.top)

-----------------------------------------------------------------------------
(* The class, on the run queue q = [top, left, right, parent, num]. *)
rq == [top |-> lab6_run_pool, left |-> left, right |-> right, parent |-> parent, num |-> proc_num]

RunQueue(q) ==
    /\ lab6_run_pool' = q.top /\ proc_num' = q.num
    /\ left' = q.left /\ right' = q.right /\ parent' = q.parent

stride_enqueue(s, q, p) == [skew_heap_insert(s, q, p) EXCEPT !.num = @ + 1]

(* What has left the heap has null pointers here; in the code they are     *)
(* stale, but skew_heap_insert sets all three before anything reads them.  *)
stride_dequeue(s, q, p) ==
    [skew_heap_remove(s, q, p) EXCEPT !.num = @ - 1,
        !.left[p] = NULL, !.right[p] = NULL, !.parent[p] = NULL]

Pass(priority) == BIG_STRIDE \div priority   \* what a turn costs

Advanced_not(s, p) == s
Advanced(s, p) == [s EXCEPT ![p] = (@ + Pass(lab6_priority[p])) % 2^Width]

(* wakeup_proc of a process that is not runnable; s are the strides. *)
wakeup_proc(s, p) ==
    /\ pstate' = [pstate EXCEPT ![p] = "RUNNABLE"]
    /\ RunQueue(stride_enqueue(s, rq, p))

(* schedule(): current, if it can still run, joins the heap; the root of   *)
(* the heap is charged with its pass and leaves it for the hart.  s are    *)
(* the strides.                                                            *)
schedule(s, still_runs) ==
    \E q \in {IF still_runs THEN stride_enqueue(s, rq, current) ELSE rq} :
        IF q.top = NULL
        THEN RunQueue(q) /\ current' = idleproc /\ lab6_stride' = s
        ELSE /\ lab6_stride' = Advanced(s, q.top)
             /\ \E r \in {stride_dequeue(s, q, q.top)} : RunQueue(r)
             /\ current' = q.top

-----------------------------------------------------------------------------
(* Preempted after a tick, or do_yield; cpu_idle looks for work. *)
Resched ==
    /\ schedule(lab6_stride, current # idleproc)
    /\ UNCHANGED <<pstate, lab6_priority>>

(* do_wait goes to sleep ... *)
Sleep ==
    /\ current \in Proc
    /\ pstate' = [pstate EXCEPT ![current] = "SLEEPING"]
    /\ schedule(lab6_stride, FALSE)
    /\ UNCHANGED lab6_priority

(* ... until do_exit of a child, or do_kill, wakes the process up. *)
Wake(p) ==
    /\ current \in Proc /\ pstate[p] = "SLEEPING"
    /\ wakeup_proc(lab6_stride, p)
    /\ UNCHANGED <<current, lab6_stride, lab6_priority>>

(* do_exit; the proc_struct is free once the parent has reaped it. *)
Exit ==
    /\ current \in Proc
    /\ pstate' = [pstate EXCEPT ![current] = "UNINIT"]
    /\ lab6_priority' = [lab6_priority EXCEPT ![current] = Min(Priority)]
    /\ schedule([lab6_stride EXCEPT ![current] = 0], FALSE)

(* lab6_set_priority raises 0 to 1.  The 0 that fresh memory may hold      *)
(* stays 0 in the code, and counts as 1 here: nothing but the division     *)
(* reads it, and by 0 the target's divuw gives the largest word, as by 1.  *)
AtLeast1(priority) == IF priority = 0 THEN 1 ELSE priority

(* do_fork: the proc_struct comes with the stride and the priority that    *)
(* the memory held (a free one has them fixed here until then).            *)
Fork(c) ==
    /\ current \in Proc /\ pstate[c] = "UNINIT"
    /\ \E stride \in Word, priority \in Priority \cup {0} :
        /\ lab6_stride' = [lab6_stride EXCEPT ![c] = stride]
        /\ lab6_priority' = [lab6_priority EXCEPT ![c] = AtLeast1(priority)]
    /\ wakeup_proc(lab6_stride', c)
    /\ UNCHANGED current

lab6_set_priority(priority) ==
    /\ current \in Proc
    /\ lab6_priority' = [lab6_priority EXCEPT ![current] = AtLeast1(priority)]
    /\ UNCHANGED <<pstate, current, lab6_stride, heap>>

(* The first process is on the hart.  Strides only matter through their    *)
(* differences, so its own may be 0.                                       *)
Init ==
    /\ current \in Proc
    /\ pstate = [p \in Proc |-> IF p = current THEN "RUNNABLE" ELSE "UNINIT"]
    /\ lab6_stride = [p \in Proc |-> 0]
    /\ \E priority \in Priority :
        lab6_priority = [p \in Proc |-> IF p = current THEN priority ELSE Min(Priority)]
    /\ left = [p \in Proc |-> NULL] /\ right = left /\ parent = left
    /\ lab6_run_pool = NULL
    /\ proc_num = 0

Next ==
    \/ Resched \/ Sleep \/ Exit
    \/ \E p \in Proc : Wake(p) \/ Fork(p)
    \/ \E priority \in Priority \cup {0} : lab6_set_priority(priority)

Spec == Init /\ [][Next]_vars

(* The clock ends every turn. *)
FairSpec == Spec /\ WF_vars(Resched)

-----------------------------------------------------------------------------
Competing == {p \in Proc : pstate[p] = "RUNNABLE"}

(* The processes in the heap, from the root down. *)
InHeap ==
    LET children(S) == {left[p] : p \in S} \cup {right[p] : p \in S}
        below[n \in 0 .. Cardinality(Proc)] ==
            IF n = 0 THEN {lab6_run_pool} \ {NULL}
            ELSE below[n - 1] \cup (children(below[n - 1]) \ {NULL})
    IN  below[Cardinality(Proc)]

(* The heap holds the runnable processes but the one on the hart, each     *)
(* once, the parent pointers that skew_heap_remove goes by lead back to    *)
(* the root, and nobody is above a process that precedes it: whatever the  *)
(* strides, also when their order is not transitive.                       *)
HeapWellFormed ==
    /\ InHeap = Competing \ {current}
    /\ proc_num = Cardinality(InHeap)
    /\ lab6_run_pool # NULL => parent[lab6_run_pool] = NULL
    /\ \A p \in InHeap \ {lab6_run_pool} :
        LET up == parent[p]
        IN  /\ up \in InHeap
            /\ (left[up] = p) # (right[up] = p)
            /\ proc_stride_comp_f(lab6_stride, up, p) < 1

(* The strides of the runnable processes lie within the longest pass of    *)
(* one of them.                                                            *)
LongestPass == Max({Pass(lab6_priority[p]) : p \in Competing})
Together ==
    \E first \in Competing : \A p \in Competing :
        (lab6_stride[p] - lab6_stride[first]) % 2^Width <= LongestPass

(* Strides that lie within one pass of each other stay so while the same   *)
(* processes compete with the same priorities, past every overflow: over   *)
(* any number of turns each gets its share by priority, up to one turn     *)
(* (stride_pick_next and proc_stride_comp_f).  With a priority below 2     *)
(* among them the pass is the whole range, and it says nothing.            *)
SharesFollowPriority ==
    [][Together /\ Competing' = Competing /\ UNCHANGED lab6_priority => Together']_vars

(* Once the last process has joined the heap, whoever can run does,        *)
(* whatever the strides they joined with.  One that is created, or wakes   *)
(* up with the stride it fell asleep with, may be chosen before everybody  *)
(* who waits, again and again; and so may one that goes to and fro between *)
(* a priority below 2, which takes its stride back, and another.           *)
Joins == \E p \in Proc : Wake(p) \/ Fork(p)
Settled == UNCHANGED lab6_priority \/ \A p \in Competing : lab6_priority[p] >= 2

NoStarvation ==
    <>[][~Joins /\ Settled]_vars => \A p \in Proc : pstate[p] = "RUNNABLE" ~> current = p

(* "bigger value will get more CPU time" (proc.h): with the same processes *)
(* competing at the same priorities for good, one with a smaller priority  *)
(* does not have turn after turn while one with a bigger priority waits.   *)
(* It is meant to be violated with priority 1.                             *)
TurnAfterTurn(q) == Resched /\ current = q /\ current' = q

BiggerValueGetsMore ==
    \A p, q \in Proc :
        (/\ <>[][~Joins /\ UNCHANGED lab6_priority]_vars
         /\ <>[](/\ {p, q} \subseteq Competing
                 /\ lab6_priority[p] > lab6_priority[q]))
        => <>[][~TurnAfterTurn(q)]_vars
=============================================================================
