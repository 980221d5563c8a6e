---------------------------- MODULE KSchedProofs ----------------------------
(***************************************************************************)
(* Facts about the scheduler's operations, for any set of processes.       *)
(***************************************************************************)
EXTENDS KSched, Integers, WellFoundedInduction, TLAPS

(* RR_enqueue's refill leaves a slice that is at least one tick and at     *)
(* most rq->max_time_slice.                                                *)
LEMMA RefillRange ==
    ASSUME NEW s \in 0 .. MAX_TIME_SLICE
    PROVE  Refill(s) \in 1 .. MAX_TIME_SLICE
BY SliceAssumption DEF Refill

(* wakeup_proc keeps the types of the scheduler's state. *)
LEMMA WakeupType ==
    ASSUME SchedTypeOK, NEW p \in Proc, wakeup_proc(p)
    PROVE  SchedTypeOK'
<1>1. CASE pstate[p] # "RUNNABLE"
  <2>1. (pstate \in [Task -> State])'
    BY <1>1 DEF SchedTypeOK, wakeup_proc, State
  <2>2. (wait_state \in [Task -> WaitState])'
    BY <1>1 DEF SchedTypeOK, wakeup_proc, WaitState
  <2>3. (run_list \in Seq(Proc))'
    <3>1. run_list' = run_list \/ run_list' = Append(run_list, p)
      BY <1>1 DEF wakeup_proc, RR_enqueue
    <3>2. run_list \in Seq(Proc) /\ Append(run_list, p) \in Seq(Proc)
      BY DEF SchedTypeOK
    <3> QED BY <3>1, <3>2
  <2>4. (time_slice \in [Task -> 0 .. MAX_TIME_SLICE])'
    <3>1. \/ time_slice' = time_slice
          \/ time_slice' = [time_slice EXCEPT ![p] = Refill(time_slice[p])]
      BY <1>1 DEF wakeup_proc
    <3>2. Refill(time_slice[p]) \in 0 .. MAX_TIME_SLICE
      BY RefillRange, SliceAssumption DEF SchedTypeOK, Task
    <3> QED BY <3>1, <3>2 DEF SchedTypeOK
  <2> QED BY <1>1, <2>1, <2>2, <2>3, <2>4 DEF SchedTypeOK, wakeup_proc
<1>2. CASE pstate[p] = "RUNNABLE"
  BY <1>2 DEF SchedTypeOK, wakeup_proc, sched_vars
<1> QED BY <1>1, <1>2

(* schedule() keeps the types: what it takes from the queue is a process.  *)
LEMMA ScheduleType ==
    ASSUME SchedTypeOK, schedule
    PROVE  SchedTypeOK'
<1> DEFINE ready == IF StaysReady THEN RR_enqueue(run_list, current) ELSE run_list
<1>1. ready \in Seq(Proc)
  BY DEF SchedTypeOK, StaysReady, RR_enqueue, Task
<1>2. ready # <<>> => Head(ready) \in Proc /\ Tail(ready) \in Seq(Proc)
  BY <1>1
<1>3. current' \in Task /\ run_list' \in Seq(Proc)
  BY <1>1, <1>2 DEF schedule, Task
<1>4. (need_resched \in [Task -> BOOLEAN])'
  BY DEF SchedTypeOK, schedule
<1>5. time_slice' \in [Task -> 0 .. MAX_TIME_SLICE]
  <2>1. /\ time_slice \in [Task -> 0 .. MAX_TIME_SLICE] /\ current \in Task
        /\ time_slice[current] \in 0 .. MAX_TIME_SLICE
    BY DEF SchedTypeOK
  <2>2. CASE StaysReady
    <3>1. time_slice' = [time_slice EXCEPT ![current] = Refill(time_slice[current])]
      BY <2>2 DEF schedule
    <3>2. Refill(time_slice[current]) \in 1 .. MAX_TIME_SLICE
      BY <2>1, RefillRange
    <3>3. Refill(time_slice[current]) \in 0 .. MAX_TIME_SLICE
      BY <3>2, SliceAssumption
    <3> QED BY <2>1, <3>1, <3>3
  <2>3. CASE ~ StaysReady
    BY <2>1, <2>3 DEF schedule
  <2> QED BY <2>2, <2>3
<1> QED BY <1>3, <1>4, <1>5 DEF SchedTypeOK, schedule

(* A tick keeps the types: RR_proc_tick never takes a slice below zero.    *)
LEMMA TickType ==
    ASSUME SchedTypeOK, proc_tick
    PROVE  SchedTypeOK'
<1>1. time_slice' \in [Task -> 0 .. MAX_TIME_SLICE]
  <2>1. /\ time_slice \in [Task -> 0 .. MAX_TIME_SLICE] /\ current \in Task
        /\ SliceAfterTick(time_slice[current]) \in 0 .. MAX_TIME_SLICE
    BY SliceAssumption DEF SchedTypeOK, SliceAfterTick
  <2>2. \/ time_slice' = time_slice
        \/ time_slice' = [time_slice EXCEPT ![current] = SliceAfterTick(time_slice[current])]
    BY DEF proc_tick
  <2> QED BY <2>1, <2>2
<1>2. (need_resched \in [Task -> BOOLEAN])'
  <2> DEFINE b == need_resched[current] \/ SliceOver(time_slice[current])
  <2>1. b \in BOOLEAN
    BY DEF SliceOver
  <2>2. \/ need_resched' = [need_resched EXCEPT ![idleproc] = TRUE]
        \/ need_resched' = [need_resched EXCEPT ![current] = b]
    BY DEF proc_tick
  <2> HIDE DEF b
  <2> QED BY <2>1, <2>2 DEF SchedTypeOK
<1> QED BY <1>1, <1>2 DEF SchedTypeOK, proc_tick

(* Marking the current process asleep keeps the types. *)
LEMMA SleepType ==
    ASSUME SchedTypeOK, NEW why \in WaitState, GoToSleep(why)
    PROVE  SchedTypeOK'
BY DEF SchedTypeOK, GoToSleep, State

-----------------------------------------------------------------------------
(* A queue without duplicates: what joining the back and leaving the front *)
(* do to its members.                                                      *)
LEMMA AppendMembers ==
    ASSUME NEW q \in Seq(Proc), NEW x \in Proc, NEW p
    PROVE  Contains(Append(q, x), p) <=> Contains(q, p) \/ p = x
<1>1. /\ Len(q) \in Nat
      /\ Len(Append(q, x)) = Len(q) + 1
      /\ \A i \in 1 .. Len(q) : Append(q, x)[i] = q[i]
      /\ Append(q, x)[Len(q) + 1] = x
  OBVIOUS
<1>2. ASSUME Contains(Append(q, x), p) PROVE Contains(q, p) \/ p = x
  <2>1. PICK i \in 1 .. Len(q) + 1 : Append(q, x)[i] = p
    BY <1>1, <1>2 DEF Contains
  <2>2. CASE i = Len(q) + 1
    BY <1>1, <2>1, <2>2
  <2>3. CASE i \in 1 .. Len(q)
    BY <1>1, <2>1, <2>3 DEF Contains
  <2> QED BY <1>1, <2>2, <2>3
<1>3. ASSUME Contains(q, p) PROVE Contains(Append(q, x), p)
  <2>1. PICK i \in 1 .. Len(q) : q[i] = p
    BY <1>3 DEF Contains
  <2>2. i \in 1 .. Len(Append(q, x)) /\ Append(q, x)[i] = p
    BY <1>1, <2>1
  <2> QED BY <2>2 DEF Contains
<1>4. Contains(Append(q, x), x)
  <2>1. Len(q) + 1 \in 1 .. Len(Append(q, x))
    BY <1>1
  <2> QED BY <1>1, <2>1 DEF Contains
<1> QED BY <1>2, <1>3, <1>4

LEMMA AppendDistinct ==
    ASSUME NEW q \in Seq(Proc), NEW x \in Proc, IsInjective(q), ~Contains(q, x)
    PROVE  IsInjective(Append(q, x))
BY DEF Contains, IsInjective

LEMMA HeadTail ==
    ASSUME NEW q \in Seq(Proc), q # <<>>, IsInjective(q)
    PROVE  /\ Head(q) \in Proc
           /\ Tail(q) \in Seq(Proc)
           /\ Contains(q, Head(q))
           /\ IsInjective(Tail(q))
           /\ \A p : Contains(Tail(q), p) <=> Contains(q, p) /\ p # Head(q)
<1>1. Head(q) \in Proc /\ Tail(q) \in Seq(Proc) /\ Len(q) \in Nat /\ Len(q) > 0
  OBVIOUS
<1>2. Contains(q, Head(q))
  BY <1>1 DEF Contains
<1>3. IsInjective(Tail(q))
  BY <1>1 DEF IsInjective
<1>4. ASSUME NEW p, Contains(Tail(q), p) PROVE Contains(q, p) /\ p # Head(q)
  <2>1. PICK i \in 1 .. Len(Tail(q)) : Tail(q)[i] = p
    BY <1>4 DEF Contains
  <2>2. i + 1 \in 1 .. Len(q) /\ q[i + 1] = p /\ i + 1 # 1
    BY <1>1, <2>1
  <2> QED BY <1>1, <2>2 DEF Contains, IsInjective
<1>5. ASSUME NEW p, Contains(q, p), p # Head(q) PROVE Contains(Tail(q), p)
  <2>1. PICK i \in 1 .. Len(q) : q[i] = p
    BY <1>5 DEF Contains
  <2>2. i # 1
    BY <1>5, <2>1
  <2>3. i - 1 \in 1 .. Len(Tail(q)) /\ Tail(q)[i - 1] = p
    BY <1>1, <2>1, <2>2
  <2> QED BY <2>3 DEF Contains
<1> QED BY <1>1, <1>2, <1>3, <1>4, <1>5

LEMMA EmptyMembers == \A p : ~Contains(<<>>, p)
BY DEF Contains

(* wakeup_proc puts a process that was asleep (or new) into the queue,     *)
(* once, unless it is still on the hart.                                   *)
LEMMA WakeupQueue ==
    ASSUME SchedTypeOK, RunQueueExact, NEW p \in Proc, wakeup_proc(p)
    PROVE  RunQueueExact'
<1>1. CASE pstate[p] = "RUNNABLE"
  BY <1>1 DEF wakeup_proc, sched_vars, RunQueueExact
<1>2. CASE pstate[p] # "RUNNABLE"
  <2>1. ~Contains(run_list, p)
    BY <1>2 DEF RunQueueExact
  <2>2. /\ current' = current
        /\ \A x \in Proc : pstate'[x] = "RUNNABLE" <=> (pstate[x] = "RUNNABLE" \/ x = p)
    BY <1>2 DEF wakeup_proc, SchedTypeOK, Task
  <2>3. CASE p = current
    <3>1. run_list' = run_list
      BY <1>2, <2>3 DEF wakeup_proc, JoinsQueue
    <3> QED BY <2>1, <2>2, <2>3, <3>1 DEF RunQueueExact
  <2>4. CASE p # current
    <3>1. run_list' = Append(run_list, p)
      BY <1>2, <2>4, IdleAssumption DEF wakeup_proc, JoinsQueue, RR_enqueue
    <3>2. IsInjective(run_list')
      BY <2>1, <3>1, AppendDistinct DEF RunQueueExact, SchedTypeOK
    <3>3. \A x \in Proc : Contains(run_list', x) <=> Contains(run_list, x) \/ x = p
      BY <3>1, AppendMembers DEF SchedTypeOK
    <3> QED BY <2>2, <2>4, <3>2, <3>3 DEF RunQueueExact
  <2> QED BY <2>3, <2>4
<1> QED BY <1>1, <1>2

(* wakeup_proc changes nobody else's state, and never who is on the hart.  *)
LEMMA WakeupEffect ==
    ASSUME SchedTypeOK, NEW p \in Proc, wakeup_proc(p)
    PROVE  /\ current' = current
           /\ pstate'[p] = "RUNNABLE"
           /\ \A x \in Task : x # p => pstate'[x] = pstate[x] /\ wait_state'[x] = wait_state[x]
BY DEF SchedTypeOK, wakeup_proc, sched_vars, Task

(* schedule() keeps the queue exact and gives the hart to a process that   *)
(* can run.                                                                *)
LEMMA ScheduleQueue ==
    ASSUME SchedTypeOK, RunQueueExact, schedule
    PROVE  /\ RunQueueExact'
           /\ current' \in Proc => pstate[current'] = "RUNNABLE"
<1> DEFINE ready == IF StaysReady THEN RR_enqueue(run_list, current) ELSE run_list
<1>1. /\ ready \in Seq(Proc)
      /\ IsInjective(ready)
      /\ \A x \in Proc : Contains(ready, x) <=> pstate[x] = "RUNNABLE"
  <2>1. CASE StaysReady
    <3>1. current \in Proc /\ pstate[current] = "RUNNABLE" /\ ready = Append(run_list, current)
      BY <2>1 DEF StaysReady, RR_enqueue, SchedTypeOK, Task
    <3>2. ~Contains(run_list, current) /\ run_list \in Seq(Proc)
      BY <3>1 DEF RunQueueExact, SchedTypeOK
    <3>3. IsInjective(ready)
      BY <3>1, <3>2, AppendDistinct DEF RunQueueExact
    <3>4. ASSUME NEW x \in Proc
          PROVE  Contains(Append(run_list, current), x) <=> Contains(run_list, x) \/ x = current
      BY <3>1, <3>2, AppendMembers
    <3> HIDE DEF ready
    <3>5. \A x \in Proc : Contains(ready, x) <=> pstate[x] = "RUNNABLE"
      BY <3>1, <3>4 DEF RunQueueExact
    <3>6. ready \in Seq(Proc)
      BY <3>1, <3>2
    <3> QED BY <3>3, <3>5, <3>6
  <2>2. CASE ~StaysReady
    <3>1. ready = run_list /\ (current \in Proc => pstate[current] # "RUNNABLE")
      BY <2>2, IdleAssumption DEF StaysReady
    <3> QED BY <3>1 DEF RunQueueExact, SchedTypeOK
  <2> QED BY <2>1, <2>2
<1>2. pstate' = pstate
  BY DEF schedule
<1>3. CASE ready = <<>>
  <2>1. current' = idleproc /\ run_list' = <<>>
    BY <1>3 DEF schedule
  <2>2. IsInjective(run_list')
    BY <2>1 DEF IsInjective
  <2> QED BY <1>1, <1>2, <1>3, <2>1, <2>2, EmptyMembers, IdleAssumption DEF RunQueueExact
<1>4. CASE ready # <<>>
  <2>1. current' = Head(ready) /\ run_list' = Tail(ready)
    BY <1>4 DEF schedule
  <2> HIDE DEF ready
  <2> QED BY <1>1, <1>2, <1>4, <2>1, HeadTail DEF RunQueueExact
<1> QED BY <1>3, <1>4

-----------------------------------------------------------------------------
(* Lists of wait_t's and timers. *)

(* wait_current_del leaves a list of processes, and leaves alone a list    *)
(* that the process is not in.                                             *)
LEMMA WithoutType ==
    ASSUME NEW q \in Seq(Proc), NEW p
    PROVE  /\ Without(q, p) \in Seq(Proc)
           /\ ~Contains(q, p) => Without(q, p) = q
<1>1. CASE Contains(q, p)
  <2> DEFINE i == CHOOSE j \in 1 .. Len(q) : q[j] = p
  <2>1. i \in 1 .. Len(q)
    BY <1>1 DEF Contains
  <2>2. Without(q, p) = RemoveAt(q, i)
    BY <1>1 DEF Without
  <2> HIDE DEF i
  <2>3. RemoveAt(q, i) \in Seq(Proc)
    BY <2>1 DEF RemoveAt
  <2> QED BY <1>1, <2>2, <2>3
<1>2. CASE ~Contains(q, p)
  BY <1>2 DEF Without
<1> QED BY <1>1, <1>2

(* Out of a list that holds everybody at most once, it takes just p. *)
LEMMA WithoutMembers ==
    ASSUME NEW q \in Seq(Proc), IsInjective(q), NEW p
    PROVE  /\ Without(q, p) \in Seq(Proc)
           /\ IsInjective(Without(q, p))
           /\ \A x : Contains(Without(q, p), x) <=> Contains(q, x) /\ x # p
<1>1. CASE ~Contains(q, p)
  BY <1>1 DEF Without
<1>2. CASE Contains(q, p)
  <2> DEFINE i == CHOOSE j \in 1 .. Len(q) : q[j] = p
             r == RemoveAt(q, i)
  <2>1. i \in 1 .. Len(q) /\ q[i] = p
    BY <1>2 DEF Contains
  <2>2. Without(q, p) = r
    BY <1>2 DEF Without
  <2> HIDE DEF i
  <2>3. /\ Len(q) \in Nat
        /\ Len(r) = Len(q) - 1
        /\ r \in Seq(Proc)
        /\ \A k \in 1 .. Len(q) - 1 : r[k] = IF k < i THEN q[k] ELSE q[k + 1]
    <3> DEFINE a == SubSeq(q, 1, i - 1)
               b == SubSeq(q, i + 1, Len(q))
    <3>1. r = a \o b
      BY DEF RemoveAt
    <3>2. /\ a \in Seq(Proc) /\ Len(a) = i - 1
          /\ \A k \in 1 .. i - 1 : a[k] = q[k]
      BY <2>1
    <3>3. /\ b \in Seq(Proc) /\ Len(b) = Len(q) - i
          /\ \A k \in 1 .. Len(q) - i : b[k] = q[k + i]
      BY <2>1
    <3> HIDE DEF a, b
    <3>4. /\ Len(q) \in Nat /\ i \in Nat /\ i >= 1 /\ i <= Len(q)
      BY <2>1
    <3>5. a \o b \in Seq(Proc) /\ Len(a \o b) = Len(q) - 1
      BY <3>2, <3>3, <3>4
    <3>6. ASSUME NEW k \in 1 .. Len(q) - 1
          PROVE  (a \o b)[k] = IF k < i THEN q[k] ELSE q[k + 1]
      <4>1. CASE k < i
        BY <3>2, <3>3, <3>4, <4>1
      <4>2. CASE k >= i
        <5>1. (a \o b)[k] = b[k - (i - 1)] /\ k - (i - 1) \in 1 .. Len(q) - i
          <6>1. k \in Nat /\ k > Len(a) /\ k <= Len(a) + Len(b) /\ k - Len(a) \in 1 .. Len(b)
            BY <3>2, <3>3, <3>4, <4>2
          <6>2. (a \o b)[k] = b[k - Len(a)]
            BY <3>2, <3>3, <6>1
          <6> QED BY <3>2, <3>3, <6>1, <6>2
        <5>2. b[k - (i - 1)] = q[(k - (i - 1)) + i] /\ (k - (i - 1)) + i = k + 1
          BY <3>3, <3>4, <5>1
        <5> QED BY <4>2, <5>1, <5>2, <3>4
      <4>3. k < i \/ k >= i
        BY <3>4
      <4> QED BY <4>1, <4>2, <4>3, Zenon
    <3> HIDE DEF r
    <3> QED BY <3>1, <3>4, <3>5, <3>6
  <2> HIDE DEF r
  <2>n. i \in Nat /\ i >= 1 /\ i <= Len(q)
    BY <2>1, <2>3
  <2>d. \A j, k \in 1 .. Len(q) : q[j] = q[k] => j = k
    BY DEF IsInjective
  <2>4. IsInjective(r)
    <3> SUFFICES ASSUME NEW j \in 1 .. Len(q) - 1, NEW k \in 1 .. Len(q) - 1, r[j] = r[k]
                 PROVE  j = k
      BY <2>3 DEF IsInjective
    <3> DEFINE at_(m) == IF m < i THEN m ELSE m + 1
    <3>1. at_(j) \in 1 .. Len(q) /\ at_(k) \in 1 .. Len(q) /\ r[j] = q[at_(j)] /\ r[k] = q[at_(k)]
      BY <2>3, <2>n
    <3>2. at_(j) = at_(k)
      BY <2>d, <3>1
    <3> QED BY <3>2, <2>3, <2>n
  <2>5. ASSUME NEW x, Contains(r, x) PROVE Contains(q, x) /\ x # p
    <3>1. PICK k \in 1 .. Len(q) - 1 : r[k] = x
      BY <2>3, <2>5 DEF Contains
    <3>2. CASE k < i
      <4>1. k \in 1 .. Len(q) /\ q[k] = x /\ k # i
        BY <2>n, <2>3, <3>1, <3>2
      <4> QED BY <2>1, <2>d, <4>1 DEF Contains
    <3>3. CASE k >= i
      <4>1. k + 1 \in 1 .. Len(q) /\ q[k + 1] = x /\ k + 1 # i
        BY <2>1, <2>3, <3>1, <3>3
      <4> QED BY <2>1, <4>1 DEF Contains, IsInjective
    <3> QED BY <2>1, <2>3, <3>2, <3>3
  <2>6. ASSUME NEW x, Contains(q, x), x # p PROVE Contains(r, x)
    <3>1. PICK k \in 1 .. Len(q) : q[k] = x
      BY <2>6 DEF Contains
    <3>2. CASE k < i
      <4>1. k \in 1 .. Len(r) /\ r[k] = x
        BY <2>1, <2>3, <3>1, <3>2
      <4> QED BY <4>1 DEF Contains
    <3>3. CASE k > i
      <4>1. k - 1 \in 1 .. Len(r) /\ r[k - 1] = x
        BY <2>1, <2>3, <3>1, <3>3
      <4> QED BY <4>1 DEF Contains
    <3> QED BY <2>1, <2>3, <2>6, <3>1, <3>2, <3>3
  <2> QED BY <2>2, <2>3, <2>4, <2>5, <2>6
<1> QED BY <1>1, <1>2

(* Induction over an interval, as a statement about sets: a non-empty set  *)
(* of integers that is bounded below has an element without its            *)
(* predecessor.                                                            *)
LEMMA Least ==
    ASSUME NEW T \in SUBSET Int, NEW a \in Int, \A m \in T : a <= m, T # {}
    PROVE  \E m \in T : m - 1 \notin T /\ \A n \in T : m <= n
<1> DEFINE U == {m \in Nat : a + m \in T}
<1>1. U # {} /\ U \subseteq Nat
  <2>1. PICK m \in T : TRUE
    OBVIOUS
  <2>2. m - a \in U
    BY <2>1
  <2> QED BY <2>2
<1>2. PICK u \in U : \A y \in U : <<y, u>> \notin OpToRel(<, Nat)
  BY <1>1, NatLessThanWellFounded, WFMin, Zenon
<1>3. ASSUME NEW y \in U, y < u PROVE FALSE
  <2>1. <<y, u>> \in OpToRel(<, Nat)
    BY <1>1, <1>3 DEF OpToRel
  <2> QED BY <2>1, <1>2
<1>4. a + u \in T /\ u \in Nat
  OBVIOUS
<1>5. \A n \in T : a + u <= n
  <2> SUFFICES ASSUME NEW n \in T, n < a + u PROVE FALSE
    BY <1>4
  <2>1. n - a \in U /\ n - a < u
    BY <1>4
  <2> QED BY <2>1, <1>3
<1> QED BY <1>4, <1>5

LEMMA Interval ==
    ASSUME NEW a \in Int, NEW b \in Int, NEW S,
           a \in S, \A m \in a + 1 .. b : m - 1 \in S => m \in S
    PROVE  \A m \in a .. b : m \in S
<1> DEFINE T == (a .. b) \ S
<1>1. SUFFICES ASSUME T # {} PROVE FALSE
  BY <1>1
<1>2. PICK m \in T : m - 1 \notin T
  <2>1. T \in SUBSET Int /\ \A m \in T : a <= m
    OBVIOUS
  <2> HIDE DEF T
  <2> QED BY <1>1, <2>1, Least
<1>3. m \in a + 1 .. b /\ m - 1 \in a .. b /\ m \notin S
  OBVIOUS
<1> QED BY <1>2, <1>3

(* wakeup_proc on a list of processes, each of them once: those who were   *)
(* not RUNNABLE, and are not on the hart, join the run queue.              *)
LEMMA EnqueueAll ==
    ASSUME SchedTypeOK, RunQueueExact, NEW list \in Seq(Proc), IsInjective(list)
    PROVE  /\ AllEnqueued(list) \in Seq(Proc)
           /\ IsInjective(AllEnqueued(list))
           /\ \A p : Contains(AllEnqueued(list), p) <=> Contains(run_list, p) \/ p \in Joined(list)
<1> DEFINE J == Joined(list)
           Loop(queue, end) ==
                queue = [k \in 0 .. end |->
                            IF k = 0 THEN run_list
                            ELSE IF list[k] \in J THEN RR_enqueue(queue[k - 1], list[k])
                            ELSE queue[k - 1]]
           S == {end \in Int : \E queue : Loop(queue, end)}
           In(k, p) == \E j \in 1 .. k : list[j] = p /\ p \in J
           Good(q, k) == /\ q \in Seq(Proc) /\ IsInjective(q)
                         /\ \A p : Contains(q, p) <=> Contains(run_list, p) \/ In(k, p)
           G(queue) == {k \in Int : Good(queue[k], k)}
<1>1. /\ Len(list) \in Nat /\ 0 \in Int /\ Len(list) \in Int /\ Len(list) \in 0 .. Len(list)
      /\ DOMAIN list = 1 .. Len(list) /\ 0 \in 0 .. Len(list)
  OBVIOUS
<1>2. /\ \A p \in J : p \in Proc /\ ~ Contains(run_list, p)
      /\ \A p : p \in J => \E j \in 1 .. Len(list) : list[j] = p
  BY <1>1 DEF Joined, Woken, ToSet, RunQueueExact
<1> HIDE DEF J
<1>3. ASSUME NEW end \in 0 + 1 .. Len(list), \E queue : Loop(queue, end - 1)
      PROVE  \E queue : Loop(queue, end)
  <2>1. PICK g : Loop(g, end - 1)
    BY <1>3
  <2> DEFINE h == [k \in 0 .. end |->
                      IF k = 0 THEN run_list
                      ELSE IF list[k] \in J THEN RR_enqueue(g[k - 1], list[k])
                      ELSE g[k - 1]]
  <2>2. \A k \in 0 .. end - 1 : h[k] = g[k]
    BY <2>1, <1>1
  <2>3. \A k \in 0 .. end : k # 0 => k - 1 \in 0 .. end - 1
    BY <1>1
  <2>4. Loop(h, end)
    BY <2>2, <2>3
  <2> HIDE DEF h
  <2> QED BY <2>4, Zenon
<1>4. 0 \in S
  <2>1. Loop([k \in 0 .. 0 |-> run_list], 0)
    OBVIOUS
  <2> HIDE DEF Loop
  <2>2. \E queue : Loop(queue, 0)
    BY <2>1, Zenon
  <2> QED BY <1>1, <2>2
<1>5. \E queue : Loop(queue, Len(list))
  <2> HIDE DEF Loop
  <2>1. \A end \in 0 + 1 .. Len(list) : end - 1 \in S => end \in S
    BY <1>1, <1>3
  <2> HIDE DEF S
  <2>2. \A end \in 0 .. Len(list) : end \in S
    BY <1>1, <1>4, <2>1, Interval, Zenon
  <2> QED BY <1>1, <2>2 DEF S
<1>6. PICK queue : Loop(queue, Len(list)) /\ AllEnqueued(list) = queue[Len(list)]
  BY <1>5, Zenon DEF AllEnqueued, J
<1>7. 0 \in G(queue)
  <2>1. queue[0] = run_list
    BY <1>1, <1>6, Zenon
  <2>2. \A p : ~ In(0, p)
    OBVIOUS
  <2>3. Good(run_list, 0)
    BY <2>2 DEF SchedTypeOK, RunQueueExact
  <2> QED BY <1>1, <2>1, <2>3
<1>8. ASSUME NEW k \in 0 + 1 .. Len(list), Good(queue[k - 1], k - 1)
      PROVE  Good(queue[k], k)
  <2>1. k \in 0 .. Len(list) /\ k # 0 /\ k \in 1 .. Len(list) /\ k \in Int
    BY <1>1
  <2>2. queue[k] = IF list[k] \in J THEN RR_enqueue(queue[k - 1], list[k]) ELSE queue[k - 1]
    BY <1>6, <2>1, Zenon
  <2>3. \A p : In(k, p) <=> In(k - 1, p) \/ (p = list[k] /\ p \in J)
    BY <2>1
  <2>4. CASE list[k] \notin J
    <3>1. \A p : In(k, p) <=> In(k - 1, p)
      BY <2>3, <2>4
    <3> HIDE DEF In
    <3> QED BY <1>8, <2>2, <2>4, <3>1
  <2>5. CASE list[k] \in J
    <3> DEFINE q == queue[k - 1]
               x == list[k]
    <3>1. queue[k] = Append(q, x) /\ x \in Proc /\ q \in Seq(Proc) /\ IsInjective(q)
      BY <1>2, <1>8, <2>2, <2>5 DEF RR_enqueue
    <3>2. ~ Contains(q, x)
      <4>1. ~ In(k - 1, x)
        BY <1>1, <2>1 DEF IsInjective
      <4>2. ~ Contains(run_list, x)
        BY <1>2, <2>5
      <4> HIDE DEF In
      <4> QED BY <1>8, <4>1, <4>2
    <3> HIDE DEF q, x
    <3>3. /\ Append(q, x) \in Seq(Proc) /\ IsInjective(Append(q, x))
          /\ \A p : Contains(Append(q, x), p) <=> Contains(q, p) \/ p = x
      BY <3>1, <3>2, AppendMembers, AppendDistinct
    <3>4. \A p : Contains(q, p) <=> Contains(run_list, p) \/ In(k - 1, p)
      BY <1>8 DEF q
    <3>5. \A p : In(k, p) <=> In(k - 1, p) \/ p = x
      BY <2>3, <2>5 DEF x
    <3> HIDE DEF In
    <3> QED BY <3>1, <3>3, <3>4, <3>5
  <2> QED BY <2>4, <2>5
<1> HIDE DEF Loop, Good
<1>9. \A k \in 0 + 1 .. Len(list) : k - 1 \in G(queue) => k \in G(queue)
  BY <1>1, <1>8
<1> HIDE DEF G
<1>10. \A k \in 0 .. Len(list) : k \in G(queue)
  BY <1>1, <1>7, <1>9, Interval, Zenon
<1>11. Good(queue[Len(list)], Len(list))
  BY <1>1, <1>10 DEF G
<1>12. \A p : In(Len(list), p) <=> p \in J
  BY <1>2
<1> HIDE DEF In
<1> QED BY <1>6, <1>11, <1>12 DEF Good, J
=============================================================================
