------------------------- MODULE PhilosophersProofs -------------------------
(***************************************************************************)
(* Proofs about Philosophers for any number of them.                       *)
(***************************************************************************)
EXTENDS Philosophers, KSchedProofs

-----------------------------------------------------------------------------
(* The table is round. *)
LEMMA LeftIs == \A i \in Phil : Left(i) = IF i = 0 THEN N - 1 ELSE i - 1
<1> SUFFICES ASSUME NEW i \in Phil PROVE Left(i) = IF i = 0 THEN N - 1 ELSE i - 1
  OBVIOUS
<1>0. N \in Nat /\ N >= 2 /\ i \in Nat /\ i < N
  BY PhilAssumption DEF Phil
<1>1. CASE i = 0
  BY <1>0, <1>1 DEF Left
<1>2. CASE i # 0
  <2>1. i + N - 1 = N + (i - 1) /\ i - 1 \in 0 .. N - 1
    BY <1>0, <1>2
  <2> QED BY <1>0, <1>2, <2>1 DEF Left
<1> QED BY <1>1, <1>2

LEMMA RightIs == \A i \in Phil : Right(i) = IF i = N - 1 THEN 0 ELSE i + 1
BY PhilAssumption DEF Right, Phil

LEMMA Neighbours ==
    \A i \in Phil : /\ Left(i) \in Phil /\ Left(i) # i /\ Right(Left(i)) = i
                    /\ Right(i) \in Phil /\ Right(i) # i /\ Left(Right(i)) = i
<1> SUFFICES ASSUME NEW i \in Phil
             PROVE  /\ Left(i) \in Phil /\ Left(i) # i /\ Right(Left(i)) = i
                    /\ Right(i) \in Phil /\ Right(i) # i /\ Left(Right(i)) = i
  OBVIOUS
<1>0. N \in Nat /\ N >= 2 /\ i \in Nat /\ i < N
  BY PhilAssumption DEF Phil
<1>1. Left(i) \in Phil /\ Left(i) # i /\ Right(i) \in Phil /\ Right(i) # i
  BY <1>0, LeftIs, RightIs DEF Phil
<1>2. Right(Left(i)) = i /\ Left(Right(i)) = i
  BY <1>0, <1>1, LeftIs, RightIs
<1> QED BY <1>1, <1>2

(* The stages, in the order of a round. *)
LEMMA Stages ==
    /\ Stage = {"think", "take", "hungry", "leave", "want", "eat", "put", "full", "right", "done", "quit"}
    /\ After("think") = "take"   /\ After("take") = "hungry" /\ After("hungry") = "leave"
    /\ After("leave") = "want"   /\ After("want") = "eat"    /\ After("eat") = "put"
    /\ After("put") = "full"     /\ After("full") = "right"  /\ After("right") = "done"
    /\ After("done") = "think"
<1> DEFINE at_(here) == CHOOSE k \in 1 .. Len(Round) : Round[k] = here
<1>1. Len(Round) = 10 /\ DOMAIN Round = 1 .. 10
  BY DEF Round
<1>2. /\ Round[1] = "think" /\ Round[2] = "take" /\ Round[3] = "hungry" /\ Round[4] = "leave"
      /\ Round[5] = "want" /\ Round[6] = "eat" /\ Round[7] = "put" /\ Round[8] = "full"
      /\ Round[9] = "right" /\ Round[10] = "done"
  BY DEF Round
<1>3. Stage = {"think", "take", "hungry", "leave", "want", "eat", "put", "full", "right", "done", "quit"}
  BY <1>1, <1>2 DEF Stage, ToSet
<1>4. ASSUME NEW k \in 1 .. 10 PROVE at_(Round[k]) = k
  <2>1. \A j \in 1 .. 10 : Round[j] = Round[k] => j = k
    BY <1>2
  <2> QED BY <1>1, <2>1
<1>5. \A k \in 1 .. 10 : After(Round[k]) = Round[1 + (at_(Round[k]) % 10)]
  BY <1>1 DEF After
<1> HIDE DEF at_
<1>6. \A k \in 1 .. 10 : After(Round[k]) = Round[1 + (k % 10)]
  BY <1>4, <1>5
<1>7. 1 + (10 % 10) = 1 /\ \A k \in 1 .. 9 : 1 + (k % 10) = k + 1
  OBVIOUS
<1> QED BY <1>2, <1>3, <1>6, <1>7

-----------------------------------------------------------------------------
(* The inductive invariant.  No part of it is about the scheduler, the     *)
(* timers or even the mutex: they decide when a philosopher moves, never   *)
(* whether its neighbour eats.  What matters is that a token of s[i] is    *)
(* made only with the announcement EATING of i, and spent only by i.       *)
TableTypeOK ==
    /\ SemTypeOK
    /\ state_sema \in [Phil -> {"THINKING", "HUNGRY", "EATING"}]
    /\ stage \in [Phil -> Stage]
    /\ at \in [Proc -> At]

(* A philosopher inside a down() that found no token. *)
Parked(p) == p \in Phil /\ at[p] \in {"asleep", "back"} /\ stage[p] \in Downs

(* A wait_t is in a queue only while its philosopher is inside that down(), *)
(* and its flags tell whether up() has taken it out.                       *)
QueuesTell ==
    /\ \A s \in Sem : /\ IsInjective(wait_queue[s])
                      /\ \A p \in Proc : InQueue(p, s) => Parked(p) /\ SemOf(p) = s
    /\ \A i \in Phil : Parked(i) =>
           (InQueue(i, SemOf(i)) <=> wakeup_flags[i] = "WT_INTERRUPTED")

(* state_sema[i] follows the philosopher; only a neighbour's phi_test_sema *)
(* changes it behind its back, from HUNGRY to EATING.                      *)
StatesFollow ==
    \A i \in Phil :
        /\ stage[i] \in {"think", "take", "hungry", "right", "done", "quit"} => state_sema[i] = "THINKING"
        /\ stage[i] \in {"leave", "want"} => state_sema[i] \in {"HUNGRY", "EATING"}

InvitedOnce == \A i \in Phil : Invited(i) = IF state_sema[i] = "EATING" THEN 1 ELSE 0

Manners == \A i \in Phil : ~(state_sema[i] = "EATING" /\ state_sema[Right(i)] = "EATING")

(* A hungry philosopher waits for a neighbour to finish or, if its left    *)
(* one just has, for that one's second test.                               *)
Fed(states, h) ==
    states[h] = "HUNGRY" => states[Left(h)] = "EATING" \/ states[Right(h)] = "EATING"

HungryWaitsFor ==
    \A h \in Phil : Fed(state_sema, h) \/ stage[Left(h)] = "right"

TableInv ==
    TableTypeOK /\ QueuesTell /\ StatesFollow /\ InvitedOnce /\ Manners /\ HungryWaitsFor

-----------------------------------------------------------------------------
(* What the operations on a wait queue do to its members. *)

(* up(): the token goes to the semaphore if nobody waits, else to the      *)
(* first waiter, who leaves the queue with the flags that say so.          *)
LEMMA UpEffect ==
    ASSUME SemTypeOK, NEW s \in Sem, IsInjective(wait_queue[s]), Up(s)
    PROVE  /\ SemTypeOK'
           /\ \A t \in Sem : t # s => value'[t] = value[t] /\ wait_queue'[t] = wait_queue[t]
           /\ IsInjective(wait_queue'[s])
           /\ \/ /\ value'[s] = value[s] + 1
                 /\ UNCHANGED <<wait_queue, wakeup_flags>>
                 /\ \A p : ~InQueue(p, s)
              \/ \E w \in Proc :
                    /\ InQueue(w, s)
                    /\ value' = value
                    /\ wakeup_flags' = [wakeup_flags EXCEPT ![w] = "WT_KSEM"]
                    /\ \A p : InQueue(p, s)' <=> InQueue(p, s) /\ p # w
<1> USE DEF SemTypeOK
<1>1. CASE wait_queue[s] = <<>>
  <2>1. UNCHANGED <<wait_queue, wakeup_flags>> /\ value' = [value EXCEPT ![s] = value[s] + 1]
    BY <1>1 DEF Up, TokensAfterUp
  <2>2. \A p : ~InQueue(p, s)
    BY <1>1, EmptyMembers DEF InQueue
  <2> QED BY <2>1, <2>2
<1>2. CASE wait_queue[s] # <<>>
  <2> DEFINE w == Head(wait_queue[s])
  <2>1. /\ value' = value
        /\ wait_queue' = [wait_queue EXCEPT ![s] = Tail(wait_queue[s])]
        /\ wakeup_flags' = [wakeup_flags EXCEPT ![w] = "WT_KSEM"]
    BY <1>2 DEF Up, TokensAfterUp, wakeup_wait
  <2>2. /\ w \in Proc /\ Contains(wait_queue[s], w)
        /\ Tail(wait_queue[s]) \in Seq(Proc) /\ IsInjective(Tail(wait_queue[s]))
        /\ \A p : Contains(Tail(wait_queue[s]), p) <=> Contains(wait_queue[s], p) /\ p # w
    BY <1>2, HeadTail
  <2> HIDE DEF w
  <2>3. wait_queue'[s] = Tail(wait_queue[s])
    BY <2>1
  <2>4. SemTypeOK' /\ IsInjective(wait_queue'[s])
    BY <2>1, <2>2, <2>3
  <2>5. InQueue(w, s) /\ \A p : InQueue(p, s)' <=> InQueue(p, s) /\ p # w
    BY <2>2, <2>3 DEF InQueue
  <2> QED BY <2>1, <2>2, <2>4, <2>5
<1> QED BY <1>1, <1>2

-----------------------------------------------------------------------------
LEMMA Sets ==
    /\ Phil \subseteq Proc /\ Phil \subseteq Sem /\ mutex \in Sem /\ mutex \notin Phil
    /\ \A i \in Phil : SemOf(i) \in Sem
BY ProcIsPhil, SemIsPhil DEF SemOf

LEMMA TableInit == Init => TableInv
<1> SUFFICES ASSUME Init PROVE TableInv
  OBVIOUS
<1>1. /\ value = [s \in Sem |-> IF s = mutex THEN 1 ELSE 0]
      /\ wait_queue = [s \in Sem |-> <<>>]
      /\ wakeup_flags = [p \in Proc |-> "WT_INTERRUPTED"]
  BY DEF Init, sem_init
<1>2. value \in [Sem -> Nat] /\ \A i \in Phil : value[i] = 0
  BY <1>1, Sets
<1>3. TableTypeOK
  BY <1>1, <1>2, Stages DEF Init, TableTypeOK, SemTypeOK, At
<1>4. \A s \in Sem : IsInjective(wait_queue[s]) /\ \A p : ~InQueue(p, s)
  BY <1>1, EmptyMembers DEF InQueue, IsInjective
<1>5. \A i \in Phil : ~Parked(i) /\ ~HandedOff(i) /\ ~AtTable(i)
  BY Sets DEF Init, Parked, HandedOff, AtTable
<1>6. QueuesTell
  BY <1>4, <1>5 DEF QueuesTell
<1>7. InvitedOnce
  BY <1>2, <1>5 DEF InvitedOnce, Invited, Init
<1>8. StatesFollow /\ Manners /\ HungryWaitsFor
  BY DEF Init, StatesFollow, Manners, HungryWaitsFor, Fed
<1> QED BY <1>3, <1>6, <1>7, <1>8 DEF TableInv

(* A step that leaves the semaphores, the states and the stages alone, and *)
(* nobody's place in a down().                                             *)
LEMMA QuietStep ==
    ASSUME TableInv, UNCHANGED <<value, wait_queue, wakeup_flags, state_sema, stage>>,
           (at \in [Proc -> At])',
           \A i \in Phil : stage[i] \in Downs =>
               (at[i] \in {"asleep", "back"} <=> at'[i] \in {"asleep", "back"})
    PROVE  TableInv'
<1>1. \A p : Parked(p)' <=> Parked(p)
  BY DEF Parked
<1>2. \A i \in Phil : SemOf(i)' = SemOf(i) /\ Invited(i)' = Invited(i)
  BY DEF SemOf, Invited, HandedOff, AtTable, InQueue, Downs
<1>3. TableTypeOK'
  BY DEF TableInv, TableTypeOK, SemTypeOK
<1>4. QueuesTell'
  <2>1. \A s : \A p : InQueue(p, s)' <=> InQueue(p, s)
    BY DEF InQueue
  <2>2. \A p : Parked(p) => p \in Phil
    BY DEF Parked
  <2> QED BY <1>1, <1>2, <2>1, <2>2 DEF TableInv, QueuesTell
<1>5. InvitedOnce'
  BY <1>2 DEF TableInv, InvitedOnce
<1> QED BY <1>3, <1>4, <1>5
        DEF TableInv, StatesFollow, Manners, HungryWaitsFor, Fed, Left, Right

LEMMA SleepReturnsStep ==
    ASSUME TableInv, NEW i \in Phil, SleepReturns(i)
    PROVE  TableInv'
<1> USE DEF TableInv
<1>1. /\ current = i /\ stage[i] \in {"think", "eat"} /\ at[i] = "back"
      /\ UNCHANGED <<value, wait_queue, wakeup_flags, state_sema>>
      /\ at' = [at EXCEPT ![i] = "run"]
      /\ stage' = [stage EXCEPT ![i] = After(stage[i])]
  BY DEF SleepReturns, PhilAt, Goto, Advance, sem_vars
<1>2. /\ stage[i] = "think" => stage'[i] = "take"
      /\ stage[i] = "eat" => stage'[i] = "put"
      /\ at'[i] = "run"
      /\ \A p \in Phil : p # i => stage'[p] = stage[p]
      /\ \A p \in Proc : p # i => at'[p] = at[p]
  BY <1>1, Stages, Sets DEF TableTypeOK
<1>3. TableTypeOK'
  BY <1>1, <1>2, Stages, Sets DEF TableTypeOK, SemTypeOK, At
<1>4. ~Parked(i) /\ ~Parked(i)' /\ \A p : p # i => (Parked(p)' <=> Parked(p))
  BY <1>1, <1>2, Sets DEF Parked, Downs
<1>5. QueuesTell'
  <2>1. \A s : \A p : InQueue(p, s)' <=> InQueue(p, s)
    BY <1>1 DEF InQueue
  <2>2. \A p \in Phil : p # i => SemOf(p)' = SemOf(p)
    BY <1>2 DEF SemOf
  <2>3. \A p : Parked(p) => p \in Phil
    BY DEF Parked
  <2> QED BY <1>1, <1>4, <2>1, <2>2, <2>3 DEF QueuesTell
<1>6. InvitedOnce'
  <2>1. \A p \in Phil : (HandedOff(p)' <=> HandedOff(p)) /\ (AtTable(p)' <=> AtTable(p))
    BY <1>1, <1>2, Sets DEF HandedOff, AtTable, InQueue
  <2>2. \A p \in Phil : Invited(p)' = Invited(p)
    BY <1>1, <2>1 DEF Invited
  <2> QED BY <1>1, <2>2 DEF InvitedOnce
<1>7. StatesFollow'
  BY <1>1, <1>2 DEF StatesFollow
<1>8. Manners'
  BY <1>1 DEF Manners
<1>9. HungryWaitsFor'
  <2>1. \A h \in Phil : stage[Left(h)] = "right" => stage'[Left(h)] = "right"
    BY <1>1, <1>2, Neighbours
  <2> QED BY <1>1, <2>1 DEF HungryWaitsFor, Fed
<1> QED BY <1>3, <1>5, <1>6, <1>7, <1>8, <1>9

(* down() with a token: taken from s[i] it is the meal. *)
LEMMA DownTakesStep ==
    ASSUME TableInv, NEW i \in Phil, DownTakes(i)
    PROVE  TableInv'
<1> USE DEF TableInv
<1>1. /\ stage[i] \in Downs /\ at[i] = "run" /\ value[SemOf(i)] > 0
      /\ UNCHANGED <<wait_queue, wakeup_flags, state_sema, at>>
      /\ value' = [value EXCEPT ![SemOf(i)] = @ - 1]
      /\ stage' = [stage EXCEPT ![i] = After(stage[i])]
  BY DEF DownTakes, PhilAt, Advance, Take, CanTake
<1>2. /\ stage[i] = "take" => stage'[i] = "hungry"
      /\ stage[i] = "want" => stage'[i] = "eat"
      /\ stage[i] = "put" => stage'[i] = "full"
      /\ \A p \in Phil : p # i => stage'[p] = stage[p]
  BY <1>1, Stages DEF TableTypeOK, Downs
<1>3. TableTypeOK'
  <2>1. SemOf(i) \in Sem /\ value[SemOf(i)] \in Nat
    BY Sets DEF TableTypeOK, SemTypeOK
  <2>2. (value \in [Sem -> Nat])'
    BY <1>1, <2>1 DEF TableTypeOK, SemTypeOK
  <2>3. (stage \in [Phil -> Stage])'
    BY <1>1, <1>2, Stages DEF TableTypeOK, Downs
  <2> QED BY <1>1, <2>2, <2>3 DEF TableTypeOK, SemTypeOK
<1>4. ~Parked(i) /\ ~Parked(i)' /\ \A p : p # i => (Parked(p)' <=> Parked(p))
  BY <1>1, <1>2, Sets DEF Parked, Downs
<1>5. QueuesTell'
  <2>1. \A s : \A p : InQueue(p, s)' <=> InQueue(p, s)
    BY <1>1 DEF InQueue
  <2>2. \A p \in Phil : p # i => SemOf(p)' = SemOf(p)
    BY <1>2 DEF SemOf
  <2>3. \A p : Parked(p) => p \in Phil
    BY DEF Parked
  <2> QED BY <1>1, <1>4, <2>1, <2>2, <2>3 DEF QueuesTell
<1>6. InvitedOnce'
  <2>1. ASSUME NEW p \in Phil, p # i PROVE Invited(p)' = Invited(p)
    <3>1. (HandedOff(p)' <=> HandedOff(p)) /\ (AtTable(p)' <=> AtTable(p))
      BY <1>1, <1>2, <2>1 DEF HandedOff, AtTable, InQueue
    <3>2. value'[p] = value[p]
      BY <1>1, <2>1, Sets DEF SemOf, TableTypeOK, SemTypeOK
    <3> QED BY <3>1, <3>2 DEF Invited
  <2>2. Invited(i)' = Invited(i)
    <3>1. ~HandedOff(i) /\ ~HandedOff(i)'
      BY <1>1, <1>2 DEF HandedOff, Downs
    <3>2. value[i] \in Nat /\ value'[i] = IF stage[i] = "want" THEN value[i] - 1 ELSE value[i]
      BY <1>1, Sets DEF SemOf, TableTypeOK, SemTypeOK
    <3>3. CASE stage[i] = "want"
      <4>1. ~AtTable(i) /\ AtTable(i)'
        BY <1>2, <3>3 DEF AtTable
      <4> QED BY <3>1, <3>2, <3>3, <4>1 DEF Invited
    <3>4. CASE stage[i] # "want"
      <4>1. AtTable(i)' <=> AtTable(i)
        BY <1>1, <1>2, <3>4 DEF AtTable, Downs
      <4> QED BY <3>1, <3>2, <3>4, <4>1 DEF Invited
    <3> QED BY <3>3, <3>4
  <2> QED BY <1>1, <2>1, <2>2 DEF InvitedOnce
<1>7. StatesFollow'
  BY <1>1, <1>2 DEF StatesFollow, Downs
<1>8. Manners'
  BY <1>1 DEF Manners
<1>9. HungryWaitsFor'
  <2>1. \A h \in Phil : stage[Left(h)] = "right" => stage'[Left(h)] = "right"
    BY <1>1, <1>2, Neighbours DEF Downs
  <2> QED BY <1>1, <2>1 DEF HungryWaitsFor, Fed
<1> QED BY <1>3, <1>5, <1>6, <1>7, <1>8, <1>9

(* down() without one. *)
LEMMA DownWaitsStep ==
    ASSUME TableInv, NEW i \in Phil, DownWaits(i)
    PROVE  TableInv'
<1> USE DEF TableInv
<1> DEFINE s == SemOf(i)
<1>1. /\ stage[i] \in Downs /\ at[i] = "run"
      /\ UNCHANGED <<value, state_sema, stage>>
      /\ wait_queue' = [wait_queue EXCEPT ![s] = Append(wait_queue[s], i)]
      /\ wakeup_flags' = [wakeup_flags EXCEPT ![i] = "WT_INTERRUPTED"]
      /\ at' = [at EXCEPT ![i] = "asleep"]
  BY DEF DownWaits, PhilAt, Goto, Wait, Enqueued, own_vars
<1>2. ~Parked(i) /\ Parked(i)' /\ \A p : p # i => (Parked(p)' <=> Parked(p))
  BY <1>1, Sets DEF Parked, TableTypeOK
<1>3. /\ s \in Sem /\ i \in Proc /\ wait_queue[s] \in Seq(Proc) /\ IsInjective(wait_queue[s])
      /\ \A t \in Sem : ~Contains(wait_queue[t], i)
  BY <1>2, Sets DEF TableTypeOK, SemTypeOK, QueuesTell, InQueue
<1>4. \A p \in Phil : SemOf(p)' = SemOf(p)
  BY <1>1 DEF SemOf
<1> HIDE DEF s
<1>5. /\ \A t \in Sem : t # s => wait_queue'[t] = wait_queue[t]
      /\ wait_queue'[s] = Append(wait_queue[s], i)
      /\ Append(wait_queue[s], i) \in Seq(Proc)
      /\ IsInjective(Append(wait_queue[s], i))
  BY <1>1, <1>3, AppendDistinct DEF TableTypeOK, SemTypeOK
<1>6. \A p : Contains(Append(wait_queue[s], i), p) <=> Contains(wait_queue[s], p) \/ p = i
  BY <1>3, AppendMembers
<1>7. \A t \in Sem : \A p : InQueue(p, t)' <=> InQueue(p, t) \/ (t = s /\ p = i)
  BY <1>5, <1>6 DEF InQueue
<1>8. TableTypeOK'
  <2>1. (wait_queue \in [Sem -> Seq(Proc)])'
    BY <1>1, <1>5 DEF TableTypeOK, SemTypeOK
  <2> QED BY <1>1, <2>1 DEF TableTypeOK, SemTypeOK, At
<1>9. QueuesTell'
  <2>1. \A t \in Sem : IsInjective(wait_queue'[t])
    BY <1>5 DEF QueuesTell
  <2>2. ASSUME NEW t \in Sem, NEW p \in Proc, InQueue(p, t)' PROVE Parked(p)' /\ SemOf(p)' = t
    <3>1. CASE p = i
      BY <1>2, <1>3, <1>4, <1>7, <2>2, <3>1 DEF s, InQueue
    <3>2. CASE p # i
      BY <1>2, <1>4, <1>7, <2>2, <3>2 DEF QueuesTell, Parked
    <3> QED BY <3>1, <3>2
  <2>3. ASSUME NEW p \in Phil, Parked(p)'
        PROVE  InQueue(p, SemOf(p))' <=> wakeup_flags'[p] = "WT_INTERRUPTED"
    <3>1. CASE p = i
      BY <1>1, <1>3, <1>4, <1>7, <3>1 DEF s, TableTypeOK, SemTypeOK
    <3>2. CASE p # i
      <4>1. InQueue(p, SemOf(p))' <=> InQueue(p, SemOf(p))
        BY <1>4, <1>7, <3>2, Sets
      <4> QED BY <1>1, <1>2, <2>3, <3>2, <4>1, Sets DEF QueuesTell, TableTypeOK, SemTypeOK
    <3> QED BY <3>1, <3>2
  <2> QED BY <2>1, <2>2, <2>3 DEF QueuesTell
<1>10. InvitedOnce'
  <2>1. ASSUME NEW p \in Phil PROVE Invited(p)' = Invited(p)
    <3>1. HandedOff(p)' <=> HandedOff(p)
      <4>1. CASE p = i
        BY <1>1, <1>7, <4>1, Sets DEF HandedOff, s, SemOf
      <4>2. CASE p # i
        BY <1>1, <1>7, <4>2, Sets DEF HandedOff, TableTypeOK
      <4> QED BY <4>1, <4>2
    <3>2. AtTable(p)' <=> AtTable(p)
      BY <1>1 DEF AtTable
    <3> QED BY <1>1, <3>1, <3>2 DEF Invited
  <2> QED BY <1>1, <2>1 DEF InvitedOnce
<1> QED BY <1>1, <1>8, <1>9, <1>10 DEF StatesFollow, Manners, HungryWaitsFor, Fed

(* The rest of down(): with the token up() handed over the philosopher     *)
(* goes on; without one the assertion stops it where it is.                *)
LEMMA DownReturnsStep ==
    ASSUME TableInv, NEW i \in Phil, DownReturns(i)
    PROVE  TableInv'
<1> USE DEF TableInv
<1> DEFINE s == SemOf(i)
<1>1. /\ stage[i] \in Downs /\ at[i] = "back"
      /\ UNCHANGED <<value, wakeup_flags, state_sema>>
      /\ wait_queue' = [wait_queue EXCEPT ![s] = Without(wait_queue[s], i)]
      /\ IF wakeup_flags[i] = "WT_KSEM"
         THEN /\ at' = [at EXCEPT ![i] = "run"]
              /\ stage' = [stage EXCEPT ![i] = After(stage[i])]
         ELSE at' = [at EXCEPT ![i] = "panic"] /\ stage' = stage
  BY DEF DownReturns, PhilAt, Goto, Advance, StopWaiting
<1>2. /\ at'[i] \in {"run", "panic"}
      /\ \A p \in Proc : p # i => at'[p] = at[p]
      /\ \A p \in Phil : p # i => stage'[p] = stage[p]
      /\ (at \in [Proc -> At])'
  BY <1>1, Sets DEF TableTypeOK, At
<1>3. /\ stage'[i] = stage[i] \/ stage'[i] = After(stage[i])
      /\ stage[i] = "take" => After(stage[i]) = "hungry"
      /\ stage[i] = "want" => After(stage[i]) = "eat"
      /\ stage[i] = "put" => After(stage[i]) = "full"
  BY <1>1, Stages DEF TableTypeOK
<1>4. (stage \in [Phil -> Stage])'
  BY <1>1, <1>3, Stages DEF TableTypeOK, Downs
<1>5. Parked(i) /\ ~Parked(i)' /\ \A p : p # i => (Parked(p)' <=> Parked(p))
  BY <1>1, <1>2, Sets DEF Parked
<1>6. s \in Sem /\ i \in Proc /\ wait_queue[s] \in Seq(Proc) /\ IsInjective(wait_queue[s])
  BY Sets DEF TableTypeOK, SemTypeOK, QueuesTell
<1>7. \A p \in Phil : p # i => SemOf(p)' = SemOf(p)
  BY <1>2 DEF SemOf
<1>8. InQueue(i, s) <=> wakeup_flags[i] # "WT_KSEM"
  BY <1>5, <1>6 DEF QueuesTell, TableTypeOK, SemTypeOK
<1>9. \A t \in Sem : t # s => ~InQueue(i, t)
  BY <1>6 DEF QueuesTell
<1>10. /\ Without(wait_queue[s], i) \in Seq(Proc)
       /\ IsInjective(Without(wait_queue[s], i))
       /\ \A x : Contains(Without(wait_queue[s], i), x) <=> Contains(wait_queue[s], x) /\ x # i
  BY <1>6, WithoutMembers
<1>11. /\ \A t \in Sem : t # s => wait_queue'[t] = wait_queue[t]
       /\ wait_queue'[s] = Without(wait_queue[s], i)
  BY <1>1, <1>6 DEF TableTypeOK, SemTypeOK
<1> HIDE DEF s
<1>12. \A t \in Sem : \A p : InQueue(p, t)' <=> InQueue(p, t) /\ p # i
  BY <1>9, <1>10, <1>11 DEF InQueue
<1>13. TableTypeOK'
  <2>1. (wait_queue \in [Sem -> Seq(Proc)])'
    BY <1>1, <1>10 DEF TableTypeOK, SemTypeOK
  <2> QED BY <1>1, <1>2, <1>4, <2>1 DEF TableTypeOK, SemTypeOK
<1>14. QueuesTell'
  <2>1. \A t \in Sem : IsInjective(wait_queue'[t])
    BY <1>10, <1>11 DEF QueuesTell
  <2>2. ASSUME NEW t \in Sem, NEW p \in Proc, InQueue(p, t)' PROVE Parked(p)' /\ SemOf(p)' = t
    BY <1>5, <1>7, <1>12, <2>2 DEF QueuesTell, Parked
  <2>3. ASSUME NEW p \in Phil, Parked(p)'
        PROVE  InQueue(p, SemOf(p))' <=> wakeup_flags'[p] = "WT_INTERRUPTED"
    <3>1. p # i
      BY <1>5, <2>3
    <3>2. InQueue(p, SemOf(p))' <=> InQueue(p, SemOf(p))
      BY <1>7, <1>12, <3>1, Sets
    <3> QED BY <1>1, <1>5, <2>3, <3>1, <3>2 DEF QueuesTell
  <2> QED BY <2>1, <2>2, <2>3 DEF QueuesTell
<1>15. InvitedOnce'
  <2>1. ASSUME NEW p \in Phil, p # i PROVE Invited(p)' = Invited(p)
    <3>1. HandedOff(p)' <=> HandedOff(p)
      BY <1>2, <1>12, <2>1, Sets DEF HandedOff
    <3>2. AtTable(p)' <=> AtTable(p)
      BY <1>2, <2>1 DEF AtTable
    <3> QED BY <1>1, <3>1, <3>2 DEF Invited
  <2>2. Invited(i)' = Invited(i)
    <3>1. value'[i] = value[i] /\ value[i] \in Nat /\ ~HandedOff(i)'
      BY <1>1, <1>2, Sets DEF HandedOff, TableTypeOK, SemTypeOK
    <3>2. CASE stage[i] = "want"
      <4>1. ~AtTable(i) /\ s = i
        BY <3>2 DEF AtTable, s, SemOf
      <4>2. HandedOff(i) <=> wakeup_flags[i] = "WT_KSEM"
        BY <1>1, <1>8, <3>2, <4>1 DEF HandedOff
      <4>3. AtTable(i)' <=> wakeup_flags[i] = "WT_KSEM"
        BY <1>1, <1>3, <3>2 DEF AtTable, TableTypeOK
      <4> QED BY <3>1, <4>1, <4>2, <4>3 DEF Invited
    <3>3. CASE stage[i] # "want"
      <4>1. ~HandedOff(i) /\ (AtTable(i)' <=> AtTable(i))
        BY <1>1, <1>3, <3>3 DEF HandedOff, AtTable, Downs
      <4> QED BY <3>1, <4>1 DEF Invited
    <3> QED BY <3>2, <3>3
  <2> QED BY <1>1, <2>1, <2>2 DEF InvitedOnce
<1>16. StatesFollow'
  BY <1>1, <1>2, <1>3 DEF StatesFollow, Downs
<1>17. Manners'
  BY <1>1 DEF Manners
<1>18. HungryWaitsFor'
  <2>1. \A h \in Phil : stage[Left(h)] = "right" => stage'[Left(h)] = "right"
    BY <1>1, <1>2, Neighbours DEF Downs
  <2> QED BY <1>1, <2>1 DEF HungryWaitsFor, Fed
<1> QED BY <1>13, <1>14, <1>15, <1>16, <1>17, <1>18

(* What an up(s) by a philosopher that is in no down() does to the queues  *)
(* and to the tokens of the philosophers' semaphores.                      *)
LEMMA UpStep ==
    ASSUME TableInv, NEW s \in Sem, Up(s), NEW i \in Phil, stage[i] \notin Downs, at' = at,
           (stage \in [Phil -> Stage])', \A p \in Phil : p # i => stage'[p] = stage[p],
           stage'[i] \notin {"take", "put", "eat"}, stage'[i] = "want" => at[i] = "run"
    PROVE  /\ SemTypeOK'
           /\ QueuesTell'
           /\ \A p \in Phil :
                  value'[p] + (IF HandedOff(p)' THEN 1 ELSE 0)
                      = value[p] + (IF HandedOff(p) THEN 1 ELSE 0) + (IF p = s THEN 1 ELSE 0)
<1> USE DEF TableInv
<1>1. SemTypeOK /\ IsInjective(wait_queue[s])
  BY DEF TableTypeOK, QueuesTell
<1>2. /\ SemTypeOK'
      /\ \A t \in Sem : t # s => value'[t] = value[t] /\ wait_queue'[t] = wait_queue[t]
      /\ IsInjective(wait_queue'[s])
      /\ \/ /\ value'[s] = value[s] + 1
            /\ UNCHANGED <<wait_queue, wakeup_flags>>
            /\ \A p : ~InQueue(p, s)
         \/ \E w \in Proc :
               /\ InQueue(w, s)
               /\ value' = value
               /\ wakeup_flags' = [wakeup_flags EXCEPT ![w] = "WT_KSEM"]
               /\ \A p : InQueue(p, s)' <=> InQueue(p, s) /\ p # w
  BY <1>1, UpEffect
<1>3. ~Parked(i) /\ ~Parked(i)' /\ \A p : p # i => (Parked(p)' <=> Parked(p))
  BY Sets DEF Parked, Downs
<1>4. \A p \in Phil : p # i => SemOf(p)' = SemOf(p)
  BY DEF SemOf
<1>5. \A p : Parked(p) => p \in Phil
  BY DEF Parked
<1>6. \A t \in Sem : IsInjective(wait_queue'[t])
  BY <1>2 DEF QueuesTell
<1>7. ~HandedOff(i) /\ ~HandedOff(i)'
  BY <1>3 DEF HandedOff, Parked, Downs
<1>8. \A p \in Phil : value[p] \in Nat
  BY Sets DEF TableTypeOK, SemTypeOK
<1>9. CASE /\ value'[s] = value[s] + 1
           /\ UNCHANGED <<wait_queue, wakeup_flags>>
  <2>1. \A t : \A p : InQueue(p, t)' <=> InQueue(p, t)
    BY <1>9 DEF InQueue
  <2>2. QueuesTell'
    BY <1>3, <1>4, <1>5, <1>6, <1>9, <2>1 DEF QueuesTell
  <2>3. \A p \in Phil : HandedOff(p)' <=> HandedOff(p)
    BY <1>7, <2>1 DEF HandedOff
  <2> QED BY <1>2, <1>8, <1>9, <2>2, <2>3, Sets
<1>10. ASSUME NEW w \in Proc, InQueue(w, s), value' = value,
              wakeup_flags' = [wakeup_flags EXCEPT ![w] = "WT_KSEM"],
              \A p : InQueue(p, s)' <=> InQueue(p, s) /\ p # w
       PROVE  /\ QueuesTell'
              /\ \A p \in Phil :
                     value'[p] + (IF HandedOff(p)' THEN 1 ELSE 0)
                         = value[p] + (IF HandedOff(p) THEN 1 ELSE 0) + (IF p = s THEN 1 ELSE 0)
  <2>1. Parked(w) /\ SemOf(w) = s /\ w \in Phil /\ w # i
    BY <1>3, <1>5, <1>10 DEF QueuesTell
  <2>2. \A t \in Sem : \A p : InQueue(p, t)' <=> InQueue(p, t) /\ ~(t = s /\ p = w)
    BY <1>2, <1>10 DEF InQueue
  <2>3. ASSUME NEW t \in Sem, NEW p \in Proc, InQueue(p, t)' PROVE Parked(p)' /\ SemOf(p)' = t
    BY <1>3, <1>4, <1>5, <2>2, <2>3 DEF QueuesTell
  <2>4. ASSUME NEW p \in Phil, Parked(p)'
        PROVE  InQueue(p, SemOf(p))' <=> wakeup_flags'[p] = "WT_INTERRUPTED"
    <3>1. p # i /\ Parked(p) /\ SemOf(p)' = SemOf(p) /\ SemOf(p) \in Sem /\ p \in Proc
      BY <1>3, <1>4, <2>4, Sets
    <3>2. InQueue(p, SemOf(p))' <=> InQueue(p, SemOf(p)) /\ p # w
      BY <2>1, <2>2, <3>1
    <3> QED BY <1>10, <3>1, <3>2 DEF QueuesTell, TableTypeOK, SemTypeOK
  <2>5. QueuesTell'
    BY <1>6, <2>3, <2>4 DEF QueuesTell
  <2>6. ASSUME NEW p \in Phil, p # s PROVE HandedOff(p)' <=> HandedOff(p)
    BY <1>7, <2>2, <2>6, Sets DEF HandedOff
  <2>7. ASSUME s \in Phil PROVE HandedOff(s)' /\ ~HandedOff(s)
    <3>1. w = s /\ stage[s] = "want"
      BY <2>1, <2>7, Sets DEF SemOf
    <3> QED BY <1>10, <2>1, <3>1 DEF HandedOff, Parked
  <2> QED BY <1>8, <1>10, <2>5, <2>6, <2>7
<1> QED BY <1>2, <1>9, <1>10

(* up(&mutex): nothing of the table changes. *)
LEMMA UpMutexStep ==
    ASSUME TableInv, NEW i \in Phil, Leave(i) \/ LoopEnd(i)
    PROVE  TableInv'
<1> USE DEF TableInv
<1>1. /\ stage[i] \in {"leave", "done"} /\ at[i] = "run" /\ Up(mutex)
      /\ UNCHANGED <<state_sema, at>>
      /\ \/ stage' = [stage EXCEPT ![i] = After(stage[i])]
         \/ stage[i] = "done" /\ stage' = [stage EXCEPT ![i] = "quit"]
  BY DEF Leave, LoopEnd, PhilAt, Advance
<1>2. /\ stage[i] = "leave" => stage'[i] = "want"
      /\ stage[i] = "done" => stage'[i] \in {"think", "quit"}
      /\ \A p \in Phil : p # i => stage'[p] = stage[p]
      /\ (stage \in [Phil -> Stage])'
  BY <1>1, Stages DEF TableTypeOK
<1>3. /\ SemTypeOK'
      /\ QueuesTell'
      /\ \A p \in Phil :
             value'[p] + (IF HandedOff(p)' THEN 1 ELSE 0)
                 = value[p] + (IF HandedOff(p) THEN 1 ELSE 0) + (IF p = mutex THEN 1 ELSE 0)
  BY <1>1, <1>2, Sets, UpStep DEF Downs
<1>4. InvitedOnce'
  <2>1. \A p \in Phil : AtTable(p)' <=> AtTable(p)
    BY <1>1, <1>2 DEF AtTable
  <2>2. \A p \in Phil : value[p] \in Nat /\ value'[p] \in Nat /\ p # mutex
    BY <1>3, Sets DEF TableTypeOK, SemTypeOK
  <2>3. \A p \in Phil : Invited(p)' = Invited(p)
    BY <1>3, <2>1, <2>2 DEF Invited
  <2> QED BY <1>1, <2>3 DEF InvitedOnce
<1>5. TableTypeOK'
  BY <1>1, <1>2, <1>3 DEF TableTypeOK
<1>6. StatesFollow'
  BY <1>1, <1>2 DEF StatesFollow
<1>7. Manners'
  BY <1>1 DEF Manners
<1>8. HungryWaitsFor'
  <2>1. \A h \in Phil : stage[Left(h)] = "right" => stage'[Left(h)] = "right"
    BY <1>1, <1>2, Neighbours
  <2> QED BY <1>1, <2>1 DEF HungryWaitsFor, Fed
<1> QED BY <1>3, <1>4, <1>5, <1>6, <1>7, <1>8

(* phi_test_sema(j, states), where only i has set its own state since the  *)
(* invariant held: it announces the meal of j and makes its token, or a    *)
(* neighbour of j eats.                                                    *)
LEMMA TestStep ==
    ASSUME TableInv, NEW i \in Phil, NEW j \in Phil,
           NEW states \in [Phil -> {"THINKING", "HUNGRY", "EATING"}],
           phi_test_sema(j, states), at' = at, at[i] = "run",
           stage[i] \notin Downs, (stage \in [Phil -> Stage])',
           \A p \in Phil : p # i => stage'[p] = stage[p],
           stage'[i] \notin {"take", "put", "eat"},
           \A p \in Phil :
               value[p] + (IF HandedOff(p) THEN 1 ELSE 0) + (IF AtTable(p)' THEN 1 ELSE 0)
                   = IF states[p] = "EATING" THEN 1 ELSE 0,
           \A p \in Phil : ~(states[p] = "EATING" /\ states[Right(p)] = "EATING"),
           \A p \in Phil :
               /\ stage'[p] \in {"think", "take", "hungry", "right", "done", "quit"} => states[p] = "THINKING"
               /\ stage'[p] \in {"leave", "want"} => states[p] \in {"HUNGRY", "EATING"},
           \A h \in Phil : h # j => Fed(states, h) \/ stage'[Left(h)] = "right"
    PROVE  TableInv'
<1> USE DEF TableInv
<1>1. CASE ForksFree(j, states)
  <2>1. /\ states[j] = "HUNGRY" /\ states[Left(j)] # "EATING" /\ states[Right(j)] # "EATING"
        /\ state_sema' = [states EXCEPT ![j] = "EATING"]
        /\ Up(j)
    BY <1>1 DEF phi_test_sema, ForksFree
  <2>2. /\ SemTypeOK'
        /\ QueuesTell'
        /\ \A p \in Phil :
               value'[p] + (IF HandedOff(p)' THEN 1 ELSE 0)
                   = value[p] + (IF HandedOff(p) THEN 1 ELSE 0) + (IF p = j THEN 1 ELSE 0)
    BY <2>1, Sets, UpStep
  <2>3. TableTypeOK'
    BY <2>1, <2>2 DEF TableTypeOK
  <2>4. InvitedOnce'
    <3> SUFFICES ASSUME NEW p \in Phil
                 PROVE  Invited(p)' = IF state_sema'[p] = "EATING" THEN 1 ELSE 0
      BY DEF InvitedOnce
    <3>1. value[p] \in Nat /\ value'[p] \in Nat
      BY <2>2, Sets DEF TableTypeOK, SemTypeOK
    <3>2. state_sema'[p] = IF p = j THEN "EATING" ELSE states[p]
      BY <2>1
    <3> QED BY <2>1, <2>2, <3>1, <3>2 DEF Invited
  <2>5. Manners'
    <3> SUFFICES ASSUME NEW p \in Phil, state_sema'[p] = "EATING", state_sema'[Right(p)] = "EATING"
                 PROVE  FALSE
      BY DEF Manners
    <3>1. /\ \A q \in Phil : state_sema'[q] = IF q = j THEN "EATING" ELSE states[q]
          /\ Right(p) \in Phil /\ Right(p) # p /\ Left(Right(p)) = p
      BY <2>1, Neighbours
    <3>2. CASE p = j
      BY <2>1, <3>1, <3>2
    <3>3. CASE p # j
      BY <2>1, <3>1, <3>3
    <3> QED BY <3>2, <3>3
  <2>6. StatesFollow'
    BY <2>1 DEF StatesFollow
  <2>7. HungryWaitsFor'
    <3> SUFFICES ASSUME NEW h \in Phil, state_sema'[h] = "HUNGRY", stage'[Left(h)] # "right"
                 PROVE  state_sema'[Left(h)] = "EATING" \/ state_sema'[Right(h)] = "EATING"
      BY DEF HungryWaitsFor, Fed
    <3>1. \A q \in Phil : state_sema'[q] = IF q = j THEN "EATING" ELSE states[q]
      BY <2>1
    <3>2. h # j /\ Fed(states, h)
      BY <3>1
    <3> QED BY <3>1, <3>2, Neighbours DEF Fed
  <2> QED BY <2>2, <2>3, <2>4, <2>5, <2>6, <2>7
<1>2. CASE ~ForksFree(j, states)
  <2>1. state_sema' = states /\ UNCHANGED <<value, wait_queue, wakeup_flags>>
    BY <1>2 DEF phi_test_sema, sem_vars
  <2>2. Fed(states, j)
    BY <1>2 DEF ForksFree, Fed
  <2>3. TableTypeOK'
    BY <2>1 DEF TableTypeOK, SemTypeOK
  <2>4. ~Parked(i) /\ ~Parked(i)' /\ \A p : p # i => (Parked(p)' <=> Parked(p))
    BY Sets DEF Parked, Downs
  <2>5. QueuesTell'
    <3>1. \A t : \A p : InQueue(p, t)' <=> InQueue(p, t)
      BY <2>1 DEF InQueue
    <3>2. \A p \in Phil : p # i => SemOf(p)' = SemOf(p)
      BY DEF SemOf
    <3>3. \A p : Parked(p) => p \in Phil
      BY DEF Parked
    <3> QED BY <2>1, <2>4, <3>1, <3>2, <3>3 DEF QueuesTell
  <2>6. InvitedOnce'
    <3>1. \A p \in Phil : HandedOff(p)' <=> HandedOff(p)
      <4>1. ~HandedOff(i) /\ ~HandedOff(i)'
        BY DEF HandedOff
      <4> QED BY <2>1, <4>1 DEF HandedOff, InQueue
    <3> QED BY <2>1, <3>1 DEF InvitedOnce, Invited
  <2> QED BY <2>1, <2>2, <2>3, <2>5, <2>6 DEF StatesFollow, Manners, HungryWaitsFor
<1> QED BY <1>1, <1>2

LEMMA TokensAt ==
    ASSUME TableInv, NEW i \in Phil, at[i] = "run"
    PROVE  /\ ~HandedOff(i)
           /\ \A p \in Phil :
                  value[p] + (IF HandedOff(p) THEN 1 ELSE 0) + (IF AtTable(p) THEN 1 ELSE 0)
                      = IF state_sema[p] = "EATING" THEN 1 ELSE 0
           /\ \A p \in Phil : value[p] \in Nat
BY Sets DEF TableInv, InvitedOnce, Invited, HandedOff, TableTypeOK, SemTypeOK

LEMMA HungryStep ==
    ASSUME TableInv, NEW i \in Phil, Hungry(i)
    PROVE  TableInv'
<1> DEFINE states == [state_sema EXCEPT ![i] = "HUNGRY"]
<1>1. /\ stage[i] = "hungry" /\ at[i] = "run" /\ at' = at
      /\ phi_test_sema(i, states)
      /\ stage' = [stage EXCEPT ![i] = After(stage[i])]
  BY DEF Hungry, PhilAt, Advance
<1>2. /\ stage'[i] = "leave"
      /\ \A p \in Phil : p # i => stage'[p] = stage[p]
      /\ (stage \in [Phil -> Stage])'
  BY <1>1, Stages DEF TableInv, TableTypeOK
<1>3. /\ states \in [Phil -> {"THINKING", "HUNGRY", "EATING"}]
      /\ \A p \in Phil : states[p] = IF p = i THEN "HUNGRY" ELSE state_sema[p]
      /\ state_sema[i] = "THINKING"
  BY <1>1 DEF TableInv, TableTypeOK, StatesFollow
<1> HIDE DEF states
<1>4. \A p \in Phil :
          value[p] + (IF HandedOff(p) THEN 1 ELSE 0) + (IF AtTable(p)' THEN 1 ELSE 0)
              = IF states[p] = "EATING" THEN 1 ELSE 0
  <2>1. \A p \in Phil : AtTable(p)' <=> AtTable(p)
    BY <1>1, <1>2 DEF AtTable
  <2> QED BY <1>1, <1>3, <2>1, TokensAt
<1>5. \A p \in Phil : ~(states[p] = "EATING" /\ states[Right(p)] = "EATING")
  BY <1>3, Neighbours DEF TableInv, Manners
<1>6. \A p \in Phil :
          /\ stage'[p] \in {"think", "take", "hungry", "right", "done", "quit"} => states[p] = "THINKING"
          /\ stage'[p] \in {"leave", "want"} => states[p] \in {"HUNGRY", "EATING"}
  BY <1>2, <1>3 DEF TableInv, StatesFollow
<1>7. \A h \in Phil : h # i => Fed(states, h) \/ stage'[Left(h)] = "right"
  BY <1>1, <1>2, <1>3, Neighbours DEF TableInv, HungryWaitsFor, Fed
<1> QED BY <1>1, <1>2, <1>3, <1>4, <1>5, <1>6, <1>7, TestStep DEF Downs

(* The first test of phi_put_forks_sema, after the meal is over: the left  *)
(* neighbour is tested here, the right one is still to be.                 *)
LEMMA TestLeftStep ==
    ASSUME TableInv, NEW i \in Phil, TestLeft(i)
    PROVE  TableInv'
<1> DEFINE states == [state_sema EXCEPT ![i] = "THINKING"]
<1>1. /\ stage[i] = "full" /\ at[i] = "run" /\ at' = at
      /\ phi_test_sema(Left(i), states)
      /\ stage' = [stage EXCEPT ![i] = After(stage[i])]
  BY DEF TestLeft, PhilAt, Advance, Thinks
<1>2. /\ stage'[i] = "right"
      /\ \A p \in Phil : p # i => stage'[p] = stage[p]
      /\ (stage \in [Phil -> Stage])'
  BY <1>1, Stages DEF TableInv, TableTypeOK
<1>3. /\ states \in [Phil -> {"THINKING", "HUNGRY", "EATING"}]
      /\ \A p \in Phil : states[p] = IF p = i THEN "THINKING" ELSE state_sema[p]
  BY <1>1 DEF TableInv, TableTypeOK
<1> HIDE DEF states
<1>4. \A p \in Phil :
          value[p] + (IF HandedOff(p) THEN 1 ELSE 0) + (IF AtTable(p)' THEN 1 ELSE 0)
              = IF states[p] = "EATING" THEN 1 ELSE 0
  <2>1. \A p \in Phil : p # i => (AtTable(p)' <=> AtTable(p))
    BY <1>1, <1>2 DEF AtTable
  <2>2. AtTable(i) /\ ~AtTable(i)'
    BY <1>1, <1>2 DEF AtTable
  <2> QED BY <1>1, <1>3, <2>1, <2>2, TokensAt
<1>5. \A p \in Phil : ~(states[p] = "EATING" /\ states[Right(p)] = "EATING")
  BY <1>3, Neighbours DEF TableInv, Manners
<1>6. \A p \in Phil :
          /\ stage'[p] \in {"think", "take", "hungry", "right", "done", "quit"} => states[p] = "THINKING"
          /\ stage'[p] \in {"leave", "want"} => states[p] \in {"HUNGRY", "EATING"}
  BY <1>2, <1>3 DEF TableInv, StatesFollow
<1>7. ASSUME NEW h \in Phil, h # Left(i) PROVE Fed(states, h) \/ stage'[Left(h)] = "right"
  <2>1. CASE Left(h) = i
    BY <1>2, <2>1
  <2>2. CASE Left(h) # i
    <3>1. Right(h) # i
      BY <1>7, Neighbours
    <3>2. Fed(state_sema, h) \/ stage[Left(h)] = "right"
      BY DEF TableInv, HungryWaitsFor
    <3> QED BY <1>2, <1>3, <2>2, <3>1, <3>2, Neighbours DEF Fed
  <2> QED BY <2>1, <2>2
<1>8. Left(i) \in Phil /\ stage[i] \notin Downs /\ stage'[i] \notin {"take", "put", "eat"}
  BY <1>1, <1>2, Neighbours DEF Downs
<1> QED BY <1>1, <1>2, <1>3, <1>4, <1>5, <1>6, <1>7, <1>8, TestStep

LEMMA TestRightStep ==
    ASSUME TableInv, NEW i \in Phil, TestRight(i)
    PROVE  TableInv'
<1>1. /\ stage[i] = "right" /\ at[i] = "run" /\ at' = at
      /\ phi_test_sema(Right(i), state_sema)
      /\ stage' = [stage EXCEPT ![i] = After(stage[i])]
  BY DEF TestRight, PhilAt, Advance
<1>2. /\ stage'[i] = "done"
      /\ \A p \in Phil : p # i => stage'[p] = stage[p]
      /\ (stage \in [Phil -> Stage])'
  BY <1>1, Stages DEF TableInv, TableTypeOK
<1>3. state_sema \in [Phil -> {"THINKING", "HUNGRY", "EATING"}]
  BY DEF TableInv, TableTypeOK
<1>4. \A p \in Phil :
          value[p] + (IF HandedOff(p) THEN 1 ELSE 0) + (IF AtTable(p)' THEN 1 ELSE 0)
              = IF state_sema[p] = "EATING" THEN 1 ELSE 0
  <2>1. \A p \in Phil : AtTable(p)' <=> AtTable(p)
    BY <1>1, <1>2 DEF AtTable
  <2> QED BY <1>1, <2>1, TokensAt
<1>5. \A p \in Phil : ~(state_sema[p] = "EATING" /\ state_sema[Right(p)] = "EATING")
  BY DEF TableInv, Manners
<1>6. \A p \in Phil :
          /\ stage'[p] \in {"think", "take", "hungry", "right", "done", "quit"} => state_sema[p] = "THINKING"
          /\ stage'[p] \in {"leave", "want"} => state_sema[p] \in {"HUNGRY", "EATING"}
  BY <1>1, <1>2 DEF TableInv, StatesFollow
<1>7. ASSUME NEW h \in Phil, h # Right(i) PROVE Fed(state_sema, h) \/ stage'[Left(h)] = "right"
  <2>1. Left(h) # i /\ Left(h) \in Phil
    BY <1>7, Neighbours
  <2> QED BY <1>2, <2>1 DEF TableInv, HungryWaitsFor
<1> QED BY <1>1, <1>2, <1>3, <1>4, <1>5, <1>6, <1>7, TestStep, Neighbours DEF Downs

-----------------------------------------------------------------------------
LEMMA TableNext == TableInv /\ [Next]_vars => TableInv'
<1> SUFFICES ASSUME TableInv, [Next]_vars PROVE TableInv'
  OBVIOUS
<1>at. at \in [Proc -> At]
  BY DEF TableInv, TableTypeOK
<1>1. ASSUME NEW i \in Phil, SleepStart(i) PROVE TableInv'
  <2>1. /\ current = i /\ stage[i] \in {"think", "eat"}
        /\ UNCHANGED <<value, wait_queue, wakeup_flags, state_sema, stage>>
        /\ at' = [at EXCEPT ![i] = "asleep"]
    BY <1>1 DEF SleepStart, PhilAt, Goto, sem_vars, own_vars
  <2>2. (at \in [Proc -> At])' /\ \A p \in Phil : p # i => at'[p] = at[p]
    BY <1>at, <2>1, Sets DEF At
  <2> QED BY <2>1, <2>2, QuietStep DEF Downs
<1>2. ASSUME NEW i \in Phil, Exit(i) PROVE TableInv'
  <2>1. /\ current = i /\ stage[i] = "quit"
        /\ UNCHANGED <<value, wait_queue, wakeup_flags, state_sema, stage>>
        /\ at' = [at EXCEPT ![i] = "asleep"]
    BY <1>2 DEF Exit, PhilAt, Goto, sem_vars, own_vars
  <2>2. (at \in [Proc -> At])' /\ \A p \in Phil : p # i => at'[p] = at[p]
    BY <1>at, <2>1, Sets DEF At
  <2> QED BY <2>1, <2>2, QuietStep DEF Downs
<1>3. CASE WaitReaps \/ WaitSleeps
  <2>1. /\ UNCHANGED <<value, wait_queue, wakeup_flags, state_sema, stage>>
        /\ \E where \in At : at' = [at EXCEPT ![initproc] = where]
    BY <1>3 DEF WaitReaps, WaitSleeps, Goto, sem_vars, own_vars, At
  <2>2. (at \in [Proc -> At])' /\ \A p \in Phil : at'[p] = at[p]
    BY <1>at, <2>1, ProcIsPhil
  <2> QED BY <2>1, <2>2, QuietStep
<1>4. CASE Reschedule
  <2>1. /\ UNCHANGED <<value, wait_queue, wakeup_flags, state_sema, stage>>
        /\ at' = at \/ (at[current] = "asleep" /\ at' = [at EXCEPT ![current] = "back"])
    BY <1>4 DEF Reschedule, Goto, sem_vars, own_vars
  <2>2. (at \in [Proc -> At])'
    BY <1>at, <2>1 DEF At
  <2>3. \A p \in Phil : at'[p] = at[p] \/ (at[p] = "asleep" /\ at'[p] = "back")
    BY <1>at, <2>1, Sets
  <2> QED BY <2>1, <2>2, <2>3, QuietStep
<1>5. CASE Tick \/ UNCHANGED vars
  <2>1. UNCHANGED <<value, wait_queue, wakeup_flags, state_sema, stage, at>>
    BY <1>5 DEF Tick, vars, sem_vars, own_vars
  <2> QED BY <1>at, <2>1, QuietStep
<1>6. ASSUME NEW i \in Phil,
             SleepReturns(i) \/ DownTakes(i) \/ DownWaits(i) \/ DownReturns(i)
      PROVE  TableInv'
  BY <1>6, SleepReturnsStep, DownTakesStep, DownWaitsStep, DownReturnsStep
<1>7. ASSUME NEW i \in Phil,
             Hungry(i) \/ Leave(i) \/ TestLeft(i) \/ TestRight(i) \/ LoopEnd(i)
      PROVE  TableInv'
  BY <1>7, HungryStep, UpMutexStep, TestLeftStep, TestRightStep
<1> QED BY <1>1, <1>2, <1>3, <1>4, <1>5, <1>6, <1>7 DEF Next, HartStep

LEMMA TableAlways == Spec => []TableInv
BY TableInit, TableNext, PTL DEF Spec

(* However many philosophers there are, and however ticks, wakeups and     *)
(* context switches fall, two neighbours never eat at the same time, and   *)
(* state_sema and the semaphores of the philosophers always agree.         *)
THEOREM NeighboursNeverEatTogether == Spec => []NeighboursNeverEat
<1>1. TableInv => NeighboursNeverEat
  <2> SUFFICES ASSUME TableInv PROVE NeighboursNeverEat
    OBVIOUS
  <2>1. \A i \in Phil : AtTable(i) => state_sema[i] = "EATING"
    <3> SUFFICES ASSUME NEW i \in Phil, AtTable(i), state_sema[i] # "EATING" PROVE FALSE
      OBVIOUS
    <3>1. value[i] \in Nat /\ Invited(i) = 0
      BY Sets DEF TableInv, InvitedOnce, TableTypeOK, SemTypeOK
    <3> QED BY <3>1 DEF Invited
  <2> QED BY <2>1, Neighbours DEF TableInv, InvitedOnce, Manners, NeighboursNeverEat
<1> QED BY <1>1, TableAlways, PTL

(* When nobody is between its two tests, a hungry philosopher has a        *)
(* neighbour that eats: no phi_test_sema that could start a meal is left   *)
(* out.                                                                    *)
THEOREM NobodyForgottenEver == Spec => []NobodyForgotten
<1>1. TableInv => NobodyForgotten
  BY Neighbours DEF TableInv, HungryWaitsFor, Fed, NobodyForgotten, PuttingBack
<1> QED BY <1>1, TableAlways, PTL

(* Semaphore values, wait queues and the philosophers' own variables keep  *)
(* their types: no value goes below zero.                                  *)
THEOREM TableTypeCorrect == Spec => []TableTypeOK
<1>1. TableInv => TableTypeOK
  BY DEF TableInv
<1> QED BY <1>1, TableAlways, PTL
=============================================================================
