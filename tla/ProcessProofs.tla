--------------------------- MODULE ProcessProofs ---------------------------
(***************************************************************************)
(* Proofs about Process for any number of processes: what the pointers of  *)
(* the process tree look like between any two steps of fork, exit and      *)
(* wait, and that no exit is missed.                                       *)
(***************************************************************************)
EXTENDS Process, KSchedProofs, FiniteSetTheorems

-----------------------------------------------------------------------------
(* The tree of the processes A, as the pointers par, cp, op, yp show it.   *)
TreeTypes(par, cp, op, yp) ==
    /\ par \in [Proc -> Task \cup {NoProc}]
    /\ cp \in [Task -> Link] /\ op \in [Proc -> Link] /\ yp \in [Proc -> Link]

Kids(A, par, p) == {c \in A : par[c] = p}

Parents(A, par) == \A c \in A : par[c] \in A \cup {idleproc}

(* cptr is a child that is nobody's older sibling, if there is a child.    *)
FirstChild(A, par, cp, op) ==
    \A p \in Task :
        /\ cp[p] = NoProc => Kids(A, par, p) = {}
        /\ cp[p] # NoProc => cp[p] \in A /\ par[cp[p]] = p /\ \A o \in A : op[o] # cp[p]

(* optr leads to a sibling, yptr leads back, and everybody but a first     *)
(* child is somebody's older sibling.                                      *)
Siblings(A, par, cp, op, yp) ==
    \A c \in A :
        /\ yp[c] \in A \cup {NoProc}
        /\ op[c] # NoProc => op[c] \in A /\ par[op[c]] = par[c] /\ yp[op[c]] = c
        /\ cp[par[c]] = c \/ \E o \in A : op[o] = c

(* The first child has no younger sibling, unless its parent g is giving   *)
(* its children away.                                                      *)
Youngest(cp, yp, g) == \A p \in Task : p # g /\ cp[p] # NoProc => yp[cp[p]] = NoProc

(* The chains of siblings end, on either side, and so do those of parents, *)
(* in initproc.                                                            *)
Falls(op, rank) == \A c \in Proc : op[c] # NoProc => rank[op[c]] < rank[c]
Ranked(op) == \E R \in Nat : \E rank \in [Proc -> 0 .. R] : Falls(op, rank)

Rises(A, par, depth) ==
    /\ depth[initproc] = 0
    /\ \A c \in A \ {initproc} : par[c] \in Proc /\ depth[par[c]] < depth[c]
Rooted(A, par) ==
    /\ initproc \in A /\ par[initproc] = idleproc
    /\ \E depth \in [Proc -> Nat] : Rises(A, par, depth)

Tree(A, par, cp, op, yp) ==
    /\ TreeTypes(par, cp, op, yp) /\ A \subseteq Proc
    /\ Parents(A, par) /\ FirstChild(A, par, cp, op) /\ Siblings(A, par, cp, op, yp)
    /\ \A p \in Proc \ A : op[p] = NoProc
    /\ Ranked(op) /\ Rooted(A, par)

-----------------------------------------------------------------------------
(* The inductive invariant. *)
Alive == {p \in Proc : ~Free(p)}

Giver == IF Giving THEN current ELSE NoProc

(* Where a process is tells its state. *)
StatesTell ==
    \A p \in Proc :
        /\ wait_state[p] = IF pstate[p] = "SLEEPING" THEN "WT_CHILD" ELSE "none"
        /\ pstate[p] = "ZOMBIE" <=> at[p] \in {"exit", "orphans", "gone"}
        /\ pstate[p] = "SLEEPING" => at[p] \in {"waiting", "woken"}
        /\ pstate[p] = "UNINIT" => at[p] = "user" /\ p # current
        /\ at[p] = "waiting" => pstate[p] = "SLEEPING"

(* Who is not on the hart is in user mode, or in the schedule() of do_wait *)
(* or do_exit, or is initproc between two of its do_waits.                 *)
Places ==
    /\ \A p \in Proc : p # current => at[p] \in {"user", "woken", "gone", "wait"}
    /\ current \in Proc => at[current] # "gone"
    /\ current \in Proc /\ at[current] = "woken" => pstate[current] = "RUNNABLE"
    /\ at[initproc] \in {"wait", "waiting", "woken", "reaped", "end"}
    /\ \A u \in User : at[u] \notin {"reaped", "end"} /\ (u # current => at[u] # "wait")

Counted == IsFiniteSet(Alive) /\ nr_process = 1 + Cardinality(Alive)

GoneHaveNone == \A p \in Proc : at[p] = "gone" => cptr[p] = NoProc

InitAlone == at[initproc] = "end" => Alive = {initproc} /\ cptr[initproc] = NoProc

ProcInv ==
    /\ TypeOK /\ RunQueueExact
    /\ StatesTell /\ Places /\ pstate[idleproc] = "RUNNABLE"
    /\ waits_for[initproc] = AnyChild
    /\ Tree(Alive, parent, cptr, optr, yptr) /\ Youngest(cptr, yptr, Giver)
    /\ Counted /\ GoneHaveNone /\ NoExitMissed /\ InitAlone
-----------------------------------------------------------------------------
(* The chains of siblings. *)
LEMMA NoProcIsNone == NoProc \notin Proc /\ NoProc # idleproc /\ idleproc \notin Proc /\ initproc \in Proc
BY NoProcAssumption, IdleAssumption, InitprocAssumption DEF Task

LEMMA RankInsert ==
    ASSUME NEW op \in [Proc -> Link], NEW op1, Ranked(op), NEW c \in Proc, NEW k \in Link, k # c,
           \A o \in Proc : op[o] # c,
           \A x \in Proc : op1[x] = IF x = c THEN k ELSE op[x]
    PROVE  Ranked(op1)
<1>0. PICK R \in Nat : \E rank \in [Proc -> 0 .. R] : Falls(op, rank)
  BY DEF Ranked
<1>1. PICK rank \in [Proc -> 0 .. R] : Falls(op, rank)
  BY <1>0
<1> DEFINE rank1 == [x \in Proc |-> IF x = c THEN R + 1 ELSE rank[x]]
<1>2. R + 1 \in Nat /\ rank1 \in [Proc -> 0 .. R + 1]
  BY <1>1
<1>3. ASSUME NEW x \in Proc, op1[x] # NoProc PROVE rank1[op1[x]] < rank1[x]
  <2>1. CASE x = c
    BY <1>1, <1>3, <2>1 DEF Link
  <2>2. CASE x # c
    <3>1. op[x] \in Proc /\ op1[x] = op[x] /\ op[x] # c
      BY <1>3, <2>2 DEF Link
    <3>2. rank[op[x]] < rank[x]
      BY <1>1, <1>3, <3>1 DEF Falls
    <3>3. rank1[x] = rank[x] /\ rank1[op1[x]] = rank[op[x]]
      BY <2>2, <3>1
    <3> QED BY <3>2, <3>3
  <2> QED BY <2>1, <2>2
<1> HIDE DEF rank1
<1> QED BY <1>2, <1>3 DEF Ranked, Falls

LEMMA RankRemove ==
    ASSUME NEW op \in [Proc -> Link], NEW op1, Ranked(op), NEW c \in Proc, NEW y \in Link,
           y # NoProc => op[y] = c,
           \A x \in Proc : op1[x] = IF x = c THEN NoProc ELSE IF x = y THEN op[c] ELSE op[x]
    PROVE  Ranked(op1)
<1>0. PICK R \in Nat : \E rank \in [Proc -> 0 .. R] : Falls(op, rank)
  BY DEF Ranked
<1>1. PICK rank \in [Proc -> 0 .. R] : Falls(op, rank)
  BY <1>0
<1>2. ASSUME NEW x \in Proc, op1[x] # NoProc PROVE rank[op1[x]] < rank[x]
  <2>1. CASE x = y
    <3>1. x # c /\ op[x] = c /\ op1[x] = op[c]
      BY <1>2, <2>1, NoProcIsNone
    <3>2. rank[c] < rank[x] /\ rank[op[c]] < rank[c] /\ op[c] \in Proc
      BY <1>1, <1>2, <3>1, NoProcIsNone DEF Falls, Link
    <3> QED BY <1>1, <3>1, <3>2
  <2>2. CASE x # y
    <3>1. op1[x] = op[x]
      BY <1>2, <2>2
    <3> QED BY <1>1, <1>2, <3>1 DEF Falls
  <2> QED BY <2>1, <2>2
<1> QED BY <1>1, <1>2 DEF Ranked, Falls

LEMMA NotOwnElder ==
    ASSUME NEW op \in [Proc -> Link], Ranked(op), NEW c \in Proc
    PROVE  op[c] # c
<1>0. PICK R \in Nat : \E rank \in [Proc -> 0 .. R] : Falls(op, rank)
  BY DEF Ranked
<1>1. PICK rank \in [Proc -> 0 .. R] : Falls(op, rank)
  BY <1>0
<1>2. op[c] = c => rank[c] < rank[c] /\ rank[c] \in 0 .. R
  BY <1>1, NoProcIsNone DEF Falls
<1> QED BY <1>2

(* From cptr through optr one meets every child. *)
LEMMA Reached ==
    ASSUME NEW A, NEW par, NEW cp, NEW op, NEW yp, Tree(A, par, cp, op, yp),
           NEW p \in Task, NEW S, cp[p] # NoProc => cp[p] \in S,
           \A c \in Kids(A, par, p) : c \in S /\ op[c] # NoProc => op[c] \in S
    PROVE  Kids(A, par, p) \subseteq S
<1>0. PICK R \in Nat : \E rank \in [Proc -> 0 .. R] : Falls(op, rank)
  BY DEF Tree, Ranked
<1>1. PICK rank \in [Proc -> 0 .. R] : Falls(op, rank)
  BY <1>0
<1> DEFINE T == Kids(A, par, p) \ S
           M == {R - rank[c] : c \in T}
<1>2. SUFFICES ASSUME T # {} PROVE FALSE
  OBVIOUS
<1>3. A \subseteq Proc /\ T \subseteq A
  BY DEF Tree, Kids
<1>4. M \in SUBSET Int /\ 0 \in Int /\ (\A m \in M : 0 <= m) /\ M # {}
  BY <1>1, <1>2, <1>3
<1> HIDE DEF M
<1>5. PICK m \in M : \A n \in M : m <= n
  BY <1>4, Least
<1>6. PICK c \in T : m = R - rank[c]
  BY DEF M
<1>7. c \in A /\ par[c] = p /\ c \notin S /\ c \in Proc
  BY <1>3 DEF Kids
<1>8. cp[p] # c
  BY <1>7, NoProcIsNone
<1>9. PICK o \in A : op[o] = c
  BY <1>7, <1>8 DEF Tree, Siblings
<1>10. o \in Kids(A, par, p) /\ o \in Proc /\ rank[c] < rank[o]
  BY <1>1, <1>3, <1>7, <1>9, NoProcIsNone DEF Tree, Siblings, Kids, Falls
<1>11. o \in T
  BY <1>7, <1>9, <1>10, NoProcIsNone
<1>12. R - rank[o] \in M
  BY <1>11 DEF M
<1> QED BY <1>1, <1>5, <1>6, <1>7, <1>10, <1>12
-----------------------------------------------------------------------------
(* What fork, exit and wait do to the tree. *)

(* set_links: a new youngest child. *)
Linked(c, p, par, cp, op, yp, par1, cp1, op1, yp1) ==
    /\ TreeTypes(par1, cp1, op1, yp1)
    /\ \A x \in Proc : par1[x] = IF x = c THEN p ELSE par[x]
    /\ \A x \in Proc : op1[x] = IF x = c THEN cp[p] ELSE op[x]
    /\ \A x \in Proc : yp1[x] = IF x = c THEN NoProc ELSE IF x = cp[p] THEN c ELSE yp[x]
    /\ \A x \in Task : cp1[x] = IF x = c THEN NoProc ELSE IF x = p THEN c ELSE cp[x]

LEMMA ChildAdded ==
    ASSUME NEW A, NEW par, NEW cp, NEW op, NEW yp, Tree(A, par, cp, op, yp),
           NEW c \in Proc, c \notin A, NEW p \in A,
           NEW par1, NEW cp1, NEW op1, NEW yp1,
           Linked(c, p, par, cp, op, yp, par1, cp1, op1, yp1)
    PROVE  /\ Tree(A \cup {c}, par1, cp1, op1, yp1)
           /\ Youngest(cp, yp, NoProc) => Youngest(cp1, yp1, NoProc)
<1> USE DEF Linked
<1> DEFINE B == A \cup {c}
<1>1. /\ A \subseteq Proc /\ p \in Task /\ p \in Proc /\ c \in Task /\ p # c /\ idleproc # c
      /\ TreeTypes(par, cp, op, yp)
  BY NoProcIsNone DEF Tree, Task
<1>2. /\ cp[p] # c /\ cp[p] \in Link
      /\ cp[p] # NoProc => cp[p] \in A /\ par[cp[p]] = p /\ \A o \in A : op[o] # cp[p]
      /\ cp[p] = NoProc => Kids(A, par, p) = {}
  BY <1>1, NoProcIsNone DEF Tree, FirstChild, TreeTypes
<1>3. \A o \in Proc : op[o] # c
  BY <1>1, NoProcIsNone DEF Tree, Siblings
<1>4. Parents(B, par1)
  BY <1>1 DEF Tree, Parents
<1>5. FirstChild(B, par1, cp1, op1)
  <2>1. ASSUME NEW q \in Task, cp1[q] = NoProc PROVE Kids(B, par1, q) = {}
    <3>1. q # p
      BY <1>1, <2>1, NoProcIsNone
    <3>2. CASE q = c
      BY <1>1, <3>2 DEF Tree, Parents, Kids
    <3>3. CASE q # c
      <4>1. Kids(A, par, q) = {}
        BY <2>1, <3>1, <3>3 DEF Tree, FirstChild
      <4> QED BY <1>1, <3>1, <3>3, <4>1 DEF Kids
    <3> QED BY <3>2, <3>3
  <2>2. ASSUME NEW q \in Task, cp1[q] # NoProc
        PROVE  cp1[q] \in B /\ par1[cp1[q]] = q /\ \A o \in B : op1[o] # cp1[q]
    <3>1. q # c
      BY <2>2
    <3>2. CASE q = p
      BY <1>1, <1>2, <1>3, <3>1, <3>2
    <3>3. CASE q # p
      <4>1. /\ cp1[q] = cp[q] /\ cp[q] \in A /\ par[cp[q]] = q
            /\ \A o \in A : op[o] # cp[q]
        BY <2>2, <3>1, <3>3 DEF Tree, FirstChild
      <4>2. cp[p] # cp[q]
        BY <1>1, NoProcIsNone, <1>2, <3>3, <4>1
      <4> QED BY <1>1, <4>1, <4>2
    <3> QED BY <3>2, <3>3
  <2> QED BY <2>1, <2>2 DEF FirstChild
<1>6. Siblings(B, par1, cp1, op1, yp1)
  <2>1. ASSUME NEW x \in B PROVE yp1[x] \in B \cup {NoProc}
    BY <1>1 DEF Tree, Siblings
  <2>2. ASSUME NEW x \in B, op1[x] # NoProc
        PROVE  op1[x] \in B /\ par1[op1[x]] = par1[x] /\ yp1[op1[x]] = x
    <3>1. CASE x = c
      BY <1>1, <1>2, <2>2, <3>1
    <3>2. CASE x # c
      <4>1. op1[x] = op[x] /\ op[x] \in A /\ par[op[x]] = par[x] /\ yp[op[x]] = x
        BY <1>1, <2>2, <3>2 DEF Tree, Siblings
      <4>2. op[x] # cp[p]
        BY <1>1, NoProcIsNone, <1>2, <3>2, <4>1
      <4> QED BY <1>1, <3>2, <4>1, <4>2
    <3> QED BY <3>1, <3>2
  <2>3. ASSUME NEW x \in B PROVE cp1[par1[x]] = x \/ \E o \in B : op1[o] = x
    <3>1. CASE x = c
      BY <1>1, <3>1
    <3>2. CASE x # c /\ x = cp[p]
      BY <1>1, <3>2
    <3>3. CASE x # c /\ x # cp[p]
      <4>1. x \in A /\ x \in Proc /\ par1[x] = par[x] /\ par[x] \in Task
        BY <1>1, <3>3 DEF Tree, Parents, Task
      <4>2. cp[par[x]] = x \/ \E o \in A : op[o] = x
        BY <4>1 DEF Tree, Siblings
      <4>3. CASE cp[par[x]] = x
        <5>1. par[x] # p /\ par[x] # c
          BY <1>1, <3>3, <4>1, <4>3 DEF Tree, Parents
        <5> QED BY <4>1, <4>3, <5>1
      <4>4. CASE \E o \in A : op[o] = x
        BY <1>1, <4>4
      <4> QED BY <4>2, <4>3, <4>4
    <3> QED BY <3>1, <3>2, <3>3
  <2> QED BY <2>1, <2>2, <2>3 DEF Siblings
<1>7. \A x \in Proc \ B : op1[x] = NoProc
  BY DEF Tree
<1>8. Ranked(op1)
  <2>1. op \in [Proc -> Link] /\ Ranked(op)
    BY <1>1 DEF Tree, TreeTypes
  <2> QED BY <1>2, <1>3, <2>1, RankInsert
<1>9. Rooted(B, par1)
  <2>1. PICK depth \in [Proc -> Nat] : Rises(A, par, depth)
    BY DEF Tree, Rooted
  <2> DEFINE deeper == [x \in Proc |-> IF x = c THEN depth[p] + 1 ELSE depth[x]]
  <2>2. initproc \in A /\ par[initproc] = idleproc /\ initproc # c /\ initproc \in Proc
    BY <1>1 DEF Tree, Rooted
  <2>3. deeper \in [Proc -> Nat] /\ deeper[initproc] = 0
    BY <1>1, <2>1, <2>2 DEF Rises
  <2>4. ASSUME NEW x \in B \ {initproc}
        PROVE  par1[x] \in Proc /\ deeper[par1[x]] < deeper[x]
    <3>1. CASE x = c
      BY <1>1, <3>1
    <3>2. CASE x # c
      <4>1. x \in A /\ x \in Proc /\ par[x] \in Proc /\ depth[par[x]] < depth[x]
        BY <1>1, <2>1, <2>4, <3>2 DEF Rises
      <4>2. par[x] # c
        BY <1>1, <4>1 DEF Tree, Parents
      <4> QED BY <3>2, <4>1, <4>2
    <3> QED BY <3>1, <3>2
  <2> HIDE DEF deeper
  <2>5. Rises(B, par1, deeper)
    BY <2>3, <2>4 DEF Rises
  <2> QED BY <2>2, <2>3, <2>5 DEF Rooted
<1>10. Youngest(cp, yp, NoProc) => Youngest(cp1, yp1, NoProc)
  <2> SUFFICES ASSUME Youngest(cp, yp, NoProc), NEW q \in Task, cp1[q] # NoProc
               PROVE  yp1[cp1[q]] = NoProc
    BY DEF Youngest
  <2>1. CASE q = p
    BY <1>1, <2>1
  <2>2. CASE q # p
    <3>1. q # c /\ cp1[q] = cp[q]
      BY <2>2
    <3>2. cp[q] \in A /\ par[cp[q]] = q /\ yp[cp[q]] = NoProc
      BY <3>1, NoProcIsNone, <1>1 DEF Youngest, Tree, FirstChild, Task
    <3>3. cp[q] # c /\ cp[q] # cp[p] /\ cp[q] \in Proc
      BY <1>1, <1>2, <2>2, <3>2
    <3> QED BY <3>1, <3>2, <3>3
  <2> QED BY <2>1, <2>2
<1>11. B \subseteq Proc
  BY <1>1
<1> QED BY <1>4, <1>5, <1>6, <1>7, <1>8, <1>9, <1>10, <1>11 DEF Tree

(* One round of do_exit's loop: its first child becomes initproc's.        *)
LEMMA ChildGiven ==
    ASSUME NEW A, NEW par, NEW cp, NEW op, NEW yp, Tree(A, par, cp, op, yp),
           NEW g \in A \ {initproc}, NEW c, c = cp[g], c # NoProc,
           NEW par1, NEW cp1, NEW op1, NEW yp1, TreeTypes(par1, cp1, op1, yp1),
           \A x \in Proc : par1[x] = IF x = c THEN initproc ELSE par[x],
           \A x \in Proc : op1[x] = IF x = c THEN cp[initproc] ELSE op[x],
           \A x \in Proc : yp1[x] = IF x = c THEN NoProc ELSE IF x = cp[initproc] THEN c ELSE yp[x],
           \A x \in Task : cp1[x] = IF x = initproc THEN c ELSE IF x = g THEN op[c] ELSE cp[x]
    PROVE  /\ Tree(A, par1, cp1, op1, yp1)
           /\ Youngest(cp, yp, g) => Youngest(cp1, yp1, g)
           /\ c \in A /\ par[c] = g /\ c # initproc
<1> DEFINE i == initproc
<1>1. /\ A \subseteq Proc /\ g \in Task /\ g \in Proc /\ i \in A /\ i \in Task /\ par[i] = idleproc
      /\ TreeTypes(par, cp, op, yp) /\ g # i /\ g # idleproc /\ i # idleproc
  BY NoProcIsNone DEF Tree, Task, Rooted
<1>2. c \in A /\ c \in Proc /\ par[c] = g /\ c # i /\ \A o \in A : op[o] # c
  BY <1>1 DEF Tree, FirstChild
<1>3. \A o \in Proc : op[o] # c
  BY <1>1, <1>2, NoProcIsNone DEF Tree
<1>4. /\ cp[i] # c /\ cp[i] \in Link
      /\ cp[i] # NoProc => cp[i] \in A /\ par[cp[i]] = i /\ \A o \in A : op[o] # cp[i]
  BY <1>1, <1>2 DEF Tree, FirstChild, TreeTypes
<1>5. Parents(A, par1)
  BY <1>1 DEF Tree, Parents
<1>6. op[c] # NoProc => op[c] \in A /\ par[op[c]] = g /\ yp[op[c]] = c /\ op[c] # c
  BY <1>2, <1>3 DEF Tree, Siblings
<1>7. FirstChild(A, par1, cp1, op1)
  <2>1. ASSUME NEW q \in Task, cp1[q] = NoProc PROVE Kids(A, par1, q) = {}
    <3>1. q # i
      BY <2>1
    <3>2. CASE q = g
      <4>1. op[c] = NoProc
        BY <1>1, <2>1, <3>2
      <4>2. Kids(A, par, g) \subseteq {c}
        BY <1>1, <4>1, Reached
      <4> QED BY <1>1, <3>2, <4>2 DEF Kids
    <3>3. CASE q # g
      <4>1. Kids(A, par, q) = {}
        BY <2>1, <3>1, <3>3 DEF Tree, FirstChild
      <4> QED BY <1>1, <3>1, <4>1 DEF Kids
    <3> QED BY <3>2, <3>3
  <2>2. ASSUME NEW q \in Task, cp1[q] # NoProc
        PROVE  cp1[q] \in A /\ par1[cp1[q]] = q /\ \A o \in A : op1[o] # cp1[q]
    <3>1. CASE q = i
      BY <1>1, <1>2, <1>3, <1>4, <3>1
    <3>2. CASE q = g
      <4>1. cp1[q] = op[c] /\ op[c] # cp[i]
        BY <1>1, <1>2, <1>4, <2>2, <3>2
      <4>2. \A o \in A : op1[o] # op[c]
        <5> SUFFICES ASSUME NEW o \in A, op1[o] = op[c] PROVE FALSE
          OBVIOUS
        <5>1. o # c /\ op[o] = op[c]
          BY <1>1, <4>1
        <5>2. yp[op[c]] = o
          BY <2>2, <4>1, <5>1 DEF Tree, Siblings
        <5> QED BY <1>6, <2>2, <4>1, <5>1, <5>2
      <4> QED BY <1>1, <1>6, <2>2, <3>2, <4>1, <4>2
    <3>3. CASE q # g /\ q # i
      <4>1. /\ cp1[q] = cp[q] /\ cp[q] \in A /\ par[cp[q]] = q
            /\ \A o \in A : op[o] # cp[q]
        BY <2>2, <3>3 DEF Tree, FirstChild
      <4>2. cp[i] # cp[q] /\ cp[q] # c
        BY <1>1, NoProcIsNone, <1>2, <1>4, <3>3, <4>1
      <4> QED BY <1>1, <4>1, <4>2
    <3> QED BY <3>1, <3>2, <3>3
  <2> QED BY <2>1, <2>2 DEF FirstChild
<1>8. Siblings(A, par1, cp1, op1, yp1)
  <2>1. ASSUME NEW x \in A PROVE yp1[x] \in A \cup {NoProc}
    BY <1>1, <1>2 DEF Tree, Siblings
  <2>2. ASSUME NEW x \in A, op1[x] # NoProc
        PROVE  op1[x] \in A /\ par1[op1[x]] = par1[x] /\ yp1[op1[x]] = x
    <3>1. CASE x = c
      BY <1>1, <1>4, <2>2, <3>1
    <3>2. CASE x # c
      <4>1. op1[x] = op[x] /\ op[x] \in A /\ par[op[x]] = par[x] /\ yp[op[x]] = x
        BY <1>1, <2>2, <3>2 DEF Tree, Siblings
      <4>2. op[x] # cp[i] /\ op[x] # c
        BY <1>3, <1>1, NoProcIsNone, <1>4, <4>1
      <4> QED BY <1>1, <3>2, <4>1, <4>2
    <3> QED BY <3>1, <3>2
  <2>3. ASSUME NEW x \in A PROVE cp1[par1[x]] = x \/ \E o \in A : op1[o] = x
    <3>1. CASE x = c
      BY <1>1, <3>1
    <3>2. CASE x # c /\ x = cp[i]
      BY <1>1, <1>2, <3>2
    <3>3. CASE x # c /\ x # cp[i] /\ x = op[c]
      BY <1>1, <1>6, <3>3, NoProcIsNone
    <3>4. CASE x # c /\ x # cp[i] /\ x # op[c]
      <4>1. x \in Proc /\ par1[x] = par[x] /\ par[x] \in Task
        BY <1>1, <3>4 DEF Tree, Parents, Task
      <4>2. cp[par[x]] = x \/ \E o \in A : op[o] = x
        BY DEF Tree, Siblings
      <4>3. CASE cp[par[x]] = x
        <5>1. par[x] # i /\ par[x] # g
          BY <3>4, <4>3
        <5> QED BY <4>1, <4>3, <5>1
      <4>4. CASE \E o \in A : op[o] = x
        BY <1>1, <3>4, <4>4
      <4> QED BY <4>2, <4>3, <4>4
    <3> QED BY <3>1, <3>2, <3>3, <3>4
  <2> QED BY <2>1, <2>2, <2>3 DEF Siblings
<1>9. \A x \in Proc \ A : op1[x] = NoProc
  BY <1>2 DEF Tree
<1>10. Ranked(op1)
  <2>1. op \in [Proc -> Link] /\ Ranked(op)
    BY <1>1 DEF Tree, TreeTypes
  <2> QED BY <1>2, <1>3, <1>4, <2>1, RankInsert
<1>11. Rooted(A, par1)
  <2>1. PICK depth \in [Proc -> Nat] : Rises(A, par, depth)
    BY DEF Tree, Rooted
  <2>2. ASSUME NEW x \in A \ {i}
        PROVE  par1[x] \in Proc /\ depth[par1[x]] < depth[x]
    <3>1. x \in Proc /\ par[x] \in Proc /\ depth[par[x]] < depth[x]
          /\ depth[x] \in Nat /\ depth[par[x]] \in Nat /\ depth[i] = 0
      BY <1>1, <2>1 DEF Rises
    <3>2. CASE x = c
      BY <1>1, <3>1, <3>2
    <3>3. CASE x # c
      BY <3>1, <3>3
    <3> QED BY <3>2, <3>3
  <2>3. Rises(A, par1, depth)
    BY <2>1, <2>2 DEF Rises
  <2> QED BY <1>1, <1>2, <2>3 DEF Rooted
<1>12. Youngest(cp, yp, g) => Youngest(cp1, yp1, g)
  <2> SUFFICES ASSUME Youngest(cp, yp, g), NEW q \in Task, q # g, cp1[q] # NoProc
               PROVE  yp1[cp1[q]] = NoProc
    BY DEF Youngest
  <2>1. CASE q = i
    BY <1>2, <2>1
  <2>2. CASE q # i
    <3>1. cp1[q] = cp[q]
      BY <2>2
    <3>2. cp[q] \in A /\ par[cp[q]] = q /\ yp[cp[q]] = NoProc
      BY <3>1 DEF Youngest, Tree, FirstChild
    <3>3. cp[q] # c /\ cp[q] # cp[i] /\ cp[q] \in Proc
      BY <1>1, <1>2, <1>4, <2>2, <3>2
    <3> QED BY <3>1, <3>2, <3>3
  <2> QED BY <2>1, <2>2
<1> QED BY <1>1, <1>2, <1>5, <1>7, <1>8, <1>9, <1>10, <1>11, <1>12 DEF Tree

(* remove_links: a child without children of its own. *)
Unlinked(c, par, cp, op, yp, par1, cp1, op1, yp1) ==
    /\ TreeTypes(par1, cp1, op1, yp1)
    /\ \A x \in Proc : par1[x] = IF x = c THEN NoProc ELSE par[x]
    /\ \A x \in Proc : op1[x] = IF x = c THEN NoProc ELSE IF x = yp[c] THEN op[c] ELSE op[x]
    /\ \A x \in Proc : yp1[x] = IF x = c THEN NoProc ELSE IF x = op[c] THEN yp[c] ELSE yp[x]
    /\ \A x \in Task : cp1[x] = IF x = par[c] /\ yp[c] = NoProc THEN op[c] ELSE cp[x]

LEMMA ChildRemoved ==
    ASSUME NEW A, NEW par, NEW cp, NEW op, NEW yp, Tree(A, par, cp, op, yp),
           Youngest(cp, yp, NoProc),
           NEW c \in A, c # initproc, cp[c] = NoProc,
           NEW par1, NEW cp1, NEW op1, NEW yp1,
           Unlinked(c, par, cp, op, yp, par1, cp1, op1, yp1)
    PROVE  /\ Tree(A \ {c}, par1, cp1, op1, yp1)
           /\ Youngest(cp1, yp1, NoProc)
           /\ \A q \in Task : cp1[q] # c
           /\ \A q \in A \ {c} : par1[q] # c /\ op1[q] # c /\ yp1[q] # c
<1> USE DEF Unlinked
<1> DEFINE B == A \ {c}
           p == par[c]
           y == yp[c]
<1>1. /\ A \subseteq Proc /\ c \in Proc /\ c \in Task /\ c # initproc /\ initproc \in A
      /\ par[initproc] = idleproc /\ TreeTypes(par, cp, op, yp) /\ idleproc # c
  BY NoProcIsNone DEF Tree, Task, Rooted
<1>2. Kids(A, par, c) = {} /\ \A q \in A : par[q] # c
  BY <1>1 DEF Tree, FirstChild, Kids
<1>3. p \in A \cup {idleproc} /\ p \in Task /\ p # c
  BY <1>1, <1>2 DEF Tree, Parents, Task
<1>4. /\ y \in A \cup {NoProc}
      /\ op[c] # NoProc => op[c] \in A /\ par[op[c]] = p /\ yp[op[c]] = c
      /\ op[c] # c /\ op[c] \in Link
  BY <1>1, NotOwnElder DEF Tree, Siblings, TreeTypes
(* Either c is the first child, or yptr leads to the one before it.        *)
<1>5. ASSUME NEW x \in A PROVE \/ cp[par[x]] = x /\ yp[x] = NoProc
                               \/ yp[x] \in A /\ op[yp[x]] = x /\ par[yp[x]] = par[x]
  <2>1. cp[par[x]] = x \/ \E o \in A : op[o] = x
    BY DEF Tree, Siblings
  <2>2. x # NoProc /\ par[x] \in Task /\ par[x] # NoProc
    BY <1>1, NoProcIsNone DEF Tree, Parents, Task
  <2>3. CASE cp[par[x]] = x
    BY <2>2, <2>3 DEF Youngest
  <2>4. CASE \E o \in A : op[o] = x
    BY <2>2, <2>4 DEF Tree, Siblings
  <2> QED BY <2>1, <2>3, <2>4
<1>6. \A o \in A : op[o] = c => o = y
  BY <1>1, NoProcIsNone DEF Tree, Siblings
<1>7. y # c
  BY <1>1, <1>4, <1>5, NoProcIsNone
<1>8. \A x \in A : yp[x] = c => x = op[c]
  BY <1>1, <1>5, NoProcIsNone
<1>9. Parents(B, par1)
  BY <1>1, <1>2 DEF Tree, Parents
<1>10. ASSUME NEW q \in Task, cp1[q] = NoProc PROVE Kids(B, par1, q) = {}
  <2>1. CASE q = p /\ y = NoProc
    <3>1. op[c] = NoProc /\ cp[p] = c
      BY <1>1, <1>5, <1>10, <2>1, NoProcIsNone
    <3>2. Kids(A, par, p) \subseteq {c}
      <4>1. cp[p] \in {c} /\ \A d \in Kids(A, par, p) : d \in {c} /\ op[d] # NoProc => op[d] \in {c}
        BY <3>1
      <4> HIDE DEF p
      <4> QED BY <1>3, <4>1, Reached
    <3> QED BY <1>1, <2>1, <3>2 DEF Kids
  <2>2. CASE ~ (q = p /\ y = NoProc)
    <3>1. cp[q] = NoProc
      BY <1>10, <2>2
    <3>2. Kids(A, par, q) = {}
      BY <3>1 DEF Tree, FirstChild
    <3> QED BY <1>1, <3>2 DEF Kids
  <2> QED BY <2>1, <2>2
<1>11. ASSUME NEW q \in Task, cp1[q] # NoProc
       PROVE  cp1[q] \in B /\ par1[cp1[q]] = q /\ \A o \in B : op1[o] # cp1[q]
  <2>1. CASE q = p /\ y = NoProc
    <3>1. cp1[q] = op[c] /\ op[c] \in B /\ par1[op[c]] = p
      BY <1>1, <1>4, <1>11, <2>1
    <3>2. \A o \in B : op1[o] # op[c]
      <4> SUFFICES ASSUME NEW o \in B, op1[o] = op[c] PROVE FALSE
        OBVIOUS
      <4>1. o # y /\ o \in Proc /\ o # c
        BY <1>1, <2>1, NoProcIsNone
      <4>2. op[o] = op[c]
        BY <4>1
      <4>3. yp[op[c]] = o
        BY <1>11, <3>1, <4>2 DEF Tree, Siblings
      <4> QED BY <1>4, <1>11, <3>1, <4>1, <4>3
    <3> QED BY <2>1, <3>1, <3>2
  <2>2. CASE ~ (q = p /\ y = NoProc)
    <3>1. /\ cp1[q] = cp[q] /\ cp[q] \in A /\ par[cp[q]] = q
          /\ \A o \in A : op[o] # cp[q]
      BY <1>11, <2>2 DEF Tree, FirstChild
    <3>2. cp[q] # c
      <4>1. q # NoProc
        BY NoProcIsNone DEF Task
      <4>2. yp[cp[q]] = NoProc
        BY <1>11, <3>1, <4>1 DEF Youngest
      <4> QED BY <2>2, <3>1, <4>2
    <3> QED BY <1>1, <3>1, <3>2
  <2> QED BY <2>1, <2>2
<1>12. FirstChild(B, par1, cp1, op1)
  BY <1>10, <1>11 DEF FirstChild
<1>13. Siblings(B, par1, cp1, op1, yp1)
  <2>1. ASSUME NEW x \in B PROVE yp1[x] \in B \cup {NoProc}
    <3>1. CASE x = op[c]
      BY <1>1, <1>4, <1>7, <3>1
    <3>2. CASE x # op[c]
      <4>1. yp[x] # c /\ yp[x] \in A \cup {NoProc} /\ yp1[x] = yp[x]
        BY <1>1, <1>8, <3>2 DEF Tree, Siblings
      <4> QED BY <4>1
    <3> QED BY <3>1, <3>2
  <2>2. ASSUME NEW x \in B, op1[x] # NoProc
        PROVE  op1[x] \in B /\ par1[op1[x]] = par1[x] /\ yp1[op1[x]] = x
    <3>1. CASE x = y
      <4>1. op1[x] = op[c] /\ op[c] \in B /\ par[op[c]] = p
        BY <1>1, <1>4, <2>2, <3>1
      <4>2. par[x] = p
        BY <1>1, <1>5, <3>1, NoProcIsNone
      <4> QED BY <1>1, <3>1, <4>1, <4>2
    <3>2. CASE x # y
      <4>1. op1[x] = op[x] /\ op[x] \in A /\ par[op[x]] = par[x] /\ yp[op[x]] = x
        BY <1>1, <2>2, <3>2 DEF Tree, Siblings
      <4>2. op[x] # c /\ op[x] # op[c]
        BY <1>1, <1>4, <1>6, <3>2, <4>1, NoProcIsNone
      <4> QED BY <1>1, <4>1, <4>2
    <3> QED BY <3>1, <3>2
  <2>3. ASSUME NEW x \in B PROVE cp1[par1[x]] = x \/ \E o \in B : op1[o] = x
    <3>1. par1[x] = par[x] /\ par[x] \in Task /\ x # c /\ x \in A /\ x # NoProc
      BY <1>1, NoProcIsNone DEF Tree, Parents, Task
    <3>2. CASE x = op[c]
      <4>1. par[x] = p
        BY <1>4, <3>1, <3>2
      <4>2. CASE y = NoProc
        BY <3>1, <3>2, <4>1, <4>2
      <4>3. CASE y # NoProc
        <5>1. y \in B /\ op1[y] = op[c]
          BY <1>1, <1>4, <1>7, <4>3
        <5> QED BY <3>2, <5>1
      <4> QED BY <4>2, <4>3
    <3>3. CASE x # op[c]
      <4>1. CASE cp[par[x]] = x
        <5>1. ~ (par[x] = p /\ y = NoProc)
          BY <1>1, <1>5, <3>1, <4>1, NoProcIsNone
        <5> QED BY <3>1, <4>1, <5>1
      <4>2. CASE \E o \in A : op[o] = x
        <5>1. PICK o \in A : op[o] = x
          BY <4>2
        <5>2. o # c /\ o # y /\ o \in Proc
          BY <1>1, <1>5, <3>1, <3>3, <5>1, NoProcIsNone
        <5> QED BY <5>1, <5>2
      <4> QED BY <4>1, <4>2 DEF Tree, Siblings
    <3> QED BY <3>2, <3>3
  <2> QED BY <2>1, <2>2, <2>3 DEF Siblings
<1>14. \A x \in Proc \ B : op1[x] = NoProc
  BY <1>1, <1>4, NoProcIsNone DEF Tree
<1>15. Ranked(op1)
  <2>1. op \in [Proc -> Link] /\ Ranked(op) /\ y \in Link
    BY <1>1, <1>4 DEF Tree, TreeTypes, Link
  <2>2. y # NoProc => op[y] = c
    BY <1>5
  <2> QED BY <1>1, <2>1, <2>2, RankRemove
<1>16. Rooted(B, par1)
  <2>1. PICK depth \in [Proc -> Nat] : Rises(A, par, depth)
    BY DEF Tree, Rooted
  <2>2. Rises(B, par1, depth)
    BY <1>1, <2>1 DEF Rises
  <2> QED BY <1>1, <2>2, NoProcIsNone DEF Rooted
<1>17. Youngest(cp1, yp1, NoProc)
  <2> SUFFICES ASSUME NEW q \in Task, cp1[q] # NoProc
               PROVE  yp1[cp1[q]] = NoProc
    BY DEF Youngest
  <2>1. CASE q = p /\ y = NoProc
    BY <1>1, <1>4, <1>11, <2>1
  <2>2. CASE ~ (q = p /\ y = NoProc)
    <3>1. cp1[q] = cp[q] /\ yp[cp[q]] = NoProc
      BY <2>2, NoProcIsNone DEF Youngest, Task
    <3>2. cp[q] # op[c] /\ cp[q] \in Proc /\ cp[q] # c
      BY <1>1, <1>4, <1>11, <3>1, NoProcIsNone
    <3> QED BY <3>1, <3>2
  <2> QED BY <2>1, <2>2
<1>18. \A q \in Task : cp1[q] # c
  BY <1>1, <1>11, NoProcIsNone
<1>19. \A q \in B : par1[q] # c /\ op1[q] # c /\ yp1[q] # c
  BY <1>1, <1>2, <1>13, NoProcIsNone DEF Siblings
<1>20. B \subseteq Proc
  BY <1>1
<1> QED BY <1>9, <1>12, <1>13, <1>14, <1>15, <1>16, <1>17, <1>18, <1>19, <1>20 DEF Tree
-----------------------------------------------------------------------------
(* do_wait's search: the walk along the children ends, at a zombie if and  *)
(* only if there is one among them.                                        *)
LEMMA ZombieFound ==
    ASSUME Tree(Alive, parent, cptr, optr, yptr), NEW p \in Task
    PROVE  /\ YoungestZombie(p) \in Kids(Alive, parent, p) \cup {NoProc}
           /\ YoungestZombie(p) # NoProc => pstate[YoungestZombie(p)] = "ZOMBIE"
           /\ YoungestZombie(p) = NoProc =>
                  \A c \in Kids(Alive, parent, p) : pstate[c] # "ZOMBIE"
<1>0. PICK R \in Nat : \E rank \in [Proc -> 0 .. R] : Falls(optr, rank)
  BY DEF Tree, Ranked
<1>1. PICK rank \in [Proc -> 0 .. R] : Falls(optr, rank)
  BY <1>0
<1> DEFINE Ends(c) == c = NoProc \/ pstate[c] = "ZOMBIE"
           D(k) == {c \in Link : c = NoProc \/ rank[c] <= k}
           Walk(f, dom) == f = [c \in dom |-> IF Ends(c) THEN c ELSE f[optr[c]]]
           S == {k \in Int : \E f : Walk(f, D(k))}
           Here == Kids(Alive, parent, p)
<1>2. /\ -1 \in Int /\ R \in Int /\ R \in -1 .. R
      /\ optr \in [Proc -> Link] /\ cptr \in [Task -> Link] /\ Alive \subseteq Proc
  BY <1>0 DEF Tree, TreeTypes
<1>3. ASSUME NEW k \in -1 + 1 .. R, \E f : Walk(f, D(k - 1))
      PROVE  \E f : Walk(f, D(k))
  <2>1. PICK g : Walk(g, D(k - 1))
    BY <1>3
  <2> DEFINE h == [c \in D(k) |-> IF Ends(c) THEN c ELSE g[optr[c]]]
  <2>2. ASSUME NEW c \in D(k), ~ Ends(c)
        PROVE  optr[c] \in D(k - 1) /\ optr[c] \in D(k)
    <3>1. c \in Proc /\ rank[c] <= k
      BY <2>2 DEF Link
    <3>2. CASE optr[c] = NoProc
      BY <3>2 DEF Link
    <3>3. CASE optr[c] # NoProc
      <4>1. optr[c] \in Proc /\ rank[optr[c]] < rank[c]
        BY <1>1, <1>2, <3>1, <3>3 DEF Falls, Link
      <4> QED BY <1>1, <3>1, <4>1 DEF Link
    <3> QED BY <3>2, <3>3
  <2>3. \A c \in D(k - 1) : c \in D(k) /\ g[c] = IF Ends(c) THEN c ELSE g[optr[c]]
    <3>1. \A c \in D(k - 1) : c \in D(k)
      BY <1>1 DEF Link
    <3>2. \A c \in D(k - 1) : g[c] = IF Ends(c) THEN c ELSE g[optr[c]]
      <4> HIDE DEF D, Ends
      <4> QED BY <2>1
    <3> QED BY <3>1, <3>2
  <2>4. \A c \in D(k - 1) : h[c] = g[c]
    <3> HIDE DEF D, Ends
    <3> QED BY <2>3
  <2>5. Walk(h, D(k))
    <3>1. \A c \in D(k) : ~ Ends(c) => h[optr[c]] = g[optr[c]]
      <4> HIDE DEF D, Ends, h
      <4> QED BY <2>2, <2>4
    <3>2. h = [c \in D(k) |-> IF Ends(c) THEN c ELSE g[optr[c]]]
      OBVIOUS
    <3> HIDE DEF D, Ends, h
    <3> QED BY <3>1, <3>2
  <2> HIDE DEF h, Walk
  <2> QED BY <2>5
<1>4. -1 \in S
  <2> DEFINE f == [c \in D(-1) |-> NoProc]
  <2>1. D(-1) = {NoProc}
    BY <1>1 DEF Link
  <2>2. Walk(f, D(-1))
    <3> HIDE DEF D
    <3> QED BY <2>1
  <2> HIDE DEF f, Walk
  <2>3. \E g : Walk(g, D(-1))
    BY <2>2
  <2> QED BY <1>2, <2>3
<1>5. D(R) = Link
  BY <1>1 DEF Link
<1>6. \E f : Walk(f, Link)
  <2> HIDE DEF Walk, D
  <2>1. \A k \in -1 + 1 .. R : k - 1 \in S => k \in S
    BY <1>2, <1>3
  <2> HIDE DEF S
  <2>2. \A k \in -1 .. R : k \in S
    BY <1>2, <1>4, <2>1, Interval, Zenon
  <2>3. R \in S
    BY <1>2, <2>2
  <2> QED BY <1>5, <2>3 DEF S
<1>7. PICK first : Walk(first, Link) /\ YoungestZombie(p) = first[cptr[p]]
  BY <1>6, Zenon DEF YoungestZombie
<1>8. /\ first[NoProc] = NoProc
      /\ \A c \in Proc : first[c] = IF pstate[c] = "ZOMBIE" THEN c ELSE first[optr[c]]
  BY <1>7, NoProcIsNone DEF Link
<1> HIDE DEF Walk, D, S
<1>9. /\ cptr[p] \in Here \cup {NoProc}
      /\ \A c \in Here : c \in Proc /\ optr[c] \in Here \cup {NoProc}
  BY <1>2, NoProcIsNone DEF Tree, FirstChild, Siblings, Kids
(* The walk stays among the children. *)
<1> DEFINE Fine(z) == z = NoProc \/ (z \in Here /\ pstate[z] = "ZOMBIE")
<1>10. \A c \in Here : Fine(first[c])
  <2> DEFINE T == {c \in Here : ~ Fine(first[c])}
             M == {rank[c] : c \in T}
  <2>1. SUFFICES ASSUME T # {} PROVE FALSE
    OBVIOUS
  <2>2. M \in SUBSET Int /\ 0 \in Int /\ (\A m \in M : 0 <= m) /\ M # {}
    BY <1>1, <1>9, <2>1
  <2> HIDE DEF M
  <2>3. PICK m \in M : \A n \in M : m <= n
    BY <2>2, Least
  <2>4. PICK c \in T : m = rank[c]
    BY DEF M
  <2>5. c \in Here /\ c \in Proc /\ pstate[c] # "ZOMBIE" /\ first[c] = first[optr[c]]
    BY <1>8, <1>9
  <2>6. optr[c] # NoProc /\ optr[c] \in Here /\ ~ Fine(first[optr[c]])
    BY <1>8, <1>9, <2>5
  <2>7. rank[optr[c]] \in M /\ rank[optr[c]] < rank[c]
    BY <1>1, <2>5, <2>6 DEF M, Falls
  <2> QED BY <1>1, <1>9, <2>3, <2>4, <2>5, <2>6, <2>7
<1>11. Fine(first[cptr[p]])
  BY <1>8, <1>9, <1>10
(* If it finds none, it has passed by everybody. *)
<1>12. ASSUME first[cptr[p]] = NoProc PROVE \A c \in Here : pstate[c] # "ZOMBIE"
  <2> DEFINE Passed == {c \in Here : first[c] = NoProc}
  <2>1. cptr[p] # NoProc => cptr[p] \in Passed
    BY <1>9, <1>12
  <2>2. \A c \in Here : c \in Passed /\ optr[c] # NoProc => optr[c] \in Passed
    BY <1>8, <1>9, NoProcIsNone
  <2>3. Here \subseteq Passed
    <3> HIDE DEF Passed
    <3> QED BY <2>1, <2>2, Reached
  <2> QED BY <1>8, <1>9, <2>3, NoProcIsNone
<1> QED BY <1>7, <1>11, <1>12
-----------------------------------------------------------------------------
(* Pieces of the step. *)
LEMMA GotoType ==
    ASSUME TypeOK, current \in Proc, NEW where \in At, Goto(where)
    PROVE  /\ at' \in [Proc -> At] /\ at'[current] = where
           /\ \A p \in Proc : p # current => at'[p] = at[p]
BY DEF TypeOK, Goto

(* The pointers rest while nobody is created or freed. *)
LEMMA TreeRests ==
    ASSUME ProcInv, UNCHANGED tree_vars,
           \A p \in Proc : pstate'[p] = "UNINIT" <=> pstate[p] = "UNINIT",
           Giver = NoProc \/ Giver' = Giver \/ (Giver \in Task /\ cptr[Giver] = NoProc)
    PROVE  /\ Alive' = Alive
           /\ Tree(Alive, parent, cptr, optr, yptr)'
           /\ Youngest(cptr, yptr, Giver)' /\ Counted'
           /\ \A p \in Task : Children(p)' = Children(p)
<1>1. Alive' = Alive
  BY DEF Alive, Free
<1>2. parent' = parent /\ cptr' = cptr /\ optr' = optr /\ yptr' = yptr /\ nr_process' = nr_process
  BY DEF tree_vars
<1>3. Tree(Alive', parent', cptr', optr', yptr')
  BY <1>1, <1>2, Zenon DEF ProcInv
<1>4. Youngest(cptr', yptr', Giver')
  BY <1>2, NoProcIsNone DEF ProcInv, Youngest, Task
<1>5. Counted'
  BY <1>1, <1>2 DEF ProcInv, Counted
<1>6. \A p \in Task : Children(p)' = Children(p)
  BY <1>2 DEF Children, Free
<1> QED BY <1>1, <1>3, <1>4, <1>5, <1>6

(* wakeup_proc of a process that sleeps, which can only be in do_wait.     *)
LEMMA WaiterWoken ==
    ASSUME ProcInv, NEW q \in Proc, wait_state[q] # "none", wakeup_proc(q)
    PROVE  /\ SchedTypeOK' /\ RunQueueExact' /\ current' = current
           /\ pstate[q] = "SLEEPING" /\ wait_state[q] = "WT_CHILD"
           /\ pstate'[idleproc] = pstate[idleproc]
           /\ \A p \in Proc : /\ pstate'[p] = IF p = q THEN "RUNNABLE" ELSE pstate[p]
                              /\ wait_state'[p] = IF p = q THEN "none" ELSE wait_state[p]
<1>1. pstate[q] = "SLEEPING" /\ wait_state[q] = "WT_CHILD" /\ SchedTypeOK /\ RunQueueExact
  BY DEF ProcInv, StatesTell, TypeOK
<1>2. wait_state'[q] = "none"
  BY <1>1 DEF wakeup_proc, SchedTypeOK, Task
<1> QED BY <1>1, <1>2, WakeupType, WakeupQueue, WakeupEffect, NoProcIsNone DEF Task

(* Who is on the hart and not in do_exit, or asleep, can run.              *)
LEMMA OnHart ==
    ASSUME ProcInv, current \in Proc
    PROVE  /\ TypeOK /\ RunQueueExact /\ StatesTell /\ Places /\ NoExitMissed
           /\ current \in Alive /\ current \in Task
           /\ at[current] \notin {"exit", "orphans", "waiting"} => pstate[current] = "RUNNABLE"
           /\ at[current] \in {"exit", "orphans"} <=> pstate[current] = "ZOMBIE"
           /\ at[current] \in {"exit", "orphans", "user", "trapret"} => current \in User
           /\ at[current] \in {"reaped", "end"} => current = initproc
           /\ at[current] \notin {"exit", "orphans"} => Giver = NoProc
           /\ at[current] \in {"exit", "orphans"} => Giver = current
<1>1. TypeOK /\ RunQueueExact /\ StatesTell /\ Places /\ NoExitMissed
  BY DEF ProcInv
<1>2. pstate[current] \in State /\ pstate[current] # "UNINIT"
  BY <1>1 DEF StatesTell, TypeOK, SchedTypeOK, Task
<1>3. current \in Alive /\ current \in Task
  BY <1>2 DEF Alive, Free, Task
<1>4. at[current] \in {"exit", "orphans"} <=> pstate[current] = "ZOMBIE"
  BY <1>1 DEF StatesTell, Places
<1>5. at[current] \notin {"exit", "orphans", "waiting"} => pstate[current] = "RUNNABLE"
  BY <1>1, <1>2, <1>4 DEF StatesTell, Places, State
<1>6. /\ at[current] \in {"exit", "orphans", "user", "trapret"} => current \in User
      /\ at[current] \in {"reaped", "end"} => current = initproc
  BY <1>1 DEF Places, User
<1>7. Giving <=> at[current] \in {"exit", "orphans"}
  BY DEF Giving, Running
<1> QED BY <1>1, <1>3, <1>4, <1>5, <1>6, <1>7 DEF Giver

-----------------------------------------------------------------------------
(* Each action preserves the invariant. *)

(* The steps of the process on the hart that touch neither the scheduler's *)
(* queue nor the tree: a system call begins, fails or returns, do_yield,   *)
(* and the clock.                                                          *)
LEMMA MovesKeep ==
    ASSUME ProcInv, current \in Proc, SchedTypeOK',
           UNCHANGED <<pstate, wait_state, run_list, current, tree_vars, exiting>>,
           waits_for' \in [Proc -> User \cup {AnyChild}],
           \A p \in Proc : p # current \/ p = initproc \/ at[current] # "user" =>
                                waits_for'[p] = waits_for[p],
           at' \in [Proc -> At],
           \A p \in Proc : p # current => at'[p] = at[p],
           \/ current \in User /\ at[current] \in {"user", "wait", "woken", "trapret"}
                               /\ at'[current] \in {"user", "wait", "trapret"}
           \/ at'[current] = at[current] /\ at[current] # "end"
           \/ /\ current = initproc /\ at[current] \in {"wait", "woken"} /\ at'[current] = "end"
              /\ Alive = {initproc} /\ cptr[initproc] = NoProc
    PROVE  ProcInv'
<1>1. /\ TypeOK /\ RunQueueExact /\ StatesTell /\ Places /\ NoExitMissed
      /\ current \in Alive /\ current \in Task
      /\ at[current] \notin {"exit", "orphans", "waiting"} => pstate[current] = "RUNNABLE"
  BY OnHart
<1>2. Giver' = Giver
  <2>1. at'[current] \in {"exit", "orphans"} <=> at[current] \in {"exit", "orphans"}
    OBVIOUS
  <2> QED BY <2>1 DEF Giver, Giving, Running
<1>3. /\ Alive' = Alive
      /\ Tree(Alive, parent, cptr, optr, yptr)'
      /\ Youngest(cptr, yptr, Giver)' /\ Counted'
      /\ \A p \in Task : Children(p)' = Children(p)
  BY <1>2, TreeRests
<1>4. TypeOK'
  BY <1>1 DEF TypeOK, tree_vars
<1>5. RunQueueExact'
  BY <1>1 DEF RunQueueExact
<1>6. StatesTell'
  BY <1>1 DEF StatesTell
<1>7. Places'
  BY <1>1, NoProcIsNone DEF Places, User
<1>8. pstate'[idleproc] = "RUNNABLE" /\ waits_for'[initproc] = AnyChild
  BY NoProcIsNone DEF ProcInv
<1>9. GoneHaveNone'
  BY <1>1 DEF ProcInv, GoneHaveNone, tree_vars
<1>10. InitAlone'
  BY <1>1, <1>3, NoProcIsNone DEF ProcInv, InitAlone, tree_vars, User
<1>11. NoExitMissed'
  <2> SUFFICES ASSUME NEW p \in Proc, wait_state'[p] = "WT_CHILD", NEW c \in Children(p)',
                      pstate'[c] = "ZOMBIE", waits_for'[p] \in {AnyChild, c}
               PROVE  c = current' /\ Running("exit")'
    BY DEF NoExitMissed
  <2>1. c \in Children(p) /\ p \in Task
    BY <1>3 DEF Task
  <2>2. p = current => at[current] # "user"
    BY <1>1 DEF StatesTell
  <2>3. waits_for'[p] = waits_for[p]
    BY <2>2
  <2>4. c = current /\ Running("exit")
    BY <1>1, <2>1, <2>3 DEF NoExitMissed
  <2> QED BY <2>4 DEF Running
<1> QED BY <1>3, <1>4, <1>5, <1>6, <1>7, <1>8, <1>9, <1>10, <1>11 DEF ProcInv
(* If initproc has no child there is nobody else: every chain of parents   *)
(* ends in it.                                                             *)
LEMMA NobodyLeft ==
    ASSUME NEW A, NEW par, A \subseteq Proc, Parents(A, par), Rooted(A, par),
           Kids(A, par, initproc) = {}
    PROVE  A = {initproc}
<1>1. PICK depth \in [Proc -> Nat] : Rises(A, par, depth)
  BY DEF Rooted
<1> DEFINE M == {depth[c] : c \in A \ {initproc}}
<1>2. SUFFICES ASSUME A \ {initproc} # {} PROVE FALSE
  BY DEF Rooted
<1>3. M \in SUBSET Int /\ 0 \in Int /\ (\A m \in M : 0 <= m) /\ M # {}
  BY <1>1, <1>2
<1> HIDE DEF M
<1>4. PICK m \in M : \A n \in M : m <= n
  BY <1>3, Least
<1>5. PICK c \in A \ {initproc} : m = depth[c]
  BY DEF M
<1>6. par[c] \in A \ {initproc} /\ depth[par[c]] < depth[c]
  BY <1>1, <1>5, NoProcIsNone DEF Rises, Parents, Kids
<1>7. depth[par[c]] \in M
  BY <1>6 DEF M
<1>8. depth[par[c]] \in Nat /\ depth[c] \in Nat
  BY <1>1, <1>5, <1>6
<1> QED BY <1>4, <1>5, <1>6, <1>7, <1>8

LEMMA MovesStep ==
    ASSUME ProcInv,
           \/ ForkFails \/ Yield \/ WaitFails \/ Tick
           \/ \E pid \in User \cup {AnyChild} : Wait(pid)
           \/ TrapReturn /\ ~need_resched[current]
    PROVE  ProcInv'
<1>1. TypeOK /\ SchedTypeOK /\ initproc \in Proc /\ initproc \in Task
  BY NoProcIsNone DEF ProcInv, TypeOK, Task
<1>2. CASE ForkFails
  <2>1. current \in Proc /\ at[current] = "user" /\ current \in User
    BY <1>2, OnHart DEF ForkFails, Running
  <2>2. /\ at' \in [Proc -> At] /\ at'[current] = "trapret"
        /\ \A p \in Proc : p # current => at'[p] = at[p]
    BY <1>1, <1>2, <2>1, GotoType DEF ForkFails, At
  <2>3. /\ UNCHANGED <<pstate, wait_state, run_list, current, tree_vars, exiting>>
        /\ waits_for' = waits_for /\ SchedTypeOK'
    BY <1>1, <1>2 DEF ForkFails, sched_vars, SchedTypeOK
  <2>4. waits_for' \in [Proc -> User \cup {AnyChild}]
    BY <1>1, <2>3 DEF TypeOK
  <2> QED BY <2>1, <2>2, <2>3, <2>4, MovesKeep
<1>3. CASE Yield
  <2>1. current \in Proc /\ at[current] = "user" /\ current \in User
    BY <1>3, OnHart DEF Yield, Running
  <2>2. /\ at' \in [Proc -> At] /\ at'[current] = "trapret"
        /\ \A p \in Proc : p # current => at'[p] = at[p]
    BY <1>1, <1>3, <2>1, GotoType DEF Yield, At
  <2>3. /\ UNCHANGED <<pstate, wait_state, run_list, current, tree_vars, exiting>>
        /\ waits_for' = waits_for /\ SchedTypeOK'
    BY <1>1, <1>3 DEF Yield, SchedTypeOK
  <2>4. waits_for' \in [Proc -> User \cup {AnyChild}]
    BY <1>1, <2>3 DEF TypeOK
  <2> QED BY <2>1, <2>2, <2>3, <2>4, MovesKeep
<1>4. CASE WaitFails
  <2>1. /\ current \in Proc /\ at[current] \in {"wait", "woken"} /\ ~HasKid
        /\ current = initproc \/ current \in User
    BY <1>4 DEF WaitFails, Scanning, Running, User
  <2> DEFINE where == IF current = initproc THEN "end" ELSE "trapret"
  <2>2. where \in At /\ Goto(where)
    BY <1>4 DEF WaitFails, At
  <2> HIDE DEF where
  <2>3. /\ at' \in [Proc -> At] /\ at'[current] = where
        /\ \A p \in Proc : p # current => at'[p] = at[p]
    BY <1>1, <2>1, <2>2, GotoType
  <2>4. /\ UNCHANGED <<pstate, wait_state, run_list, current, tree_vars, exiting>>
        /\ waits_for' = waits_for /\ SchedTypeOK'
    BY <1>1, <1>4 DEF WaitFails, sched_vars, SchedTypeOK
  <2>5. waits_for' \in [Proc -> User \cup {AnyChild}]
    BY <1>1, <2>4 DEF TypeOK
  <2>6. CASE current = initproc
    <3>1. cptr[initproc] = NoProc
      BY <2>1, <2>6 DEF HasKid, ProcInv
    <3>2. /\ Kids(Alive, parent, initproc) = {}
          /\ Alive \subseteq Proc /\ Parents(Alive, parent) /\ Rooted(Alive, parent)
      BY <1>1, <3>1 DEF ProcInv, Tree, FirstChild
    <3>3. Alive = {initproc}
      BY <3>2, NobodyLeft
    <3> QED BY <2>1, <2>3, <2>4, <2>5, <2>6, <3>1, <3>3, MovesKeep DEF where
  <2>7. CASE current \in User
    BY <2>1, <2>3, <2>4, <2>5, <2>7, MovesKeep DEF where, User
  <2> QED BY <2>1, <2>6, <2>7
<1>5. CASE Tick
  <2>1. proc_tick /\ UNCHANGED <<tree_vars, exiting, waits_for>> /\ current' = current
    BY <1>5 DEF Tick, proc_tick
  <2>2. SchedTypeOK' /\ UNCHANGED <<pstate, wait_state, run_list, current, tree_vars, exiting>>
    BY <1>1, <2>1, TickType DEF proc_tick
  <2>3. waits_for' = waits_for /\ waits_for' \in [Proc -> User \cup {AnyChild}]
    BY <1>1, <2>1 DEF TypeOK
  <2>4. CASE Running("user") /\ Goto("trapret")
    <3>1. current \in Proc /\ at[current] = "user" /\ current \in User
      BY <2>4, OnHart DEF Running
    <3>2. /\ at' \in [Proc -> At] /\ at'[current] = "trapret"
          /\ \A p \in Proc : p # current => at'[p] = at[p]
      BY <1>1, <2>4, <3>1, GotoType DEF At
    <3> QED BY <2>2, <2>3, <3>1, <3>2, MovesKeep
  <2>5. CASE current = initproc /\ at[initproc] # "end" /\ UNCHANGED at
    <3>1. current \in Proc /\ at' = at /\ at' \in [Proc -> At] /\ at[current] # "end"
      BY <1>1, <2>5 DEF TypeOK
    <3> QED BY <2>2, <2>3, <3>1, MovesKeep
  <2> QED BY <1>5, <2>4, <2>5 DEF Tick
<1>6. ASSUME NEW pid \in User \cup {AnyChild}, Wait(pid) PROVE ProcInv'
  <2>1. current \in Proc /\ at[current] = "user" /\ current \in User
    BY <1>6, OnHart DEF Wait, Running
  <2>2. /\ at' \in [Proc -> At] /\ at'[current] = "wait"
        /\ \A p \in Proc : p # current => at'[p] = at[p]
    BY <1>1, <1>6, <2>1, GotoType DEF Wait, At
  <2>3. UNCHANGED <<pstate, wait_state, run_list, current, tree_vars, exiting>> /\ SchedTypeOK'
    BY <1>1, <1>6 DEF Wait, sched_vars, SchedTypeOK
  <2>4. /\ waits_for' \in [Proc -> User \cup {AnyChild}]
        /\ \A p \in Proc : p # current => waits_for'[p] = waits_for[p]
    BY <1>1, <1>6, <2>1 DEF TypeOK, Wait
  <2>5. current # initproc
    BY <2>1 DEF User
  <2> QED BY <2>1, <2>2, <2>3, <2>4, <2>5, MovesKeep
<1>7. CASE TrapReturn /\ ~need_resched[current]
  <2>1. current \in Proc /\ at[current] = "trapret" /\ current \in User
    BY <1>7, OnHart DEF TrapReturn, Running
  <2>2. /\ at' \in [Proc -> At] /\ at'[current] = "user"
        /\ \A p \in Proc : p # current => at'[p] = at[p]
    BY <1>1, <1>7, <2>1, GotoType DEF TrapReturn, At
  <2>3. /\ UNCHANGED <<pstate, wait_state, run_list, current, tree_vars, exiting>>
        /\ waits_for' = waits_for /\ SchedTypeOK'
    BY <1>1, <1>7 DEF TrapReturn, sched_vars, SchedTypeOK
  <2>4. waits_for' \in [Proc -> User \cup {AnyChild}]
    BY <1>1, <2>3 DEF TypeOK
  <2> QED BY <2>1, <2>2, <2>3, <2>4, MovesKeep
<1> QED BY <1>2, <1>3, <1>4, <1>5, <1>6, <1>7

(* schedule(): of do_wait, of init_main, at the end of do_exit and of      *)
(* trap().                                                                 *)
LEMMA SchedulesKeep ==
    ASSUME ProcInv, current \in Proc, schedule, UNCHANGED <<tree_vars, exiting, waits_for>>,
           NEW where \in At, Goto(where),
           \/ at[current] = "waiting" /\ where = "woken"
           \/ at[current] = "reaped" /\ where = "wait"
           \/ at[current] = "orphans" /\ where = "gone" /\ cptr[current] = NoProc
           \/ at[current] = "trapret" /\ where = "user"
    PROVE  ProcInv'
<1>1. /\ TypeOK /\ RunQueueExact /\ StatesTell /\ Places /\ NoExitMissed
      /\ current \in Alive /\ current \in Task /\ SchedTypeOK
      /\ at[current] \notin {"exit", "orphans", "waiting"} => pstate[current] = "RUNNABLE"
      /\ at[current] \notin {"exit", "orphans"} => Giver = NoProc
      /\ at[current] \in {"exit", "orphans"} => Giver = current
  BY OnHart DEF TypeOK
<1>2. /\ SchedTypeOK' /\ RunQueueExact' /\ pstate' = pstate /\ wait_state' = wait_state
      /\ current' \in Proc => pstate[current'] = "RUNNABLE"
  BY <1>1, ScheduleType, ScheduleQueue DEF schedule
<1>3. /\ at' \in [Proc -> At] /\ at'[current] = where
      /\ \A p \in Proc : p # current => at'[p] = at[p]
  BY <1>1, GotoType
<1>4. /\ Alive' = Alive
      /\ Tree(Alive, parent, cptr, optr, yptr)'
      /\ Youngest(cptr, yptr, Giver)' /\ Counted'
      /\ \A p \in Task : Children(p)' = Children(p)
  <2>1. UNCHANGED tree_vars /\ \A p \in Proc : pstate'[p] = "UNINIT" <=> pstate[p] = "UNINIT"
    BY <1>2 DEF tree_vars
  <2>2. Giver = NoProc \/ (Giver \in Task /\ cptr[Giver] = NoProc)
    BY <1>1
  <2> QED BY <2>1, <2>2, TreeRests
<1>5. TypeOK'
  BY <1>1, <1>2, <1>3 DEF TypeOK, tree_vars
<1>6. StatesTell'
  BY <1>1, <1>2, <1>3 DEF StatesTell
<1>7. Places'
  <2>1. \A p \in Proc : p # current' => at'[p] \in {"user", "woken", "gone", "wait"}
    BY <1>1, <1>3 DEF Places
  <2>2. current' \in Proc => at'[current'] # "gone"
    BY <1>1, <1>2, <1>3 DEF StatesTell
  <2>3. at'[initproc] \in {"wait", "waiting", "woken", "reaped", "end"}
    BY <1>1, <1>3, NoProcIsNone DEF Places
  <2>4. \A u \in User : at'[u] \notin {"reaped", "end"} /\ (u # current' => at'[u] # "wait")
    BY <1>1, <1>2, <1>3 DEF Places, User
  <2> QED BY <1>2, <2>1, <2>2, <2>3, <2>4 DEF Places
<1>8. pstate'[idleproc] = "RUNNABLE" /\ waits_for'[initproc] = AnyChild
  BY <1>2 DEF ProcInv
<1>9. GoneHaveNone'
  BY <1>1, <1>3 DEF ProcInv, GoneHaveNone, tree_vars
<1>10. InitAlone'
  BY <1>3, <1>4, NoProcIsNone DEF ProcInv, InitAlone, tree_vars
<1>11. NoExitMissed'
  <2> SUFFICES ASSUME NEW p \in Proc, wait_state'[p] = "WT_CHILD", NEW c \in Children(p)',
                      pstate'[c] = "ZOMBIE", waits_for'[p] \in {AnyChild, c}
               PROVE  FALSE
    BY DEF NoExitMissed
  <2>1. c \in Children(p) /\ p \in Task
    BY <1>4 DEF Task
  <2> QED BY <1>1, <1>2, <2>1 DEF NoExitMissed, Running
<1> QED BY <1>2, <1>4, <1>5, <1>6, <1>7, <1>8, <1>9, <1>10, <1>11 DEF ProcInv
LEMMA SchedulesStep ==
    ASSUME ProcInv,
           \/ WaitSchedule \/ InitSchedule \/ ExitSchedule
           \/ TrapReturn /\ need_resched[current]
    PROVE  ProcInv'
<1>1. CASE WaitSchedule
  <2>1. /\ current \in Proc /\ schedule /\ UNCHANGED <<tree_vars, exiting, waits_for>>
        /\ at[current] = "waiting" /\ "woken" \in At /\ Goto("woken")
    BY <1>1 DEF WaitSchedule, Running, At
  <2> QED BY <2>1, SchedulesKeep
<1>2. CASE InitSchedule
  <2>1. /\ current \in Proc /\ schedule /\ UNCHANGED <<tree_vars, exiting, waits_for>>
        /\ at[current] = "reaped" /\ "wait" \in At /\ Goto("wait")
    BY <1>2 DEF InitSchedule, Running, At
  <2> QED BY <2>1, SchedulesKeep
<1>3. CASE ExitSchedule
  <2>1. /\ current \in Proc /\ schedule /\ UNCHANGED <<tree_vars, exiting, waits_for>>
        /\ at[current] = "orphans" /\ cptr[current] = NoProc /\ "gone" \in At /\ Goto("gone")
    BY <1>3 DEF ExitSchedule, Running, At
  <2> QED BY <2>1, SchedulesKeep
<1>4. CASE TrapReturn /\ need_resched[current]
  <2>1. /\ current \in Proc /\ schedule /\ UNCHANGED <<tree_vars, exiting, waits_for>>
        /\ at[current] = "trapret" /\ "user" \in At /\ Goto("user")
    BY <1>4 DEF TrapReturn, Running, At
  <2> QED BY <2>1, SchedulesKeep
<1> QED BY <1>1, <1>2, <1>3, <1>4

(* do_wait has found a child but no zombie.                                *)
LEMMA WaitSleepsKeeps ==
    ASSUME ProcInv, WaitSleeps
    PROVE  ProcInv'
<1>1. /\ current \in Proc /\ at[current] \in {"wait", "woken"} /\ Found = NoProc /\ HasKid
      /\ GoToSleep("WT_CHILD") /\ Goto("waiting") /\ UNCHANGED <<tree_vars, exiting, waits_for>>
  BY DEF WaitSleeps, Scanning, Running
<1>2. /\ TypeOK /\ RunQueueExact /\ StatesTell /\ Places /\ NoExitMissed /\ SchedTypeOK
      /\ current \in Alive /\ current \in Task
      /\ pstate[current] = "RUNNABLE" /\ Giver = NoProc
  BY <1>1, OnHart DEF TypeOK
<1>3. /\ SchedTypeOK' /\ UNCHANGED <<run_list, current, time_slice, need_resched>>
      /\ \A x \in Task : /\ pstate'[x] = IF x = current THEN "SLEEPING" ELSE pstate[x]
                         /\ wait_state'[x] = IF x = current THEN "WT_CHILD" ELSE wait_state[x]
  <2>1. "WT_CHILD" \in WaitState
    BY DEF WaitState, Interruptible
  <2> QED BY <1>1, <1>2, <2>1, SleepType DEF GoToSleep, SchedTypeOK
<1>4. /\ at' \in [Proc -> At] /\ at'[current] = "waiting"
      /\ \A p \in Proc : p # current => at'[p] = at[p]
  BY <1>1, <1>2, GotoType DEF At
<1>5. /\ Alive' = Alive
      /\ Tree(Alive, parent, cptr, optr, yptr)'
      /\ Youngest(cptr, yptr, Giver)' /\ Counted'
      /\ \A p \in Task : Children(p)' = Children(p)
  <2>1. UNCHANGED tree_vars /\ \A p \in Proc : pstate'[p] = "UNINIT" <=> pstate[p] = "UNINIT"
    BY <1>1, <1>2, <1>3 DEF tree_vars, Task
  <2> QED BY <1>2, <2>1, TreeRests
<1>6. TypeOK'
  BY <1>1, <1>2, <1>3, <1>4 DEF TypeOK, tree_vars
<1>7. RunQueueExact'
  BY <1>2, <1>3 DEF RunQueueExact, Task
<1>8. StatesTell'
  BY <1>2, <1>3, <1>4 DEF StatesTell, Task
<1>9. Places'
  BY <1>1, <1>2, <1>3, <1>4, NoProcIsNone DEF Places, User, Task
<1>10. pstate'[idleproc] = "RUNNABLE" /\ waits_for'[initproc] = AnyChild
  BY <1>1, <1>3, NoProcIsNone DEF ProcInv, Task
<1>11. GoneHaveNone'
  BY <1>1, <1>4 DEF ProcInv, GoneHaveNone, tree_vars
<1>12. InitAlone'
  BY <1>1, <1>4, <1>5, NoProcIsNone DEF ProcInv, InitAlone, tree_vars
<1>13. NoExitMissed'
  <2> SUFFICES ASSUME NEW p \in Proc, wait_state'[p] = "WT_CHILD", NEW c \in Children(p)',
                      pstate'[c] = "ZOMBIE", waits_for'[p] \in {AnyChild, c}
               PROVE  FALSE
    BY DEF NoExitMissed
  <2>1. /\ c \in Children(p) /\ p \in Task /\ c \in Proc /\ c \in Task /\ waits_for[p] \in {AnyChild, c}
        /\ c # current /\ pstate[c] = "ZOMBIE"
    BY <1>1, <1>3, <1>5 DEF Task, Children
  <2>2. CASE p # current
    BY <1>1, <1>2, <1>3, <2>1, <2>2 DEF NoExitMissed
  <2>3. CASE p = current /\ waits_for[p] = AnyChild
    <3>1. YoungestZombie(current) = NoProc
      BY <1>1, <2>3 DEF Found
    <3>2. c \in Kids(Alive, parent, current)
      BY <2>1, <2>3 DEF Children, Kids, Alive
    <3>3. Tree(Alive, parent, cptr, optr, yptr)
      BY DEF ProcInv
    <3> QED BY <1>2, <2>1, <3>1, <3>2, <3>3, ZombieFound
  <2>4. CASE p = current /\ waits_for[p] # AnyChild
    BY <1>1, <2>1, <2>4, NoProcIsNone DEF Found
  <2> QED BY <2>2, <2>3, <2>4
<1> QED BY <1>3, <1>5, <1>6, <1>7, <1>8, <1>9, <1>10, <1>11, <1>12, <1>13 DEF ProcInv

(* do_exit begins: the process is a zombie, and still on the hart.         *)
LEMMA BecomeZombieKeeps ==
    ASSUME ProcInv, Exit \/ WaitKilled \/ TrapKilled
    PROVE  ProcInv'
<1>1. /\ current \in Proc /\ at[current] \in {"user", "woken", "trapret"}
      /\ at[current] = "woken" => current \in exiting
      /\ BecomeZombie
  BY DEF Exit, WaitKilled, TrapKilled, Running
<1>2. /\ TypeOK /\ RunQueueExact /\ StatesTell /\ Places /\ NoExitMissed /\ SchedTypeOK
      /\ current \in Alive /\ current \in Task
      /\ pstate[current] = "RUNNABLE" /\ Giver = NoProc /\ current \in User
  BY <1>1, OnHart DEF TypeOK
<1>3. /\ UNCHANGED <<wait_state, run_list, current, time_slice, need_resched, tree_vars, exiting, waits_for>>
      /\ pstate' \in [Task -> State]
      /\ \A x \in Task : pstate'[x] = IF x = current THEN "ZOMBIE" ELSE pstate[x]
  BY <1>1, <1>2 DEF BecomeZombie, SchedTypeOK, State
<1>4. /\ at' \in [Proc -> At] /\ at'[current] = "exit"
      /\ \A p \in Proc : p # current => at'[p] = at[p]
  BY <1>1, <1>2, GotoType DEF At, BecomeZombie
<1>5. /\ Alive' = Alive
      /\ Tree(Alive, parent, cptr, optr, yptr)'
      /\ Youngest(cptr, yptr, Giver)' /\ Counted'
      /\ \A p \in Task : Children(p)' = Children(p)
  <2>1. UNCHANGED tree_vars /\ \A p \in Proc : pstate'[p] = "UNINIT" <=> pstate[p] = "UNINIT"
    BY <1>2, <1>3 DEF tree_vars, Task
  <2> QED BY <1>2, <2>1, TreeRests
<1>6. TypeOK'
  BY <1>2, <1>3, <1>4 DEF TypeOK, tree_vars, SchedTypeOK
<1>7. RunQueueExact'
  BY <1>2, <1>3 DEF RunQueueExact, Task
<1>8. StatesTell'
  BY <1>2, <1>3, <1>4 DEF StatesTell, Task
<1>9. Places'
  BY <1>1, <1>2, <1>3, <1>4, NoProcIsNone DEF Places, User, Task
<1>10. pstate'[idleproc] = "RUNNABLE" /\ waits_for'[initproc] = AnyChild
  BY <1>1, <1>3, NoProcIsNone DEF ProcInv, Task
<1>11. GoneHaveNone'
  BY <1>3, <1>4 DEF ProcInv, GoneHaveNone, tree_vars
<1>12. InitAlone'
  BY <1>3, <1>4, <1>5, NoProcIsNone DEF ProcInv, InitAlone, tree_vars
<1>13. NoExitMissed'
  <2> SUFFICES ASSUME NEW p \in Proc, wait_state'[p] = "WT_CHILD", NEW c \in Children(p)',
                      pstate'[c] = "ZOMBIE", waits_for'[p] \in {AnyChild, c}
               PROVE  c = current' /\ Running("exit")'
    BY DEF NoExitMissed
  <2>1. CASE c = current
    BY <1>1, <1>3, <1>4, <2>1 DEF Running
  <2>2. CASE c # current
    <3>1. c \in Children(p) /\ c \in Task /\ pstate[c] = "ZOMBIE" /\ wait_state[p] = "WT_CHILD"
      BY <1>3, <1>5, <2>2 DEF Task, Children
    <3> QED BY <1>3, <2>2, <3>1, <1>2 DEF NoExitMissed
  <2> QED BY <2>1, <2>2
<1> QED BY <1>3, <1>5, <1>6, <1>7, <1>8, <1>9, <1>10, <1>11, <1>12, <1>13 DEF ProcInv
(* do_kill and do_exit, which wake nobody, or a process that sleeps.       *)
LEMMA MaybeWoken ==
    ASSUME ProcInv, current \in User, NEW W,
           \/ W = {} /\ UNCHANGED sched_vars
           \/ \E q \in Proc : W = {q} /\ wait_state[q] # "none" /\ wakeup_proc(q),
           at' \in [Proc -> At], \A p \in Proc : p # current => at'[p] = at[p],
           \/ at[current] = "user" /\ at'[current] = "trapret"
           \/ at[current] = "exit" /\ at'[current] = "orphans"
           \/ at[current] = "orphans" /\ at'[current] = "orphans"
    PROVE  /\ SchedTypeOK' /\ RunQueueExact' /\ current' = current
           /\ pstate'[idleproc] = "RUNNABLE"
           /\ W \subseteq Proc \ {current}
           /\ \A p \in W : pstate[p] = "SLEEPING"
           /\ \A p \in Proc : /\ pstate'[p] = IF p \in W THEN "RUNNABLE" ELSE pstate[p]
                              /\ wait_state'[p] = IF p \in W THEN "none" ELSE wait_state[p]
           /\ StatesTell' /\ Places'
<1>1. /\ TypeOK /\ RunQueueExact /\ StatesTell /\ Places /\ SchedTypeOK /\ current \in Proc
      /\ pstate[idleproc] = "RUNNABLE"
      /\ pstate[current] # "SLEEPING" /\ pstate[current] # "UNINIT"
      /\ pstate[current] = "ZOMBIE" <=> at[current] \in {"exit", "orphans"}
  BY OnHart DEF TypeOK, User, ProcInv, StatesTell
<1>2. /\ SchedTypeOK' /\ RunQueueExact' /\ current' = current
      /\ pstate'[idleproc] = "RUNNABLE"
      /\ W \subseteq Proc
      /\ \A p \in W : pstate[p] = "SLEEPING"
      /\ \A p \in Proc : /\ pstate'[p] = IF p \in W THEN "RUNNABLE" ELSE pstate[p]
                         /\ wait_state'[p] = IF p \in W THEN "none" ELSE wait_state[p]
  <2>1. CASE W = {} /\ UNCHANGED sched_vars
    BY <1>1, <2>1 DEF sched_vars, SchedTypeOK, RunQueueExact
  <2>2. CASE \E q \in Proc : W = {q} /\ wait_state[q] # "none" /\ wakeup_proc(q)
    <3>0. PICK q \in Proc : W = {q} /\ wait_state[q] # "none" /\ wakeup_proc(q)
      BY <2>2
    <3>1. /\ SchedTypeOK' /\ RunQueueExact' /\ current' = current
          /\ pstate[q] = "SLEEPING" /\ pstate'[idleproc] = pstate[idleproc]
          /\ \A p \in Proc : /\ pstate'[p] = IF p = q THEN "RUNNABLE" ELSE pstate[p]
                             /\ wait_state'[p] = IF p = q THEN "none" ELSE wait_state[p]
      BY <3>0, WaiterWoken
    <3> QED BY <1>1, <3>0, <3>1
  <2> QED BY <2>1, <2>2
<1>3. W \subseteq Proc \ {current}
  BY <1>1, <1>2
<1>4. StatesTell'
  <2> SUFFICES ASSUME NEW p \in Proc
               PROVE  /\ wait_state'[p] = IF pstate'[p] = "SLEEPING" THEN "WT_CHILD" ELSE "none"
                      /\ pstate'[p] = "ZOMBIE" <=> at'[p] \in {"exit", "orphans", "gone"}
                      /\ pstate'[p] = "SLEEPING" => at'[p] \in {"waiting", "woken"}
                      /\ pstate'[p] = "UNINIT" => at'[p] = "user" /\ p # current'
                      /\ at'[p] = "waiting" => pstate'[p] = "SLEEPING"
    BY DEF StatesTell
  <2>1. CASE p = current
    BY <1>1, <1>2, <1>3, <2>1 DEF StatesTell
  <2>2. CASE p \in W
    <3>1. p # current /\ at'[p] = at[p] /\ at[p] = "woken"
      BY <1>1, <1>2, <1>3, <2>2 DEF StatesTell, Places
    <3> QED BY <1>2, <2>2, <3>1
  <2>3. CASE p # current /\ p \notin W
    BY <1>1, <1>2, <2>3 DEF StatesTell
  <2> QED BY <2>1, <2>2, <2>3
<1>5. Places'
  BY <1>1, <1>2, NoProcIsNone DEF Places, User
<1> QED BY <1>2, <1>3, <1>4, <1>5
LEMMA KillKeeps ==
    ASSUME ProcInv, NEW victim \in User, Kill(victim)
    PROVE  ProcInv'
<1> DEFINE W == IF victim \notin exiting /\ wait_state[victim] \in Interruptible THEN {victim} ELSE {}
<1>1. /\ current \in Proc /\ at[current] = "user" /\ UNCHANGED <<tree_vars, waits_for>>
      /\ Goto("trapret") /\ exiting' = exiting \cup {victim}
  BY DEF Kill, Running
<1>2. /\ TypeOK /\ NoExitMissed /\ SchedTypeOK
      /\ current \in Alive /\ current \in User /\ current # initproc /\ Giver = NoProc
  BY <1>1, OnHart DEF TypeOK, User
<1>3. /\ at' \in [Proc -> At] /\ at'[current] = "trapret"
      /\ \A p \in Proc : p # current => at'[p] = at[p]
  BY <1>1, <1>2, GotoType DEF At
<1>4. \/ W = {} /\ UNCHANGED sched_vars
      \/ \E q \in Proc : W = {q} /\ wait_state[q] # "none" /\ wakeup_proc(q)
  <2>1. CASE victim \notin exiting /\ wait_state[victim] \in Interruptible
    BY <2>1 DEF Kill, User, Interruptible
  <2>2. CASE ~ (victim \notin exiting /\ wait_state[victim] \in Interruptible)
    BY <2>2 DEF Kill
  <2> QED BY <2>1, <2>2
<1> HIDE DEF W
<1>5. /\ SchedTypeOK' /\ RunQueueExact' /\ current' = current
      /\ pstate'[idleproc] = "RUNNABLE" /\ StatesTell' /\ Places'
      /\ W \subseteq Proc \ {current}
      /\ \A p \in W : pstate[p] = "SLEEPING"
      /\ \A p \in Proc : /\ pstate'[p] = IF p \in W THEN "RUNNABLE" ELSE pstate[p]
                         /\ wait_state'[p] = IF p \in W THEN "none" ELSE wait_state[p]
  BY <1>1, <1>2, <1>3, <1>4, MaybeWoken
<1>6. /\ Alive' = Alive
      /\ Tree(Alive, parent, cptr, optr, yptr)'
      /\ Youngest(cptr, yptr, Giver)' /\ Counted'
      /\ \A p \in Task : Children(p)' = Children(p)
  <2>1. UNCHANGED tree_vars /\ \A p \in Proc : pstate'[p] = "UNINIT" <=> pstate[p] = "UNINIT"
    BY <1>1, <1>5 DEF tree_vars
  <2> QED BY <1>2, <2>1, TreeRests
<1>7. TypeOK'
  BY <1>1, <1>2, <1>3, <1>5 DEF TypeOK, tree_vars
<1>8. waits_for'[initproc] = AnyChild
  BY <1>1 DEF ProcInv
<1>9. GoneHaveNone'
  BY <1>1, <1>3 DEF ProcInv, GoneHaveNone, tree_vars
<1>10. InitAlone'
  BY <1>1, <1>2, <1>3, <1>6, NoProcIsNone DEF ProcInv, InitAlone, tree_vars
<1>11. NoExitMissed'
  <2> SUFFICES ASSUME NEW p \in Proc, wait_state'[p] = "WT_CHILD", NEW c \in Children(p)',
                      pstate'[c] = "ZOMBIE", waits_for'[p] \in {AnyChild, c}
               PROVE  FALSE
    BY DEF NoExitMissed
  <2>1. c \in Children(p) /\ p \in Task /\ c \in Proc
    BY <1>6 DEF Task, Children
  <2>2. wait_state[p] = "WT_CHILD" /\ pstate[c] = "ZOMBIE" /\ waits_for[p] \in {AnyChild, c}
    BY <1>1, <1>5, <2>1
  <2> QED BY <1>1, <1>2, <2>1, <2>2 DEF NoExitMissed, Running
<1> QED BY <1>5, <1>6, <1>7, <1>8, <1>9, <1>10, <1>11 DEF ProcInv

(* do_exit wakes the parent that is in do_wait.                            *)
LEMMA ExitWakesParentKeeps ==
    ASSUME ProcInv, ExitWakesParent
    PROVE  ProcInv'
<1> DEFINE W == IF WakesWaiter(parent[current]) THEN {parent[current]} ELSE {}
<1>1. /\ current \in Proc /\ at[current] = "exit" /\ UNCHANGED <<tree_vars, exiting, waits_for>>
      /\ Goto("orphans")
  BY DEF ExitWakesParent, Running
<1>2. /\ TypeOK /\ NoExitMissed /\ SchedTypeOK
      /\ current \in Alive /\ current \in User /\ current # initproc /\ Giver = current
  BY <1>1, OnHart DEF TypeOK, User
<1>3. /\ at' \in [Proc -> At] /\ at'[current] = "orphans"
      /\ \A p \in Proc : p # current => at'[p] = at[p]
  BY <1>1, <1>2, GotoType DEF At
<1>4. /\ W \subseteq Proc /\ wait_state[parent[current]] = "WT_CHILD" => parent[current] \in W
      /\ \/ W = {} /\ UNCHANGED sched_vars
         \/ \E q \in Proc : W = {q} /\ wait_state[q] # "none" /\ wakeup_proc(q)
  <2>1. PICK depth \in [Proc -> Nat] : Rises(Alive, parent, depth)
    BY DEF ProcInv, Tree, Rooted
  <2>2. parent[current] \in Proc
    BY <1>2, <2>1 DEF Rises
  <2>3. CASE WakesWaiter(parent[current])
    BY <2>2, <2>3 DEF ExitWakesParent, WakesWaiter
  <2>4. CASE ~ WakesWaiter(parent[current])
    BY <2>4 DEF ExitWakesParent, WakesWaiter
  <2> QED BY <2>3, <2>4
<1> HIDE DEF W
<1>5. /\ SchedTypeOK' /\ RunQueueExact' /\ current' = current
      /\ pstate'[idleproc] = "RUNNABLE" /\ StatesTell' /\ Places'
      /\ W \subseteq Proc \ {current}
      /\ \A p \in W : pstate[p] = "SLEEPING"
      /\ \A p \in Proc : /\ pstate'[p] = IF p \in W THEN "RUNNABLE" ELSE pstate[p]
                         /\ wait_state'[p] = IF p \in W THEN "none" ELSE wait_state[p]
  BY <1>1, <1>2, <1>3, <1>4, MaybeWoken
<1>6. /\ Alive' = Alive
      /\ Tree(Alive, parent, cptr, optr, yptr)'
      /\ Youngest(cptr, yptr, Giver)' /\ Counted'
      /\ \A p \in Task : Children(p)' = Children(p)
  <2>1. UNCHANGED tree_vars /\ \A p \in Proc : pstate'[p] = "UNINIT" <=> pstate[p] = "UNINIT"
    BY <1>1, <1>5 DEF tree_vars
  <2>2. Giver' = Giver
    BY <1>1, <1>3, <1>5 DEF Giver, Giving, Running
  <2> QED BY <2>1, <2>2, TreeRests
<1>7. TypeOK'
  BY <1>1, <1>2, <1>3, <1>5 DEF TypeOK, tree_vars
<1>8. waits_for'[initproc] = AnyChild
  BY <1>1 DEF ProcInv
<1>9. GoneHaveNone'
  BY <1>1, <1>3 DEF ProcInv, GoneHaveNone, tree_vars
<1>10. InitAlone'
  BY <1>1, <1>2, <1>3, <1>6, NoProcIsNone DEF ProcInv, InitAlone, tree_vars
<1>11. NoExitMissed'
  <2> SUFFICES ASSUME NEW p \in Proc, wait_state'[p] = "WT_CHILD", NEW c \in Children(p)',
                      pstate'[c] = "ZOMBIE", waits_for'[p] \in {AnyChild, c}
               PROVE  FALSE
    BY DEF NoExitMissed
  <2>1. c \in Children(p) /\ p \in Task /\ c \in Proc
    BY <1>6 DEF Task, Children
  <2>2. /\ p \notin W /\ wait_state[p] = "WT_CHILD" /\ pstate[c] = "ZOMBIE"
        /\ waits_for[p] \in {AnyChild, c}
    BY <1>1, <1>5, <2>1
  <2>3. c = current
    BY <1>2, <2>1, <2>2 DEF NoExitMissed
  <2> QED BY <1>4, <2>1, <2>2, <2>3 DEF Children
<1> QED BY <1>5, <1>6, <1>7, <1>8, <1>9, <1>10, <1>11 DEF ProcInv

(* One round of do_exit's loop over the children.                          *)
LEMMA GiveOrphanKeeps ==
    ASSUME ProcInv, GiveOrphan
    PROVE  ProcInv'
<1> DEFINE c == cptr[current]
           W == IF OrphanWakes(c) THEN {initproc} ELSE {}
<1>1. /\ current \in Proc /\ at[current] = "orphans" /\ c # NoProc
      /\ nr_process' = nr_process /\ exiting' = exiting /\ at' = at /\ waits_for' = waits_for
      /\ parent' = [parent EXCEPT ![c] = initproc]
      /\ optr' = [optr EXCEPT ![c] = cptr[initproc]]
      /\ yptr' = [YoungerOf(cptr[initproc], c) EXCEPT ![c] = NoProc]
      /\ cptr' = [cptr EXCEPT ![current] = optr[c], ![initproc] = c]
  BY DEF GiveOrphan, Running
<1>2. /\ TypeOK /\ NoExitMissed /\ SchedTypeOK /\ current \in Task
      /\ current \in Alive /\ current \in User /\ current # initproc /\ Giver = current
      /\ initproc \in Proc /\ initproc \in Task
  BY <1>1, OnHart, NoProcIsNone DEF TypeOK, User, Task
<1>3. at' \in [Proc -> At] /\ at'[current] = "orphans" /\ \A p \in Proc : p # current => at'[p] = at[p]
  BY <1>1, <1>2 DEF TypeOK
<1>4. /\ pstate[c] = "ZOMBIE" /\ wait_state[initproc] = "WT_CHILD" => initproc \in W
      /\ \/ W = {} /\ UNCHANGED sched_vars
         \/ \E q \in Proc : W = {q} /\ wait_state[q] # "none" /\ wakeup_proc(q)
  <2>1. CASE OrphanWakes(c)
    BY <1>2, <2>1 DEF GiveOrphan, OrphanWakes
  <2>2. CASE ~ OrphanWakes(c)
    BY <2>2 DEF GiveOrphan, OrphanWakes
  <2> QED BY <2>1, <2>2
<1> HIDE DEF W
<1>5. /\ SchedTypeOK' /\ RunQueueExact' /\ current' = current
      /\ pstate'[idleproc] = "RUNNABLE" /\ StatesTell' /\ Places'
      /\ W \subseteq Proc \ {current}
      /\ \A p \in W : pstate[p] = "SLEEPING"
      /\ \A p \in Proc : /\ pstate'[p] = IF p \in W THEN "RUNNABLE" ELSE pstate[p]
                         /\ wait_state'[p] = IF p \in W THEN "none" ELSE wait_state[p]
  BY <1>1, <1>2, <1>3, <1>4, MaybeWoken
<1>6. Alive' = Alive /\ Giver' = current
  BY <1>1, <1>2, <1>5 DEF Alive, Free, Giver, Giving, Running
<1>7. c \in Link /\ cptr[initproc] \in Link /\ c \in Proc
  BY <1>1, <1>2 DEF TypeOK, Link
<1>8. /\ TreeTypes(parent', cptr', optr', yptr')
      /\ \A x \in Proc : parent'[x] = IF x = c THEN initproc ELSE parent[x]
      /\ \A x \in Proc : optr'[x] = IF x = c THEN cptr[initproc] ELSE optr[x]
      /\ \A x \in Proc : yptr'[x] = IF x = c THEN NoProc
                                    ELSE IF x = cptr[initproc] THEN c ELSE yptr[x]
      /\ \A x \in Task : cptr'[x] = IF x = initproc THEN c
                                    ELSE IF x = current THEN optr[c] ELSE cptr[x]
  <2> HIDE DEF c
  <2>1. /\ parent' \in [Proc -> Task \cup {NoProc}]
        /\ \A x \in Proc : parent'[x] = IF x = c THEN initproc ELSE parent[x]
    BY <1>1, <1>2, <1>7 DEF TypeOK
  <2>2. /\ optr' \in [Proc -> Link]
        /\ \A x \in Proc : optr'[x] = IF x = c THEN cptr[initproc] ELSE optr[x]
    BY <1>1, <1>2, <1>7 DEF TypeOK
  <2>3. /\ yptr' \in [Proc -> Link]
        /\ \A x \in Proc : yptr'[x] = IF x = c THEN NoProc
                                      ELSE IF x = cptr[initproc] THEN c ELSE yptr[x]
    BY <1>1, <1>2, <1>7, NoProcIsNone DEF TypeOK, YoungerOf, Link
  <2>4. /\ cptr' \in [Task -> Link]
        /\ \A x \in Task : cptr'[x] = IF x = initproc THEN c
                                      ELSE IF x = current THEN optr[c] ELSE cptr[x]
    BY <1>1, <1>2, <1>7 DEF TypeOK
  <2> QED BY <2>1, <2>2, <2>3, <2>4 DEF TreeTypes
<1>9. /\ Tree(Alive, parent', cptr', optr', yptr')
      /\ Youngest(cptr', yptr', current)
      /\ c \in Alive /\ parent[c] = current
  <2>1. /\ Tree(Alive, parent, cptr, optr, yptr) /\ Youngest(cptr, yptr, current)
        /\ current \in Alive \ {initproc}
    BY <1>2 DEF ProcInv
  <2>2. c = cptr[current] /\ c # NoProc
    BY <1>1
  <2> HIDE DEF c
  <2> QED BY <1>8, <2>1, <2>2, ChildGiven
<1>10. Tree(Alive, parent, cptr, optr, yptr)' /\ Youngest(cptr, yptr, Giver)'
  BY <1>6, <1>9
<1> HIDE DEF c
<1>11. Counted'
  BY <1>1, <1>6 DEF ProcInv, Counted
<1>12. TypeOK'
  BY <1>1, <1>2, <1>3, <1>5, <1>8 DEF TypeOK, TreeTypes
<1>13. waits_for'[initproc] = AnyChild
  BY <1>1 DEF ProcInv
<1>14. GoneHaveNone'
  BY <1>1, <1>2, <1>8, NoProcIsNone DEF ProcInv, GoneHaveNone, Places, Task
<1>15. InitAlone'
  BY <1>1, <1>2 DEF ProcInv, InitAlone
<1>16. NoExitMissed'
  <2> SUFFICES ASSUME NEW p \in Proc, wait_state'[p] = "WT_CHILD", NEW k \in Children(p)',
                      pstate'[k] = "ZOMBIE", waits_for'[p] \in {AnyChild, k}
               PROVE  FALSE
    BY DEF NoExitMissed
  <2>1. /\ k \in Proc /\ ~Free(k) /\ parent'[k] = p
        /\ p \notin W /\ wait_state[p] = "WT_CHILD" /\ pstate[k] = "ZOMBIE"
        /\ waits_for[p] \in {AnyChild, k}
    BY <1>1, <1>5 DEF Children, Free
  <2>2. CASE k = c
    BY <1>4, <1>8, <2>1, <2>2
  <2>3. CASE k # c
    <3>1. k \in Children(p)
      BY <1>8, <2>1, <2>3 DEF Children
    <3> QED BY <1>1, <1>2, <2>1, <3>1 DEF NoExitMissed, Running
  <2> QED BY <2>2, <2>3
<1> QED BY <1>5, <1>10, <1>11, <1>12, <1>13, <1>14, <1>15, <1>16 DEF ProcInv
(* do_fork: a new youngest child, enqueued.                                *)
LEMMA ForkKeeps ==
    ASSUME ProcInv, NEW c \in User, Fork(c)
    PROVE  ProcInv'
<1>1. /\ current \in Proc /\ at[current] = "user" /\ nr_process < MAX_PROCESS /\ c \notin Alive
      /\ wakeup_proc(c) /\ exiting' = exiting /\ waits_for' = waits_for
      /\ nr_process' = nr_process + 1 /\ c \in Proc /\ c \in Task /\ c # initproc /\ c # idleproc
  BY NoProcIsNone DEF Fork, Running, Free, Alive, set_links, User, Task
<1>2. /\ TypeOK /\ RunQueueExact /\ StatesTell /\ Places /\ NoExitMissed /\ SchedTypeOK
      /\ current \in Alive /\ current \in User /\ current # initproc /\ current \in Task /\ Giver = NoProc
      /\ pstate[current] = "RUNNABLE" /\ current # c /\ pstate[c] = "UNINIT"
  BY <1>1, OnHart DEF TypeOK, User, Alive, Free
<1>3. /\ SchedTypeOK' /\ RunQueueExact' /\ current' = current
      /\ pstate'[idleproc] = "RUNNABLE"
      /\ \A x \in Proc : /\ pstate'[x] = IF x = c THEN "RUNNABLE" ELSE pstate[x]
                         /\ wait_state'[x] = IF x = c THEN "none" ELSE wait_state[x]
  <2>1. wait_state'[c] = "none"
    BY <1>1, <1>2 DEF wakeup_proc, SchedTypeOK
  <2>2. pstate[idleproc] = "RUNNABLE"
    BY DEF ProcInv
  <2> QED BY <1>1, <1>2, <2>1, <2>2, WakeupType, WakeupQueue, WakeupEffect DEF Task
<1>4. /\ at' \in [Proc -> At]
      /\ \A x \in Proc : at'[x] = IF x = c THEN "user" ELSE IF x = current THEN "trapret" ELSE at[x]
  BY <1>1, <1>2 DEF Fork, TypeOK, At
<1>5. Alive' = Alive \cup {c} /\ Giver' = NoProc
  <2>1. Alive' = Alive \cup {c}
    BY <1>1, <1>3 DEF Alive, Free
  <2>2. ~ Giving'
    BY <1>1, <1>2, <1>3, <1>4 DEF Giving, Running
  <2> QED BY <2>1, <2>2 DEF Giver
<1>6. cptr[current] \in Link /\ set_links(c, current)
  BY <1>2 DEF TypeOK, Fork
<1>7. /\ TreeTypes(parent', cptr', optr', yptr')
      /\ \A x \in Proc : parent'[x] = IF x = c THEN current ELSE parent[x]
      /\ \A x \in Proc : optr'[x] = IF x = c THEN cptr[current] ELSE optr[x]
      /\ \A x \in Proc : yptr'[x] = IF x = c THEN NoProc
                                    ELSE IF x = cptr[current] THEN c ELSE yptr[x]
      /\ \A x \in Task : cptr'[x] = IF x = c THEN NoProc ELSE IF x = current THEN c ELSE cptr[x]
  <2>1. /\ parent' \in [Proc -> Task \cup {NoProc}]
        /\ \A x \in Proc : parent'[x] = IF x = c THEN current ELSE parent[x]
    BY <1>1, <1>2, <1>6 DEF TypeOK, set_links
  <2>2. /\ optr' \in [Proc -> Link]
        /\ \A x \in Proc : optr'[x] = IF x = c THEN cptr[current] ELSE optr[x]
    BY <1>1, <1>2, <1>6 DEF TypeOK, set_links
  <2>3. /\ yptr' \in [Proc -> Link]
        /\ \A x \in Proc : yptr'[x] = IF x = c THEN NoProc
                                      ELSE IF x = cptr[current] THEN c ELSE yptr[x]
    BY <1>1, <1>2, <1>6, NoProcIsNone DEF TypeOK, YoungerOf, Link, set_links
  <2>4. /\ cptr' \in [Task -> Link]
        /\ \A x \in Task : cptr'[x] = IF x = c THEN NoProc ELSE IF x = current THEN c ELSE cptr[x]
    BY <1>1, <1>2, <1>6 DEF TypeOK, set_links, Link
  <2> QED BY <2>1, <2>2, <2>3, <2>4 DEF TreeTypes
<1>8. /\ Tree(Alive, parent, cptr, optr, yptr) /\ Youngest(cptr, yptr, NoProc)
      /\ IsFiniteSet(Alive) /\ nr_process = 1 + Cardinality(Alive)
  BY <1>2 DEF ProcInv, Counted
<1>9. Tree(Alive \cup {c}, parent', cptr', optr', yptr') /\ Youngest(cptr', yptr', NoProc)
  <2>1. c \in Proc /\ c \notin Alive /\ current \in Alive
    BY <1>1, <1>2
  <2>2. Tree(Alive, parent, cptr, optr, yptr) /\ Youngest(cptr, yptr, NoProc)
    BY <1>8
  <2>3. Linked(c, current, parent, cptr, optr, yptr, parent', cptr', optr', yptr')
    BY <1>7 DEF Linked
  <2> QED BY <2>1, <2>2, <2>3, ChildAdded
<1>10. Tree(Alive, parent, cptr, optr, yptr)' /\ Youngest(cptr, yptr, Giver)'
  BY <1>5, <1>9
<1>11. Counted'
  <2>1. IsFiniteSet(Alive \cup {c}) /\ Cardinality(Alive \cup {c}) = Cardinality(Alive) + 1
    BY <1>1, <1>8, FS_AddElement
  <2>2. Cardinality(Alive) \in Nat
    BY <1>8, FS_CardinalityType
  <2> QED BY <1>1, <1>5, <1>8, <2>1, <2>2 DEF Counted
<1>12. TypeOK'
  <2>1. nr_process' \in 1 .. MAX_PROCESS
    BY <1>1, <1>2, MaxProcessAssumption DEF TypeOK
  <2> QED BY <1>1, <1>2, <1>3, <1>4, <1>7, <2>1 DEF TypeOK, TreeTypes
<1>13. StatesTell'
  BY <1>1, <1>2, <1>3, <1>4 DEF StatesTell
<1>14. Places'
  BY <1>1, <1>2, <1>3, <1>4, NoProcIsNone DEF Places, User
<1>15. waits_for'[initproc] = AnyChild
  BY <1>1 DEF ProcInv
<1>16. GoneHaveNone'
  BY <1>1, <1>2, <1>4, <1>7 DEF ProcInv, GoneHaveNone, Task
<1>17. InitAlone'
  BY <1>1, <1>2, <1>4, NoProcIsNone DEF ProcInv, InitAlone
<1>18. NoExitMissed'
  <2> SUFFICES ASSUME NEW p \in Proc, wait_state'[p] = "WT_CHILD", NEW k \in Children(p)',
                      pstate'[k] = "ZOMBIE", waits_for'[p] \in {AnyChild, k}
               PROVE  FALSE
    BY DEF NoExitMissed
  <2>1. /\ k \in Proc /\ k # c /\ pstate[k] = "ZOMBIE" /\ parent[k] = p
        /\ wait_state[p] = "WT_CHILD" /\ waits_for[p] \in {AnyChild, k}
    BY <1>1, <1>3, <1>7 DEF Children
  <2>2. k \in Children(p)
    BY <2>1 DEF Children, Free
  <2> QED BY <1>1, <1>2, <2>1, <2>2 DEF NoExitMissed, Running
<1> QED BY <1>3, <1>10, <1>11, <1>12, <1>13, <1>14, <1>15, <1>16, <1>17, <1>18 DEF ProcInv

(* do_wait frees the zombie it has found.                                  *)
LEMMA WaitReapsKeeps ==
    ASSUME ProcInv, WaitReaps
    PROVE  ProcInv'
<1> DEFINE f == Found
<1>1. /\ current \in Proc /\ at[current] \in {"wait", "woken"} /\ f # NoProc
      /\ remove_links(f) /\ kfree(f) /\ waits_for' = waits_for
  BY DEF WaitReaps, Scanning, Running
<1>2. /\ TypeOK /\ RunQueueExact /\ StatesTell /\ Places /\ NoExitMissed /\ SchedTypeOK
      /\ current \in Alive /\ current \in Task /\ Giver = NoProc
      /\ pstate[current] = "RUNNABLE"
  BY <1>1, OnHart DEF TypeOK
<1>3. /\ Tree(Alive, parent, cptr, optr, yptr) /\ Youngest(cptr, yptr, NoProc)
      /\ IsFiniteSet(Alive) /\ nr_process = 1 + Cardinality(Alive)
  BY <1>2 DEF ProcInv, Counted
<1>4. f \in Kids(Alive, parent, current) /\ pstate[f] = "ZOMBIE"
  <2>1. CASE waits_for[current] = AnyChild
    <3>1. f = YoungestZombie(current)
      BY <2>1 DEF Found
    <3> QED BY <1>1, <1>2, <1>3, <3>1, ZombieFound
  <2>2. CASE waits_for[current] # AnyChild
    <3>1. /\ f = waits_for[current] /\ f \in User
          /\ ~Free(f) /\ parent[f] = current /\ pstate[f] = "ZOMBIE"
      BY <1>1, <1>2, <2>2 DEF Found, HasKid, TypeOK
    <3> QED BY <3>1 DEF Kids, Alive, User
  <2> QED BY <2>1, <2>2
<1> HIDE DEF f
<1>5. /\ f \in Alive /\ f \in Proc /\ f \in Task /\ f # current /\ f # initproc
      /\ parent[f] = current /\ at[f] = "gone" /\ cptr[f] = NoProc
  <2>1. f \in Alive /\ f \in Proc /\ f # current /\ parent[f] = current
    BY <1>2, <1>4 DEF Kids, Alive
  <2>2. f # initproc
    BY <1>1, <1>3, <2>1, NoProcIsNone DEF Tree, Rooted
  <2>3. at[f] = "gone"
    BY <1>2, <1>4, <2>1 DEF StatesTell, Places
  <2> QED BY <2>1, <2>2, <2>3 DEF ProcInv, GoneHaveNone, Task
<1>6. /\ SchedTypeOK' /\ current' = current /\ run_list' = run_list /\ exiting' = exiting \ {f}
      /\ \A x \in Task : pstate'[x] = IF x = f THEN "UNINIT" ELSE pstate[x]
      /\ wait_state' = wait_state
  <2>1. UNCHANGED <<wait_state, run_list, current>> /\ exiting' = exiting \ {f}
    BY <1>1 DEF kfree
  <2>2. /\ pstate' \in [Task -> State]
        /\ \A x \in Task : pstate'[x] = IF x = f THEN "UNINIT" ELSE pstate[x]
    BY <1>1, <1>2, <1>5 DEF kfree, SchedTypeOK, State
  <2>3. time_slice' \in [Task -> 0 .. MAX_TIME_SLICE] /\ need_resched' \in [Task -> BOOLEAN]
    BY <1>1, <1>2, <1>5, SliceAssumption DEF kfree, SchedTypeOK
  <2> QED BY <1>2, <2>1, <2>2, <2>3 DEF SchedTypeOK
<1>7. RunQueueExact'
  BY <1>2, <1>4, <1>6 DEF RunQueueExact, Task
<1>8. /\ at' \in [Proc -> At] /\ at'[f] = "user"
      /\ at'[current] = IF current = initproc THEN "reaped" ELSE "trapret"
      /\ \A x \in Proc : x # f /\ x # current => at'[x] = at[x]
  BY <1>1, <1>2, <1>5 DEF WaitReaps, TypeOK, At, f
<1>9. Alive' = Alive \ {f} /\ Giver' = NoProc
  <2>1. Alive' = Alive \ {f}
    BY <1>6 DEF Alive, Free, Task
  <2>2. ~ Giving'
    BY <1>6, <1>8 DEF Giving, Running
  <2> QED BY <2>1, <2>2 DEF Giver
<1>10. /\ TreeTypes(parent', cptr', optr', yptr')
       /\ \A x \in Proc : parent'[x] = IF x = f THEN NoProc ELSE parent[x]
       /\ \A x \in Proc : optr'[x] = IF x = f THEN NoProc
                                     ELSE IF x = yptr[f] THEN optr[f] ELSE optr[x]
       /\ \A x \in Proc : yptr'[x] = IF x = f THEN NoProc
                                     ELSE IF x = optr[f] THEN yptr[f] ELSE yptr[x]
       /\ \A x \in Task : cptr'[x] = IF x = parent[f] /\ yptr[f] = NoProc
                                     THEN optr[f] ELSE cptr[x]
       /\ nr_process' = nr_process - 1
  <2>0. optr[f] \in Link /\ yptr[f] \in Link
    BY <1>2, <1>5 DEF TypeOK
  <2>1. /\ parent' \in [Proc -> Task \cup {NoProc}]
        /\ \A x \in Proc : parent'[x] = IF x = f THEN NoProc ELSE parent[x]
    BY <1>1, <1>2 DEF TypeOK, remove_links
  <2>2. /\ optr' \in [Proc -> Link]
        /\ \A x \in Proc : optr'[x] = IF x = f THEN NoProc
                                      ELSE IF x = yptr[f] THEN optr[f] ELSE optr[x]
    <3>1. CASE yptr[f] = NoProc
      BY <1>1, <1>2, <2>0, <3>1, NoProcIsNone DEF TypeOK, remove_links, Link
    <3>2. CASE yptr[f] # NoProc
      BY <1>1, <1>2, <2>0, <3>2 DEF TypeOK, remove_links, Link
    <3> QED BY <3>1, <3>2
  <2>3. /\ yptr' \in [Proc -> Link]
        /\ \A x \in Proc : yptr'[x] = IF x = f THEN NoProc
                                      ELSE IF x = optr[f] THEN yptr[f] ELSE yptr[x]
    BY <1>1, <1>2, <2>0, NoProcIsNone DEF TypeOK, YoungerOf, Link, remove_links
  <2>4. /\ cptr' \in [Task -> Link]
        /\ \A x \in Task : cptr'[x] = IF x = parent[f] /\ yptr[f] = NoProc
                                      THEN optr[f] ELSE cptr[x]
    BY <1>1, <1>2, <1>5, <2>0 DEF TypeOK, remove_links, FirstChildAfter
  <2>5. nr_process' = nr_process - 1
    BY <1>1 DEF remove_links
  <2> QED BY <2>1, <2>2, <2>3, <2>4, <2>5 DEF TreeTypes
<1>11. /\ Tree(Alive \ {f}, parent', cptr', optr', yptr') /\ Youngest(cptr', yptr', NoProc)
  <2>1. f \in Alive /\ f # initproc /\ cptr[f] = NoProc
    BY <1>5
  <2>2. Tree(Alive, parent, cptr, optr, yptr) /\ Youngest(cptr, yptr, NoProc)
    BY <1>3
  <2>3. Unlinked(f, parent, cptr, optr, yptr, parent', cptr', optr', yptr')
    BY <1>10 DEF Unlinked
  <2> QED BY <2>1, <2>2, <2>3, ChildRemoved
<1>12. Tree(Alive, parent, cptr, optr, yptr)' /\ Youngest(cptr, yptr, Giver)'
  BY <1>9, <1>11
<1>13. Counted' /\ nr_process' \in 1 .. MAX_PROCESS
  <2>1. IsFiniteSet(Alive \ {f}) /\ Cardinality(Alive \ {f}) = Cardinality(Alive) - 1
    BY <1>3, <1>5, FS_RemoveElement
  <2>2. Cardinality(Alive) \in Nat /\ Cardinality(Alive \ {f}) \in Nat
    BY <1>3, <2>1, FS_CardinalityType
  <2>3. nr_process \in 1 .. MAX_PROCESS
    BY <1>2 DEF TypeOK
  <2> QED BY <1>3, <1>9, <1>10, <2>1, <2>2, <2>3, MaxProcessAssumption DEF Counted
<1>14. TypeOK'
  BY <1>1, <1>2, <1>6, <1>8, <1>10, <1>13 DEF TypeOK, TreeTypes
<1>15. StatesTell'
  BY <1>1, <1>2, <1>4, <1>5, <1>6, <1>8 DEF StatesTell, Task
<1>16. Places'
  BY <1>1, <1>2, <1>5, <1>6, <1>8, NoProcIsNone DEF Places, User
<1>17. pstate'[idleproc] = "RUNNABLE" /\ waits_for'[initproc] = AnyChild
  BY <1>1, <1>5, <1>6, NoProcIsNone DEF ProcInv, Task
<1>18. GoneHaveNone'
  BY <1>5, <1>8, <1>10 DEF ProcInv, GoneHaveNone, Task
<1>19. InitAlone'
  BY <1>5, <1>8, NoProcIsNone DEF ProcInv, InitAlone
<1>20. NoExitMissed'
  <2> SUFFICES ASSUME NEW p \in Proc, wait_state'[p] = "WT_CHILD", NEW k \in Children(p)',
                      pstate'[k] = "ZOMBIE", waits_for'[p] \in {AnyChild, k}
               PROVE  FALSE
    BY DEF NoExitMissed
  <2>1. /\ k \in Proc /\ k # f /\ pstate[k] = "ZOMBIE" /\ parent[k] = p
        /\ wait_state[p] = "WT_CHILD" /\ waits_for[p] \in {AnyChild, k}
    BY <1>1, <1>6, <1>10 DEF Children, Task
  <2>2. k \in Children(p)
    BY <2>1 DEF Children, Free
  <2> QED BY <1>1, <1>2, <2>1, <2>2 DEF NoExitMissed, Running
<1> QED BY <1>7, <1>12, <1>13, <1>14, <1>15, <1>16, <1>17, <1>18, <1>19, <1>20 DEF ProcInv
-----------------------------------------------------------------------------
(* init_main has forked one process. *)
LEMMA ProcInit ==
    ASSUME Init
    PROVE  ProcInv
<1>1. PICK u \in User :
        /\ pstate = [p \in Task |-> IF p \in {idleproc, initproc, u} THEN "RUNNABLE" ELSE "UNINIT"]
        /\ wait_state = [p \in Task |-> "none"]
        /\ run_list = <<u>>
        /\ current = initproc
        /\ time_slice = [p \in Task |-> IF p = u THEN MAX_TIME_SLICE ELSE 0]
        /\ need_resched = [p \in Task |-> FALSE]
        /\ parent = [p \in Proc |-> CASE p = initproc -> idleproc
                                      [] p = u        -> initproc
                                      [] OTHER        -> NoProc]
        /\ cptr = [p \in Task |-> CASE p = idleproc -> initproc
                                    [] p = initproc -> u
                                    [] OTHER        -> NoProc]
        /\ optr = [p \in Proc |-> NoProc]
        /\ yptr = [p \in Proc |-> NoProc]
        /\ nr_process = 3
        /\ exiting = {}
        /\ at = [p \in Proc |-> IF p = initproc THEN "wait" ELSE "user"]
        /\ waits_for = [p \in Proc |-> AnyChild]
  BY DEF Init
<1>2. /\ u \in Proc /\ u # initproc /\ u # idleproc /\ u # NoProc
      /\ initproc \in Proc /\ initproc \in Task /\ initproc # idleproc /\ initproc # NoProc
      /\ idleproc \in Task /\ idleproc # NoProc /\ idleproc \notin Proc /\ NoProc \notin Proc
  BY NoProcIsNone DEF User, Task
<1>3. Alive = {initproc, u}
  BY <1>1, <1>2 DEF Alive, Free, Task
<1>4. /\ parent[initproc] = idleproc /\ parent[u] = initproc
      /\ cptr[idleproc] = initproc /\ cptr[initproc] = u
      /\ \A p \in Task : p # idleproc /\ p # initproc => cptr[p] = NoProc
      /\ \A p \in Proc : optr[p] = NoProc /\ yptr[p] = NoProc
  BY <1>1, <1>2 DEF Task
<1>5. SchedTypeOK
  <2>1. run_list \in Seq(Proc) /\ current \in Task
    BY <1>1, <1>2
  <2>2. time_slice \in [Task -> 0 .. MAX_TIME_SLICE] /\ need_resched \in [Task -> BOOLEAN]
    BY <1>1, SliceAssumption
  <2>3. pstate \in [Task -> State] /\ wait_state \in [Task -> WaitState]
    BY <1>1 DEF State, WaitState
  <2> QED BY <2>1, <2>2, <2>3 DEF SchedTypeOK
<1>6. TreeTypes(parent, cptr, optr, yptr)
  <2>1. parent \in [Proc -> Task \cup {NoProc}]
    BY <1>1, <1>2 DEF Task
  <2>2. cptr \in [Task -> Link] /\ optr \in [Proc -> Link] /\ yptr \in [Proc -> Link]
    BY <1>1, <1>2 DEF Link
  <2> QED BY <2>1, <2>2 DEF TreeTypes
<1>7. TypeOK
  <2>1. nr_process \in 1 .. MAX_PROCESS
    BY <1>1, MaxProcessAssumption
  <2>2. exiting \subseteq User /\ at \in [Proc -> At] /\ waits_for \in [Proc -> User \cup {AnyChild}]
    BY <1>1 DEF At
  <2> QED BY <1>5, <1>6, <2>1, <2>2 DEF TypeOK, TreeTypes
<1>8. RunQueueExact
  <2>1. \A p : Contains(run_list, p) <=> p = u
    BY <1>1 DEF Contains
  <2>2. IsInjective(run_list)
    BY <1>1 DEF IsInjective
  <2> QED BY <1>1, <1>2, <2>1, <2>2 DEF RunQueueExact, Task
<1>9. StatesTell /\ Places
  BY <1>1, <1>2 DEF StatesTell, Places, User, Task
<1>10. pstate[idleproc] = "RUNNABLE" /\ waits_for[initproc] = AnyChild
  BY <1>1, <1>2
<1>11. Tree(Alive, parent, cptr, optr, yptr)
  <2>1. Alive \subseteq Proc /\ Parents(Alive, parent)
    BY <1>2, <1>3, <1>4 DEF Parents
  <2>2. FirstChild(Alive, parent, cptr, optr)
    BY <1>2, <1>3, <1>4 DEF FirstChild, Kids, Task
  <2>3. Siblings(Alive, parent, cptr, optr, yptr)
    BY <1>2, <1>3, <1>4 DEF Siblings
  <2>4. Ranked(optr)
    <3>1. [p \in Proc |-> 0] \in [Proc -> 0 .. 0] /\ Falls(optr, [p \in Proc |-> 0]) /\ 0 \in Nat
      BY <1>4 DEF Falls
    <3> QED BY <3>1, Zenon DEF Ranked
  <2>5. Rooted(Alive, parent)
    <3> DEFINE depth == [p \in Proc |-> IF p = initproc THEN 0 ELSE 1]
    <3>1. depth \in [Proc -> Nat] /\ Rises(Alive, parent, depth)
      BY <1>2, <1>3, <1>4 DEF Rises
    <3> HIDE DEF depth
    <3> QED BY <1>3, <1>4, <3>1 DEF Rooted
  <2> QED BY <1>4, <1>6, <2>1, <2>2, <2>3, <2>4, <2>5 DEF Tree
<1>12. Youngest(cptr, yptr, Giver)
  BY <1>2, <1>4 DEF Youngest, Task
<1>13. Counted
  <2>1. Cardinality({initproc, u}) = 2 /\ IsFiniteSet({initproc, u})
    <3>1. IsFiniteSet({initproc}) /\ Cardinality({initproc}) = 1
      BY FS_Singleton
    <3>2. /\ IsFiniteSet({initproc} \cup {u})
          /\ Cardinality({initproc} \cup {u}) = Cardinality({initproc}) + 1
      BY <1>2, <3>1, FS_AddElement
    <3>3. {initproc} \cup {u} = {initproc, u}
      OBVIOUS
    <3> QED BY <3>1, <3>2, <3>3
  <2> QED BY <1>1, <1>3, <2>1 DEF Counted
<1>14. GoneHaveNone /\ NoExitMissed /\ InitAlone
  BY <1>1, <1>2 DEF GoneHaveNone, NoExitMissed, InitAlone, Task
<1> QED BY <1>7, <1>8, <1>9, <1>10, <1>11, <1>12, <1>13, <1>14 DEF ProcInv

LEMMA ProcStep ==
    ASSUME ProcInv, [Next]_vars
    PROVE  ProcInv'
<1>1. CASE UNCHANGED vars
  <2>1. UNCHANGED <<sched_vars, tree_vars, exiting, at, waits_for>>
    BY <1>1 DEF vars
  <2> QED BY <2>1 DEF ProcInv, sched_vars, tree_vars, TypeOK, SchedTypeOK, RunQueueExact,
                     StatesTell, Places, Alive, Free, Counted, Giver, Giving, Running,
                     GoneHaveNone, NoExitMissed, Children, InitAlone
<1>2. ASSUME NEW p \in User, Fork(p) \/ Kill(p) PROVE ProcInv'
  BY <1>2, ForkKeeps, KillKeeps
<1>3. CASE \/ ForkFails \/ Yield \/ WaitFails \/ Tick
           \/ \E pid \in User \cup {AnyChild} : Wait(pid)
           \/ TrapReturn /\ ~need_resched[current]
  BY <1>3, MovesStep
<1>4. CASE \/ WaitSchedule \/ InitSchedule \/ ExitSchedule
           \/ TrapReturn /\ need_resched[current]
  BY <1>4, SchedulesStep
<1>5. CASE WaitReaps
  BY <1>5, WaitReapsKeeps
<1>6. CASE WaitSleeps
  BY <1>6, WaitSleepsKeeps
<1>7. CASE Exit \/ WaitKilled \/ TrapKilled
  BY <1>7, BecomeZombieKeeps
<1>8. CASE ExitWakesParent
  BY <1>8, ExitWakesParentKeeps
<1>9. CASE GiveOrphan
  BY <1>9, GiveOrphanKeeps
<1> QED BY <1>1, <1>2, <1>3, <1>4, <1>5, <1>6, <1>7, <1>8, <1>9 DEF Next
(* The inductive invariant: between any two steps of fork, exit, wait and  *)
(* kill, the links are a tree and every process is where its state says.   *)
THEOREM ProcInvariant == Spec => []ProcInv
<1>1. Init => ProcInv
  BY ProcInit
<1>2. ProcInv /\ [Next]_vars => ProcInv'
  BY ProcStep
<1> QED BY <1>1, <1>2, PTL DEF Spec

-----------------------------------------------------------------------------
LEMMA TreeIsFamily == ASSUME ProcInv PROVE FamilyTree
<1>1. /\ TypeOK /\ RunQueueExact /\ StatesTell /\ Places /\ GoneHaveNone /\ Counted
      /\ pstate[idleproc] = "RUNNABLE" /\ Youngest(cptr, yptr, Giver)
      /\ TreeTypes(parent, cptr, optr, yptr) /\ Parents(Alive, parent)
      /\ FirstChild(Alive, parent, cptr, optr) /\ Siblings(Alive, parent, cptr, optr, yptr)
      /\ Alive \subseteq Proc
  BY DEF ProcInv, Tree
<1>2. /\ \A p \in Task : Children(p) = Kids(Alive, parent, p)
      /\ \A p \in Proc : ~Free(p) <=> p \in Alive
  BY DEF Children, Kids, Alive
<1>3. Giver = IF Giving THEN current ELSE NoProc
  BY DEF Giver
<1>4. ASSUME NEW p \in Task
      PROVE  /\ cptr[p] = NoProc <=> Children(p) = {}
             /\ cptr[p] # NoProc =>
                    cptr[p] \in Children(p) /\ ((p = current /\ Giving) \/ yptr[cptr[p]] = NoProc)
  <2>1. /\ cptr[p] = NoProc => Children(p) = {}
        /\ cptr[p] # NoProc => cptr[p] \in Children(p)
    BY <1>1, <1>2 DEF FirstChild, Kids
  <2>2. ASSUME cptr[p] # NoProc, ~ (p = current /\ Giving) PROVE yptr[cptr[p]] = NoProc
    <3>1. p # Giver
      BY <1>3, <2>2, NoProcAssumption
    <3> QED BY <1>1, <2>2, <3>1 DEF Youngest
  <2> QED BY <2>1, <2>2
<1>5. ASSUME NEW c \in Proc, ~Free(c)
      PROVE  /\ parent[c] \in Task /\ pstate[parent[c]] # "UNINIT"
             /\ pstate[parent[c]] = "ZOMBIE" => parent[c] = current /\ Giving
             /\ optr[c] # NoProc => optr[c] \in Children(parent[c]) /\ yptr[optr[c]] = c
             /\ cptr[parent[c]] = c \/ (\E older \in Children(parent[c]) : optr[older] = c)
  <2>1. c \in Alive /\ parent[c] \in Alive \cup {idleproc} /\ parent[c] \in Task
    BY <1>1, <1>2, <1>5 DEF Parents, Task
  <2>2. pstate[parent[c]] # "UNINIT"
    BY <1>1, <2>1 DEF Alive, Free
  <2>3. ASSUME pstate[parent[c]] = "ZOMBIE" PROVE parent[c] = current /\ Giving
    <3>1. parent[c] \in Proc /\ at[parent[c]] \in {"exit", "orphans", "gone"}
      BY <1>1, <2>1, <2>3 DEF StatesTell
    <3>2. c \in Kids(Alive, parent, parent[c])
      BY <2>1 DEF Kids
    <3>3. at[parent[c]] # "gone"
      BY <1>1, <2>1, <3>1, <3>2 DEF GoneHaveNone, FirstChild
    <3>4. parent[c] = current
      BY <1>1, <3>1, <3>3 DEF Places
    <3> QED BY <3>1, <3>3, <3>4 DEF Giving, Running
  <2>4. optr[c] # NoProc => optr[c] \in Children(parent[c]) /\ yptr[optr[c]] = c
    BY <1>1, <1>2, <2>1 DEF Siblings, Kids
  <2>5. cptr[parent[c]] = c \/ (\E older \in Children(parent[c]) : optr[older] = c)
    <3>1. CASE cptr[parent[c]] = c
      BY <3>1
    <3>2. CASE \E o \in Alive : optr[o] = c
      <4>1. PICK o \in Alive : optr[o] = c
        BY <3>2
      <4>2. o \in Proc /\ parent[o] = parent[c]
        BY <1>1, <1>5, <4>1, NoProcIsNone DEF Siblings
      <4> QED BY <1>2, <2>1, <4>1, <4>2 DEF Kids
    <3> QED BY <1>1, <2>1, <3>1, <3>2 DEF Siblings
  <2> QED BY <2>1, <2>2, <2>3, <2>4, <2>5
<1>6. nr_process = 1 + Cardinality({p \in Proc : ~Free(p)})
  BY <1>1 DEF Counted, Alive
<1>7. FreedIsUnused
  <2> SUFFICES ASSUME NEW p \in Proc, Free(p)
               PROVE  /\ p # current /\ ~Contains(run_list, p)
                      /\ cptr[p] = NoProc
                      /\ \A q \in Task : cptr[q] # p
                      /\ \A q \in Proc : ~Free(q) => parent[q] # p /\ optr[q] # p /\ yptr[q] # p
    BY DEF FreedIsUnused
  <2>1. p \notin Alive /\ p \in Task /\ p # idleproc /\ p # NoProc
    BY <1>2, NoProcIsNone DEF Task
  <2>2. p # current /\ ~Contains(run_list, p)
    BY <1>1 DEF StatesTell, RunQueueExact, Free
  <2>3. \A q \in Proc : ~Free(q) => parent[q] # p /\ optr[q] # p /\ yptr[q] # p
    BY <1>1, <1>2, <2>1 DEF Parents, Siblings
  <2>4. \A q \in Task : cptr[q] # p
    BY <1>1, <2>1 DEF FirstChild
  <2>5. cptr[p] = NoProc
    BY <1>1, <2>1 DEF FirstChild, Parents
  <2> QED BY <2>2, <2>3, <2>4, <2>5
<1> QED BY <1>4, <1>5, <1>6, <1>7 DEF FamilyTree

(* nr_process stays between 1 and MAX_PROCESS, initproc is never marked    *)
(* for killing, and the pointers lead to processes or nowhere.             *)
THEOREM TypeCorrect == Spec => []TypeOK
BY ProcInvariant, PTL DEF ProcInv

(* The pointers parent, cptr, optr and yptr, which set_links and           *)
(* remove_links rewrite by hand, and do_exit once more in its loop, always *)
(* describe one tree; nr_process counts it, and nothing leads to a         *)
(* proc_struct that do_wait has freed.                                     *)
THEOREM FamilyAlwaysTree == Spec => []FamilyTree
<1>1. ProcInv => FamilyTree
  BY TreeIsFamily
<1> QED BY <1>1, ProcInvariant, PTL

(* Nobody sleeps in do_wait while a child it waits for is a zombie: the    *)
(* two wakeups of do_exit, of the parent and of the initproc that inherits *)
(* a zombie, are enough.                                                   *)
THEOREM NoExitEverMissed == Spec => []NoExitMissed
BY ProcInvariant, PTL DEF ProcInv

(* The assertions at the end of init_main hold: a do_wait of initproc that *)
(* finds no child leaves it alone with idleproc, at any depth of the tree. *)
THEOREM InitAlwaysFinishesLast == Spec => []InitFinishesLast
<1>1. ASSUME ProcInv, at[initproc] = "end"
      PROVE  cptr[initproc] = NoProc /\ yptr[initproc] = NoProc /\ optr[initproc] = NoProc /\ nr_process = 2
  <2>1. /\ Alive = {initproc} /\ cptr[initproc] = NoProc
        /\ nr_process = 1 + Cardinality(Alive)
        /\ optr \in [Proc -> Link] /\ cptr \in [Task -> Link] /\ Ranked(optr)
        /\ parent[initproc] = idleproc /\ initproc \in Proc
        /\ FirstChild(Alive, parent, cptr, optr) /\ Siblings(Alive, parent, cptr, optr, yptr)
        /\ Youngest(cptr, yptr, Giver) /\ Places
    BY <1>1, NoProcIsNone DEF ProcInv, InitAlone, Counted, Tree, TreeTypes, Rooted
  <2>2. optr[initproc] = NoProc
    <3>1. optr[initproc] # initproc
      BY <2>1, NotOwnElder
    <3> QED BY <2>1, <3>1 DEF Siblings
  <2>3. yptr[initproc] = NoProc
    <3>1. idleproc \in Task /\ initproc \in Kids(Alive, parent, idleproc)
      BY <2>1 DEF Task, Kids
    <3>2. cptr[idleproc] = initproc
      BY <2>1, <3>1 DEF FirstChild
    <3>3. Giver # idleproc
      BY NoProcIsNone DEF Giver, Giving, Running
    <3> QED BY <2>1, <3>1, <3>2, <3>3, NoProcIsNone DEF Youngest
  <2>4. nr_process = 2
    BY <2>1, FS_Singleton
  <2> QED BY <2>1, <2>2, <2>3, <2>4
<1>2. ProcInv => InitFinishesLast
  BY <1>1 DEF InitFinishesLast
<1> QED BY <1>2, ProcInvariant, PTL
=============================================================================
