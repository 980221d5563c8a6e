---------------------------- MODULE FilesProofs ----------------------------
(***************************************************************************)
(* Proofs about Files and Sfs for any processes, tables, descriptors,      *)
(* inodes, directories and disk.                                           *)
(***************************************************************************)
EXTENDS Files, FiniteSetTheorems, WellFoundedInduction, TLAPS

(* Induction over an interval, as a statement about sets: a non-empty set  *)
(* of integers that is bounded below has an element without its            *)
(* predecessor.                                                            *)
LEMMA Least ==
    ASSUME NEW T \in SUBSET Int, NEW a \in Int, \A m \in T : a <= m, T # {}
    PROVE  \E m \in T : m - 1 \notin T /\ \A n \in T : m <= n
<1> DEFINE U == {m \in Nat : a + m \in T}
<1>1. U # {} /\ U \subseteq Nat
  <2>1. PICK m \in T : TRUE
    OBVIOUS
  <2>2. m - a \in U
    BY <2>1
  <2> QED BY <2>2
<1>2. PICK u \in U : \A y \in U : <<y, u>> \notin OpToRel(<, Nat)
  BY <1>1, NatLessThanWellFounded, WFMin, Zenon
<1>3. ASSUME NEW y \in U, y < u PROVE FALSE
  <2>1. <<y, u>> \in OpToRel(<, Nat)
    BY <1>1, <1>3 DEF OpToRel
  <2> QED BY <2>1, <1>2
<1>4. a + u \in T /\ u \in Nat
  OBVIOUS
<1>5. \A n \in T : a + u <= n
  <2> SUFFICES ASSUME NEW n \in T, n < a + u PROVE FALSE
    BY <1>4
  <2>1. n - a \in U /\ n - a < u
    BY <1>4
  <2> QED BY <2>1, <1>3
<1> QED BY <1>4, <1>5

LEMMA Interval ==
    ASSUME NEW a \in Int, NEW b \in Int, NEW S,
           a \in S, \A m \in a + 1 .. b : m - 1 \in S => m \in S
    PROVE  \A m \in a .. b : m \in S
<1> DEFINE T == (a .. b) \ S
<1>1. SUFFICES ASSUME T # {} PROVE FALSE
  BY <1>1
<1>2. PICK m \in T : m - 1 \notin T
  <2>1. T \in SUBSET Int /\ \A m \in T : a <= m
    OBVIOUS
  <2> HIDE DEF T
  <2> QED BY <1>1, <2>1, Least
<1>3. m \in a + 1 .. b /\ m - 1 \in a .. b /\ m \notin S
  OBVIOUS
<1> QED BY <1>2, <1>3

LEMMA MinIsLeast ==
    ASSUME NEW S \in SUBSET Nat, S # {}
    PROVE  Min(S) \in S
<1>1. PICK m \in S : \A n \in S : m <= n
  BY Least
<1> QED BY <1>1, Zenon DEF Min

-----------------------------------------------------------------------------
(* The shape of the state of the file system, whether it has stopped or    *)
(* not.                                                                    *)
FsFields == {"ref", "open", "in_core", "reclaim", "dirty", "din", "disk", "ents", "free", "unused",
             "super_dirty", "disk_free", "disk_unused", "panic"}
DinShape(din) ==
    /\ DOMAIN din = File
    /\ \A i \in File : /\ DOMAIN din[i] = {"size", "blocks", "direct", "indirect"}
                       /\ din[i].blocks \in Int
FsShape(s) ==
    /\ DOMAIN s = FsFields
    /\ DinShape(s.din) /\ DinShape(s.disk)

(* What a step that is about blocks and files leaves alone. *)
CountsKept(s, t) ==
    /\ FsShape(t)
    /\ t.panic = "none" => s.panic = "none"
    /\ t.ref = s.ref /\ t.open = s.open /\ t.in_core = s.in_core /\ t.reclaim = s.reclaim

LEMMA CheckedKeeps ==
    ASSUME NEW s, FsShape(s), NEW c, NEW site, site # "none"
    PROVE  /\ CountsKept(s, Checked(s, c, site))
           /\ Checked(s, c, site).panic = "none" => c /\ s = Checked(s, c, site)
BY DEF FsShape, FsFields, CountsKept, Checked

LEMMA KeptTwice ==
    ASSUME NEW s, NEW t, NEW u, CountsKept(s, t), CountsKept(t, u)
    PROVE  CountsKept(s, u)
BY DEF CountsKept

(* What a call that allocates, maps or frees blocks hands back. *)
BlockCall(s, r) ==
    /\ DOMAIN r = {"ret", "s", "ino"}
    /\ r.ret \in {"ok", "E_NO_MEM"}
    /\ CountsKept(s, r.s)

LEMMA Edited ==
    ASSUME NEW s, FsShape(s), NEW t, DOMAIN t = FsFields, t.panic = s.panic,
           t.ref = s.ref, t.open = s.open, t.in_core = s.in_core, t.reclaim = s.reclaim,
           DinShape(t.din), DinShape(t.disk)
    PROVE  CountsKept(s, t)
BY DEF CountsKept, FsShape

LEMMA DinFields ==
    ASSUME NEW din, DinShape(din), NEW i \in File, NEW v
    PROVE  /\ DinShape([din EXCEPT ![i].indirect = v])
           /\ DinShape([din EXCEPT ![i].size = v])
           /\ \A index : DinShape([din EXCEPT ![i].direct[index] = v])
           /\ v \in Int => DinShape([din EXCEPT ![i].blocks = v])
           /\ \A other : DinShape(other) => DinShape([din EXCEPT ![i] = other[i]])
BY DEF DinShape

LEMMA AllocKeeps ==
    ASSUME NEW s, FsShape(s)
    PROVE  BlockCall(s, sfs_block_alloc(s))
<1> DEFINE t == Checked(s, s.unused > 0, "bitmap")
           u == [t EXCEPT !.free = @ \ {Min(s.free)}, !.unused = @ - 1, !.super_dirty = TRUE,
                          !.ents[Min(s.free)] = EmptySlots]
<1>1. CountsKept(s, t) /\ CountsKept(s, s)
  BY CheckedKeeps DEF CountsKept
<1> HIDE DEF t
<1>2. CountsKept(t, u)
  <2>1. DOMAIN t = FsFields /\ FsShape(t) /\ DinShape(t.din) /\ DinShape(t.disk)
    BY <1>1 DEF CountsKept, FsShape
  <2>2. /\ DOMAIN u = FsFields /\ u.panic = t.panic /\ u.ref = t.ref /\ u.open = t.open
        /\ u.in_core = t.in_core /\ u.reclaim = t.reclaim /\ u.din = t.din /\ u.disk = t.disk
    BY <2>1 DEF FsFields
  <2> HIDE DEF u
  <2> QED BY <2>1, <2>2, Edited
<1>3. CountsKept(s, u)
  BY <1>1, <1>2, KeptTwice
<1>4. sfs_block_alloc(s) = IF s.free = {} THEN [ret |-> "E_NO_MEM", s |-> s, ino |-> NoBlock]
                           ELSE [ret |-> "ok", ino |-> Min(s.free), s |-> u]
  BY Zenon DEF sfs_block_alloc, t
<1> HIDE DEF u
<1> QED BY <1>1, <1>3, <1>4 DEF BlockCall

LEMMA FreeKeeps ==
    ASSUME NEW s, FsShape(s), NEW b
    PROVE  CountsKept(s, sfs_block_free(s, b))
<1> DEFINE t == Checked(s, b \in Block \ s.free, "bitmap")
           u == [t EXCEPT !.free = @ \cup {b}, !.unused = @ + 1, !.super_dirty = TRUE]
<1>1. CountsKept(s, t)
  BY CheckedKeeps
<1> HIDE DEF t
<1>2. DOMAIN t = FsFields /\ FsShape(t) /\ DinShape(t.din) /\ DinShape(t.disk)
  BY <1>1 DEF CountsKept, FsShape
<1>3. /\ DOMAIN u = FsFields /\ u.panic = t.panic /\ u.ref = t.ref /\ u.open = t.open
      /\ u.in_core = t.in_core /\ u.reclaim = t.reclaim /\ u.din = t.din /\ u.disk = t.disk
  BY <1>2 DEF FsFields
<1>4. u = sfs_block_free(s, b)
  BY Zenon DEF sfs_block_free, t
<1> HIDE DEF u
<1>5. CountsKept(t, u)
  BY <1>2, <1>3, Edited
<1> QED BY <1>1, <1>4, <1>5, KeptTwice

LEMMA EnteredKeeps ==
    ASSUME NEW s, NEW e, NEW b, NEW i \in File, NEW k, BlockCall(s, e), BlockCall(e.s, b)
    PROVE  BlockCall(s, Entered(s, e, b, i, k))
<1> DEFINE new == s.din[i].indirect = NoBlock
           r == [b EXCEPT !.s.ents[e.ino][k] = b.ino, !.s.din[i].indirect = e.ino,
                          !.s.dirty = IF new THEN @ \cup {i} ELSE @]
           q == [b EXCEPT !.s = IF new THEN sfs_block_free(@, e.ino) ELSE @]
<1>1. CountsKept(s, b.s) /\ FsShape(b.s)
  BY KeptTwice DEF BlockCall, CountsKept
<1>2. CountsKept(s, q.s) /\ DOMAIN q = {"ret", "s", "ino"} /\ q.ret = b.ret
  <2>1. CountsKept(s, sfs_block_free(b.s, e.ino))
    BY <1>1, FreeKeeps, KeptTwice
  <2> QED BY <2>1, <1>1 DEF BlockCall
<1>3. CountsKept(s, r.s) /\ DOMAIN r = {"ret", "s", "ino"} /\ r.ret = b.ret
  <2>1. DOMAIN b.s = FsFields /\ DinShape(b.s.din) /\ DinShape(b.s.disk)
    BY <1>1 DEF FsShape
  <2>2. DOMAIN r = {"ret", "s", "ino"} /\ r.ret = b.ret
    BY DEF BlockCall
  <2>3. /\ DOMAIN r.s = FsFields /\ r.s.panic = b.s.panic /\ r.s.ref = b.s.ref
        /\ r.s.open = b.s.open /\ r.s.in_core = b.s.in_core /\ r.s.reclaim = b.s.reclaim
        /\ r.s.disk = b.s.disk /\ r.s.din = [b.s.din EXCEPT ![i].indirect = e.ino]
    <3> DEFINE u == [b.s EXCEPT !.ents[e.ino][k] = b.ino, !.din[i].indirect = e.ino,
                                !.dirty = IF new THEN @ \cup {i} ELSE @]
    <3>1. r.s = u
      BY <2>1 DEF BlockCall, FsFields
    <3>2. /\ DOMAIN u = FsFields /\ u.panic = b.s.panic /\ u.ref = b.s.ref
          /\ u.open = b.s.open /\ u.in_core = b.s.in_core /\ u.reclaim = b.s.reclaim
          /\ u.disk = b.s.disk /\ u.din = [b.s.din EXCEPT ![i].indirect = e.ino]
      BY <2>1 DEF FsFields
    <3> HIDE DEF r, u
    <3> QED BY <3>1, <3>2
  <2> HIDE DEF r
  <2>5. DinShape(r.s.din)
    <3>1. DinShape([b.s.din EXCEPT ![i].indirect = e.ino])
      BY <2>1, DinFields
    <3> QED BY <2>3, <3>1, Zenon
  <2>4. CountsKept(b.s, r.s)
    BY <2>1, <2>3, <2>5, <1>1, Edited
  <2> QED BY <1>1, <2>2, <2>4, KeptTwice
<1>4. Entered(s, e, b, i, k) = IF b.ret # "ok" THEN q ELSE r
  BY Zenon DEF Entered
<1> HIDE DEF q, r
<1> QED BY <1>2, <1>3, <1>4 DEF BlockCall

LEMMA NewEntryKeeps ==
    ASSUME NEW s, FsShape(s), NEW i \in File, NEW k
    PROVE  BlockCall(s, NewEntry(s, i, k))
<1> DEFINE old == s.din[i].indirect
           e == IF old # NoBlock THEN [ret |-> "ok", s |-> s, ino |-> old] ELSE sfs_block_alloc(s)
           entered == Entered(s, e, sfs_block_alloc(e.s), i, k)
<1>1. BlockCall(s, [ret |-> "ok", s |-> s, ino |-> old])
  BY DEF BlockCall, CountsKept
<1>2. BlockCall(s, e)
  BY <1>1, AllocKeeps
<1> HIDE DEF e
<1>3. BlockCall(s, entered)
  <2>1. BlockCall(e.s, sfs_block_alloc(e.s))
    BY <1>2, AllocKeeps DEF BlockCall, CountsKept
  <2> QED BY <1>2, <2>1, EnteredKeeps
<1>4. NewEntry(s, i, k) = IF e.ret = "ok" THEN entered ELSE e
  BY Zenon DEF NewEntry, Then, e
<1> QED BY <1>2, <1>3, <1>4

LEMMA SubKeeps ==
    ASSUME NEW s, FsShape(s), NEW i \in File, NEW k, NEW create
    PROVE  BlockCall(s, sfs_bmap_get_sub_nolock(s, i, k, create))
<1>1. \A ino : BlockCall(s, [ret |-> "ok", s |-> s, ino |-> ino])
  BY DEF BlockCall, CountsKept
<1> QED BY <1>1, NewEntryKeeps, Zenon DEF sfs_bmap_get_sub_nolock

LEMMA DirectKeeps ==
    ASSUME NEW s, NEW b, BlockCall(s, b), NEW i \in File, NEW index
    PROVE  BlockCall(s, [b EXCEPT !.s.din[i].direct[index] = b.ino, !.s.dirty = @ \cup {i}])
<1> DEFINE r == [b EXCEPT !.s.din[i].direct[index] = b.ino, !.s.dirty = @ \cup {i}]
           u == [b.s EXCEPT !.din[i].direct[index] = b.ino, !.dirty = @ \cup {i}]
           din == [b.s.din EXCEPT ![i].direct[index] = b.ino]
<1>1. FsShape(b.s) /\ DOMAIN b.s = FsFields /\ DinShape(b.s.din) /\ DinShape(b.s.disk)
  BY DEF BlockCall, CountsKept, FsShape
<1>2. DOMAIN r = {"ret", "s", "ino"} /\ r.ret = b.ret /\ r.s = u
  BY <1>1 DEF BlockCall, FsFields
<1>3. /\ DOMAIN u = FsFields /\ u.panic = b.s.panic /\ u.ref = b.s.ref
      /\ u.open = b.s.open /\ u.in_core = b.s.in_core /\ u.reclaim = b.s.reclaim
      /\ u.disk = b.s.disk /\ u.din = din
  BY <1>1 DEF FsFields
<1>4. DinShape(din)
  BY <1>1, DinFields
<1> HIDE DEF r, u, din
<1>5. CountsKept(b.s, u)
  BY <1>1, <1>3, <1>4, Edited
<1>6. BlockCall(s, r)
  BY <1>2, <1>5, KeptTwice DEF BlockCall
<1> QED BY <1>6 DEF r

LEMMA GetKeeps ==
    ASSUME NEW s, FsShape(s), NEW i \in File, NEW index, NEW create
    PROVE  BlockCall(s, sfs_bmap_get_nolock(s, i, index, create))
<1> DEFINE ino == s.din[i].direct[index]
           r == sfs_bmap_get_nolock(s, i, index, create)
           b == sfs_block_alloc(s)
           direct == [b EXCEPT !.s.din[i].direct[index] = b.ino, !.s.dirty = @ \cup {i}]
           call == IF b.ret = "ok" THEN direct ELSE b
<1>1. \A n : BlockCall(s, [ret |-> "ok", s |-> s, ino |-> n])
  BY DEF BlockCall, CountsKept
<1>2. BlockCall(s, call)
  BY AllocKeeps, DirectKeeps
<1>3. BlockCall(s, [ret |-> "ok", s |-> Checked(s, FALSE, "bmap"), ino |-> NoBlock])
  BY CheckedKeeps DEF BlockCall
<1>4. BlockCall(s, sfs_bmap_get_sub_nolock(s, i, index - SFS_NDIRECT, create))
  BY SubKeeps
<1>5. r \in {[ret |-> "ok", s |-> s, ino |-> ino], call,
             sfs_bmap_get_sub_nolock(s, i, index - SFS_NDIRECT, create),
             [ret |-> "ok", s |-> Checked(s, FALSE, "bmap"), ino |-> NoBlock]}
  BY DEF sfs_bmap_get_nolock, Then
<1> HIDE DEF r, call
<1>6. BlockCall(s, r)
  BY <1>1, <1>2, <1>3, <1>4, <1>5, Zenon
<1> QED BY <1>6 DEF r

LEMMA LoadKeeps ==
    ASSUME NEW s, FsShape(s), NEW i \in File, NEW index
    PROVE  BlockCall(s, sfs_bmap_load_nolock(s, i, index))
<1> DEFINE create == index = s.din[i].blocks
           t == Checked(s, index <= s.din[i].blocks, "bmap")
           b == sfs_bmap_get_nolock(t, i, index, create)
           w == Checked(b.s, b.ino \in Block \ b.s.free, "bmap")
           u == [w EXCEPT !.din[i].blocks = IF create THEN @ + 1 ELSE @]
           din == [w.din EXCEPT ![i].blocks = IF create THEN @ + 1 ELSE @]
           r == [b EXCEPT !.s = u]
<1>1. CountsKept(s, t)
  BY CheckedKeeps
<1> HIDE DEF t
<1>2. BlockCall(t, b)
  <2>1. FsShape(t)
    BY <1>1 DEF CountsKept
  <2> QED BY <2>1, GetKeeps
<1> HIDE DEF b
<1>3. CountsKept(b.s, w)
  <2>1. FsShape(b.s)
    BY <1>2 DEF BlockCall, CountsKept
  <2> QED BY <2>1, CheckedKeeps
<1>4. CountsKept(s, w)
  BY <1>1, <1>2, <1>3, KeptTwice DEF BlockCall
<1> HIDE DEF w
<1>5. CountsKept(w, u)
  <2>1. FsShape(w) /\ DOMAIN w = FsFields /\ DinShape(w.din) /\ DinShape(w.disk)
    BY <1>4 DEF CountsKept, FsShape
  <2>2. /\ DOMAIN u = FsFields /\ u.panic = w.panic /\ u.ref = w.ref /\ u.open = w.open
        /\ u.in_core = w.in_core /\ u.reclaim = w.reclaim /\ u.disk = w.disk /\ u.din = din
    BY <2>1 DEF FsFields
  <2>3. DinShape(din)
    BY <2>1 DEF DinShape
  <2> HIDE DEF u, din
  <2> QED BY <2>1, <2>2, <2>3, Edited
<1> HIDE DEF u
<1>6. BlockCall(s, r)
  <2>1. CountsKept(s, u)
    BY <1>4, <1>5, KeptTwice
  <2> QED BY <1>2, <2>1 DEF BlockCall
<1>7. BlockCall(s, b)
  BY <1>1, <1>2, KeptTwice DEF BlockCall
<1>8. sfs_bmap_load_nolock(s, i, index) = IF b.ret = "ok" THEN r ELSE b
  BY Zenon DEF sfs_bmap_load_nolock, Then, t, b, w, u
<1> HIDE DEF r
<1> QED BY <1>6, <1>7, <1>8

LEMMA FreeBlockKeeps ==
    ASSUME NEW s, FsShape(s), NEW i \in File, NEW index
    PROVE  CountsKept(s, sfs_bmap_free_nolock(s, i, index))
<1> DEFINE ent == s.din[i].indirect
           ino == IF index \in Direct THEN s.din[i].direct[index]
                  ELSE IF ent = NoBlock THEN NoBlock ELSE s.ents[ent][index - SFS_NDIRECT]
           t == sfs_block_free(s, ino)
           u == [t EXCEPT !.din[i].direct[index] = NoBlock, !.dirty = @ \cup {i}]
           v == [t EXCEPT !.ents[ent][index - SFS_NDIRECT] = NoBlock]
           din == [t.din EXCEPT ![i].direct[index] = NoBlock]
<1>1. CountsKept(s, s) /\ CountsKept(s, t)
  BY FreeKeeps DEF CountsKept
<1>2. sfs_bmap_free_nolock(s, i, index) \in {s, u, v}
  BY Zenon DEF sfs_bmap_free_nolock
<1> HIDE DEF t
<1>3. FsShape(t) /\ DOMAIN t = FsFields /\ DinShape(t.din) /\ DinShape(t.disk)
  BY <1>1 DEF CountsKept, FsShape
<1>4. CountsKept(t, u)
  <2>1. /\ DOMAIN u = FsFields /\ u.panic = t.panic /\ u.ref = t.ref /\ u.open = t.open
        /\ u.in_core = t.in_core /\ u.reclaim = t.reclaim /\ u.disk = t.disk /\ u.din = din
    BY <1>3 DEF FsFields
  <2>2. DinShape(din)
    BY <1>3, DinFields
  <2> HIDE DEF u, din
  <2> QED BY <1>3, <2>1, <2>2, Edited
<1>5. CountsKept(t, v)
  <2>1. /\ DOMAIN v = FsFields /\ v.panic = t.panic /\ v.ref = t.ref /\ v.open = t.open
        /\ v.in_core = t.in_core /\ v.reclaim = t.reclaim /\ v.disk = t.disk /\ v.din = t.din
    BY <1>3 DEF FsFields
  <2> HIDE DEF v
  <2> QED BY <1>3, <2>1, Edited
<1> HIDE DEF u, v
<1>6. CountsKept(s, u) /\ CountsKept(s, v)
  BY <1>1, <1>4, <1>5, KeptTwice
<1> QED BY <1>1, <1>2, <1>6

LEMMA TruncateKeeps ==
    ASSUME NEW s, FsShape(s), NEW i \in File
    PROVE  CountsKept(s, sfs_bmap_truncate_nolock(s, i))
<1> DEFINE t == sfs_bmap_free_nolock(s, i, s.din[i].blocks - 1)
           u == [t EXCEPT !.din[i].blocks = @ - 1, !.dirty = @ \cup {i}]
           din == [t.din EXCEPT ![i].blocks = @ - 1]
<1>1. CountsKept(s, t)
  BY FreeBlockKeeps
<1>2. sfs_bmap_truncate_nolock(s, i) = u
  BY Zenon DEF sfs_bmap_truncate_nolock
<1> HIDE DEF t
<1>3. FsShape(t) /\ DOMAIN t = FsFields /\ DinShape(t.din) /\ DinShape(t.disk)
  BY <1>1 DEF CountsKept, FsShape
<1>4. /\ DOMAIN u = FsFields /\ u.panic = t.panic /\ u.ref = t.ref /\ u.open = t.open
      /\ u.in_core = t.in_core /\ u.reclaim = t.reclaim /\ u.disk = t.disk /\ u.din = din
  BY <1>3 DEF FsFields
<1>5. DinShape(din)
  BY <1>3 DEF DinShape
<1> HIDE DEF u, din
<1>6. CountsKept(t, u)
  BY <1>3, <1>4, <1>5, Edited
<1> QED BY <1>1, <1>2, <1>6, KeptTwice

(* The two loops of sfs_truncfile.  That the recursive function exists is  *)
(* an induction over its domain, what it computes another one.             *)
LEMMA GrownLoop ==
    ASSUME NEW s, FsShape(s), NEW i \in File, NEW n \in Int, s.din[i].blocks <= n
    PROVE  \E grow :
             /\ Grown(s, i, n) = grow[n]
             /\ grow[s.din[i].blocks] = [ret |-> "ok", s |-> s, ino |-> NoBlock]
             /\ \A m \in s.din[i].blocks + 1 .. n :
                  grow[m] = IF grow[m - 1].ret = "ok"
                            THEN sfs_bmap_load_nolock(grow[m - 1].s, i, m - 1) ELSE grow[m - 1]
<1> DEFINE first == s.din[i].blocks
           base == [ret |-> "ok", s |-> s, ino |-> NoBlock]
           Loop(grow, last) ==
                grow = [m \in first .. last |->
                           IF m = first THEN base
                           ELSE Then(grow[m - 1], LAMBDA g : sfs_bmap_load_nolock(g.s, i, m - 1))]
           S == {last \in Int : \E grow : Loop(grow, last)}
<1>1. first \in Int
  BY DEF FsShape, DinShape
<1>2. ASSUME NEW last \in first + 1 .. n, \E grow : Loop(grow, last - 1)
      PROVE  \E grow : Loop(grow, last)
  <2>1. PICK g : Loop(g, last - 1)
    BY <1>2
  <2> DEFINE h == [m \in first .. last |->
                      IF m = first THEN base
                      ELSE Then(g[m - 1], LAMBDA r : sfs_bmap_load_nolock(r.s, i, m - 1))]
  <2>2. ASSUME NEW m \in first .. last - 1 PROVE h[m] = g[m]
    <3>1. m \in first .. last
      BY <1>1
    <3>2. g[m] = IF m = first THEN base
                 ELSE Then(g[m - 1], LAMBDA r : sfs_bmap_load_nolock(r.s, i, m - 1))
      BY <2>1, Zenon
    <3>3. h[m] = IF m = first THEN base
                 ELSE Then(g[m - 1], LAMBDA r : sfs_bmap_load_nolock(r.s, i, m - 1))
      BY <3>1, Zenon
    <3> QED BY <3>2, <3>3, Zenon
  <2>3. \A m \in first .. last : m # first => m - 1 \in first .. last - 1
    BY <1>1
  <2>4. Loop(h, last)
    BY <2>2, <2>3
  <2> HIDE DEF h
  <2> QED BY <2>4, Zenon
<1>3. \E grow : Loop(grow, first)
  <2>1. Loop([m \in first .. first |-> base], first)
    BY <1>1
  <2> QED BY <2>1
<1>4. \E grow : Loop(grow, n)
  <2> HIDE DEF Loop
  <2>1. first \in S /\ \A last \in first + 1 .. n : last - 1 \in S => last \in S
    BY <1>1, <1>2, <1>3
  <2> HIDE DEF S
  <2>2. \A m \in first .. n : m \in S
    BY <1>1, <2>1, Interval, Zenon
  <2>3. n \in S
    BY <1>1, <2>2
  <2> QED BY <2>3 DEF S
<1>5. PICK grow : Loop(grow, n) /\ Grown(s, i, n) = grow[n]
  BY <1>4, Zenon DEF Grown
<1>6. grow[first] = base
  <2>1. first \in first .. n
    BY <1>1
  <2> QED BY <2>1, <1>5, Zenon
<1>7. ASSUME NEW m \in first + 1 .. n
      PROVE  grow[m] = IF grow[m - 1].ret = "ok"
                       THEN sfs_bmap_load_nolock(grow[m - 1].s, i, m - 1) ELSE grow[m - 1]
  <2>1. m \in first .. n /\ m # first
    BY <1>1
  <2> QED BY <1>5, <2>1, Zenon DEF Then
<1> HIDE DEF Loop, base, first
<1>8. /\ Grown(s, i, n) = grow[n] /\ grow[first] = base
      /\ \A m \in first + 1 .. n :
            grow[m] = IF grow[m - 1].ret = "ok"
                      THEN sfs_bmap_load_nolock(grow[m - 1].s, i, m - 1) ELSE grow[m - 1]
  BY <1>5, <1>6, <1>7
<1> QED BY <1>8, Zenon DEF first, base

LEMMA GrownKeeps ==
    ASSUME NEW s, FsShape(s), NEW i \in File, NEW n \in Int, s.din[i].blocks <= n
    PROVE  BlockCall(s, Grown(s, i, n))
<1> DEFINE first == s.din[i].blocks
           Load(grow, m) == IF grow[m - 1].ret = "ok"
                            THEN sfs_bmap_load_nolock(grow[m - 1].s, i, m - 1) ELSE grow[m - 1]
<1>1. first \in Int /\ first <= n
  BY DEF FsShape, DinShape
<1>2. PICK grow : /\ Grown(s, i, n) = grow[n]
                  /\ grow[first] = [ret |-> "ok", s |-> s, ino |-> NoBlock]
                  /\ \A m \in first + 1 .. n : grow[m] = Load(grow, m)
  BY GrownLoop
<1> HIDE DEF first
<1> DEFINE G == {m \in Int : BlockCall(s, grow[m])}
<1>3. first \in G
  <2>1. BlockCall(s, grow[first])
    BY <1>2 DEF BlockCall, CountsKept
  <2> QED BY <1>1, <2>1
<1>4. ASSUME NEW m \in first + 1 .. n, m - 1 \in G PROVE m \in G
  <2> DEFINE r == sfs_bmap_load_nolock(grow[m - 1].s, i, m - 1)
  <2>1. BlockCall(s, grow[m - 1])
    BY <1>4
  <2>2. BlockCall(grow[m - 1].s, r)
    BY <2>1, LoadKeeps DEF BlockCall, CountsKept
  <2>3. BlockCall(s, r)
    BY <2>1, <2>2, KeptTwice DEF BlockCall
  <2>4. grow[m] = IF grow[m - 1].ret = "ok" THEN r ELSE grow[m - 1]
    BY <1>2
  <2> HIDE DEF r
  <2>5. m \in Int /\ BlockCall(s, grow[m])
    BY <1>1, <2>1, <2>3, <2>4
  <2> QED BY <2>5
<1> HIDE DEF G
<1>5. \A m \in first .. n : m \in G
  BY <1>1, <1>3, <1>4, Interval, Zenon
<1>6. n \in first .. n
  BY <1>1
<1> QED BY <1>2, <1>5, <1>6 DEF G

LEMMA ShrunkLoop ==
    ASSUME NEW s, FsShape(s), NEW i \in File, NEW n \in Int, n <= s.din[i].blocks
    PROVE  \E shrink :
             /\ Shrunk(s, i, n) = shrink[n] /\ shrink[s.din[i].blocks] = s
             /\ \A m \in n .. s.din[i].blocks - 1 :
                  shrink[m] = sfs_bmap_truncate_nolock(shrink[m + 1], i)
<1> DEFINE nblks == s.din[i].blocks
           Loop(shrink, first) ==
                shrink = [m \in first .. nblks |->
                             IF m = nblks THEN s ELSE sfs_bmap_truncate_nolock(shrink[m + 1], i)]
           S == {j \in Int : \E shrink : Loop(shrink, nblks - j)}
<1>1. nblks \in Int
  BY DEF FsShape, DinShape
<1>2. ASSUME NEW first \in n .. nblks - 1, \E shrink : Loop(shrink, first + 1)
      PROVE  \E shrink : Loop(shrink, first)
  <2>1. PICK g : Loop(g, first + 1)
    BY <1>2
  <2> DEFINE h == [m \in first .. nblks |->
                      IF m = nblks THEN s ELSE sfs_bmap_truncate_nolock(g[m + 1], i)]
  <2>2. \A m \in first + 1 .. nblks : h[m] = g[m]
    BY <2>1, <1>1
  <2>3. \A m \in first .. nblks : m # nblks => m + 1 \in first + 1 .. nblks
    BY <1>1
  <2>4. Loop(h, first)
    BY <2>2, <2>3
  <2> HIDE DEF h
  <2> QED BY <2>4, Zenon
<1>3. \E shrink : Loop(shrink, nblks - 0)
  <2>1. Loop([m \in nblks .. nblks |-> s], nblks - 0)
    BY <1>1
  <2> QED BY <2>1
<1>4. \E shrink : Loop(shrink, n)
  <2>1. ASSUME NEW j \in 0 + 1 .. nblks - n, \E shrink : Loop(shrink, nblks - (j - 1))
        PROVE  \E shrink : Loop(shrink, nblks - j)
    <3>1. nblks - j \in n .. nblks - 1 /\ nblks - (j - 1) = (nblks - j) + 1
      BY <1>1
    <3> HIDE DEF Loop
    <3> QED BY <1>2, <2>1, <3>1
  <2> HIDE DEF Loop
  <2>2. 0 \in S /\ \A j \in 0 + 1 .. nblks - n : j - 1 \in S => j \in S
    BY <1>1, <2>1, <1>3
  <2> HIDE DEF S
  <2>3. 0 \in Int /\ nblks - n \in Int /\ nblks - n \in 0 .. nblks - n /\ nblks - (nblks - n) = n
    BY <1>1
  <2>4. \A j \in 0 .. nblks - n : j \in S
    BY <2>2, <2>3, Interval, Zenon
  <2>5. nblks - n \in S
    BY <2>3, <2>4
  <2> QED BY <2>3, <2>5 DEF S
<1>5. PICK shrink : Loop(shrink, n) /\ Shrunk(s, i, n) = shrink[n]
  BY <1>4, Zenon DEF Shrunk
<1>6. shrink[nblks] = s
  <2>1. nblks \in n .. nblks
    BY <1>1
  <2> QED BY <2>1, <1>5, Zenon
<1>7. ASSUME NEW m \in n .. nblks - 1
      PROVE  shrink[m] = sfs_bmap_truncate_nolock(shrink[m + 1], i)
  <2>1. m \in n .. nblks /\ m # nblks
    BY <1>1
  <2> QED BY <1>5, <2>1, Zenon
<1> HIDE DEF Loop, nblks
<1>8. /\ Shrunk(s, i, n) = shrink[n] /\ shrink[nblks] = s
      /\ \A m \in n .. nblks - 1 : shrink[m] = sfs_bmap_truncate_nolock(shrink[m + 1], i)
  BY <1>5, <1>6, <1>7
<1> QED BY <1>8, Zenon DEF nblks

(* An induction downwards.                                                 *)
LEMMA Downwards ==
    ASSUME NEW a \in Int, NEW b \in Int, a <= b, NEW S,
           b \in S, \A m \in a .. b - 1 : m + 1 \in S => m \in S
    PROVE  a \in S
<1> DEFINE T == {j \in Int : b - j \in S}
<1>1. 0 \in T
  BY b - 0 = b
<1>2. ASSUME NEW j \in 0 + 1 .. b - a, j - 1 \in T PROVE j \in T
  <2>1. b - j \in a .. b - 1 /\ (b - j) + 1 = b - (j - 1) /\ j \in Int
    OBVIOUS
  <2> QED BY <1>2, <2>1
<1> HIDE DEF T
<1>3. 0 \in Int /\ b - a \in Int /\ b - a \in 0 .. b - a /\ b - (b - a) = a
  OBVIOUS
<1>4. \A j \in 0 .. b - a : j \in T
  BY <1>1, <1>2, <1>3, Interval, Zenon
<1> QED BY <1>3, <1>4 DEF T

LEMMA ShrunkKeeps ==
    ASSUME NEW s, FsShape(s), NEW i \in File, NEW n \in Int, n <= s.din[i].blocks
    PROVE  CountsKept(s, Shrunk(s, i, n))
<1> DEFINE nblks == s.din[i].blocks
<1>1. nblks \in Int /\ n <= nblks
  BY DEF FsShape, DinShape
<1>2. PICK shrink : /\ Shrunk(s, i, n) = shrink[n] /\ shrink[nblks] = s
                    /\ \A m \in n .. nblks - 1 :
                         shrink[m] = sfs_bmap_truncate_nolock(shrink[m + 1], i)
  BY ShrunkLoop
<1> HIDE DEF nblks
<1> DEFINE G == {m \in Int : CountsKept(s, shrink[m])}
<1>3. nblks \in G
  BY <1>1, <1>2 DEF CountsKept
<1>4. ASSUME NEW m \in n .. nblks - 1, m + 1 \in G PROVE m \in G
  <2>1. CountsKept(s, shrink[m + 1])
    BY <1>4
  <2>2. CountsKept(shrink[m + 1], sfs_bmap_truncate_nolock(shrink[m + 1], i))
    BY <2>1, TruncateKeeps DEF CountsKept
  <2>3. shrink[m] = sfs_bmap_truncate_nolock(shrink[m + 1], i) /\ m \in Int
    BY <1>1, <1>2
  <2>4. CountsKept(s, shrink[m])
    BY <2>1, <2>2, <2>3, KeptTwice
  <2> QED BY <2>3, <2>4
<1> HIDE DEF G
<1>5. n \in G
  BY <1>1, <1>3, <1>4, Downwards, Zenon
<1> QED BY <1>2, <1>5 DEF G

LEMMA ResizedKeeps ==
    ASSUME NEW s, FsShape(s), NEW i \in File, NEW len
    PROVE  CountsKept(s, Resized(s, i, len))
<1> DEFINE u == [s EXCEPT !.din[i].size = len, !.dirty = @ \cup {i}]
           din == [s.din EXCEPT ![i].size = len]
<1>1. DOMAIN s = FsFields /\ DinShape(s.din) /\ DinShape(s.disk)
  BY DEF FsShape
<1>2. /\ DOMAIN u = FsFields /\ u.panic = s.panic /\ u.ref = s.ref /\ u.open = s.open
      /\ u.in_core = s.in_core /\ u.reclaim = s.reclaim /\ u.disk = s.disk /\ u.din = din
  BY <1>1 DEF FsFields
<1>3. DinShape(din)
  BY <1>1, DinFields
<1>4. u = Resized(s, i, len)
  BY Zenon DEF Resized
<1> HIDE DEF u, din
<1> QED BY <1>1, <1>2, <1>3, <1>4, Edited

LEMMA TruncfileKeeps ==
    ASSUME NEW s, FsShape(s), NEW i \in File, NEW len
    PROVE  /\ CountsKept(s, sfs_truncfile(s, i, len).s)
           /\ sfs_truncfile(s, i, len).ret \in {"ok", "E_INVAL", "E_NO_MEM"}
<1> DEFINE tblks == ROUNDUP_DIV(len)
           nblks == s.din[i].blocks
           r == IF nblks < tblks THEN Grown(s, i, tblks)
                ELSE [ret |-> "ok", s |-> Shrunk(s, i, tblks)]
           Kept(q) == CountsKept(s, q.s) /\ q.ret \in {"ok", "E_INVAL", "E_NO_MEM"}
<1>1. Kept([ret |-> "ok", s |-> Checked(s, tblks = nblks, "truncfile")])
  BY CheckedKeeps
<1>2. Kept(Fail(s, "E_INVAL"))
  BY DEF Fail, CountsKept
<1>3. ASSUME len \in 0 .. SFS_MAX_FILE_SIZE
      PROVE  Kept(r) /\ Kept([ret |-> "ok", s |-> Resized(r.s, i, len)])
  <2>1. len \in Int
    BY <1>3, SfsAssumption
  <2>2. tblks \in Int /\ nblks \in Int
    BY <2>1, SfsAssumption DEF ROUNDUP_DIV, FsShape, DinShape
  <2> HIDE DEF tblks, nblks
  <2>3. CASE nblks < tblks
    <3>1. BlockCall(s, Grown(s, i, tblks))
      BY <2>2, <2>3, GrownKeeps DEF nblks
    <3> QED BY <2>3, <3>1, ResizedKeeps, KeptTwice DEF BlockCall, CountsKept
  <2>4. CASE ~ (nblks < tblks)
    <3>1. CountsKept(s, Shrunk(s, i, tblks))
      BY <2>2, <2>4, ShrunkKeeps DEF nblks
    <3> QED BY <2>4, <3>1, ResizedKeeps, KeptTwice DEF CountsKept
  <2> QED BY <2>3, <2>4
<1>4. sfs_truncfile(s, i, len) =
        IF len \notin 0 .. SFS_MAX_FILE_SIZE THEN Fail(s, "E_INVAL")
        ELSE IF s.din[i].size = len
             THEN [ret |-> "ok", s |-> Checked(s, tblks = nblks, "truncfile")]
        ELSE IF r.ret = "ok" THEN [ret |-> "ok", s |-> Resized(r.s, i, len)] ELSE r
  BY Zenon DEF sfs_truncfile, Then
<1> HIDE DEF r, tblks, nblks
<1> QED BY <1>1, <1>2, <1>3, <1>4

LEMMA TryseekKeeps ==
    ASSUME NEW s, FsShape(s), NEW i \in File, NEW pos
    PROVE  CountsKept(s, sfs_tryseek(s, i, pos).s)
<1>1. CountsKept(s, s) /\ CountsKept(s, Fail(s, "E_INVAL").s)
  BY DEF CountsKept, Fail
<1>2. sfs_tryseek(s, i, pos) \in {Fail(s, "E_INVAL"), sfs_truncfile(s, i, pos), [ret |-> "ok", s |-> s]}
  BY Zenon DEF sfs_tryseek
<1> QED BY <1>1, <1>2, TruncfileKeeps

LEMMA WriteKeeps ==
    ASSUME NEW s, FsShape(s), NEW i \in File, NEW offset
    PROVE  CountsKept(s, sfs_io_nolock(s, i, offset, TRUE))
<1>1. CountsKept(s, s)
  BY DEF CountsKept
<1> QED BY <1>1, ResizedKeeps DEF sfs_io_nolock

LEMMA FsyncKeeps ==
    ASSUME NEW s, FsShape(s), NEW i
    PROVE  CountsKept(s, sfs_fsync(s, i))
<1> DEFINE u == [s EXCEPT !.dirty = @ \ {i}, !.disk[i] = s.din[i]]
           disk == [s.disk EXCEPT ![i] = s.din[i]]
<1>1. DOMAIN s = FsFields /\ DinShape(s.din) /\ DinShape(s.disk) /\ CountsKept(s, s)
  BY DEF FsShape, CountsKept
<1>2. /\ DOMAIN u = FsFields /\ u.panic = s.panic /\ u.ref = s.ref /\ u.open = s.open
      /\ u.in_core = s.in_core /\ u.reclaim = s.reclaim /\ u.din = s.din /\ u.disk = disk
  BY <1>1 DEF FsFields
<1>3. DinShape(disk)
  BY <1>1 DEF DinShape
<1>4. sfs_fsync(s, i) = IF i \in s.dirty THEN u ELSE s
  BY Zenon DEF sfs_fsync
<1> HIDE DEF u, disk
<1> QED BY <1>1, <1>2, <1>3, <1>4, Edited

LEMMA SyncKeeps ==
    ASSUME NEW s, FsShape(s)
    PROVE  CountsKept(s, sfs_sync(s))
<1> DEFINE disk == [i \in File |-> IF i \in s.dirty THEN s.din[i] ELSE s.disk[i]]
           t == [s EXCEPT !.disk = disk, !.dirty = {}]
           u == [t EXCEPT !.super_dirty = FALSE, !.disk_free = t.free, !.disk_unused = t.unused]
<1>1. DOMAIN s = FsFields /\ DinShape(s.din) /\ DinShape(s.disk)
  BY DEF FsShape
<1>2. DinShape(disk)
  BY <1>1 DEF DinShape
<1>3. sfs_sync(s) = IF ~t.super_dirty THEN t ELSE u
  BY Zenon DEF sfs_sync
<1> HIDE DEF disk
<1>4. /\ DOMAIN t = FsFields /\ t.panic = s.panic /\ t.ref = s.ref /\ t.open = s.open
      /\ t.in_core = s.in_core /\ t.reclaim = s.reclaim /\ t.din = s.din /\ t.disk = disk
  BY <1>1 DEF FsFields
<1> HIDE DEF t
<1>5. /\ DOMAIN u = FsFields /\ u.panic = t.panic /\ u.ref = t.ref /\ u.open = t.open
      /\ u.in_core = t.in_core /\ u.reclaim = t.reclaim /\ u.din = t.din /\ u.disk = t.disk
  BY <1>4 DEF FsFields
<1> HIDE DEF u
<1> QED BY <1>1, <1>2, <1>3, <1>4, <1>5, Edited

-----------------------------------------------------------------------------
(* The volume.  Place is where an inode has pointers: the indirect block   *)
(* (-1), and the indexes of its block map.                                 *)
Place == -1 .. SFS_NDIRECT + SFS_BLK_NENTRY - 1
PointerAt(s, i, k) ==
    IF k = -1 THEN s.din[i].indirect
    ELSE IF k \in Direct THEN s.din[i].direct[k]
    ELSE IF s.din[i].indirect = NoBlock THEN NoBlock
    ELSE s.ents[s.din[i].indirect][k - SFS_NDIRECT]

MapShape(s) ==
    /\ DOMAIN s.ents = Block /\ \A b \in Block : DOMAIN s.ents[b] = Slots
    /\ \A i \in File : DOMAIN s.din[i].direct = Direct
    /\ s.free \subseteq Block /\ s.dirty \subseteq File
    /\ s.unused = Cardinality(s.free)

(* Every block outside F is named by one pointer, and none of F is.        *)
Owned(s, F) ==
    /\ \A i \in File, k \in Place : PointerAt(s, i, k) \in (Block \ F) \cup {NoBlock}
    /\ \A i, j \in File, k, l \in Place :
        PointerAt(s, i, k) = PointerAt(s, j, l) => PointerAt(s, i, k) = NoBlock \/ (i = j /\ k = l)
    /\ \A b \in Block \ F : \E i \in File : \E k \in Place : PointerAt(s, i, k) = b

(* The blocks an inode counts are there.                                   *)
Filled(s) ==
    \A i \in File : /\ s.din[i].blocks \in 0 .. SFS_NDIRECT + SFS_BLK_NENTRY
                    /\ \A k \in 0 .. s.din[i].blocks - 1 : PointerAt(s, i, k) # NoBlock

Volume(s) ==
    /\ FsShape(s) /\ MapShape(s) /\ Owned(s, s.free) /\ Filled(s)
    /\ s.panic \in {"none", "vop", "truncfile"}

(* An inode that is not dirty is on the disk but for its number of blocks, *)
(* which may be behind; only an inode in core that somebody has open is    *)
(* dirty; and so for the super block.                                      *)
OnDisk(s) ==
    \A i \in File : i \notin s.dirty =>
        /\ s.disk[i].size = s.din[i].size
        /\ s.disk[i].direct = s.din[i].direct
        /\ s.disk[i].indirect = s.din[i].indirect
        /\ s.disk[i].blocks \in 0 .. s.din[i].blocks
InUseBy(s, i) == i \in s.in_core /\ (s.panic = "none" => s.open[i] # 0)
SuperOnDisk(s) == ~ s.super_dirty => s.disk_free = s.free /\ s.disk_unused = s.unused

Written(s) == OnDisk(s) /\ SuperOnDisk(s) /\ \A i \in s.dirty : InUseBy(s, i)

(* What the calls about the blocks of i may do to the rest of the state.   *)
BlockStep(s, t, i) ==
    /\ t.panic = s.panic /\ t.open = s.open /\ t.in_core = s.in_core
    /\ t.disk = s.disk /\ t.disk_free = s.disk_free /\ t.disk_unused = s.disk_unused
    /\ s.dirty \subseteq t.dirty /\ t.dirty \subseteq s.dirty \cup {i}
    /\ \A j \in File \ {i} : t.din[j] = s.din[j]
    /\ i \notin t.dirty => /\ t.din[i].size = s.din[i].size
                           /\ t.din[i].direct = s.din[i].direct
                           /\ t.din[i].indirect = s.din[i].indirect
                           /\ s.din[i].blocks <= t.din[i].blocks
    /\ ~ t.super_dirty => ~ s.super_dirty /\ t.free = s.free /\ t.unused = s.unused

LEMMA StepTwice ==
    ASSUME NEW s, NEW t, NEW u, NEW i \in File, FsShape(s), FsShape(t), FsShape(u),
           BlockStep(s, t, i), BlockStep(t, u, i)
    PROVE  BlockStep(s, u, i)
<1>1. s.din[i].blocks \in Int /\ t.din[i].blocks \in Int /\ u.din[i].blocks \in Int
  BY DEF FsShape, DinShape
<1> QED BY <1>1 DEF BlockStep

LEMMA StepWritten ==
    ASSUME NEW s, NEW t, NEW i \in File, Volume(s), Volume(t), Written(s), BlockStep(s, t, i),
           InUseBy(s, i)
    PROVE  Written(t)
<1>1. /\ \A j \in File : s.din[j].blocks \in Nat /\ t.din[j].blocks \in Nat
      /\ SFS_NDIRECT + SFS_BLK_NENTRY \in Nat
  BY SfsAssumption DEF Volume, Filled
<1>2. ASSUME NEW j \in File, j \notin t.dirty
      PROVE  /\ t.disk[j].size = t.din[j].size
             /\ t.disk[j].direct = t.din[j].direct
             /\ t.disk[j].indirect = t.din[j].indirect
             /\ t.disk[j].blocks \in 0 .. t.din[j].blocks
  <2>1. j \notin s.dirty /\ s.din[j].blocks <= t.din[j].blocks
    BY <1>1, <1>2 DEF BlockStep
  <2>2. /\ t.din[j].size = s.din[j].size /\ t.din[j].direct = s.din[j].direct
        /\ t.din[j].indirect = s.din[j].indirect /\ t.disk[j] = s.disk[j]
    BY <1>2 DEF BlockStep
  <2>3. /\ s.disk[j].size = s.din[j].size
        /\ s.disk[j].direct = s.din[j].direct
        /\ s.disk[j].indirect = s.din[j].indirect
        /\ s.disk[j].blocks \in 0 .. s.din[j].blocks
    BY <2>1, Zenon DEF Written, OnDisk
  <2> QED BY <1>1, <2>1, <2>2, <2>3
<1>3. \A j \in t.dirty : InUseBy(t, j)
  BY Zenon DEF Written, BlockStep, InUseBy
<1>4. SuperOnDisk(t)
  BY Zenon DEF Written, BlockStep, SuperOnDisk
<1>5. OnDisk(t)
  BY <1>2, Zenon DEF OnDisk
<1> QED BY <1>3, <1>4, <1>5 DEF Written

(* A pointer is set to a block that was free, and cleared.                 *)
Elsewhere(s, t, i, k) ==
    \A j \in File, l \in Place : (j # i \/ l # k) => PointerAt(t, j, l) = PointerAt(s, j, l)

LEMMA Placed ==
    ASSUME NEW s, NEW t, NEW F, Owned(s, F), NEW i \in File, NEW k \in Place, NEW b \in F \cap Block,
           PointerAt(s, i, k) = NoBlock, PointerAt(t, i, k) = b, Elsewhere(s, t, i, k)
    PROVE  Owned(t, F \ {b})
<1>1. b # NoBlock
  BY SfsAssumption
<1>2. \A j \in File, l \in Place : PointerAt(t, j, l) \in (Block \ (F \ {b})) \cup {NoBlock}
  BY DEF Owned, Elsewhere
<1>3. \A j \in File, l \in Place : PointerAt(t, j, l) = b => j = i /\ l = k
  BY <1>1 DEF Owned, Elsewhere
<1>4. ASSUME NEW j \in File, NEW m \in File, NEW l \in Place, NEW n \in Place,
             PointerAt(t, j, l) = PointerAt(t, m, n)
      PROVE  PointerAt(t, j, l) = NoBlock \/ (j = m /\ l = n)
  <2>1. CASE j = i /\ l = k
    BY <1>3, <1>4, <2>1
  <2>2. CASE m = i /\ n = k
    BY <1>3, <1>4, <2>2
  <2>3. CASE (j # i \/ l # k) /\ (m # i \/ n # k)
    <3>1. PointerAt(t, j, l) = PointerAt(s, j, l) /\ PointerAt(t, m, n) = PointerAt(s, m, n)
      BY <2>3 DEF Elsewhere
    <3>2. PointerAt(s, j, l) = PointerAt(s, m, n)
      BY <1>4, <3>1
    <3>3. PointerAt(s, j, l) = NoBlock \/ (j = m /\ l = n)
      BY <3>2 DEF Owned
    <3> QED BY <3>1, <3>3
  <2> QED BY <2>1, <2>2, <2>3
<1>5. ASSUME NEW c \in Block \ (F \ {b})
      PROVE  \E j \in File : \E l \in Place : PointerAt(t, j, l) = c
  <2>1. CASE c = b
    BY <2>1
  <2>2. CASE c # b
    <3>1. PICK j \in File : \E l \in Place : PointerAt(s, j, l) = c
      BY <2>2 DEF Owned
    <3>2. PICK l \in Place : PointerAt(s, j, l) = c
      BY <3>1
    <3>3. j # i \/ l # k
      BY <3>2, SfsAssumption
    <3> QED BY <3>2, <3>3 DEF Elsewhere
  <2> QED BY <2>1, <2>2
<1> QED BY <1>2, <1>4, <1>5 DEF Owned

LEMMA Cleared ==
    ASSUME NEW s, NEW t, NEW F, Owned(s, F), NEW i \in File, NEW k \in Place, NEW b,
           PointerAt(s, i, k) = b, b # NoBlock, PointerAt(t, i, k) = NoBlock, Elsewhere(s, t, i, k)
    PROVE  Owned(t, F \cup {b})
<1>1. \A j \in File, l \in Place : (j # i \/ l # k) => PointerAt(s, j, l) # b
  BY DEF Owned
<1>2. \A j \in File, l \in Place : PointerAt(t, j, l) \in (Block \ (F \cup {b})) \cup {NoBlock}
  <2> SUFFICES ASSUME NEW j \in File, NEW l \in Place
               PROVE  PointerAt(t, j, l) \in (Block \ (F \cup {b})) \cup {NoBlock}
    OBVIOUS
  <2>1. CASE j = i /\ l = k
    BY <2>1
  <2>2. CASE j # i \/ l # k
    <3>1. PointerAt(t, j, l) = PointerAt(s, j, l) /\ PointerAt(s, j, l) # b
      BY <1>1, <2>2 DEF Elsewhere
    <3> QED BY <3>1 DEF Owned
  <2> QED BY <2>1, <2>2
<1>3. ASSUME NEW j \in File, NEW m \in File, NEW l \in Place, NEW n \in Place,
             PointerAt(t, j, l) = PointerAt(t, m, n)
      PROVE  PointerAt(t, j, l) = NoBlock \/ (j = m /\ l = n)
  <2>1. CASE j = i /\ l = k
    BY <2>1
  <2>2. CASE m = i /\ n = k
    BY <1>3, <2>2
  <2>3. CASE (j # i \/ l # k) /\ (m # i \/ n # k)
    <3>1. PointerAt(t, j, l) = PointerAt(s, j, l) /\ PointerAt(t, m, n) = PointerAt(s, m, n)
      BY <2>3 DEF Elsewhere
    <3>2. PointerAt(s, j, l) = PointerAt(s, m, n)
      BY <1>3, <3>1
    <3>3. PointerAt(s, j, l) = NoBlock \/ (j = m /\ l = n)
      BY <3>2 DEF Owned
    <3> QED BY <3>1, <3>3
  <2> QED BY <2>1, <2>2, <2>3
<1>4. ASSUME NEW c \in Block \ (F \cup {b})
      PROVE  \E j \in File : \E l \in Place : PointerAt(t, j, l) = c
  <2>1. PICK j \in File : \E l \in Place : PointerAt(s, j, l) = c
    BY DEF Owned
  <2>2. PICK l \in Place : PointerAt(s, j, l) = c
    BY <2>1
  <2>3. j # i \/ l # k
    BY <2>2
  <2> QED BY <2>2, <2>3 DEF Elsewhere
<1> QED BY <1>2, <1>3, <1>4 DEF Owned

(* A block is allocated, and freed: nothing names it yet, or any more.     *)
Untouched(s, t) ==
    /\ t.panic = s.panic /\ t.open = s.open /\ t.in_core = s.in_core
    /\ t.disk = s.disk /\ t.disk_free = s.disk_free /\ t.disk_unused = s.disk_unused

Allocated(s, t, b) ==
    /\ b \in s.free /\ FsShape(t) /\ MapShape(t) /\ Untouched(s, t)
    /\ t.din = s.din /\ t.dirty = s.dirty /\ t.super_dirty = TRUE
    /\ t.free = s.free \ {b}
    /\ t.ents[b] = EmptySlots /\ \A c \in Block \ {b} : t.ents[c] = s.ents[c]

LEMMA AllocVolume ==
    ASSUME NEW s, FsShape(s), MapShape(s)
    PROVE  IF s.free = {}
           THEN sfs_block_alloc(s) = [ret |-> "E_NO_MEM", s |-> s, ino |-> NoBlock]
           ELSE /\ sfs_block_alloc(s).ret = "ok"
                /\ DOMAIN sfs_block_alloc(s) = {"ret", "s", "ino"}
                /\ Allocated(s, sfs_block_alloc(s).s, sfs_block_alloc(s).ino)
<1> DEFINE t == Checked(s, s.unused > 0, "bitmap")
           b == Min(s.free)
           u == [t EXCEPT !.free = @ \ {b}, !.unused = @ - 1, !.super_dirty = TRUE,
                          !.ents[b] = EmptySlots]
<1>1. CASE s.free = {}
  BY <1>1, Zenon DEF sfs_block_alloc
<1>2. CASE s.free # {}
  <2>1. sfs_block_alloc(s) = [ret |-> "ok", ino |-> b, s |-> u]
    BY <1>2, Zenon DEF sfs_block_alloc
  <2>2. s.free \in SUBSET Nat /\ IsFiniteSet(s.free)
    BY SfsAssumption, FS_Subset DEF MapShape
  <2>3. b \in s.free /\ b \in Block
    BY <1>2, <2>2, MinIsLeast DEF MapShape
  <2> HIDE DEF b
  <2>4. /\ Cardinality(s.free) \in Nat /\ s.unused = Cardinality(s.free) /\ s.unused # 0
        /\ Cardinality(s.free \ {b}) = Cardinality(s.free) - 1
    <3>1. Cardinality(s.free) \in Nat
      BY <2>2, FS_CardinalityType
    <3>2. Cardinality(s.free \ {b}) = Cardinality(s.free) - 1
      BY <2>2, <2>3, FS_RemoveElement
    <3>3. Cardinality(s.free) # 0
      BY <1>2, <2>2, FS_EmptySet
    <3> QED BY <3>1, <3>2, <3>3 DEF MapShape
  <2>5. t = s
    <3>1. s.unused > 0
      BY <2>4
    <3> QED BY <3>1, Zenon DEF Checked
  <2> HIDE DEF t
  <2>6. DOMAIN s = FsFields /\ DinShape(s.din) /\ DinShape(s.disk)
    BY DEF FsShape
  <2>7. /\ DOMAIN u = FsFields /\ Untouched(s, u) /\ u.din = s.din /\ u.dirty = s.dirty
        /\ u.super_dirty = TRUE /\ u.free = s.free \ {b} /\ u.unused = s.unused - 1
        /\ u.ents = [s.ents EXCEPT ![b] = EmptySlots]
    BY <2>5, <2>6 DEF FsFields, Untouched
  <2> HIDE DEF u
  <2>8. FsShape(u)
    BY <2>6, <2>7 DEF FsShape, Untouched
  <2>9. /\ DOMAIN u.ents = Block /\ u.ents[b] = EmptySlots
        /\ \A c \in Block \ {b} : u.ents[c] = s.ents[c]
    BY <2>3, <2>7 DEF MapShape
  <2>10. MapShape(u)
    <3>1. \A c \in Block : DOMAIN u.ents[c] = Slots
      BY <2>9 DEF MapShape, EmptySlots
    <3>2. u.unused = Cardinality(u.free)
      BY <2>4, <2>7
    <3> QED BY <2>7, <2>9, <3>1, <3>2 DEF MapShape
  <2>11. Allocated(s, u, b)
    BY <2>3, <2>7, <2>8, <2>9, <2>10 DEF Allocated
  <2>12. /\ sfs_block_alloc(s).ret = "ok" /\ DOMAIN sfs_block_alloc(s) = {"ret", "s", "ino"}
         /\ sfs_block_alloc(s).s = u /\ sfs_block_alloc(s).ino = b
    BY <2>1
  <2> QED BY <1>2, <2>11, <2>12
<1> QED BY <1>1, <1>2

Freed(s, t, b) ==
    /\ FsShape(t) /\ MapShape(t) /\ Untouched(s, t)
    /\ t.din = s.din /\ t.dirty = s.dirty /\ t.super_dirty = TRUE
    /\ t.free = s.free \cup {b} /\ t.ents = s.ents

LEMMA FreeVolume ==
    ASSUME NEW s, FsShape(s), MapShape(s), NEW b \in Block \ s.free
    PROVE  Freed(s, sfs_block_free(s, b), b)
<1> DEFINE t == Checked(s, b \in Block \ s.free, "bitmap")
           u == [t EXCEPT !.free = @ \cup {b}, !.unused = @ + 1, !.super_dirty = TRUE]
<1>1. t = s
  BY Zenon DEF Checked
<1>2. u = sfs_block_free(s, b)
  BY Zenon DEF sfs_block_free
<1> HIDE DEF t
<1>3. DOMAIN s = FsFields /\ DinShape(s.din) /\ DinShape(s.disk)
  BY DEF FsShape
<1>4. /\ DOMAIN u = FsFields /\ Untouched(s, u) /\ u.din = s.din /\ u.dirty = s.dirty
      /\ u.super_dirty = TRUE /\ u.free = s.free \cup {b} /\ u.unused = s.unused + 1
      /\ u.ents = s.ents
  BY <1>1, <1>3 DEF FsFields, Untouched
<1> HIDE DEF u
<1>5. FsShape(u)
  BY <1>3, <1>4 DEF FsShape, Untouched
<1>6. u.unused = Cardinality(u.free)
  <2>1. IsFiniteSet(s.free)
    BY SfsAssumption, FS_Subset DEF MapShape
  <2>2. Cardinality(s.free \cup {b}) = Cardinality(s.free) + 1
    BY <2>1, FS_AddElement
  <2> QED BY <1>4, <2>2 DEF MapShape
<1>7. MapShape(u)
  BY <1>4, <1>6 DEF MapShape
<1> QED BY <1>2, <1>4, <1>5, <1>7 DEF Freed

LEMMA Positions ==
    /\ -1 \in Place /\ -1 \notin Direct /\ \A k \in Direct : k \in Place
    /\ \A k \in Place : k # -1 /\ k \notin Direct => k - SFS_NDIRECT \in Slots
<1>1. SFS_NDIRECT \in Nat \ {0} /\ SFS_BLK_NENTRY \in Nat \ {0}
  BY SfsAssumption
<1>2. -1 \notin Direct /\ -1 \in Place
  BY <1>1 DEF Direct, Place
<1>3. \A k \in Direct : k \in Place
  BY <1>1 DEF Direct, Place
<1>4. \A k \in Place : k # -1 /\ k \notin Direct => k - SFS_NDIRECT \in Slots
  BY <1>1 DEF Direct, Place, Slots
<1> QED BY <1>2, <1>3, <1>4, Zenon

LEMMA SlotPlace ==
    ASSUME NEW k \in Slots, NEW place, place = k + SFS_NDIRECT
    PROVE  place \in Place /\ place # -1 /\ place \notin Direct /\ place - SFS_NDIRECT = k
<1>1. SFS_NDIRECT \in Nat \ {0} /\ SFS_BLK_NENTRY \in Nat \ {0}
  BY SfsAssumption
<1> QED BY <1>1 DEF Direct, Place, Slots

LEMMA Places ==
    ASSUME NEW s, NEW i
    PROVE  /\ PointerAt(s, i, -1) = s.din[i].indirect
           /\ \A k \in Direct : PointerAt(s, i, k) = s.din[i].direct[k]
BY Positions, Zenon DEF PointerAt

LEMMA Indirect ==
    ASSUME NEW s, NEW F, Owned(s, F), NEW i \in File
    PROVE  s.din[i].indirect \in (Block \ F) \cup {NoBlock}
BY Positions, Places DEF Owned

(* What the calls that look up or allocate a block of i hand back, for     *)
(* position k of its map.                                                  *)
GetOK(s, r, i, k) ==
    /\ Volume(r.s) /\ BlockStep(s, r.s, i)
    /\ r.s.din[i].blocks = s.din[i].blocks
    /\ r.ret = "ok" => PointerAt(r.s, i, k) = r.ino /\ r.ino # NoBlock

LEMMA StepNone ==
    ASSUME NEW s, NEW i \in File, FsShape(s)
    PROVE  BlockStep(s, s, i)
<1>1. s.din[i].blocks \in Int
  BY DEF FsShape, DinShape
<1> QED BY <1>1 DEF BlockStep

LEMMA StaysFilled ==
    ASSUME NEW s, NEW t, Filled(s), \A i \in File : t.din[i].blocks = s.din[i].blocks,
           \A i \in File, k \in Place : PointerAt(s, i, k) # NoBlock => PointerAt(t, i, k) # NoBlock
    PROVE  Filled(t)
<1>1. \A i \in File : \A k \in 0 .. s.din[i].blocks - 1 : k \in Place
  BY SfsAssumption DEF Filled, Place
<1> QED BY <1>1 DEF Filled

LEMMA DirectVolume ==
    ASSUME NEW s, Volume(s), NEW i \in File, NEW k \in Direct, s.din[i].direct[k] = NoBlock,
           NEW a, DOMAIN a = {"ret", "s", "ino"}, Allocated(s, a.s, a.ino)
    PROVE  GetOK(s, [a EXCEPT !.s.din[i].direct[k] = a.ino, !.s.dirty = @ \cup {i}], i, k)
<1> DEFINE r == [a EXCEPT !.s.din[i].direct[k] = a.ino, !.s.dirty = @ \cup {i}]
           b == a.ino
           u == [a.s EXCEPT !.din[i].direct[k] = b, !.dirty = @ \cup {i}]
<1>1. /\ DOMAIN s = FsFields /\ DinShape(s.din) /\ DinShape(s.disk)
      /\ DOMAIN a.s = FsFields /\ a.s.din = s.din /\ a.s.dirty = s.dirty
      /\ a.s.super_dirty = TRUE /\ a.s.free = s.free \ {b} /\ Untouched(s, a.s)
      /\ b \in s.free /\ b \in Block /\ b # NoBlock /\ MapShape(a.s) /\ MapShape(s)
  BY SfsAssumption DEF Allocated, Volume, FsShape, MapShape
<1>2. r.s = u /\ r.ret = a.ret /\ r.ino = b
  BY <1>1 DEF FsFields
<1> HIDE DEF b
<1>3. /\ DOMAIN u = FsFields /\ Untouched(s, u) /\ u.super_dirty = TRUE
      /\ u.dirty = s.dirty \cup {i} /\ u.free = s.free \ {b} /\ u.unused = a.s.unused
      /\ u.ents = a.s.ents /\ u.din = [s.din EXCEPT ![i].direct[k] = b]
  BY <1>1 DEF FsFields, Untouched
<1> HIDE DEF u
<1>4. DinShape(u.din) /\ FsShape(u)
  <2>1. DinShape(u.din)
    BY <1>1, <1>3 DEF DinShape
  <2> QED BY <1>1, <1>3, <2>1 DEF FsShape, Untouched
<1>5. /\ \A j \in File \ {i} : u.din[j] = s.din[j]
      /\ u.din[i].blocks = s.din[i].blocks /\ u.din[i].indirect = s.din[i].indirect
      /\ u.din[i].direct = [s.din[i].direct EXCEPT ![k] = b]
  BY <1>1, <1>3 DEF DinShape
<1>6. /\ u.din[i].direct[k] = b /\ DOMAIN u.din[i].direct = Direct
      /\ \A l \in Direct \ {k} : u.din[i].direct[l] = s.din[i].direct[l]
  BY <1>1, <1>5 DEF MapShape
<1>7. MapShape(u)
  <2>1. \A j \in File : DOMAIN u.din[j].direct = Direct
    BY <1>1, <1>5, <1>6 DEF MapShape
  <2>2. u.dirty \subseteq File
    BY <1>1, <1>3 DEF MapShape
  <2> QED BY <1>1, <1>3, <2>1, <2>2 DEF MapShape
<1>8. PointerAt(s, i, k) = NoBlock /\ PointerAt(u, i, k) = b /\ k \in Place
  BY <1>6, Positions, Places
<1>9. Elsewhere(s, u, i, k)
  <2> SUFFICES ASSUME NEW j \in File, NEW l \in Place, j # i \/ l # k
               PROVE  PointerAt(u, j, l) = PointerAt(s, j, l)
    BY DEF Elsewhere
  <2>1. s.din[j].indirect \in (Block \ s.free) \cup {NoBlock}
    BY Indirect DEF Volume
  <2>2. u.din[j].indirect = s.din[j].indirect
    BY <1>5
  <2>3. s.din[j].indirect # NoBlock => u.ents[s.din[j].indirect] = s.ents[s.din[j].indirect]
    BY <1>1, <1>3, <2>1 DEF Allocated, b
  <2>4. l \in Direct => u.din[j].direct[l] = s.din[j].direct[l]
    BY <1>5, <1>6
  <2> QED BY <2>2, <2>3, <2>4, Zenon DEF PointerAt
<1>10. Owned(u, u.free)
  BY <1>1, <1>3, <1>8, <1>9, Placed DEF Volume
<1>11. Filled(u)
  <2>1. \A j \in File : u.din[j].blocks = s.din[j].blocks
    BY <1>5
  <2>2. \A j \in File, l \in Place : PointerAt(s, j, l) # NoBlock => PointerAt(u, j, l) # NoBlock
    BY <1>1, <1>8, <1>9 DEF Elsewhere
  <2> QED BY <2>1, <2>2, StaysFilled DEF Volume
<1>12. Volume(u)
  BY <1>3, <1>4, <1>7, <1>10, <1>11 DEF Volume, Untouched
<1>13. BlockStep(s, u, i)
  BY <1>3, <1>5 DEF BlockStep, Untouched
<1>14. GetOK(s, r, i, k)
  BY <1>1, <1>2, <1>5, <1>8, <1>12, <1>13 DEF GetOK, b
<1> QED BY <1>14

LEMMA SamePointers ==
    ASSUME NEW s, NEW t, NEW F, Owned(s, F), \A i \in File : t.din[i] = s.din[i],
           \A c \in Block \ F : t.ents[c] = s.ents[c]
    PROVE  /\ \A i \in File, k \in Place : PointerAt(t, i, k) = PointerAt(s, i, k)
           /\ Owned(t, F)
<1>1. ASSUME NEW i \in File, NEW k \in Place
      PROVE  PointerAt(t, i, k) = PointerAt(s, i, k)
  <2>1. s.din[i].indirect \in (Block \ F) \cup {NoBlock}
    BY Indirect
  <2>2. s.din[i].indirect # NoBlock => t.ents[s.din[i].indirect] = s.ents[s.din[i].indirect]
    BY <2>1
  <2> QED BY <2>2, Zenon DEF PointerAt
<1>2. Owned(t, F)
  BY <1>1 DEF Owned
<1> QED BY <1>1, <1>2

(* A block more in the indirect block that the inode has.                  *)
LEMMA EntryOld ==
    ASSUME NEW s, Volume(s), NEW i \in File, NEW k \in Slots,
           NEW old, old = s.din[i].indirect, old # NoBlock, s.ents[old][k] = NoBlock,
           NEW a, DOMAIN a = {"ret", "s", "ino"}, a.ret = "ok", Allocated(s, a.s, a.ino)
    PROVE  GetOK(s, Entered(s, [ret |-> "ok", s |-> s, ino |-> old], a, i, k), i, k + SFS_NDIRECT)
<1> DEFINE b == a.ino
           place == k + SFS_NDIRECT
           r == [a EXCEPT !.s.ents[old][k] = b, !.s.din[i].indirect = old, !.s.dirty = @]
           u == [a.s EXCEPT !.ents[old][k] = b, !.din[i].indirect = old, !.dirty = @]
<1>1. /\ DOMAIN s = FsFields /\ DinShape(s.din) /\ DinShape(s.disk)
      /\ DOMAIN a.s = FsFields /\ a.s.din = s.din /\ a.s.dirty = s.dirty
      /\ a.s.super_dirty = TRUE /\ a.s.free = s.free \ {b} /\ Untouched(s, a.s)
      /\ b \in s.free /\ b \in Block /\ b # NoBlock /\ MapShape(a.s) /\ MapShape(s)
      /\ \A c \in Block \ {b} : a.s.ents[c] = s.ents[c]
  BY SfsAssumption DEF Allocated, Volume, FsShape, MapShape
<1>2. r = Entered(s, [ret |-> "ok", s |-> s, ino |-> old], a, i, k)
  BY DEF Entered
<1>3. r.s = u /\ r.ret = a.ret /\ r.ino = b
  BY <1>1 DEF FsFields
<1> HIDE DEF b, r
<1>4. /\ DOMAIN u = FsFields /\ Untouched(s, u) /\ u.super_dirty = TRUE
      /\ u.dirty = s.dirty /\ u.free = s.free \ {b} /\ u.unused = a.s.unused
      /\ u.ents = [a.s.ents EXCEPT ![old][k] = b] /\ u.din = [s.din EXCEPT ![i].indirect = old]
  BY <1>1 DEF FsFields, Untouched
<1> HIDE DEF u
<1>5. old \in Block \ s.free
  BY Indirect DEF Volume
<1>6. FsShape(u) /\ \A j \in File : /\ u.din[j].direct = s.din[j].direct
                                    /\ u.din[j].indirect = s.din[j].indirect
                                    /\ u.din[j].blocks = s.din[j].blocks
                                    /\ u.din[j].size = s.din[j].size
  <2>1. u.din = [s.din EXCEPT ![i].indirect = old] /\ u.disk = s.disk
    BY <1>4 DEF Untouched
  <2>2. \A j \in File : /\ u.din[j].direct = s.din[j].direct
                        /\ u.din[j].indirect = s.din[j].indirect
                        /\ u.din[j].blocks = s.din[j].blocks
                        /\ u.din[j].size = s.din[j].size
    BY <1>1, <2>1 DEF DinShape
  <2>3. DinShape(u.din)
    BY <1>1, <2>1 DEF DinShape
  <2> QED BY <1>1, <1>4, <2>1, <2>2, <2>3 DEF FsShape
<1>7. \A j \in File \ {i} : u.din[j] = s.din[j]
  BY <1>1, <1>4 DEF DinShape
<1>8. /\ DOMAIN u.ents = Block /\ \A c \in Block : DOMAIN u.ents[c] = Slots
      /\ u.ents[old][k] = b /\ \A l \in Slots \ {k} : u.ents[old][l] = s.ents[old][l]
      /\ \A c \in Block \ {b, old} : u.ents[c] = s.ents[c]
  <2>1. /\ DOMAIN a.s.ents = Block /\ \A c \in Block : DOMAIN a.s.ents[c] = Slots
        /\ old \in Block /\ old # b /\ a.s.ents[old] = s.ents[old]
    BY <1>1, <1>5 DEF MapShape
  <2>2. u.ents = [a.s.ents EXCEPT ![old] = [a.s.ents[old] EXCEPT ![k] = b]]
    BY <1>4
  <2>3. DOMAIN u.ents = Block /\ u.ents[old] = [a.s.ents[old] EXCEPT ![k] = b]
    BY <2>1, <2>2
  <2>4. \A c \in Block \ {old} : u.ents[c] = a.s.ents[c]
    BY <2>1, <2>2
  <2>5. /\ u.ents[old][k] = b /\ \A l \in Slots \ {k} : u.ents[old][l] = s.ents[old][l]
        /\ DOMAIN u.ents[old] = Slots
    BY <2>1, <2>3
  <2>6. \A c \in Block : DOMAIN u.ents[c] = Slots
    BY <2>1, <2>4, <2>5
  <2>7. \A c \in Block \ {b, old} : u.ents[c] = s.ents[c]
    BY <1>1, <2>4
  <2> QED BY <2>3, <2>5, <2>6, <2>7
<1>9. MapShape(u)
  <2>1. /\ \A j \in File : DOMAIN u.din[j].direct = Direct
        /\ u.free \subseteq Block /\ u.dirty \subseteq File
    BY <1>1, <1>4, <1>6 DEF MapShape
  <2>2. u.unused = Cardinality(u.free)
    BY <1>1, <1>4 DEF MapShape
  <2> QED BY <1>8, <2>1, <2>2 DEF MapShape
<1>10. place \in Place /\ PointerAt(s, i, place) = NoBlock /\ PointerAt(u, i, place) = b
  <2>1. place \in Place /\ place # -1 /\ place \notin Direct /\ place - SFS_NDIRECT = k
    BY SlotPlace
  <2> HIDE DEF place
  <2> QED BY <1>6, <1>8, <2>1 DEF PointerAt
<1>11. Elsewhere(s, u, i, place)
  <2> SUFFICES ASSUME NEW j \in File, NEW l \in Place, j # i \/ l # place
               PROVE  PointerAt(u, j, l) = PointerAt(s, j, l)
    BY DEF Elsewhere
  <2> DEFINE c == s.din[j].indirect
  <2>1. c \in (Block \ s.free) \cup {NoBlock}
    BY Indirect DEF Volume
  <2>2. j # i => c # old
    <3>1. PointerAt(s, j, -1) = c /\ PointerAt(s, i, -1) = old /\ -1 \in Place
      BY Positions, Places
    <3> QED BY <3>1 DEF Volume, Owned
  <2>3. c # NoBlock /\ c # old => u.ents[c] = s.ents[c]
    BY <1>1, <1>8, <2>1
  <2>4. l # -1 /\ l \notin Direct => l - SFS_NDIRECT \in Slots
    BY Positions
  <2>5. l - SFS_NDIRECT = k => l = place
    <3>1. SFS_NDIRECT \in Int /\ SFS_BLK_NENTRY \in Int
      BY SfsAssumption
    <3>2. l \in Int /\ k \in Int
      BY <3>1 DEF Slots, Place
    <3> QED BY <3>1, <3>2
  <2>6. l # -1 /\ l \notin Direct /\ c # NoBlock
            => u.ents[c][l - SFS_NDIRECT] = s.ents[c][l - SFS_NDIRECT]
    BY <1>8, <2>2, <2>3, <2>4, <2>5
  <2> QED BY <1>6, <2>6, Zenon DEF PointerAt
<1> HIDE DEF place
<1>12. Owned(u, u.free)
  BY <1>1, <1>4, <1>10, <1>11, Placed DEF Volume
<1>13. Filled(u)
  <2>1. \A j \in File, l \in Place : PointerAt(s, j, l) # NoBlock => PointerAt(u, j, l) # NoBlock
    BY <1>1, <1>10, <1>11 DEF Elsewhere
  <2> QED BY <1>6, <2>1, StaysFilled DEF Volume
<1>14. Volume(u)
  BY <1>4, <1>6, <1>9, <1>12, <1>13 DEF Volume, Untouched
<1>15. BlockStep(s, u, i)
  <2>1. s.din[i].blocks \in Int
    BY <1>1 DEF DinShape
  <2> QED BY <1>4, <1>6, <1>7, <2>1 DEF BlockStep, Untouched
<1>16. GetOK(s, r, i, place)
  BY <1>1, <1>3, <1>6, <1>10, <1>14, <1>15 DEF GetOK
<1> QED BY <1>2, <1>16 DEF place

(* A new indirect block, and a block in it.                                *)
LEMMA EntryNew ==
    ASSUME NEW s, Volume(s), NEW i \in File, NEW k \in Slots, s.din[i].indirect = NoBlock,
           NEW e, Allocated(s, e.s, e.ino),
           NEW a, DOMAIN a = {"ret", "s", "ino"}, a.ret = "ok", Allocated(e.s, a.s, a.ino)
    PROVE  GetOK(s, Entered(s, e, a, i, k), i, k + SFS_NDIRECT)
<1> DEFINE b == a.ino
           c == e.ino
           place == k + SFS_NDIRECT
           r == [a EXCEPT !.s.ents[c][k] = b, !.s.din[i].indirect = c, !.s.dirty = @ \cup {i}]
           u == [a.s EXCEPT !.ents[c][k] = b, !.din[i].indirect = c, !.dirty = @ \cup {i}]
           w == [s EXCEPT !.din[i].indirect = c, !.ents = a.s.ents]
<1>1. /\ DOMAIN s = FsFields /\ DinShape(s.din) /\ DinShape(s.disk)
      /\ DOMAIN a.s = FsFields /\ a.s.din = s.din /\ a.s.dirty = s.dirty
      /\ a.s.super_dirty = TRUE /\ a.s.free = (s.free \ {c}) \ {b} /\ Untouched(s, a.s)
      /\ b \in s.free \ {c} /\ b \in Block /\ b # NoBlock
      /\ c \in s.free /\ c \in Block /\ c # NoBlock
      /\ MapShape(a.s) /\ MapShape(s)
  BY SfsAssumption DEF Allocated, Volume, FsShape, MapShape, Untouched
<1>2. a.s.ents[c] = EmptySlots /\ \A d \in Block \ {b, c} : a.s.ents[d] = s.ents[d]
  BY <1>1 DEF Allocated
<1>3. r = Entered(s, e, a, i, k)
  BY DEF Entered
<1>4. r.s = u /\ r.ret = a.ret /\ r.ino = b
  BY <1>1 DEF FsFields
<1> HIDE DEF b, c, r
<1>5. /\ DOMAIN u = FsFields /\ Untouched(s, u) /\ u.super_dirty = TRUE
      /\ u.dirty = s.dirty \cup {i} /\ u.free = (s.free \ {c}) \ {b} /\ u.unused = a.s.unused
      /\ u.ents = [a.s.ents EXCEPT ![c][k] = b] /\ u.din = [s.din EXCEPT ![i].indirect = c]
      /\ w.ents = a.s.ents /\ w.din = u.din
  BY <1>1 DEF FsFields, Untouched
<1> HIDE DEF u, w
<1>6. FsShape(u) /\ \A j \in File : /\ u.din[j].direct = s.din[j].direct
                                    /\ u.din[j].blocks = s.din[j].blocks
  BY <1>1, <1>5 DEF FsShape, DinShape, Untouched
<1>7. (\A j \in File \ {i} : u.din[j] = s.din[j]) /\ u.din[i].indirect = c
  BY <1>1, <1>5 DEF DinShape
<1>8. /\ DOMAIN u.ents = Block /\ \A d \in Block : DOMAIN u.ents[d] = Slots
      /\ u.ents[c][k] = b /\ \A l \in Slots \ {k} : u.ents[c][l] = a.s.ents[c][l]
      /\ \A d \in Block \ {c} : u.ents[d] = a.s.ents[d]
  BY <1>1, <1>5 DEF MapShape
<1>9. MapShape(u)
  BY <1>1, <1>5, <1>6, <1>8 DEF MapShape
<1>10. place \in Place /\ place # -1 /\ place \notin Direct /\ place - SFS_NDIRECT = k
  BY SlotPlace
<1>11. \A l \in Place : l # place /\ l # -1 /\ l \notin Direct => l - SFS_NDIRECT \in Slots \ {k}
  <2> SUFFICES ASSUME NEW l \in Place, l # place, l # -1, l \notin Direct
               PROVE  l - SFS_NDIRECT \in Slots \ {k}
    OBVIOUS
  <2>1. SFS_NDIRECT \in Int /\ SFS_BLK_NENTRY \in Int
    BY SfsAssumption
  <2>2. l \in Int /\ k \in Int
    BY <2>1 DEF Slots, Place
  <2>3. l - SFS_NDIRECT \in Slots
    BY Positions
  <2> QED BY <2>1, <2>2, <2>3
<1> HIDE DEF place
<1>12. /\ PointerAt(s, i, -1) = NoBlock /\ PointerAt(w, i, -1) = c /\ -1 \in Place
       /\ PointerAt(w, i, place) = NoBlock /\ PointerAt(u, i, place) = b
       /\ PointerAt(s, i, place) = NoBlock /\ PointerAt(u, i, -1) = c
  BY <1>1, <1>2, <1>5, <1>7, <1>8, <1>10, Positions DEF PointerAt, EmptySlots
<1>13. Elsewhere(s, w, i, -1)
  <2> SUFFICES ASSUME NEW j \in File, NEW l \in Place, j # i \/ l # -1
               PROVE  PointerAt(w, j, l) = PointerAt(s, j, l)
    BY DEF Elsewhere
  <2>1. CASE j # i
    <3>1. s.din[j].indirect \in (Block \ s.free) \cup {NoBlock}
      BY Indirect DEF Volume
    <3>2. s.din[j].indirect # NoBlock => w.ents[s.din[j].indirect] = s.ents[s.din[j].indirect]
      BY <1>1, <1>2, <1>5, <3>1
    <3>3. w.din[j] = s.din[j]
      BY <1>5, <1>7, <2>1
    <3> QED BY <3>2, <3>3, Zenon DEF PointerAt
  <2>2. CASE j = i /\ l # -1
    <3>1. l \notin Direct => l - SFS_NDIRECT \in Slots
      BY <2>2, Positions
    <3>2. l \notin Direct => PointerAt(w, i, l) = NoBlock
      BY <1>1, <1>2, <1>5, <1>7, <2>2, <3>1 DEF PointerAt, EmptySlots
    <3>3. l \notin Direct => PointerAt(s, i, l) = NoBlock
      BY <2>2 DEF PointerAt
    <3>4. l \in Direct => PointerAt(w, i, l) = PointerAt(s, i, l)
      BY <1>5, <1>6, <2>2 DEF PointerAt
    <3> QED BY <2>2, <3>2, <3>3, <3>4
  <2> QED BY <2>1, <2>2
<1>14. Elsewhere(w, u, i, place)
  <2> SUFFICES ASSUME NEW j \in File, NEW l \in Place, j # i \/ l # place
               PROVE  PointerAt(u, j, l) = PointerAt(w, j, l)
    BY DEF Elsewhere
  <2>1. CASE j # i
    <3>1. s.din[j].indirect \in (Block \ s.free) \cup {NoBlock}
      BY Indirect DEF Volume
    <3>2. s.din[j].indirect # NoBlock => u.ents[s.din[j].indirect] = w.ents[s.din[j].indirect]
      BY <1>1, <1>5, <1>8, <3>1
    <3>3. w.din[j] = s.din[j] /\ u.din[j] = s.din[j]
      BY <1>5, <1>7, <2>1
    <3> QED BY <3>2, <3>3, Zenon DEF PointerAt
  <2>2. CASE j = i /\ l # place
    <3>1. l # -1 /\ l \notin Direct => u.ents[c][l - SFS_NDIRECT] = w.ents[c][l - SFS_NDIRECT]
      BY <1>5, <1>8, <1>11, <2>2
    <3> QED BY <1>5, <1>7, <2>2, <3>1, Zenon DEF PointerAt
  <2> QED BY <2>1, <2>2
<1>15. Owned(w, s.free \ {c})
  BY <1>1, <1>12, <1>13, Placed DEF Volume
<1>16. Owned(u, u.free)
  <2>1. b \in (s.free \ {c}) \cap Block
    BY <1>1
  <2>2. Owned(u, (s.free \ {c}) \ {b})
    BY <1>10, <1>12, <1>14, <1>15, <2>1, Placed
  <2> QED BY <1>5, <2>2
<1>17. Filled(u)
  <2>1. \A j \in File, l \in Place : PointerAt(s, j, l) # NoBlock => PointerAt(u, j, l) # NoBlock
    <3> SUFFICES ASSUME NEW j \in File, NEW l \in Place, PointerAt(s, j, l) # NoBlock
                 PROVE  PointerAt(u, j, l) # NoBlock
      OBVIOUS
    <3>1. ~ (j = i /\ l = -1) /\ ~ (j = i /\ l = place)
      BY <1>12
    <3>2. PointerAt(w, j, l) = PointerAt(s, j, l)
      BY <1>13, <3>1 DEF Elsewhere
    <3>3. PointerAt(u, j, l) = PointerAt(w, j, l)
      BY <1>14, <3>1 DEF Elsewhere
    <3> QED BY <3>2, <3>3
  <2> QED BY <1>6, <2>1, StaysFilled DEF Volume
<1>18. Volume(u)
  BY <1>5, <1>6, <1>9, <1>16, <1>17 DEF Volume, Untouched
<1>19. BlockStep(s, u, i)
  BY <1>5, <1>7 DEF BlockStep, Untouched
<1>20. GetOK(s, r, i, place)
  BY <1>1, <1>4, <1>6, <1>12, <1>18, <1>19 DEF GetOK
<1> QED BY <1>3, <1>20 DEF place

(* The new indirect block is given back when there is none to put in it.   *)
LEMMA EntryGivenBack ==
    ASSUME NEW s, Volume(s), NEW i \in File, NEW k, s.din[i].indirect = NoBlock,
           NEW e, Allocated(s, e.s, e.ino),
           NEW a, a = [ret |-> "E_NO_MEM", s |-> e.s, ino |-> NoBlock], NEW place
    PROVE  GetOK(s, Entered(s, e, a, i, k), i, place)
<1> DEFINE u == sfs_block_free(e.s, e.ino)
           r == [a EXCEPT !.s = sfs_block_free(@, e.ino)]
<1>1. r = Entered(s, e, a, i, k)
  BY DEF Entered
<1>2. r.s = u /\ r.ret = "E_NO_MEM"
  OBVIOUS
<1> HIDE DEF r
<1>3. Freed(e.s, u, e.ino)
  <2>1. e.ino \in Block \ e.s.free /\ FsShape(e.s) /\ MapShape(e.s)
    BY DEF Allocated, Volume, MapShape
  <2> QED BY <2>1, FreeVolume
<1> HIDE DEF u
<1>4. /\ FsShape(u) /\ MapShape(u) /\ Untouched(s, u) /\ u.din = s.din /\ u.dirty = s.dirty
      /\ u.free = s.free /\ u.super_dirty = TRUE
      /\ \A c \in Block \ s.free : u.ents[c] = s.ents[c]
  BY <1>3 DEF Allocated, Freed, Untouched
<1>5. /\ \A j \in File, l \in Place : PointerAt(u, j, l) = PointerAt(s, j, l)
      /\ Owned(u, u.free)
  BY <1>4, SamePointers DEF Volume
<1>6. Filled(u)
  BY <1>4, <1>5, StaysFilled DEF Volume
<1>7. Volume(u)
  BY <1>4, <1>5, <1>6 DEF Volume, Untouched
<1>8. BlockStep(s, u, i)
  <2>1. s.din[i].blocks \in Int
    BY DEF Volume, FsShape, DinShape
  <2> QED BY <1>4, <2>1 DEF BlockStep, Untouched
<1> QED BY <1>1, <1>2, <1>4, <1>7, <1>8 DEF GetOK

LEMMA NewEntryVolume ==
    ASSUME NEW s, Volume(s), NEW i \in File, NEW k \in Slots,
           PointerAt(s, i, k + SFS_NDIRECT) = NoBlock
    PROVE  GetOK(s, NewEntry(s, i, k), i, k + SFS_NDIRECT)
<1> DEFINE old == s.din[i].indirect
           place == k + SFS_NDIRECT
           none(t) == [ret |-> "E_NO_MEM", s |-> t, ino |-> NoBlock]
           e == sfs_block_alloc(s)
           a == sfs_block_alloc(s)
           kept == [ret |-> "ok", s |-> s, ino |-> old]
<1>1. FsShape(s) /\ MapShape(s) /\ BlockStep(s, s, i)
  BY StepNone DEF Volume
<1>2. GetOK(s, none(s), i, place)
  BY <1>1 DEF GetOK
<1>3. CASE old # NoBlock
  <2>1. NewEntry(s, i, k) = Entered(s, kept, a, i, k)
    BY <1>3 DEF NewEntry, Then
  <2>2. CASE s.free = {}
    <3>1. a = none(s)
      BY <1>1, <2>2, AllocVolume
    <3>2. Entered(s, kept, none(s), i, k) = none(s)
      BY <1>3 DEF Entered
    <3> QED BY <1>2, <2>1, <3>1, <3>2
  <2>3. CASE s.free # {}
    <3>1. a.ret = "ok" /\ DOMAIN a = {"ret", "s", "ino"} /\ Allocated(s, a.s, a.ino)
      BY <1>1, <2>3, AllocVolume
    <3>2. s.ents[old][k] = NoBlock
      <4>1. place # -1 /\ place \notin Direct /\ place - SFS_NDIRECT = k
        BY SlotPlace
      <4> HIDE DEF place
      <4>2. PointerAt(s, i, place) = NoBlock
        BY DEF place
      <4> QED BY <1>3, <4>1, <4>2, Zenon DEF PointerAt
    <3> HIDE DEF a
    <3>3. GetOK(s, Entered(s, kept, a, i, k), i, place)
      BY <1>3, <3>1, <3>2, EntryOld
    <3> QED BY <2>1, <3>3
  <2> QED BY <2>2, <2>3
<1>4. CASE old = NoBlock /\ s.free = {}
  <2>1. e = none(s)
    BY <1>1, <1>4, AllocVolume
  <2> HIDE DEF e
  <2>2. NewEntry(s, i, k) = none(s)
    BY <1>4, <2>1 DEF NewEntry, Then, e
  <2> QED BY <1>2, <2>2
<1>5. CASE old = NoBlock /\ s.free # {}
  <2> DEFINE d == sfs_block_alloc(e.s)
  <2>1. e.ret = "ok" /\ Allocated(s, e.s, e.ino)
    BY <1>1, <1>5, AllocVolume
  <2>2. NewEntry(s, i, k) = Entered(s, e, d, i, k)
    BY <1>5, <2>1, Zenon DEF NewEntry, Then
  <2>3. FsShape(e.s) /\ MapShape(e.s)
    BY <2>1 DEF Allocated
  <2> HIDE DEF e
  <2>4. IF e.s.free = {} THEN d = none(e.s)
        ELSE d.ret = "ok" /\ DOMAIN d = {"ret", "s", "ino"} /\ Allocated(e.s, d.s, d.ino)
    BY <2>3, AllocVolume
  <2> HIDE DEF d
  <2>5. GetOK(s, Entered(s, e, d, i, k), i, place)
    <3>1. CASE e.s.free = {}
      BY <1>5, <2>1, <2>4, <3>1, EntryGivenBack
    <3>2. CASE e.s.free # {}
      BY <1>5, <2>1, <2>4, <3>2, EntryNew
    <3> QED BY <3>1, <3>2
  <2> QED BY <2>2, <2>5
<1> QED BY <1>3, <1>4, <1>5

(* A block is asked for at an index of the map.                            *)
LEMMA GetVolume ==
    ASSUME NEW s, Volume(s), NEW i \in File, NEW index \in Place, index # -1
    PROVE  GetOK(s, sfs_bmap_get_nolock(s, i, index, TRUE), i, index)
<1> DEFINE ino == s.din[i].direct[index]
           r == sfs_bmap_get_nolock(s, i, index, TRUE)
           b == sfs_block_alloc(s)
           direct == [b EXCEPT !.s.din[i].direct[index] = b.ino, !.s.dirty = @ \cup {i}]
           found == [ret |-> "ok", s |-> s, ino |-> PointerAt(s, i, index)]
           none == [ret |-> "E_NO_MEM", s |-> s, ino |-> NoBlock]
<1>1. FsShape(s) /\ MapShape(s) /\ BlockStep(s, s, i)
  BY StepNone DEF Volume
<1>2. PointerAt(s, i, index) # NoBlock => GetOK(s, found, i, index)
  BY <1>1 DEF GetOK
<1>3. GetOK(s, none, i, index)
  BY <1>1 DEF GetOK
<1>4. CASE index \in Direct
  <2>0. index - SFS_NDIRECT \notin Slots
    BY <1>4, SfsAssumption DEF Direct, Slots
  <2>1. PointerAt(s, i, index) = ino
    BY <1>4, Places
  <2>2. CASE ino # NoBlock
    <3>1. r = found
      BY <1>4, <2>0, <2>1, <2>2 DEF sfs_bmap_get_nolock
    <3> QED BY <1>2, <2>1, <2>2, <3>1
  <2>3. CASE ino = NoBlock
    <3>1. r = IF b.ret = "ok" THEN direct ELSE b
      BY <1>4, <2>0, <2>3 DEF sfs_bmap_get_nolock, Then
    <3>2. IF s.free = {} THEN b = none
          ELSE b.ret = "ok" /\ DOMAIN b = {"ret", "s", "ino"} /\ Allocated(s, b.s, b.ino)
      BY <1>1, AllocVolume
    <3> HIDE DEF b, r
    <3>3. CASE s.free = {}
      <4> HIDE DEF direct
      <4>1. r = b /\ b = none
        BY <3>1, <3>2, <3>3
      <4> QED BY <1>3, <4>1 DEF r
    <3>4. CASE s.free # {}
      <4>1. GetOK(s, direct, i, index)
        BY <1>4, <2>3, <3>2, <3>4, DirectVolume
      <4> QED BY <3>1, <3>2, <3>4, <4>1 DEF r
    <3> QED BY <3>3, <3>4
  <2> QED BY <2>2, <2>3
<1>5. CASE index \notin Direct
  <2> DEFINE k == index - SFS_NDIRECT
             sub == sfs_bmap_get_sub_nolock(s, i, k, TRUE)
  <2>1. k \in Slots
    BY <1>5, Positions
  <2>2. r = sub
    BY <1>5, <2>1 DEF sfs_bmap_get_nolock
  <2>3. PointerAt(s, i, index) = IF s.din[i].indirect = NoBlock THEN NoBlock
                                 ELSE s.ents[s.din[i].indirect][k]
    BY <1>5, Zenon DEF PointerAt
  <2>4. k + SFS_NDIRECT = index
    <3>1. SFS_NDIRECT \in Int /\ index \in Int
      BY SfsAssumption DEF Place
    <3> QED BY <3>1
  <2> HIDE DEF k
  <2>5. CASE PointerAt(s, i, index) # NoBlock
    <3>1. sub = found
      BY <2>3, <2>5, Zenon DEF sfs_bmap_get_sub_nolock
    <3> QED BY <1>2, <2>2, <2>5, <3>1
  <2>6. CASE PointerAt(s, i, index) = NoBlock
    <3>1. sub = NewEntry(s, i, k)
      BY <2>3, <2>6, Zenon DEF sfs_bmap_get_sub_nolock
    <3>2. GetOK(s, NewEntry(s, i, k), i, index)
      BY <2>1, <2>4, <2>6, NewEntryVolume
    <3> QED BY <2>2, <3>1, <3>2
  <2> QED BY <2>5, <2>6
<1> QED BY <1>4, <1>5

(* There are fewer blocks than an inode can map, one of them the indirect  *)
(* block: the next index is in the map.                                    *)
LEMMA Room ==
    ASSUME NEW s, Volume(s), NEW i \in File
    PROVE  s.din[i].blocks \in Place /\ s.din[i].blocks # -1
<1> DEFINE n == SFS_NDIRECT + SFS_BLK_NENTRY
           f == [k \in Place |-> PointerAt(s, i, k)]
<1>1. n \in Nat \ {0} /\ SFS_NDIRECT \in Nat /\ SFS_BLK_NENTRY \in Nat \ {0} /\ n = SFS_NDIRECT + SFS_BLK_NENTRY
  BY SfsAssumption
<1>2. s.din[i].blocks \in 0 .. n
  BY DEF Volume, Filled
<1>3. Place = -1 .. n - 1
  BY <1>1 DEF Place
<1> HIDE DEF n
<1>4. ASSUME s.din[i].blocks = n PROVE FALSE
  <2>1. \A k \in 0 .. n - 1 : PointerAt(s, i, k) # NoBlock
    BY <1>4 DEF Volume, Filled
  <2>2. PointerAt(s, i, -1) # NoBlock
    <3>1. SFS_NDIRECT \in 0 .. n - 1 /\ SFS_NDIRECT # -1 /\ SFS_NDIRECT \notin Direct
      BY <1>1 DEF Direct
    <3>2. PointerAt(s, i, SFS_NDIRECT) # NoBlock
      BY <2>1, <3>1
    <3>3. s.din[i].indirect # NoBlock
      BY <3>1, <3>2 DEF PointerAt
    <3> QED BY <3>3, Places
  <2>3. \A k \in Place : k = -1 \/ k \in 0 .. n - 1
    BY <1>1, <1>3
  <2>4. \A k \in Place : PointerAt(s, i, k) # NoBlock
    BY <2>1, <2>2, <2>3
  <2>5. f \in [Place -> Block] /\ \A k \in Place : f[k] = PointerAt(s, i, k)
    BY <2>4 DEF Volume, Owned
  <2>6. \A k, l \in Place : f[k] = f[l] => k = l
    BY <2>4, <2>5 DEF Volume, Owned
  <2> HIDE DEF f
  <2>7. IsFiniteSet(Place) /\ Cardinality(Place) = n + 1
    <3>1. -1 \in Int /\ n - 1 \in Int /\ ~ (-1 > n - 1) /\ (n - 1) - (-1) + 1 = n + 1
      BY <1>1
    <3>2. IsFiniteSet(-1 .. n - 1) /\ Cardinality(-1 .. n - 1) = (n - 1) - (-1) + 1
      BY <3>1, FS_Interval
    <3> QED BY <1>3, <3>1, <3>2
  <2>8. IsFiniteSet(Block) /\ Cardinality(Block) <= n /\ Cardinality(Block) \in Nat
    <3>1. IsFiniteSet(Block) /\ Cardinality(Block) <= n
      BY <1>1, SfsAssumption
    <3> QED BY <3>1, FS_CardinalityType
  <2>9. Cardinality(Block) < Cardinality(Place)
    BY <1>1, <2>7, <2>8
  <2>10. \E k, l \in Place : k # l /\ f[k] = f[l]
    BY <2>5, <2>7, <2>8, <2>9, FS_PigeonHole
  <2> QED BY <2>6, <2>10
<1> QED BY <1>1, <1>2, <1>3, <1>4

LoadOK(s, r, i) ==
    /\ Volume(r.s) /\ BlockStep(s, r.s, i)
    /\ r.ret = "ok" => r.s.din[i].blocks = s.din[i].blocks + 1

LEMMA LoadVolume ==
    ASSUME NEW s, Volume(s), NEW i \in File, NEW index, index = s.din[i].blocks
    PROVE  LoadOK(s, sfs_bmap_load_nolock(s, i, index), i)
<1> DEFINE create == index = s.din[i].blocks
           t == Checked(s, index <= s.din[i].blocks, "bmap")
           b == sfs_bmap_get_nolock(t, i, index, create)
           w == Checked(b.s, b.ino \in Block \ b.s.free, "bmap")
           u == [w EXCEPT !.din[i].blocks = IF create THEN @ + 1 ELSE @]
           r == [b EXCEPT !.s = u]
           din == [b.s.din EXCEPT ![i].blocks = @ + 1]
<1>1. index \in Place /\ index # -1 /\ index \in Int /\ index <= index
  <2>1. index \in Place /\ index # -1
    BY Room
  <2> QED BY <2>1, SfsAssumption DEF Place
<1>2. create = TRUE
  OBVIOUS
<1>3. t = s
  BY <1>1 DEF Checked
<1>4. sfs_bmap_load_nolock(s, i, index) = IF b.ret = "ok" THEN r ELSE b
  BY Zenon DEF sfs_bmap_load_nolock, Then
<1> HIDE DEF create, t
<1>5. GetOK(s, b, i, index) /\ BlockCall(s, b)
  <2>1. FsShape(s)
    BY DEF Volume
  <2>2. GetOK(s, sfs_bmap_get_nolock(s, i, index, TRUE), i, index)
    BY <1>1, GetVolume
  <2>3. BlockCall(s, sfs_bmap_get_nolock(s, i, index, TRUE))
    BY <2>1, GetKeeps
  <2> QED BY <1>2, <1>3, <2>2, <2>3
<1> HIDE DEF b
<1>6. CASE b.ret = "ok"
  <2>1. /\ Volume(b.s) /\ FsShape(b.s) /\ DOMAIN b.s = FsFields /\ MapShape(b.s)
        /\ DinShape(b.s.din) /\ DinShape(b.s.disk) /\ DOMAIN b = {"ret", "s", "ino"}
        /\ b.s.din[i].blocks = index /\ PointerAt(b.s, i, index) = b.ino /\ b.ino # NoBlock
    BY <1>5, <1>6 DEF GetOK, Volume, FsShape, BlockCall
  <2>2. b.ino \in Block \ b.s.free
    BY <1>1, <2>1 DEF Volume, Owned
  <2>3. w = b.s
    BY <2>2, Zenon DEF Checked
  <2> HIDE DEF w
  <2>4. r.s = u /\ r.ret = "ok"
    BY <1>6, <2>1
  <2>5. /\ DOMAIN u = FsFields /\ Untouched(b.s, u) /\ u.super_dirty = b.s.super_dirty
        /\ u.free = b.s.free /\ u.unused = b.s.unused /\ u.dirty = b.s.dirty
        /\ u.ents = b.s.ents /\ u.din = din
    BY <1>2, <2>1, <2>3 DEF FsFields, Untouched
  <2> HIDE DEF u, r
  <2>6. /\ \A j \in File \ {i} : u.din[j] = b.s.din[j]
        /\ u.din[i].blocks = b.s.din[i].blocks + 1
        /\ \A j \in File : /\ u.din[j].direct = b.s.din[j].direct
                           /\ u.din[j].indirect = b.s.din[j].indirect
                           /\ u.din[j].size = b.s.din[j].size
    BY <2>1, <2>5 DEF DinShape
  <2>7. FsShape(u)
    <3>1. DinShape(u.din)
      BY <2>1, <2>5 DEF DinShape
    <3> QED BY <2>1, <2>5, <3>1 DEF FsShape, Untouched
  <2>8. MapShape(u)
    BY <2>1, <2>5, <2>6 DEF MapShape
  <2>9. \A j \in File, l \in Place : PointerAt(u, j, l) = PointerAt(b.s, j, l)
    BY <2>5, <2>6, Zenon DEF PointerAt
  <2>10. Owned(u, u.free)
    BY <2>1, <2>5, <2>9 DEF Volume, Owned
  <2>11. Filled(u)
    <3> SUFFICES ASSUME NEW j \in File
                 PROVE  /\ u.din[j].blocks \in 0 .. SFS_NDIRECT + SFS_BLK_NENTRY
                        /\ \A k \in 0 .. u.din[j].blocks - 1 : PointerAt(u, j, k) # NoBlock
      BY DEF Filled
    <3>0. SFS_NDIRECT \in Nat /\ SFS_BLK_NENTRY \in Nat
      BY SfsAssumption
    <3>1. /\ b.s.din[j].blocks \in 0 .. SFS_NDIRECT + SFS_BLK_NENTRY
          /\ \A k \in 0 .. b.s.din[j].blocks - 1 : PointerAt(b.s, j, k) # NoBlock
      BY <2>1 DEF Volume, Filled
    <3>2. CASE j = i
      <4>1. u.din[j].blocks \in 0 .. SFS_NDIRECT + SFS_BLK_NENTRY
        BY <1>1, <2>1, <2>6, <3>0, <3>2 DEF Place
      <4>2. \A k \in 0 .. u.din[j].blocks - 1 : k \in Place /\ (k = index \/ k \in 0 .. b.s.din[j].blocks - 1)
        BY <1>1, <2>1, <2>6, <3>0, <3>2 DEF Place
      <4> QED BY <2>1, <2>9, <3>1, <3>2, <4>1, <4>2
    <3>3. CASE j # i
      <4>1. \A k \in 0 .. b.s.din[j].blocks - 1 : k \in Place
        BY <3>0, <3>1 DEF Place
      <4>2. u.din[j].blocks = b.s.din[j].blocks
        BY <2>6, <3>3
      <4> QED BY <2>9, <3>1, <4>1, <4>2
    <3> QED BY <3>2, <3>3
  <2>12. Volume(u)
    BY <2>1, <2>5, <2>7, <2>8, <2>10, <2>11 DEF Volume, Untouched
  <2>13. BlockStep(b.s, u, i)
    BY <1>1, <2>1, <2>5, <2>6 DEF BlockStep, Untouched
  <2>14. BlockStep(s, u, i)
    <3>1. FsShape(s) /\ BlockStep(s, b.s, i)
      BY <1>5 DEF Volume, GetOK
    <3> QED BY <2>1, <2>7, <2>13, <3>1, StepTwice
  <2>15. LoadOK(s, r, i)
    BY <1>1, <2>1, <2>4, <2>6, <2>12, <2>14 DEF LoadOK
  <2> QED BY <1>4, <1>6, <2>15
<1>7. CASE b.ret # "ok"
  <2>1. LoadOK(s, b, i)
    BY <1>5, <1>7 DEF LoadOK, GetOK
  <2> QED BY <1>4, <1>7, <2>1
<1> QED BY <1>6, <1>7

(* The last block of an inode is given back.                               *)
ShortOK(s, t, i) ==
    /\ Volume(t) /\ BlockStep(s, t, i)
    /\ t.din[i].blocks = s.din[i].blocks - 1

FreeOK(s, t, i, index) ==
    /\ FsShape(t) /\ MapShape(t) /\ Untouched(s, t) /\ t.super_dirty = TRUE
    /\ t.dirty \in {s.dirty, s.dirty \cup {i}}
    /\ Owned(t, t.free) /\ Elsewhere(s, t, i, index)
    /\ \A j \in File \ {i} : t.din[j] = s.din[j]
    /\ t.din[i].blocks = s.din[i].blocks

LEMMA FreeBlockVolume ==
    ASSUME NEW s, Volume(s), NEW i \in File, NEW index \in Place, index # -1,
           PointerAt(s, i, index) # NoBlock
    PROVE  FreeOK(s, sfs_bmap_free_nolock(s, i, index), i, index)
<1> DEFINE ent == s.din[i].indirect
           ino == IF index \in Direct THEN s.din[i].direct[index]
                  ELSE IF ent = NoBlock THEN NoBlock ELSE s.ents[ent][index - SFS_NDIRECT]
           x == sfs_block_free(s, ino)
           u == [x EXCEPT !.din[i].direct[index] = NoBlock, !.dirty = @ \cup {i}]
           v == [x EXCEPT !.ents[ent][index - SFS_NDIRECT] = NoBlock]
           t == sfs_bmap_free_nolock(s, i, index)
<1>1. ino = PointerAt(s, i, index)
  BY Zenon DEF PointerAt
<1>2. t = IF ino = NoBlock THEN s ELSE IF index \in Direct THEN u ELSE v
  BY Zenon DEF sfs_bmap_free_nolock
<1>3. FsShape(t)
  BY FreeBlockKeeps DEF Volume, CountsKept
<1> HIDE DEF ino, t
<1>4. /\ FsShape(s) /\ MapShape(s) /\ ino \in Block \ s.free /\ ino # NoBlock
      /\ DOMAIN s = FsFields /\ DinShape(s.din) /\ DinShape(s.disk)
  BY <1>1 DEF Volume, Owned, FsShape
<1>5. Freed(s, x, ino)
  BY <1>4, FreeVolume
<1> HIDE DEF x
<1>6. /\ DOMAIN x = FsFields /\ MapShape(x) /\ Untouched(s, x) /\ x.din = s.din /\ x.dirty = s.dirty
      /\ x.super_dirty = TRUE /\ x.free = s.free \cup {ino} /\ x.ents = s.ents
  BY <1>5 DEF Freed, FsShape
<1>7. CASE index \in Direct
  <2>1. /\ Untouched(s, u) /\ u.super_dirty = TRUE /\ u.dirty = s.dirty \cup {i}
        /\ u.free = s.free \cup {ino} /\ u.unused = x.unused /\ u.ents = s.ents
        /\ u.din = [s.din EXCEPT ![i].direct[index] = NoBlock]
    BY <1>6 DEF FsFields, Untouched
  <2> HIDE DEF u
  <2>2. /\ \A j \in File \ {i} : u.din[j] = s.din[j]
        /\ u.din[i].blocks = s.din[i].blocks /\ u.din[i].indirect = s.din[i].indirect
        /\ u.din[i].direct = [s.din[i].direct EXCEPT ![index] = NoBlock]
    BY <1>4, <2>1 DEF DinShape
  <2>3. /\ u.din[i].direct[index] = NoBlock /\ DOMAIN u.din[i].direct = Direct
        /\ \A l \in Direct \ {index} : u.din[i].direct[l] = s.din[i].direct[l]
    BY <1>4, <1>7, <2>2 DEF MapShape
  <2>4. MapShape(u)
    <3>1. \A j \in File : DOMAIN u.din[j].direct = Direct
      BY <1>4, <2>2, <2>3 DEF MapShape
    <3> QED BY <1>4, <1>6, <2>1, <3>1 DEF MapShape
  <2>5. PointerAt(u, i, index) = NoBlock
    BY <1>7, <2>3, Places
  <2>6. Elsewhere(s, u, i, index)
    <3> SUFFICES ASSUME NEW j \in File, NEW l \in Place, j # i \/ l # index
                 PROVE  PointerAt(u, j, l) = PointerAt(s, j, l)
      BY DEF Elsewhere
    <3>1. u.din[j].indirect = s.din[j].indirect
      BY <2>2
    <3>2. l \in Direct => u.din[j].direct[l] = s.din[j].direct[l]
      BY <2>2, <2>3
    <3> QED BY <2>1, <3>1, <3>2, Zenon DEF PointerAt
  <2>7. Owned(u, u.free)
    BY <1>1, <1>4, <2>1, <2>5, <2>6, Cleared DEF Volume
  <2>8. t = u
    BY <1>2, <1>4, <1>7
  <2> QED BY <1>3, <2>1, <2>2, <2>4, <2>6, <2>7, <2>8 DEF FreeOK, t
<1>8. CASE index \notin Direct
  <2> DEFINE k == index - SFS_NDIRECT
  <2>1. k \in Slots
    BY <1>8, Positions
  <2>2. ent \in Block \ s.free /\ ent # NoBlock
    <3>1. ent # NoBlock
      BY <1>8 DEF PointerAt
    <3> QED BY <3>1, Indirect DEF Volume
  <2>3. \A l \in Place : l # -1 /\ l \notin Direct =>
            l - SFS_NDIRECT \in Slots /\ (l - SFS_NDIRECT = k => l = index)
    <3> SUFFICES ASSUME NEW l \in Place, l # -1, l \notin Direct
                 PROVE  l - SFS_NDIRECT \in Slots /\ (l - SFS_NDIRECT = k => l = index)
      OBVIOUS
    <3>1. SFS_NDIRECT \in Int /\ SFS_BLK_NENTRY \in Int
      BY SfsAssumption
    <3>2. l \in Int /\ index \in Int
      BY <3>1 DEF Place
    <3>3. l - SFS_NDIRECT \in Slots
      BY Positions
    <3> QED BY <3>1, <3>2, <3>3
  <2>4. /\ Untouched(s, v) /\ v.super_dirty = TRUE /\ v.dirty = s.dirty
        /\ v.free = s.free \cup {ino} /\ v.unused = x.unused /\ v.din = s.din
        /\ v.ents = [s.ents EXCEPT ![ent][k] = NoBlock]
    BY <1>6 DEF FsFields, Untouched
  <2> HIDE DEF v, k
  <2>5. /\ DOMAIN v.ents = Block /\ \A c \in Block : DOMAIN v.ents[c] = Slots
        /\ v.ents[ent][k] = NoBlock /\ \A l \in Slots \ {k} : v.ents[ent][l] = s.ents[ent][l]
        /\ \A c \in Block \ {ent} : v.ents[c] = s.ents[c]
    <3>1. /\ DOMAIN s.ents = Block /\ \A c \in Block : DOMAIN s.ents[c] = Slots
          /\ ent \in Block
      BY <1>4, <2>2 DEF MapShape
    <3>2. v.ents = [s.ents EXCEPT ![ent] = [s.ents[ent] EXCEPT ![k] = NoBlock]]
      BY <2>4
    <3>3. DOMAIN v.ents = Block /\ v.ents[ent] = [s.ents[ent] EXCEPT ![k] = NoBlock]
      BY <3>1, <3>2
    <3>4. \A c \in Block \ {ent} : v.ents[c] = s.ents[c]
      BY <3>1, <3>2
    <3>5. /\ v.ents[ent][k] = NoBlock /\ \A l \in Slots \ {k} : v.ents[ent][l] = s.ents[ent][l]
          /\ DOMAIN v.ents[ent] = Slots
      BY <2>1, <3>1, <3>3
    <3> QED BY <3>1, <3>3, <3>4, <3>5
  <2>6. MapShape(v)
    <3>1. /\ \A j \in File : DOMAIN v.din[j].direct = Direct
          /\ v.free \subseteq Block /\ v.dirty \subseteq File
      BY <1>4, <1>6, <2>4 DEF MapShape
    <3>2. v.unused = Cardinality(v.free)
      BY <1>6, <2>4 DEF MapShape
    <3> QED BY <2>5, <3>1, <3>2 DEF MapShape
  <2>7. PointerAt(v, i, index) = NoBlock
    BY <1>8, <2>4, <2>5, Zenon DEF PointerAt, k
  <2>8. Elsewhere(s, v, i, index)
    <3> SUFFICES ASSUME NEW j \in File, NEW l \in Place, j # i \/ l # index
                 PROVE  PointerAt(v, j, l) = PointerAt(s, j, l)
      BY DEF Elsewhere
    <3> DEFINE c == s.din[j].indirect
    <3>1. c \in (Block \ s.free) \cup {NoBlock}
      BY Indirect DEF Volume
    <3>2. j # i => c # ent
      <4>1. PointerAt(s, j, -1) = c /\ PointerAt(s, i, -1) = ent /\ -1 \in Place
        BY Positions, Places
      <4> QED BY <2>2, <4>1 DEF Volume, Owned
    <3>3. c # NoBlock /\ c # ent => v.ents[c] = s.ents[c]
      BY <2>5, <3>1
    <3>4. l # -1 /\ l \notin Direct /\ c # NoBlock
              => v.ents[c][l - SFS_NDIRECT] = s.ents[c][l - SFS_NDIRECT]
      BY <2>3, <2>5, <3>2, <3>3
    <3> QED BY <2>4, <3>4, Zenon DEF PointerAt
  <2>9. Owned(v, v.free)
    BY <1>1, <1>4, <2>4, <2>7, <2>8, Cleared DEF Volume
  <2>10. t = v
    BY <1>2, <1>4, <1>8
  <2> QED BY <1>3, <2>4, <2>6, <2>8, <2>9, <2>10 DEF FreeOK, t
<1> QED BY <1>7, <1>8

LEMMA TruncateVolume ==
    ASSUME NEW s, Volume(s), NEW i \in File, s.din[i].blocks > 0
    PROVE  ShortOK(s, sfs_bmap_truncate_nolock(s, i), i)
<1> DEFINE index == s.din[i].blocks - 1
           t == sfs_bmap_free_nolock(s, i, index)
           u == [t EXCEPT !.din[i].blocks = @ - 1, !.dirty = @ \cup {i}]
           n == SFS_NDIRECT + SFS_BLK_NENTRY
<1>1. /\ SFS_NDIRECT \in Nat /\ SFS_BLK_NENTRY \in Nat /\ n \in Nat
      /\ \A j \in File : /\ s.din[j].blocks \in 0 .. n
                         /\ \A k \in 0 .. s.din[j].blocks - 1 : k \in Place /\ PointerAt(s, j, k) # NoBlock
  BY SfsAssumption DEF Volume, Filled, Place
<1> HIDE DEF n
<1>2. index \in 0 .. s.din[i].blocks - 1 /\ index # -1 /\ s.din[i].blocks \in Int
  BY <1>1
<1>3. index \in Place /\ PointerAt(s, i, index) # NoBlock
  BY <1>1, <1>2
<1>4. u = sfs_bmap_truncate_nolock(s, i)
  BY Zenon DEF sfs_bmap_truncate_nolock
<1>5. FreeOK(s, t, i, index)
  BY <1>2, <1>3, FreeBlockVolume
<1> HIDE DEF t
<1>6. /\ DOMAIN t = FsFields /\ FsShape(t) /\ DinShape(t.din) /\ DinShape(t.disk) /\ MapShape(t)
      /\ t.din[i].blocks = index + 1
  BY <1>2, <1>5 DEF FreeOK, FsShape
<1>7. /\ DOMAIN u = FsFields /\ Untouched(t, u) /\ u.super_dirty = t.super_dirty
      /\ u.free = t.free /\ u.unused = t.unused /\ u.dirty = t.dirty \cup {i}
      /\ u.ents = t.ents /\ u.din = [t.din EXCEPT ![i].blocks = @ - 1]
  BY <1>6 DEF FsFields, Untouched
<1> HIDE DEF u
<1>8. /\ u.din[i].blocks = t.din[i].blocks - 1 /\ \A j \in File \ {i} : u.din[j] = t.din[j]
      /\ \A j \in File : /\ u.din[j].direct = t.din[j].direct
                         /\ u.din[j].indirect = t.din[j].indirect
  BY <1>6, <1>7 DEF DinShape
<1>9. FsShape(u)
  <2>1. DinShape(u.din)
    BY <1>6, <1>7 DEF DinShape
  <2> QED BY <1>6, <1>7, <2>1 DEF FsShape, Untouched
<1>10. MapShape(u)
  BY <1>6, <1>7, <1>8 DEF MapShape
<1>11. \A j \in File, l \in Place : PointerAt(u, j, l) = PointerAt(t, j, l)
  BY <1>7, <1>8, Zenon DEF PointerAt
<1>12. Owned(u, u.free)
  BY <1>5, <1>7, <1>11 DEF FreeOK, Owned
<1>13. \A j \in File \ {i} : u.din[j] = s.din[j]
  BY <1>5, <1>8 DEF FreeOK
<1>14. u.din[i].blocks = s.din[i].blocks - 1
  BY <1>5, <1>8 DEF FreeOK
<1>15. Filled(u)
  <2> SUFFICES ASSUME NEW j \in File
               PROVE  /\ u.din[j].blocks \in 0 .. n
                      /\ \A k \in 0 .. u.din[j].blocks - 1 : PointerAt(u, j, k) # NoBlock
    BY DEF Filled, n
  <2>1. \A l \in Place : (j # i \/ l # index) => PointerAt(u, j, l) = PointerAt(s, j, l)
    BY <1>5, <1>11 DEF FreeOK, Elsewhere
  <2>2. u.din[j].blocks = IF j = i THEN s.din[j].blocks - 1 ELSE s.din[j].blocks
    BY <1>13, <1>14
  <2>3. u.din[j].blocks \in 0 .. n
    BY <1>1, <1>2, <2>2
  <2>4. \A k \in 0 .. u.din[j].blocks - 1 : k \in 0 .. s.din[j].blocks - 1 /\ (j # i \/ k # index)
    BY <1>1, <1>2, <2>2
  <2> QED BY <1>1, <2>1, <2>3, <2>4
<1>16. Volume(u)
  BY <1>5, <1>7, <1>9, <1>10, <1>12, <1>15 DEF Volume, FreeOK, Untouched
<1>17. BlockStep(s, u, i)
  BY <1>5, <1>7, <1>13 DEF BlockStep, FreeOK, Untouched
<1> QED BY <1>4, <1>14, <1>16, <1>17 DEF ShortOK

LEMMA GrownVolume ==
    ASSUME NEW s, Volume(s), NEW i \in File, NEW n \in Int, s.din[i].blocks <= n
    PROVE  Volume(Grown(s, i, n).s) /\ BlockStep(s, Grown(s, i, n).s, i)
<1> DEFINE first == s.din[i].blocks
           Load(grow, m) == IF grow[m - 1].ret = "ok"
                            THEN sfs_bmap_load_nolock(grow[m - 1].s, i, m - 1) ELSE grow[m - 1]
           OK(r, m) == /\ Volume(r.s) /\ BlockStep(s, r.s, i)
                       /\ r.ret = "ok" => r.s.din[i].blocks = m
<1>1. first \in Int /\ first <= n /\ FsShape(s)
  BY DEF Volume, FsShape, DinShape
<1>2. PICK grow : /\ Grown(s, i, n) = grow[n]
                  /\ grow[first] = [ret |-> "ok", s |-> s, ino |-> NoBlock]
                  /\ \A m \in first + 1 .. n : grow[m] = Load(grow, m)
  BY <1>1, GrownLoop
<1> DEFINE G == {m \in Int : OK(grow[m], m)}
<1>3. first \in G
  <2>1. OK(grow[first], first)
    BY <1>1, <1>2, StepNone
  <2> QED BY <1>1, <2>1
<1> HIDE DEF first
<1>4. ASSUME NEW m \in first + 1 .. n, m - 1 \in G PROVE m \in G
  <2> DEFINE g == grow[m - 1]
             r == sfs_bmap_load_nolock(g.s, i, m - 1)
  <2>1. Volume(g.s) /\ BlockStep(s, g.s, i) /\ (g.ret = "ok" => g.s.din[i].blocks = m - 1)
    BY <1>4
  <2>2. grow[m] = IF g.ret = "ok" THEN r ELSE g
    BY <1>2
  <2> HIDE DEF g, r
  <2>3. m \in Int /\ m - 1 + 1 = m
    BY <1>1
  <2>4. CASE g.ret = "ok"
    <3>1. LoadOK(g.s, r, i)
      BY <2>1, <2>4, LoadVolume DEF r
    <3>2. r.ret = "ok" => r.s.din[i].blocks = m
      BY <2>1, <2>3, <2>4, <3>1 DEF LoadOK
    <3>3. Volume(r.s) /\ BlockStep(s, r.s, i)
      BY <1>1, <2>1, <3>1, StepTwice DEF LoadOK, Volume
    <3> QED BY <2>2, <2>3, <2>4, <3>2, <3>3
  <2>5. CASE g.ret # "ok"
    BY <2>1, <2>2, <2>3, <2>5
  <2> QED BY <2>4, <2>5
<1> HIDE DEF G
<1>5. \A m \in first .. n : m \in G
  BY <1>1, <1>3, <1>4, Interval, Zenon
<1>6. n \in first .. n
  BY <1>1
<1> QED BY <1>2, <1>5, <1>6 DEF G

LEMMA ShrunkVolume ==
    ASSUME NEW s, Volume(s), NEW i \in File, NEW n \in Nat, n <= s.din[i].blocks
    PROVE  Volume(Shrunk(s, i, n)) /\ BlockStep(s, Shrunk(s, i, n), i)
<1> DEFINE nblks == s.din[i].blocks
           OK(t, m) == Volume(t) /\ BlockStep(s, t, i) /\ t.din[i].blocks = m
<1>1. nblks \in Int /\ n \in Int /\ n <= nblks /\ FsShape(s)
  BY DEF Volume, FsShape, DinShape
<1>2. PICK shrink : /\ Shrunk(s, i, n) = shrink[n] /\ shrink[nblks] = s
                    /\ \A m \in n .. nblks - 1 :
                         shrink[m] = sfs_bmap_truncate_nolock(shrink[m + 1], i)
  BY <1>1, ShrunkLoop
<1> DEFINE G == {m \in Int : OK(shrink[m], m)}
<1>3. nblks \in G
  BY <1>1, <1>2, StepNone
<1> HIDE DEF nblks
<1>4. ASSUME NEW m \in n .. nblks - 1, m + 1 \in G PROVE m \in G
  <2> DEFINE t == shrink[m + 1]
             u == sfs_bmap_truncate_nolock(t, i)
  <2>1. Volume(t) /\ BlockStep(s, t, i) /\ t.din[i].blocks = m + 1
    BY <1>4
  <2>2. shrink[m] = u
    BY <1>2
  <2> HIDE DEF t, u
  <2>3. m \in Int /\ m + 1 > 0 /\ m + 1 - 1 = m
    BY <1>1
  <2>4. ShortOK(t, u, i)
    BY <2>1, <2>3, TruncateVolume DEF u
  <2>5. BlockStep(s, u, i)
    BY <1>1, <2>1, <2>4, StepTwice DEF ShortOK, Volume
  <2> QED BY <2>1, <2>2, <2>3, <2>4, <2>5 DEF ShortOK
<1> HIDE DEF G
<1>5. n \in G
  BY <1>1, <1>3, <1>4, Downwards, Zenon
<1> QED BY <1>2, <1>5 DEF G

LEMMA ResizedVolume ==
    ASSUME NEW s, Volume(s), NEW i \in File, NEW len
    PROVE  Volume(Resized(s, i, len)) /\ BlockStep(s, Resized(s, i, len), i)
<1> DEFINE u == [s EXCEPT !.din[i].size = len, !.dirty = @ \cup {i}]
<1>1. DOMAIN s = FsFields /\ FsShape(s) /\ DinShape(s.din) /\ DinShape(s.disk) /\ MapShape(s)
  BY DEF Volume, FsShape
<1>2. u = Resized(s, i, len)
  BY Zenon DEF Resized
<1>3. /\ DOMAIN u = FsFields /\ Untouched(s, u) /\ u.super_dirty = s.super_dirty
      /\ u.free = s.free /\ u.unused = s.unused /\ u.dirty = s.dirty \cup {i}
      /\ u.ents = s.ents /\ u.din = [s.din EXCEPT ![i].size = len]
  BY <1>1 DEF FsFields, Untouched
<1> HIDE DEF u
<1>4. /\ \A j \in File \ {i} : u.din[j] = s.din[j]
      /\ \A j \in File : /\ u.din[j].direct = s.din[j].direct
                         /\ u.din[j].indirect = s.din[j].indirect
                         /\ u.din[j].blocks = s.din[j].blocks
  BY <1>1, <1>3 DEF DinShape
<1>5. FsShape(u)
  <2>1. DinShape(u.din)
    BY <1>1, <1>3 DEF DinShape
  <2> QED BY <1>1, <1>3, <2>1 DEF FsShape, Untouched
<1>6. MapShape(u)
  BY <1>1, <1>3, <1>4 DEF MapShape
<1>7. \A j \in File, l \in Place : PointerAt(u, j, l) = PointerAt(s, j, l)
  BY <1>3, <1>4, Zenon DEF PointerAt
<1>8. Owned(u, u.free)
  BY <1>3, <1>7 DEF Volume, Owned
<1>9. Filled(u)
  BY <1>4, <1>7, StaysFilled DEF Volume
<1>10. Volume(u)
  BY <1>3, <1>5, <1>6, <1>8, <1>9 DEF Volume, Untouched
<1>11. BlockStep(s, u, i)
  BY <1>3, <1>4 DEF BlockStep, Untouched
<1> QED BY <1>2, <1>10, <1>11

(* The volume and its image on the disk.                                   *)
VolOK(s) == Volume(s) /\ Written(s)

(* Only the assertions that can fail have failed.                          *)
LEMMA CheckedVolOK ==
    ASSUME NEW s, VolOK(s), NEW c, NEW site,
           c \/ s.panic # "none" \/ site \in {"vop", "truncfile"}
    PROVE  VolOK(Checked(s, c, site))
<1> DEFINE u == [s EXCEPT !.panic = site]
<1>1. CASE c \/ s.panic # "none"
  <2>1. Checked(s, c, site) = s
    BY <1>1, Zenon DEF Checked
  <2> QED BY <2>1
<1>2. CASE ~ (c \/ s.panic # "none")
  <2>1. Checked(s, c, site) = u
    BY <1>2, Zenon DEF Checked
  <2>2. DOMAIN s = FsFields
    BY DEF VolOK, Volume, FsShape
  <2>3. /\ DOMAIN u = FsFields /\ u.panic = site /\ site \in {"vop", "truncfile"}
        /\ u.din = s.din /\ u.disk = s.disk /\ u.ents = s.ents /\ u.free = s.free
        /\ u.unused = s.unused /\ u.dirty = s.dirty /\ u.in_core = s.in_core
        /\ u.super_dirty = s.super_dirty /\ u.disk_free = s.disk_free
        /\ u.disk_unused = s.disk_unused
    BY <1>2, <2>2 DEF FsFields
  <2> HIDE DEF u
  <2>4. FsShape(u) /\ MapShape(u) /\ Filled(u) /\ Owned(u, u.free)
    <3>1. \A j, l : PointerAt(u, j, l) = PointerAt(s, j, l)
      BY <2>3, Zenon DEF PointerAt
    <3>2. FsShape(u) /\ MapShape(u)
      BY <2>3 DEF VolOK, Volume, FsShape, MapShape
    <3>3. Filled(u)
      BY <2>3, <3>1 DEF VolOK, Volume, Filled
    <3>4. Owned(u, u.free)
      BY <2>3, <3>1 DEF VolOK, Volume, Owned
    <3> QED BY <3>2, <3>3, <3>4
  <2>5. Written(u)
    BY <2>3 DEF VolOK, Written, OnDisk, SuperOnDisk, InUseBy
  <2> QED BY <2>1, <2>3, <2>4, <2>5 DEF VolOK, Volume
<1> QED BY <1>1, <1>2

LEMMA StepVolOK ==
    ASSUME NEW s, NEW t, NEW i \in File, VolOK(s), Volume(t), BlockStep(s, t, i), InUseBy(s, i)
    PROVE  VolOK(t)
BY StepWritten DEF VolOK

LEMMA TruncfileVolOK ==
    ASSUME NEW s, VolOK(s), NEW i \in File, InUseBy(s, i), NEW len
    PROVE  VolOK(sfs_truncfile(s, i, len).s)
<1> DEFINE tblks == ROUNDUP_DIV(len)
           nblks == s.din[i].blocks
           r == IF nblks < tblks THEN Grown(s, i, tblks)
                ELSE [ret |-> "ok", s |-> Shrunk(s, i, tblks)]
           OK(t) == Volume(t) /\ BlockStep(s, t, i)
<1>1. VolOK(Checked(s, tblks = nblks, "truncfile"))
  BY CheckedVolOK
<1>2. ASSUME len \in 0 .. SFS_MAX_FILE_SIZE
      PROVE  OK(r.s) /\ OK(Resized(r.s, i, len))
  <2>1. tblks \in Nat
    <3>1. len \in Nat /\ SFS_BLKSIZE \in Nat \ {0}
      BY <1>2, SfsAssumption
    <3>2. len + SFS_BLKSIZE - 1 \in Nat
      BY <3>1
    <3> QED BY <3>1, <3>2 DEF ROUNDUP_DIV
  <2>2. nblks \in Int /\ Volume(s) /\ FsShape(s)
    BY DEF VolOK, Volume, FsShape, DinShape
  <2> HIDE DEF tblks, nblks
  <2>3. OK(r.s)
    <3>1. CASE nblks < tblks
      <4>1. tblks \in Int /\ nblks <= tblks
        BY <2>1, <2>2, <3>1
      <4>2. OK(Grown(s, i, tblks).s)
        BY <2>2, <4>1, GrownVolume DEF nblks
      <4> QED BY <3>1, <4>2
    <3>2. CASE ~ (nblks < tblks)
      <4>1. tblks <= nblks
        BY <2>1, <2>2, <3>2
      <4>2. OK(Shrunk(s, i, tblks))
        BY <2>1, <2>2, <4>1, ShrunkVolume DEF nblks
      <4> QED BY <3>2, <4>2
    <3> QED BY <3>1, <3>2
  <2> HIDE DEF r
  <2>4. OK(Resized(r.s, i, len))
    <3>1. Volume(Resized(r.s, i, len)) /\ BlockStep(r.s, Resized(r.s, i, len), i)
      BY <2>3, ResizedVolume
    <3> QED BY <2>2, <2>3, <3>1, StepTwice DEF Volume
  <2> QED BY <2>3, <2>4
<1>3. ASSUME len \in 0 .. SFS_MAX_FILE_SIZE
      PROVE  VolOK(r.s) /\ VolOK(Resized(r.s, i, len))
  <2> HIDE DEF r
  <2> QED BY <1>2, <1>3, StepVolOK
<1>4. sfs_truncfile(s, i, len) =
        IF len \notin 0 .. SFS_MAX_FILE_SIZE THEN Fail(s, "E_INVAL")
        ELSE IF s.din[i].size = len
             THEN [ret |-> "ok", s |-> Checked(s, tblks = nblks, "truncfile")]
        ELSE IF r.ret = "ok" THEN [ret |-> "ok", s |-> Resized(r.s, i, len)] ELSE r
  BY Zenon DEF sfs_truncfile, Then
<1> HIDE DEF r, tblks, nblks
<1> QED BY <1>1, <1>3, <1>4 DEF Fail

LEMMA TryseekVolOK ==
    ASSUME NEW s, VolOK(s), NEW i \in File, InUseBy(s, i), NEW pos
    PROVE  VolOK(sfs_tryseek(s, i, pos).s)
<1>1. sfs_tryseek(s, i, pos) \in {Fail(s, "E_INVAL"), sfs_truncfile(s, i, pos), [ret |-> "ok", s |-> s]}
  BY Zenon DEF sfs_tryseek
<1> QED BY <1>1, TruncfileVolOK DEF Fail

LEMMA WriteVolOK ==
    ASSUME NEW s, VolOK(s), NEW i \in File, InUseBy(s, i), NEW offset
    PROVE  VolOK(sfs_io_nolock(s, i, offset, TRUE))
<1>1. VolOK(Resized(s, i, offset))
  BY ResizedVolume, StepVolOK DEF VolOK
<1>2. sfs_io_nolock(s, i, offset, TRUE) \in {s, Resized(s, i, offset)}
  BY DEF sfs_io_nolock
<1> QED BY <1>1, <1>2

(* Steps that are about the counts.                                        *)
SameVolume(s, t) ==
    /\ DOMAIN t = FsFields /\ t.panic = s.panic
    /\ t.din = s.din /\ t.disk = s.disk /\ t.ents = s.ents /\ t.free = s.free
    /\ t.unused = s.unused /\ t.dirty = s.dirty /\ t.super_dirty = s.super_dirty
    /\ t.disk_free = s.disk_free /\ t.disk_unused = s.disk_unused

LEMMA VolumeEdited ==
    ASSUME NEW s, NEW t, Volume(s), SameVolume(s, t)
    PROVE  Volume(t)
<1>1. \A j, l : PointerAt(t, j, l) = PointerAt(s, j, l)
  BY Zenon DEF PointerAt, SameVolume
<1>2. FsShape(t) /\ MapShape(t)
  BY DEF SameVolume, Volume, FsShape, MapShape
<1>3. Filled(t)
  BY <1>1 DEF SameVolume, Volume, Filled
<1>4. Owned(t, t.free)
  BY <1>1 DEF SameVolume, Volume, Owned
<1> QED BY <1>2, <1>3, <1>4 DEF SameVolume, Volume

LEMMA VolEdited ==
    ASSUME NEW s, NEW t, VolOK(s), SameVolume(s, t), \A i \in s.dirty : InUseBy(t, i)
    PROVE  VolOK(t)
<1>1. Written(t)
  BY DEF SameVolume, VolOK, Written, OnDisk, SuperOnDisk
<1> QED BY <1>1, VolumeEdited DEF VolOK

(* An inode is written back: it need not be open or in core any longer.    *)
LEMMA FsyncVolOK ==
    ASSUME NEW s, Volume(s), OnDisk(s), SuperOnDisk(s), NEW i,
           \A j \in s.dirty \ {i} : InUseBy(s, j)
    PROVE  VolOK(sfs_fsync(s, i)) /\ i \notin sfs_fsync(s, i).dirty
<1> DEFINE u == [s EXCEPT !.dirty = @ \ {i}, !.disk[i] = s.din[i]]
<1>1. CASE i \in s.dirty
  <2>1. DOMAIN s = FsFields /\ DinShape(s.din) /\ DinShape(s.disk) /\ i \in File
    BY <1>1 DEF Volume, FsShape, MapShape
  <2>2. sfs_fsync(s, i) = u
    BY <1>1, Zenon DEF sfs_fsync
  <2>3. /\ DOMAIN u = FsFields /\ u.panic = s.panic /\ u.din = s.din /\ u.ents = s.ents
        /\ u.free = s.free /\ u.unused = s.unused /\ u.dirty = s.dirty \ {i}
        /\ u.super_dirty = s.super_dirty /\ u.disk_free = s.disk_free
        /\ u.disk_unused = s.disk_unused /\ u.in_core = s.in_core /\ u.open = s.open
        /\ u.disk = [s.disk EXCEPT ![i] = s.din[i]]
    BY <2>1 DEF FsFields
  <2> HIDE DEF u
  <2>4. Volume(u)
    <3>1. \A j, l : PointerAt(u, j, l) = PointerAt(s, j, l)
      BY <2>3, Zenon DEF PointerAt
    <3>2. FsShape(u)
      BY <2>1, <2>3 DEF FsShape, DinShape
    <3>3. MapShape(u)
      BY <2>3 DEF Volume, MapShape
    <3>4. Filled(u)
      BY <2>3, <3>1 DEF Volume, Filled
    <3>5. Owned(u, u.free)
      BY <2>3, <3>1 DEF Volume, Owned
    <3> QED BY <2>3, <3>2, <3>3, <3>4, <3>5 DEF Volume
  <2>5. OnDisk(u)
    <3> SUFFICES ASSUME NEW j \in File, j \notin u.dirty
                 PROVE  /\ u.disk[j].size = u.din[j].size
                        /\ u.disk[j].direct = u.din[j].direct
                        /\ u.disk[j].indirect = u.din[j].indirect
                        /\ u.disk[j].blocks \in 0 .. u.din[j].blocks
      BY DEF OnDisk
    <3>1. CASE j = i
      <4>1. u.disk[j] = u.din[j]
        BY <2>1, <2>3, <3>1 DEF DinShape
      <4>2. s.din[j].blocks \in Nat
        BY SfsAssumption DEF Volume, Filled
      <4> QED BY <2>3, <4>1, <4>2
    <3>2. CASE j # i
      <4>1. u.disk[j] = s.disk[j] /\ j \notin s.dirty
        BY <2>1, <2>3, <3>2 DEF DinShape
      <4> QED BY <2>3, <4>1 DEF OnDisk
    <3> QED BY <3>1, <3>2
  <2>6. Written(u)
    BY <2>3, <2>5 DEF Written, SuperOnDisk, InUseBy
  <2> QED BY <2>2, <2>3, <2>4, <2>6 DEF VolOK
<1>2. CASE i \notin s.dirty
  <2>1. sfs_fsync(s, i) = s
    BY <1>2, Zenon DEF sfs_fsync
  <2> QED BY <1>2, <2>1 DEF VolOK, Written
<1> QED BY <1>1, <1>2

(* sfs_sync: every inode, then the super block and the free map.           *)
LEMMA SyncVolOK ==
    ASSUME NEW s, VolOK(s)
    PROVE  VolOK(sfs_sync(s))
<1> DEFINE disk == [i \in File |-> IF i \in s.dirty THEN s.din[i] ELSE s.disk[i]]
           t == [s EXCEPT !.disk = disk, !.dirty = {}]
           u == [t EXCEPT !.super_dirty = FALSE, !.disk_free = t.free, !.disk_unused = t.unused]
           Same(x) ==
             /\ DOMAIN x = FsFields /\ x.panic = s.panic /\ x.din = s.din /\ x.ents = s.ents
             /\ x.free = s.free /\ x.unused = s.unused /\ x.dirty = {} /\ x.disk = disk
<1>1. sfs_sync(s) = IF ~ t.super_dirty THEN t ELSE u
  BY Zenon DEF sfs_sync
<1>2. DOMAIN s = FsFields /\ FsShape(s) /\ DinShape(s.din) /\ DinShape(s.disk)
  BY DEF VolOK, Volume, FsShape
<1>3. Same(t) /\ t.super_dirty = s.super_dirty /\ t.disk_free = s.disk_free /\ t.disk_unused = s.disk_unused
  BY <1>2 DEF FsFields
<1>4. Same(u) /\ u.super_dirty = FALSE /\ u.disk_free = s.free /\ u.disk_unused = s.unused
  <2> HIDE DEF t
  <2> QED BY <1>3 DEF FsFields
<1> HIDE DEF t, u
<1>5. /\ DinShape(disk)
      /\ \A i \in File : disk[i] = IF i \in s.dirty THEN s.din[i] ELSE s.disk[i]
  BY <1>2 DEF DinShape
<1> HIDE DEF disk
<1>6. ASSUME NEW x, Same(x), SuperOnDisk(x) PROVE VolOK(x)
  <2>1. \A j, l : PointerAt(x, j, l) = PointerAt(s, j, l)
    BY <1>6, Zenon DEF PointerAt
  <2>2. FsShape(x) /\ MapShape(x)
    BY <1>2, <1>5, <1>6 DEF VolOK, Volume, FsShape, MapShape
  <2>3. Filled(x)
    BY <1>6, <2>1 DEF VolOK, Volume, Filled
  <2>4. Owned(x, x.free)
    BY <1>6, <2>1 DEF VolOK, Volume, Owned
  <2>5. Volume(x)
    BY <1>6, <2>2, <2>3, <2>4 DEF VolOK, Volume
  <2>6. OnDisk(x)
    <3>1. \A i \in File : s.din[i].blocks \in Nat
      BY SfsAssumption DEF VolOK, Volume, Filled
    <3>2. \A i \in File : i \in s.dirty => x.disk[i] = x.din[i]
      BY <1>5, <1>6
    <3>3. \A i \in File : i \notin s.dirty => x.disk[i] = s.disk[i] /\ x.din[i] = s.din[i]
      BY <1>5, <1>6
    <3>4. \A i \in File : i \in s.dirty => x.disk[i].blocks \in 0 .. x.din[i].blocks
      BY <1>6, <3>1, <3>2
    <3> QED BY <3>2, <3>3, <3>4 DEF VolOK, Written, OnDisk
  <2>7. Written(x)
    BY <1>6, <2>6 DEF Written
  <2> QED BY <2>5, <2>7 DEF VolOK
<1>7. ~ t.super_dirty => VolOK(t)
  BY <1>3, <1>6 DEF VolOK, Written, SuperOnDisk
<1>8. VolOK(u)
  BY <1>4, <1>6 DEF SuperOnDisk
<1> QED BY <1>1, <1>7, <1>8

-----------------------------------------------------------------------------
(* The counts.  Tallied(s, R, O): as long as the kernel runs, R and O are  *)
(* the reference and open counts of s, and an SFS inode is in core, with   *)
(* one reclaim due for it, exactly while it is referenced.                 *)
Counts == [Node -> Int]
OneMore(C, n) == [C EXCEPT ![n] = @ + 1]
OneLess(C, n) == [C EXCEPT ![n] = @ - 1]

Tallied(s, R, O) ==
    /\ FsShape(s)
    /\ R \in Counts /\ O \in Counts /\ \A n \in Node : O[n] <= R[n]
    /\ s.panic = "none" =>
        /\ s.ref = R /\ s.open = O
        /\ \A n \in Node : 0 <= O[n]
        /\ DOMAIN s.reclaim = Ino
        /\ \A i \in Ino : /\ (i \in s.in_core) <=> (R[i] > 0)
                          /\ s.reclaim[i] = IF i \in s.in_core THEN 1 ELSE 0

LEMMA KeptTally ==
    ASSUME NEW s, NEW t, NEW R, NEW O, Tallied(s, R, O), CountsKept(s, t)
    PROVE  Tallied(t, R, O)
BY DEF Tallied, CountsKept

LEMMA OneApart ==
    ASSUME NEW C \in Counts, NEW n \in Node
    PROVE  /\ OneMore(C, n) \in Counts /\ OneLess(C, n) \in Counts
           /\ \A m \in Node : /\ OneMore(C, n)[m] = IF m = n THEN C[m] + 1 ELSE C[m]
                              /\ OneLess(C, n)[m] = IF m = n THEN C[m] - 1 ELSE C[m]
                              /\ C[m] \in Int
BY DEF Counts, OneMore, OneLess

LEMMA SameCounts ==
    ASSUME NEW C \in Counts, NEW D \in Counts, \A n \in Node : C[n] = D[n]
    PROVE  C = D
BY DEF Counts

LEMMA MoreLess ==
    ASSUME NEW C \in Counts, NEW n \in Node
    PROVE  /\ OneMore(C, n) \in Counts /\ OneLess(C, n) \in Counts
           /\ OneLess(OneMore(C, n), n) = C
           /\ OneMore(OneLess(C, n), n) = C
           /\ \A m \in Node : OneLess(OneMore(OneMore(C, n), m), n) = OneMore(C, m)
<1>1. \A D \in Counts, m \in Node : OneMore(D, m) \in Counts /\ OneLess(D, m) \in Counts
  BY OneApart
<1>2. OneLess(OneMore(C, n), n) = C
  <2> DEFINE D == OneMore(C, n)  E == OneLess(D, n)
  <2>1. D \in Counts /\ \A m \in Node : D[m] = (IF m = n THEN C[m] + 1 ELSE C[m]) /\ C[m] \in Int
    BY OneApart
  <2> HIDE DEF D
  <2>2. E \in Counts /\ \A m \in Node : E[m] = IF m = n THEN D[m] - 1 ELSE D[m]
    BY <2>1, OneApart
  <2> HIDE DEF E
  <2>3. \A m \in Node : E[m] = C[m]
    BY <2>1, <2>2
  <2>4. E = C
    BY <2>2, <2>3, SameCounts
  <2> QED BY <2>4 DEF D, E
<1>3. OneMore(OneLess(C, n), n) = C
  <2> DEFINE D == OneLess(C, n)  E == OneMore(D, n)
  <2>1. D \in Counts /\ \A m \in Node : D[m] = (IF m = n THEN C[m] - 1 ELSE C[m]) /\ C[m] \in Int
    BY OneApart
  <2> HIDE DEF D
  <2>2. E \in Counts /\ \A m \in Node : E[m] = IF m = n THEN D[m] + 1 ELSE D[m]
    BY <2>1, OneApart
  <2> HIDE DEF E
  <2>3. \A m \in Node : E[m] = C[m]
    BY <2>1, <2>2
  <2>4. E = C
    BY <2>2, <2>3, SameCounts
  <2> QED BY <2>4 DEF D, E
<1>4. ASSUME NEW m \in Node
      PROVE  OneLess(OneMore(OneMore(C, n), m), n) = OneMore(C, m)
  <2> DEFINE D == OneMore(C, n)  E == OneMore(D, m)  F == OneLess(E, n)  G == OneMore(C, m)
  <2>1. D \in Counts /\ \A k \in Node : D[k] = (IF k = n THEN C[k] + 1 ELSE C[k]) /\ C[k] \in Int
    BY OneApart
  <2>2. G \in Counts /\ \A k \in Node : G[k] = IF k = m THEN C[k] + 1 ELSE C[k]
    BY OneApart
  <2> HIDE DEF D, G
  <2>3. E \in Counts /\ \A k \in Node : E[k] = IF k = m THEN D[k] + 1 ELSE D[k]
    BY <2>1, OneApart
  <2> HIDE DEF E
  <2>4. F \in Counts /\ \A k \in Node : F[k] = IF k = n THEN E[k] - 1 ELSE E[k]
    BY <2>3, OneApart
  <2> HIDE DEF F
  <2>5. \A k \in Node : F[k] = G[k]
    BY <2>1, <2>2, <2>3, <2>4
  <2>6. F = G
    BY <2>2, <2>4, <2>5, SameCounts
  <2> QED BY <2>6 DEF D, E, F, G
<1> QED BY <1>1, <1>2, <1>3, <1>4

LEMMA RefIncTally ==
    ASSUME NEW s, NEW R, NEW O, Tallied(s, R, O), NEW n \in Node, n \in Dev \/ R[n] > 0
    PROVE  Tallied(vop_ref_inc(s, n), OneMore(R, n), O)
<1> DEFINE u == [s EXCEPT !.ref[n] = @ + 1]
<1>1. DOMAIN s = FsFields
  BY DEF Tallied, FsShape
<1>2. /\ DOMAIN u = FsFields /\ u.panic = s.panic /\ u.ref = [s.ref EXCEPT ![n] = @ + 1]
      /\ u.open = s.open
      /\ u.in_core = s.in_core /\ u.reclaim = s.reclaim /\ u.din = s.din /\ u.disk = s.disk
  BY <1>1 DEF FsFields
<1> HIDE DEF u
<1>3. FsShape(u)
  BY <1>2 DEF Tallied, FsShape
<1>4. n \in Dev => n \notin Ino
  BY SfsAssumption
<1>5. OneMore(R, n) \in Counts /\ \A m \in Node : OneMore(R, n)[m] = IF m = n THEN R[m] + 1 ELSE R[m]
  BY OneApart DEF Tallied
<1>6. ASSUME u.panic = "none"
      PROVE  \A i \in Ino : /\ (i \in u.in_core) <=> (OneMore(R, n)[i] > 0)
                           /\ u.reclaim[i] = IF i \in u.in_core THEN 1 ELSE 0
  BY <1>2, <1>4, <1>5, <1>6 DEF Tallied, Counts, Node
<1>7. ASSUME u.panic = "none"
      PROVE  /\ u.ref = OneMore(R, n) /\ u.open = O /\ DOMAIN u.reclaim = Ino
             /\ \A m \in Node : 0 <= O[m]
  <2>1. /\ s.ref = R /\ s.open = O /\ DOMAIN s.reclaim = Ino
        /\ \A m \in Node : 0 <= O[m]
    BY <1>2, <1>7 DEF Tallied
  <2>2. u.ref = OneMore(R, n)
    BY <1>2, <2>1 DEF OneMore
  <2> QED BY <1>2, <2>1, <2>2
<1>8. \A m \in Node : O[m] <= OneMore(R, n)[m]
  <2>1. \A m \in Node : R[m] \in Int /\ O[m] \in Int /\ O[m] <= R[m]
    BY DEF Tallied, Counts
  <2> QED BY <1>5, <2>1
<1>9. Tallied(u, OneMore(R, n), O)
  BY <1>3, <1>5, <1>6, <1>7, <1>8 DEF Tallied
<1> QED BY <1>9 DEF vop_ref_inc, u

LEMMA OpenIncTally ==
    ASSUME NEW s, NEW R, NEW O, Tallied(s, R, O), NEW n \in Node, O[n] + 1 <= R[n]
    PROVE  Tallied(vop_open_inc(s, n), R, OneMore(O, n))
<1> DEFINE u == [s EXCEPT !.open[n] = @ + 1]
<1>1. DOMAIN s = FsFields
  BY DEF Tallied, FsShape
<1>2. /\ DOMAIN u = FsFields /\ u.panic = s.panic /\ u.open = [s.open EXCEPT ![n] = @ + 1]
      /\ u.ref = s.ref
      /\ u.in_core = s.in_core /\ u.reclaim = s.reclaim /\ u.din = s.din /\ u.disk = s.disk
  BY <1>1 DEF FsFields
<1> HIDE DEF u
<1>3. FsShape(u)
  BY <1>2 DEF Tallied, FsShape
<1>4. OneMore(O, n) \in Counts /\ \A m \in Node : OneMore(O, n)[m] = IF m = n THEN O[m] + 1 ELSE O[m]
  BY OneApart DEF Tallied
<1>5. ASSUME u.panic = "none"
      PROVE  /\ u.open = OneMore(O, n)
             /\ \A m \in Node : 0 <= OneMore(O, n)[m]
  <2>1. s.open = O /\ \A m \in Node : 0 <= O[m]
    BY <1>2, <1>5 DEF Tallied
  <2>2. u.open = OneMore(O, n)
    BY <1>2, <2>1 DEF OneMore
  <2>3. \A m \in Node : R[m] \in Int /\ O[m] \in Int
    BY DEF Tallied, Counts
  <2>4. \A m \in Node : 0 <= OneMore(O, n)[m]
    BY <1>4, <2>1, <2>3
  <2> QED BY <2>2, <2>4
<1>6. \A m \in Node : OneMore(O, n)[m] <= R[m]
  <2>1. \A m \in Node : R[m] \in Int /\ O[m] \in Int /\ O[m] <= R[m]
    BY DEF Tallied, Counts
  <2> QED BY <1>4, <2>1
<1>7. Tallied(u, R, OneMore(O, n))
  BY <1>2, <1>3, <1>4, <1>5, <1>6 DEF Tallied
<1> QED BY <1>7 DEF vop_open_inc, u

(* After the kernel has stopped nothing is said of the counts. *)
LEMMA StoppedTally ==
    ASSUME NEW s, FsShape(s), s.panic # "none", NEW R \in Counts, NEW O \in Counts,
           \A n \in Node : O[n] <= R[n]
    PROVE  Tallied(s, R, O)
BY DEF Tallied

LEMMA ReclaimShape ==
    ASSUME NEW s, FsShape(s), NEW i
    PROVE  /\ FsShape(sfs_reclaim(s, i)) /\ s.in_core \ {i} \subseteq sfs_reclaim(s, i).in_core
           /\ sfs_reclaim(s, i).panic = "none" => s.panic = "none"
           /\ (sfs_reclaim(s, i).panic = "none" /\ DOMAIN s.reclaim = Ino /\ i \in Ino) =>
                LET t == sfs_reclaim(s, i)
                    gone == s.reclaim[i] - 1 = 0 /\ s.ref[i] = 0
                IN  /\ t.ref = s.ref /\ t.open = s.open
                    /\ t.reclaim = [s.reclaim EXCEPT ![i] = @ - 1]
                    /\ t.in_core = IF gone THEN s.in_core \ {i} ELSE s.in_core
<1> DEFINE w == Checked(s, s.reclaim[i] > 0, "inode")
           x == [w EXCEPT !.reclaim[i] = @ - 1]
           y == sfs_fsync(x, i)
           z == Checked(y, x.open[i] = 0, "inode")
           u == [z EXCEPT !.in_core = @ \ {i}]
<1>1. sfs_reclaim(s, i) = IF x.reclaim[i] # 0 \/ x.ref[i] # 0 THEN x ELSE u
  BY Zenon DEF sfs_reclaim
<1>2. CountsKept(s, w)
  BY CheckedKeeps
<1> HIDE DEF w
<1>3. /\ DOMAIN x = FsFields /\ x.panic = w.panic /\ x.ref = w.ref /\ x.open = w.open
      /\ x.in_core = w.in_core /\ x.reclaim = [w.reclaim EXCEPT ![i] = @ - 1]
      /\ x.din = w.din /\ x.disk = w.disk
  BY <1>2 DEF FsFields, FsShape, CountsKept
<1> HIDE DEF x
<1>4. FsShape(x)
  BY <1>2, <1>3 DEF FsShape, CountsKept
<1>5. CountsKept(x, y)
  BY <1>4, FsyncKeeps
<1> HIDE DEF y
<1>6. CountsKept(x, z)
  <2>1. CountsKept(y, z)
    BY <1>5, CheckedKeeps DEF CountsKept
  <2> QED BY <1>5, <2>1, KeptTwice
<1> HIDE DEF z
<1>7. /\ DOMAIN u = FsFields /\ u.panic = z.panic /\ u.ref = z.ref /\ u.open = z.open
      /\ u.in_core = z.in_core \ {i} /\ u.reclaim = z.reclaim
      /\ u.din = z.din /\ u.disk = z.disk
  BY <1>6 DEF FsFields, FsShape, CountsKept
<1> HIDE DEF u
<1>8. FsShape(u)
  BY <1>6, <1>7 DEF FsShape, CountsKept
<1>9. (DOMAIN s.reclaim = Ino /\ i \in Ino) => x.reclaim[i] = s.reclaim[i] - 1
  BY <1>2, <1>3 DEF CountsKept
<1> QED BY <1>1, <1>2, <1>3, <1>4, <1>6, <1>7, <1>8, <1>9 DEF CountsKept

LEMMA RefDecTally ==
    ASSUME NEW s, NEW R, NEW O, Tallied(s, R, O), NEW n \in Node, O[n] < R[n]
    PROVE  Tallied(vop_ref_dec(s, n), OneLess(R, n), O)
<1> DEFINE w == Checked(s, s.ref[n] > 0, "inode")
           t == [w EXCEPT !.ref[n] = @ - 1]
           r == sfs_reclaim(t, n)
           v == Checked(t, FALSE, "vop")
           C == OneLess(R, n)
<1>1. vop_ref_dec(s, n) = IF t.ref[n] # 0 THEN t ELSE IF n \in Ino THEN r ELSE v
  BY Zenon DEF vop_ref_dec
<1>2. CountsKept(s, w) /\ FsShape(s)
  BY CheckedKeeps DEF Tallied
<1> HIDE DEF w
<1>3. /\ DOMAIN t = FsFields /\ t.panic = w.panic /\ t.ref = [w.ref EXCEPT ![n] = @ - 1]
      /\ t.open = w.open /\ t.in_core = w.in_core /\ t.reclaim = w.reclaim
      /\ t.din = w.din /\ t.disk = w.disk
  BY <1>2 DEF FsFields, FsShape, CountsKept
<1> HIDE DEF t
<1>4. FsShape(t)
  BY <1>2, <1>3 DEF FsShape, CountsKept
<1>5. FsShape(r) /\ (r.panic = "none" => t.panic = "none")
  BY <1>4, ReclaimShape
<1>6. FsShape(v) /\ v.panic # "none"
  BY <1>4, CheckedKeeps DEF CountsKept
<1>7. /\ C \in Counts
      /\ \A m \in Node : C[m] = (IF m = n THEN R[m] - 1 ELSE R[m]) /\ R[m] \in Int
  BY OneApart DEF Tallied
<1>8. R \in Counts /\ O \in Counts /\ \A m \in Node : O[m] \in Int /\ O[m] <= C[m]
  <2>1. R \in Counts /\ O \in Counts /\ \A m \in Node : O[m] \in Int /\ O[m] <= R[m]
    BY DEF Tallied, Counts
  <2> HIDE DEF C
  <2> QED BY <1>7, <2>1
<1>9. CASE t.panic # "none"
  BY <1>1, <1>4, <1>5, <1>6, <1>7, <1>8, <1>9, StoppedTally
<1>10. CASE t.panic = "none"
  <2>1. s.panic = "none"
    BY <1>2, <1>3, <1>10 DEF CountsKept
  <2>2. t.ref = C /\ t.open = O /\ t.in_core = s.in_core /\ t.reclaim = s.reclaim
    BY <1>2, <1>3, <2>1 DEF Tallied, CountsKept, OneLess
  <2> HIDE DEF C
  <2>3. \A m \in Node : 0 <= O[m] /\ O[m] <= C[m]
    BY <1>8, <2>1 DEF Tallied
  <2>4. /\ DOMAIN s.reclaim = Ino
        /\ \A i \in Ino : /\ (i \in s.in_core) <=> (R[i] > 0)
                          /\ s.reclaim[i] = IF i \in s.in_core THEN 1 ELSE 0
    BY <2>1 DEF Tallied
  <2>5. R[n] > 0
    BY <1>7, <1>8, <2>1 DEF Tallied
  <2>6. CASE t.ref[n] # 0
    <3>1. \A i \in Ino : (i \in t.in_core) <=> (C[i] > 0)
      BY <1>7, <2>2, <2>3, <2>4, <2>5, <2>6 DEF Node
    <3>2. Tallied(t, C, O)
      BY <1>4, <1>7, <1>8, <2>2, <2>3, <2>4, <3>1 DEF Tallied
    <3> QED BY <1>1, <2>6, <3>2 DEF C
  <2>7. CASE t.ref[n] = 0 /\ n \in Ino
    <3>1. s.reclaim[n] = 1 /\ C[n] = 0
      BY <2>2, <2>4, <2>5, <2>7
    <3>2. ASSUME r.panic = "none"
          PROVE  /\ r.ref = C /\ r.open = O /\ r.in_core = s.in_core \ {n}
                 /\ r.reclaim = [s.reclaim EXCEPT ![n] = 0]
      <4>1. DOMAIN t.reclaim = Ino /\ t.reclaim[n] - 1 = 0 /\ t.ref[n] = 0
        BY <2>2, <2>4, <2>7, <3>1
      <4>2. /\ r.ref = t.ref /\ r.open = t.open /\ r.in_core = t.in_core \ {n}
            /\ r.reclaim = [t.reclaim EXCEPT ![n] = @ - 1]
        BY <1>4, <2>7, <3>2, <4>1, ReclaimShape
      <4>3. [t.reclaim EXCEPT ![n] = @ - 1] = [s.reclaim EXCEPT ![n] = 0]
        BY <2>2, <4>1
      <4> QED BY <2>2, <4>2, <4>3
    <3> HIDE DEF r
    <3>3. ASSUME r.panic = "none", NEW i \in Ino
          PROVE  /\ (i \in r.in_core) <=> (C[i] > 0)
                 /\ r.reclaim[i] = IF i \in r.in_core THEN 1 ELSE 0
      BY <1>7, <2>4, <2>5, <3>1, <3>2, <3>3 DEF Node
    <3>4. Tallied(r, C, O)
      BY <1>5, <1>7, <1>8, <2>3, <2>4, <3>2, <3>3 DEF Tallied
    <3> QED BY <1>1, <2>7, <3>4 DEF C
  <2>8. CASE t.ref[n] = 0 /\ n \notin Ino
    BY <1>1, <1>6, <1>7, <1>8, <2>8, StoppedTally DEF C
  <2> QED BY <2>6, <2>7, <2>8
<1> QED BY <1>9, <1>10

LEMMA OpenDecTally ==
    ASSUME NEW s, NEW R, NEW O, Tallied(s, R, O), NEW n \in Node
    PROVE  Tallied(vop_open_dec(s, n), R, OneLess(O, n))
<1> DEFINE w == Checked(s, s.open[n] > 0, "inode")
           t == [w EXCEPT !.open[n] = @ - 1]
           v == Checked(t, t.ref[n] >= t.open[n], "inode")
           r == sfs_fsync(v, n)
           C == OneLess(O, n)
<1>1. vop_open_dec(s, n) = IF t.open[n] = 0 /\ n \in Ino THEN r ELSE t
  BY Zenon DEF vop_open_dec
<1>2. /\ CountsKept(s, w) /\ FsShape(s)
      /\ w.panic = "none" => s.open[n] > 0
  <2>1. FsShape(s)
    BY DEF Tallied
  <2>2. CountsKept(s, w)
    BY <2>1, CheckedKeeps
  <2>3. w.panic = "none" => s.open[n] > 0
    BY <2>1 DEF FsShape, FsFields, Checked
  <2> QED BY <2>1, <2>2, <2>3
<1> HIDE DEF w
<1>3. /\ DOMAIN t = FsFields /\ t.panic = w.panic /\ t.open = [w.open EXCEPT ![n] = @ - 1]
      /\ t.ref = w.ref /\ t.in_core = w.in_core /\ t.reclaim = w.reclaim
      /\ t.din = w.din /\ t.disk = w.disk
  BY <1>2 DEF FsFields, FsShape, CountsKept
<1> HIDE DEF t
<1>4. FsShape(t)
  BY <1>2, <1>3 DEF FsShape, CountsKept
<1>5. CountsKept(t, r)
  <2>1. CountsKept(t, v)
    BY <1>4, CheckedKeeps
  <2> HIDE DEF v
  <2>2. CountsKept(v, r)
    BY <2>1, FsyncKeeps DEF CountsKept
  <2> QED BY <2>1, <2>2, KeptTwice
<1> HIDE DEF r
<1>6. /\ C \in Counts
      /\ \A m \in Node : C[m] = (IF m = n THEN O[m] - 1 ELSE O[m]) /\ O[m] \in Int
  BY OneApart DEF Tallied
<1>7. R \in Counts /\ \A m \in Node : R[m] \in Int /\ C[m] <= R[m]
  <2>1. R \in Counts /\ \A m \in Node : R[m] \in Int /\ O[m] <= R[m]
    BY DEF Tallied, Counts
  <2> HIDE DEF C
  <2> QED BY <1>6, <2>1
<1>8. ASSUME t.panic = "none"
      PROVE  /\ t.ref = R /\ t.open = C /\ t.in_core = s.in_core /\ t.reclaim = s.reclaim
             /\ \A m \in Node : 0 <= C[m]
  <2>1. s.panic = "none" /\ s.open[n] > 0
    BY <1>2, <1>3, <1>8 DEF CountsKept
  <2>2. s.ref = R /\ s.open = O /\ \A m \in Node : 0 <= O[m]
    BY <2>1 DEF Tallied
  <2>3. t.ref = R /\ t.open = C /\ t.in_core = s.in_core /\ t.reclaim = s.reclaim
    BY <1>2, <1>3, <2>2 DEF CountsKept, OneLess
  <2> HIDE DEF C
  <2> QED BY <1>6, <1>7, <2>1, <2>2, <2>3
<1> HIDE DEF C
<1>9. Tallied(t, R, C)
  <2>1. t.panic = "none" => s.panic = "none"
    BY <1>2, <1>3 DEF CountsKept
  <2> QED BY <1>4, <1>6, <1>7, <1>8, <2>1 DEF Tallied
<1>10. Tallied(r, R, C)
  BY <1>5, <1>9, KeptTally
<1> QED BY <1>1, <1>9, <1>10 DEF C

(* sfs_load_inode: from the hash list or from the disk. *)
LEMMA LoadTally ==
    ASSUME NEW s, NEW R, NEW O, Tallied(s, R, O), NEW i \in Ino
    PROVE  Tallied(sfs_load_inode(s, i), OneMore(R, i), O)
<1> DEFINE C == OneMore(R, i)
           t == lookup_sfs_nolock(s, i)
           u == sfs_create_inode(s, i)
           din == IF i \in File THEN [s.din EXCEPT ![i] = s.disk[i]] ELSE s.din
<1>1. sfs_load_inode(s, i) = IF i \in s.in_core THEN t ELSE u
  BY DEF sfs_load_inode
<1>2. FsShape(s) /\ DOMAIN s = FsFields /\ DinShape(s.din) /\ DinShape(s.disk)
  BY DEF Tallied, FsShape
<1>3. /\ DOMAIN t = FsFields /\ t.panic = s.panic /\ t.ref = [s.ref EXCEPT ![i] = @ + 1]
      /\ t.open = s.open /\ t.in_core = s.in_core /\ t.din = s.din /\ t.disk = s.disk
      /\ t.reclaim = [s.reclaim EXCEPT ![i] = IF s.ref[i] = 0 THEN @ + 1 ELSE @]
  BY <1>2 DEF FsFields, lookup_sfs_nolock
<1>4. /\ DOMAIN u = FsFields /\ u.panic = s.panic /\ u.ref = [s.ref EXCEPT ![i] = 1]
      /\ u.open = [s.open EXCEPT ![i] = 0] /\ u.in_core = s.in_core \cup {i}
      /\ u.din = din /\ u.disk = s.disk /\ u.reclaim = [s.reclaim EXCEPT ![i] = 1]
  BY <1>2 DEF FsFields, sfs_create_inode
<1> HIDE DEF t, u
<1>5. DinShape(din)
  BY <1>2, DinFields
<1> HIDE DEF din
<1>6. FsShape(t) /\ FsShape(u)
  BY <1>2, <1>3, <1>4, <1>5 DEF FsShape
<1>7. /\ C \in Counts
      /\ \A m \in Node : C[m] = (IF m = i THEN R[m] + 1 ELSE R[m]) /\ R[m] \in Int
  BY OneApart DEF Tallied, Node
<1>8. /\ R \in Counts /\ O \in Counts /\ i \in Node
      /\ \A m \in Node : O[m] \in Int /\ O[m] <= R[m] /\ O[m] <= C[m]
  <2>1. /\ R \in Counts /\ O \in Counts /\ i \in Node
        /\ \A m \in Node : O[m] \in Int /\ O[m] <= R[m]
    BY DEF Tallied, Counts, Node
  <2> HIDE DEF C
  <2> QED BY <1>7, <2>1
<1>9. CASE s.panic # "none"
  BY <1>1, <1>3, <1>4, <1>6, <1>7, <1>8, <1>9, StoppedTally
<1>10. CASE s.panic = "none"
  <2>1. /\ s.ref = R /\ s.open = O /\ DOMAIN s.reclaim = Ino
        /\ \A n \in Node : 0 <= O[n]
        /\ \A j \in Ino : /\ (j \in s.in_core) <=> (R[j] > 0)
                          /\ s.reclaim[j] = IF j \in s.in_core THEN 1 ELSE 0
    BY <1>10 DEF Tallied
  <2>3. CASE i \in s.in_core
    <3>1. t.ref = C
      BY <1>3, <2>1 DEF OneMore
    <3> HIDE DEF C
    <3>2. R[i] > 0 /\ DOMAIN t.reclaim = Ino /\ \A j \in Ino : t.reclaim[j] = s.reclaim[j]
      BY <1>3, <2>1, <2>3
    <3>3. \A j \in Ino : /\ (j \in t.in_core) <=> (C[j] > 0)
                        /\ t.reclaim[j] = IF j \in t.in_core THEN 1 ELSE 0
      BY <1>3, <1>7, <2>1, <2>3, <3>2 DEF Node
    <3>4. Tallied(t, C, O)
      BY <1>3, <1>6, <1>7, <1>8, <2>1, <3>1, <3>2, <3>3 DEF Tallied
    <3> QED BY <1>1, <2>3, <3>4 DEF C
  <2>4. CASE i \notin s.in_core
    <3>1. R[i] = 0 /\ O[i] = 0
      BY <1>7, <1>8, <2>1, <2>4
    <3>2. u.ref = C
      BY <1>4, <2>1, <3>1 DEF OneMore
    <3>3. u.open = O
      BY <1>4, <1>8, <2>1, <3>1 DEF Counts
    <3> HIDE DEF C
    <3>4. \A j \in Ino : /\ (j \in u.in_core) <=> (C[j] > 0)
                        /\ u.reclaim[j] = IF j \in u.in_core THEN 1 ELSE 0
      BY <1>4, <1>7, <2>1, <3>1 DEF Node
    <3>5. Tallied(u, C, O)
      BY <1>4, <1>6, <1>7, <1>8, <2>1, <3>2, <3>3, <3>4 DEF Tallied
    <3> QED BY <1>1, <2>4, <3>5 DEF C
  <2> QED BY <2>3, <2>4
<1> QED BY <1>9, <1>10

(* What becomes of the volume when the counts of its inodes change.        *)
LEMMA RefIncVolOK ==
    ASSUME NEW s, VolOK(s), NEW n
    PROVE  VolOK(vop_ref_inc(s, n))
<1> DEFINE u == [s EXCEPT !.ref[n] = @ + 1]
<1>1. DOMAIN s = FsFields
  BY DEF VolOK, Volume, FsShape
<1>2. SameVolume(s, u) /\ u.in_core = s.in_core /\ u.open = s.open
  BY <1>1 DEF FsFields, SameVolume
<1> HIDE DEF u
<1>3. \A i \in s.dirty : InUseBy(u, i)
  BY <1>2 DEF SameVolume, InUseBy, VolOK, Written
<1>4. VolOK(u)
  BY <1>2, <1>3, VolEdited
<1> QED BY <1>4 DEF vop_ref_inc, u

LEMMA OpenIncVolOK ==
    ASSUME NEW s, NEW R, NEW O, Tallied(s, R, O), VolOK(s), NEW n \in Node
    PROVE  VolOK(vop_open_inc(s, n))
<1> DEFINE u == [s EXCEPT !.open[n] = @ + 1]
<1>1. DOMAIN s = FsFields
  BY DEF VolOK, Volume, FsShape
<1>2. SameVolume(s, u) /\ u.in_core = s.in_core /\ u.open = [s.open EXCEPT ![n] = @ + 1]
  BY <1>1 DEF FsFields, SameVolume
<1> HIDE DEF u
<1>3. ASSUME NEW i \in s.dirty PROVE InUseBy(u, i)
  <2>1. i \in s.in_core /\ i \in Node
    BY DEF VolOK, Written, InUseBy, Volume, MapShape, Node, Ino
  <2>2. ASSUME u.panic = "none" PROVE u.open[i] # 0
    <3>1. s.open \in Counts /\ 0 <= s.open[n] /\ s.open[i] # 0
      BY <1>2, <2>2 DEF Tallied, SameVolume, VolOK, Written, InUseBy
    <3>2. s.open[n] \in Int /\ DOMAIN s.open = Node
      BY <3>1 DEF Counts
    <3> QED BY <1>2, <2>1, <3>1, <3>2
  <2> QED BY <1>2, <2>1, <2>2 DEF InUseBy
<1>4. VolOK(u)
  BY <1>2, <1>3, VolEdited
<1> QED BY <1>4 DEF vop_open_inc, u

LEMMA ReclaimVolOK ==
    ASSUME NEW s, VolOK(s), NEW i \in Ino,
           s.panic = "none" => DOMAIN s.reclaim = Ino /\ s.reclaim[i] > 0,
           s.panic = "none" /\ s.ref[i] = 0 => s.open[i] = 0
    PROVE  VolOK(sfs_reclaim(s, i))
<1> DEFINE w == Checked(s, s.reclaim[i] > 0, "inode")
           x == [w EXCEPT !.reclaim[i] = @ - 1]
           y == sfs_fsync(x, i)
           z == Checked(y, x.open[i] = 0, "inode")
           u == [z EXCEPT !.in_core = @ \ {i}]
<1>1. sfs_reclaim(s, i) = IF x.reclaim[i] # 0 \/ x.ref[i] # 0 THEN x ELSE u
  BY Zenon DEF sfs_reclaim
<1>2. w = s
  BY Zenon DEF Checked
<1> HIDE DEF w
<1>3. DOMAIN s = FsFields
  BY DEF VolOK, Volume, FsShape
<1>4. SameVolume(s, x) /\ x.in_core = s.in_core /\ x.open = s.open /\ x.ref = s.ref
  BY <1>2, <1>3 DEF FsFields, SameVolume
<1> HIDE DEF x
<1>5. VolOK(x)
  <2>1. \A j \in s.dirty : InUseBy(x, j)
    BY <1>4 DEF SameVolume, InUseBy, VolOK, Written
  <2> QED BY <1>4, <2>1, VolEdited
<1>6. VolOK(y) /\ i \notin y.dirty
  <2>1. Volume(x) /\ OnDisk(x) /\ SuperOnDisk(x) /\ \A j \in x.dirty \ {i} : InUseBy(x, j)
    BY <1>5 DEF VolOK, Written
  <2> QED BY <2>1, FsyncVolOK
<1>7. CountsKept(x, y)
  <2>1. FsShape(x)
    BY <1>5 DEF VolOK, Volume
  <2> QED BY <2>1, FsyncKeeps
<1> HIDE DEF y
<1>8. CASE x.reclaim[i] # 0 \/ x.ref[i] # 0
  BY <1>1, <1>5, <1>8
<1>9. CASE ~ (x.reclaim[i] # 0 \/ x.ref[i] # 0)
  <2>1. x.open[i] = 0 \/ y.panic # "none"
    BY <1>4, <1>7, <1>9 DEF CountsKept, SameVolume
  <2>2. z = y
    BY <2>1, Zenon DEF Checked
  <2> HIDE DEF z
  <2>3. DOMAIN y = FsFields
    BY <1>6 DEF VolOK, Volume, FsShape
  <2>4. SameVolume(y, u) /\ u.in_core = y.in_core \ {i} /\ u.open = y.open
    BY <2>2, <2>3 DEF FsFields, SameVolume
  <2> HIDE DEF u
  <2>5. \A j \in y.dirty : InUseBy(u, j)
    BY <1>6, <2>4 DEF SameVolume, InUseBy, VolOK, Written
  <2>6. VolOK(u)
    BY <1>6, <2>4, <2>5, VolEdited
  <2> QED BY <1>1, <1>9, <2>6
<1> QED BY <1>8, <1>9

LEMMA RefDecVolOK ==
    ASSUME NEW s, NEW R, NEW O, Tallied(s, R, O), VolOK(s), NEW n \in Node, O[n] < R[n]
    PROVE  VolOK(vop_ref_dec(s, n))
<1> DEFINE w == Checked(s, s.ref[n] > 0, "inode")
           t == [w EXCEPT !.ref[n] = @ - 1]
           r == sfs_reclaim(t, n)
           v == Checked(t, FALSE, "vop")
<1>1. vop_ref_dec(s, n) = IF t.ref[n] # 0 THEN t ELSE IF n \in Ino THEN r ELSE v
  BY Zenon DEF vop_ref_dec
<1>2. R[n] \in Int /\ O[n] \in Int
  BY DEF Tallied, Counts
<1>3. s.panic = "none" => s.ref[n] > 0
  BY <1>2 DEF Tallied
<1>4. w = s
  BY <1>3, Zenon DEF Checked
<1> HIDE DEF w
<1>5. DOMAIN s = FsFields
  BY DEF VolOK, Volume, FsShape
<1>6. /\ SameVolume(s, t) /\ t.in_core = s.in_core /\ t.open = s.open /\ t.reclaim = s.reclaim
      /\ t.ref = [s.ref EXCEPT ![n] = @ - 1]
  BY <1>4, <1>5 DEF FsFields, SameVolume
<1> HIDE DEF t
<1>7. VolOK(t)
  <2>1. \A j \in s.dirty : InUseBy(t, j)
    BY <1>6 DEF SameVolume, InUseBy, VolOK, Written
  <2> QED BY <1>6, <2>1, VolEdited
<1>8. VolOK(v)
  BY <1>7, CheckedVolOK
<1>9. ASSUME n \in Ino PROVE VolOK(r)
  <2>1. ASSUME t.panic = "none"
        PROVE  /\ DOMAIN t.reclaim = Ino /\ t.reclaim[n] > 0
               /\ t.ref[n] = 0 => t.open[n] = 0
    <3>1. s.panic = "none"
      BY <1>6, <2>1 DEF SameVolume
    <3>2. DOMAIN s.reclaim = Ino /\ s.ref = R /\ s.open = O /\ 0 <= O[n] /\ DOMAIN R = Node
      BY <3>1 DEF Tallied, Counts
    <3>3. R[n] > 0
      BY <1>2, <3>2
    <3>4. s.reclaim[n] = 1
      BY <1>9, <3>1, <3>3 DEF Tallied
    <3>5. t.ref[n] = R[n] - 1
      BY <1>6, <3>2
    <3> QED BY <1>2, <1>6, <3>2, <3>4, <3>5
  <2> QED BY <1>7, <1>9, <2>1, ReclaimVolOK
<1> HIDE DEF r, v
<1> QED BY <1>1, <1>7, <1>8, <1>9

LEMMA OpenDecVolOK ==
    ASSUME NEW s, NEW R, NEW O, Tallied(s, R, O), VolOK(s), NEW n \in Node,
           s.panic = "none" => O[n] > 0
    PROVE  VolOK(vop_open_dec(s, n))
<1> DEFINE w == Checked(s, s.open[n] > 0, "inode")
           t == [w EXCEPT !.open[n] = @ - 1]
           v == Checked(t, t.ref[n] >= t.open[n], "inode")
           r == sfs_fsync(v, n)
<1>1. vop_open_dec(s, n) = IF t.open[n] = 0 /\ n \in Ino THEN r ELSE t
  BY Zenon DEF vop_open_dec
<1>2. s.panic = "none" => s.open[n] > 0
  BY DEF Tallied
<1>3. w = s
  BY <1>2, Zenon DEF Checked
<1> HIDE DEF w
<1>4. DOMAIN s = FsFields
  BY DEF VolOK, Volume, FsShape
<1>5. /\ SameVolume(s, t) /\ t.in_core = s.in_core /\ t.ref = s.ref
      /\ t.open = [s.open EXCEPT ![n] = @ - 1]
  BY <1>3, <1>4 DEF FsFields, SameVolume
<1> HIDE DEF t
<1>6. ASSUME NEW j \in s.dirty, j # n PROVE InUseBy(t, j)
  <2>1. j \in s.in_core /\ (s.panic = "none" => s.open[j] # 0) /\ j \in Node
    BY DEF VolOK, Written, InUseBy, Volume, MapShape, Node, Ino
  <2>2. s.panic = "none" => DOMAIN s.open = Node
    BY DEF Tallied, Counts
  <2>3. s.panic = "none" => t.open[j] = s.open[j]
    BY <1>5, <1>6, <2>1, <2>2
  <2> QED BY <1>5, <2>1, <2>3 DEF InUseBy, SameVolume
<1>7. CASE t.open[n] = 0 /\ n \in Ino
  <2>1. ASSUME t.panic = "none" PROVE t.ref[n] >= t.open[n]
    <3>1. s.ref = R /\ 0 <= O[n] /\ O[n] <= R[n] /\ O[n] \in Int /\ R[n] \in Int
      BY <1>5, <2>1 DEF Tallied, Counts, SameVolume
    <3> QED BY <1>5, <1>7, <3>1
  <2>2. v = t
    BY <2>1, Zenon DEF Checked
  <2>3. Volume(t)
    BY <1>5, VolumeEdited DEF VolOK
  <2>4. OnDisk(t) /\ SuperOnDisk(t)
    BY <1>5 DEF SameVolume, VolOK, Written, OnDisk, SuperOnDisk
  <2>5. \A j \in t.dirty \ {n} : InUseBy(t, j)
    BY <1>5, <1>6 DEF SameVolume
  <2>6. VolOK(sfs_fsync(t, n))
    BY <2>3, <2>4, <2>5, FsyncVolOK
  <2> QED BY <1>1, <1>7, <2>2, <2>6
<1>8. CASE ~ (t.open[n] = 0 /\ n \in Ino)
  <2>1. ASSUME NEW j \in s.dirty PROVE InUseBy(t, j)
    <3>1. CASE j # n
      BY <1>6, <3>1
    <3>2. CASE j = n
      <4>1. j \in Ino /\ j \in s.in_core
        BY DEF VolOK, Written, InUseBy, Volume, MapShape, Ino
      <4> QED BY <1>5, <1>8, <3>2, <4>1 DEF InUseBy
    <3> QED BY <3>1, <3>2
  <2>2. VolOK(t)
    BY <1>5, <2>1, VolEdited
  <2> QED BY <1>1, <1>8, <2>2
<1> QED BY <1>7, <1>8

(* An inode that is not in core is not dirty, and is read from the disk.   *)
LEMMA LoadVolOK ==
    ASSUME NEW s, NEW R, NEW O, Tallied(s, R, O), VolOK(s), NEW i \in Ino
    PROVE  VolOK(sfs_load_inode(s, i))
<1> DEFINE t == lookup_sfs_nolock(s, i)
           u == sfs_create_inode(s, i)
           din == IF i \in File THEN [s.din EXCEPT ![i] = s.disk[i]] ELSE s.din
<1>1. sfs_load_inode(s, i) = IF i \in s.in_core THEN t ELSE u
  BY DEF sfs_load_inode
<1>2. DOMAIN s = FsFields /\ DinShape(s.din) /\ DinShape(s.disk)
  BY DEF VolOK, Volume, FsShape
<1>3. CASE i \in s.in_core
  <2>1. SameVolume(s, t) /\ t.in_core = s.in_core /\ t.open = s.open
    BY <1>2 DEF FsFields, SameVolume, lookup_sfs_nolock
  <2> HIDE DEF t
  <2>2. \A j \in s.dirty : InUseBy(t, j)
    BY <2>1 DEF SameVolume, InUseBy, VolOK, Written
  <2>3. VolOK(t)
    BY <2>1, <2>2, VolEdited
  <2> QED BY <1>1, <1>3, <2>3
<1>4. CASE i \notin s.in_core
  <2>1. /\ DOMAIN u = FsFields /\ u.panic = s.panic /\ u.in_core = s.in_core \cup {i}
        /\ u.open = [s.open EXCEPT ![i] = 0] /\ u.dirty = s.dirty \ {i}
        /\ u.din = din /\ u.disk = s.disk /\ u.ents = s.ents /\ u.free = s.free
        /\ u.unused = s.unused /\ u.super_dirty = s.super_dirty
        /\ u.disk_free = s.disk_free /\ u.disk_unused = s.disk_unused
    BY <1>2 DEF FsFields, sfs_create_inode
  <2> HIDE DEF u
  <2>2. i \notin s.dirty
    BY <1>4 DEF VolOK, Written, InUseBy
  <2>3. DinShape(din)
    BY <1>2, DinFields
  <2>4. ASSUME NEW j \in File
        PROVE  /\ din[j] = IF j = i THEN s.disk[j] ELSE s.din[j]
               /\ din[j].size = s.din[j].size /\ din[j].direct = s.din[j].direct
               /\ din[j].indirect = s.din[j].indirect
               /\ din[j].blocks \in 0 .. s.din[j].blocks
    <3>1. din[j] = IF j = i THEN s.disk[j] ELSE s.din[j]
      BY <1>2 DEF DinShape
    <3>2. s.din[j].blocks \in Nat
      BY SfsAssumption DEF VolOK, Volume, Filled
    <3> HIDE DEF din
    <3>3. CASE j = i
      BY <2>2, <3>1, <3>3 DEF VolOK, Written, OnDisk
    <3>4. CASE j # i
      BY <3>1, <3>2, <3>4
    <3> QED BY <3>1, <3>3, <3>4
  <2> HIDE DEF din
  <2>5. \A j \in File : \A k : PointerAt(u, j, k) = PointerAt(s, j, k)
    BY <2>1, <2>4 DEF PointerAt
  <2>6. Volume(u)
    <3>1. FsShape(u)
      BY <1>2, <2>1, <2>3 DEF FsShape
    <3>2. MapShape(u)
      BY <2>1, <2>4 DEF VolOK, Volume, MapShape
    <3>3. Filled(u)
      <4>1. \A j \in File : s.din[j].blocks \in Nat
        BY SfsAssumption DEF VolOK, Volume, Filled
      <4>2. \A j \in File : /\ u.din[j].blocks \in 0 .. s.din[j].blocks
                           /\ s.din[j].blocks \in 0 .. SFS_NDIRECT + SFS_BLK_NENTRY
        BY <2>1, <2>4 DEF VolOK, Volume, Filled
      <4>3. \A j \in File : \A k \in 0 .. s.din[j].blocks - 1 : PointerAt(u, j, k) # NoBlock
        BY <2>5 DEF VolOK, Volume, Filled
      <4>4. SFS_NDIRECT + SFS_BLK_NENTRY \in Nat
        BY SfsAssumption
      <4> QED BY <4>1, <4>2, <4>3, <4>4 DEF Filled
    <3>4. Owned(u, u.free)
      BY <2>1, <2>5 DEF VolOK, Volume, Owned
    <3> QED BY <2>1, <3>1, <3>2, <3>3, <3>4 DEF VolOK, Volume
  <2>7. OnDisk(u)
    <3> SUFFICES ASSUME NEW j \in File, j \notin u.dirty
                 PROVE  /\ u.disk[j].size = u.din[j].size
                        /\ u.disk[j].direct = u.din[j].direct
                        /\ u.disk[j].indirect = u.din[j].indirect
                        /\ u.disk[j].blocks \in 0 .. u.din[j].blocks
      BY DEF OnDisk
    <3>1. CASE j = i
      <4>1. u.disk[j] = u.din[j] /\ u.din[j].blocks \in Nat
        <5>1. s.din[j].blocks \in Nat
          BY SfsAssumption DEF VolOK, Volume, Filled
        <5> QED BY <2>1, <2>4, <3>1, <5>1
      <4> QED BY <4>1
    <3>2. CASE j # i
      <4>1. j \notin s.dirty /\ u.din[j] = s.din[j] /\ u.disk[j] = s.disk[j]
        BY <2>1, <2>4, <3>2
      <4> QED BY <4>1 DEF VolOK, Written, OnDisk
    <3> QED BY <3>1, <3>2
  <2>8. ASSUME NEW j \in u.dirty PROVE InUseBy(u, j)
    <3>1. j \in s.dirty /\ j # i
      BY <2>1, <2>8
    <3>2. j \in s.in_core /\ (s.panic = "none" => s.open[j] # 0) /\ j \in Node
      BY <3>1 DEF VolOK, Written, InUseBy, Volume, MapShape, Node, Ino
    <3>3. s.panic = "none" => DOMAIN s.open = Node
      BY DEF Tallied, Counts
    <3>4. s.panic = "none" => u.open[j] = s.open[j]
      BY <2>1, <3>1, <3>2, <3>3
    <3> QED BY <2>1, <3>2, <3>4 DEF InUseBy
  <2>9. VolOK(u)
    <3>1. SuperOnDisk(u)
      BY <2>1 DEF VolOK, Written, SuperOnDisk
    <3> QED BY <2>6, <2>7, <2>8, <3>1 DEF VolOK, Written
  <2> QED BY <1>1, <1>4, <2>9
<1> QED BY <1>3, <1>4

(* What every step keeps: the counts of the inodes and the volume.         *)
Held(s, R, O) == Tallied(s, R, O) /\ VolOK(s)

LEMMA KeptHeld ==
    ASSUME NEW s, NEW t, NEW R, NEW O, Held(s, R, O), CountsKept(s, t), VolOK(t)
    PROVE  Held(t, R, O)
BY KeptTally DEF Held

LEMMA RefInc ==
    ASSUME NEW s, NEW R, NEW O, Held(s, R, O), NEW n \in Node, n \in Dev \/ R[n] > 0
    PROVE  Held(vop_ref_inc(s, n), OneMore(R, n), O)
BY RefIncTally, RefIncVolOK DEF Held

LEMMA OpenInc ==
    ASSUME NEW s, NEW R, NEW O, Held(s, R, O), NEW n \in Node, O[n] + 1 <= R[n]
    PROVE  Held(vop_open_inc(s, n), R, OneMore(O, n))
BY OpenIncTally, OpenIncVolOK DEF Held

LEMMA Stopped ==
    ASSUME NEW s, VolOK(s), s.panic # "none", NEW R \in Counts, NEW O \in Counts,
           \A n \in Node : O[n] <= R[n]
    PROVE  Held(s, R, O)
BY StoppedTally DEF Held, VolOK, Volume

LEMMA RefDec ==
    ASSUME NEW s, NEW R, NEW O, Held(s, R, O), NEW n \in Node, O[n] < R[n]
    PROVE  Held(vop_ref_dec(s, n), OneLess(R, n), O)
BY RefDecTally, RefDecVolOK DEF Held

LEMMA OpenDec ==
    ASSUME NEW s, NEW R, NEW O, Held(s, R, O), NEW n \in Node, s.panic = "none" => O[n] > 0
    PROVE  Held(vop_open_dec(s, n), R, OneLess(O, n))
BY OpenDecTally, OpenDecVolOK DEF Held

LEMMA Close ==
    ASSUME NEW s, NEW R, NEW O, Held(s, R, O), NEW n \in Node, s.panic = "none" => O[n] > 0
    PROVE  Held(vfs_close(s, n), OneLess(R, n), OneLess(O, n))
<1>1. \A m \in Node : OneLess(O, n)[m] = (IF m = n THEN O[m] - 1 ELSE O[m]) /\ O[m] \in Int
  BY OneApart DEF Held, Tallied
<1>2. O[n] <= R[n] /\ R[n] \in Int
  BY DEF Held, Tallied, Counts
<1>3. OneLess(O, n)[n] < R[n]
  BY <1>1, <1>2
<1> QED BY <1>3, OpenDec, RefDec DEF vfs_close

LEMMA Load ==
    ASSUME NEW s, NEW R, NEW O, Held(s, R, O), NEW i \in Ino
    PROVE  Held(sfs_load_inode(s, i), OneMore(R, i), O)
BY LoadTally, LoadVolOK DEF Held

-----------------------------------------------------------------------------
(* Lookup and open: what the caller holds afterwards.  The current         *)
(* directory and the root are referenced to begin with.                    *)
Rooted(R, pwd) ==
    /\ R[Root] > 0
    /\ pwd \in Dir \cup {NoNode}
    /\ pwd # NoNode => R[pwd] > 0

Found(r, R, O) ==
    IF r.ret = "ok" THEN /\ r.node \in Node /\ Held(r.s, OneMore(R, r.node), O)
                         /\ r.node \in File => r.node \in r.s.in_core
    ELSE r.ret \in {"E_NOENT", "E_NO_DEV"} /\ Held(r.s, R, O)

LEMMA HeldMore ==
    ASSUME NEW s, NEW R, NEW O, Held(s, R, O), NEW n \in Node
    PROVE  /\ R \in Counts /\ O \in Counts
           /\ \A m \in Node : /\ R[m] <= OneMore(R, n)[m] /\ O[m] <= R[m]
                              /\ R[m] \in Int /\ O[m] \in Int /\ OneMore(R, n)[m] \in Int
           /\ O[n] < OneMore(R, n)[n] /\ O[n] + 1 <= OneMore(R, n)[n]
<1>1. R \in Counts /\ O \in Counts /\ \A m \in Node : R[m] \in Int /\ O[m] \in Int /\ O[m] <= R[m]
  BY DEF Held, Tallied, Counts
<1>2. \A m \in Node : OneMore(R, n)[m] = IF m = n THEN R[m] + 1 ELSE R[m]
  BY <1>1, OneApart
<1> QED BY <1>1, <1>2

(* An inode stays in core when another one is given back.                  *)
LEMMA OthersStay ==
    ASSUME NEW s, FsShape(s), NEW n, NEW i \in s.in_core, i # n
    PROVE  i \in vop_ref_dec(s, n).in_core
<1> DEFINE w == Checked(s, s.ref[n] > 0, "inode")
           t == [w EXCEPT !.ref[n] = @ - 1]
           r == sfs_reclaim(t, n)
           v == Checked(t, FALSE, "vop")
<1>1. vop_ref_dec(s, n) = IF t.ref[n] # 0 THEN t ELSE IF n \in Ino THEN r ELSE v
  BY Zenon DEF vop_ref_dec
<1>2. CountsKept(s, w)
  BY CheckedKeeps
<1> HIDE DEF w
<1>3. /\ DOMAIN t = FsFields /\ t.in_core = w.in_core /\ t.din = w.din /\ t.disk = w.disk
  BY <1>2 DEF FsFields, FsShape, CountsKept
<1> HIDE DEF t
<1>4. FsShape(t) /\ i \in t.in_core
  BY <1>2, <1>3 DEF FsShape, CountsKept
<1>5. t.in_core \ {n} \subseteq r.in_core
  BY <1>4, ReclaimShape
<1>6. v.in_core = t.in_core
  BY <1>4, CheckedKeeps DEF CountsKept
<1> HIDE DEF r, v
<1> QED BY <1>1, <1>4, <1>5, <1>6

LEMMA GetDevice ==
    ASSUME NEW s, NEW R, NEW O, Held(s, R, O), NEW pwd, Rooted(R, pwd), NEW start
    PROVE  Found(get_device(s, pwd, start), R, O)
<1> DEFINE cwd == [ret |-> "ok", s |-> vop_ref_inc(s, pwd), node |-> pwd]
           top == [ret |-> "ok", node |-> Root,
                   s |-> vop_ref_dec(sfs_load_inode(vop_ref_inc(s, pwd), Root), pwd)]
           dev == [ret |-> "ok", s |-> vop_ref_inc(s, start), node |-> start]
           boot == [ret |-> "ok", s |-> vop_ref_inc(s, Root), node |-> Root]
           disk == [ret |-> "ok", s |-> sfs_load_inode(s, Root), node |-> Root]
           r == get_device(s, pwd, start)
<1>1. Root \in Ino /\ Root \in Node /\ R[Root] > 0 /\ Root \notin File
  BY SfsAssumption DEF Ino, Node, Rooted
<1>2. pwd # NoNode => pwd \in Node /\ R[pwd] > 0 /\ pwd \notin File
  BY SfsAssumption DEF Rooted, Ino, Node
<1>3. ASSUME pwd # NoNode PROVE Found(cwd, R, O)
  BY <1>2, <1>3, RefInc DEF Found
<1>4. ASSUME pwd # NoNode PROVE Found(top, R, O)
  <2> DEFINE C == OneMore(R, pwd)  D == OneMore(C, Root)
  <2>1. Held(vop_ref_inc(s, pwd), C, O)
    BY <1>2, <1>4, RefInc
  <2>2. R \in Counts /\ C \in Counts
    BY <1>2, <1>4, OneApart DEF Held, Tallied
  <2>3. Held(sfs_load_inode(vop_ref_inc(s, pwd), Root), D, O)
    BY <1>1, <2>1, Load
  <2>4. O[pwd] < D[pwd]
    <3>1. O[pwd] < C[pwd]
      BY <1>2, <1>4, HeldMore
    <3> HIDE DEF C
    <3>2. C[pwd] <= D[pwd] /\ C[pwd] \in Int /\ D[pwd] \in Int /\ O[pwd] \in Int
      BY <1>1, <1>2, <1>4, <2>1, HeldMore
    <3> QED BY <3>1, <3>2
  <2>5. OneLess(D, pwd) = OneMore(R, Root)
    BY <1>1, <1>2, <1>4, <2>2, MoreLess
  <2> HIDE DEF D
  <2>6. Held(top.s, OneMore(R, Root), O)
    <3>1. Held(vop_ref_dec(sfs_load_inode(vop_ref_inc(s, pwd), Root), pwd), OneLess(D, pwd), O)
      BY <1>2, <1>4, <2>3, <2>4, RefDec
    <3> QED BY <2>5, <3>1
  <2> QED BY <1>1, <2>6 DEF Found
<1>5. ASSUME start \in Dev PROVE Found(dev, R, O)
  <2>1. start \in Node /\ start \notin File
    BY <1>5, SfsAssumption DEF Node, Ino
  <2> QED BY <1>5, <2>1, RefInc DEF Found
<1>6. Found(boot, R, O) /\ Found(disk, R, O)
  BY <1>1, RefInc, Load DEF Found
<1>7. Found(Fail(s, "E_NOENT"), R, O) /\ Found(Fail(s, "E_NO_DEV"), R, O)
  BY DEF Found, Fail
<1>8. \/ r = cwd /\ pwd # NoNode
      \/ r = top /\ pwd # NoNode
      \/ r = dev /\ start \in Dev
      \/ r \in {boot, disk, Fail(s, "E_NOENT"), Fail(s, "E_NO_DEV")}
  BY DEF get_device
<1> HIDE DEF r, cwd, top, dev, boot, disk
<1>9. Found(r, R, O)
  BY <1>3, <1>4, <1>5, <1>6, <1>7, <1>8
<1> QED BY <1>9 DEF r

LEMMA LookupOne ==
    ASSUME NEW s, NEW R, NEW O, Held(s, R, O), NEW n, NEW name
    PROVE  Found(vop_lookup(s, n, name), R, O)
<1>1. CASE n \in Dir /\ name \in DOMAIN DirEntry[n]
  <2>1. DirEntry[n][name] \in Ino /\ DirEntry[n][name] \in Node
    BY <1>1, SfsAssumption DEF Node
  <2>2. vop_lookup(s, n, name) = [ret |-> "ok", s |-> sfs_load_inode(s, DirEntry[n][name]),
                                  node |-> DirEntry[n][name]]
    BY <1>1 DEF vop_lookup
  <2>3. DirEntry[n][name] \in sfs_load_inode(s, DirEntry[n][name]).in_core
    <3> DEFINE i == DirEntry[n][name]
    <3>1. DOMAIN s = FsFields
      BY DEF Held, Tallied, FsShape
    <3> HIDE DEF i
    <3>2. i \in sfs_load_inode(s, i).in_core
      BY <3>1 DEF FsFields, sfs_load_inode, lookup_sfs_nolock, sfs_create_inode
    <3> QED BY <3>2 DEF i
  <2> QED BY <2>1, <2>2, <2>3, Load DEF Found
<1>2. CASE ~ (n \in Dir /\ name \in DOMAIN DirEntry[n])
  <2> DEFINE t == Checked(s, n \notin File, "vop")
  <2>1. CountsKept(s, t) /\ VolOK(t)
    BY CheckedKeeps, CheckedVolOK DEF Held, Tallied
  <2>2. Held(t, R, O)
    BY <2>1, KeptHeld
  <2>3. vop_lookup(s, n, name) = [ret |-> "E_NOENT", s |-> t]
    BY <1>2, Zenon DEF vop_lookup, Fail
  <2> HIDE DEF t
  <2> QED BY <2>2, <2>3 DEF Found
<1> QED BY <1>1, <1>2

LEMMA Lookup ==
    ASSUME NEW s, NEW R, NEW O, Held(s, R, O), NEW pwd, Rooted(R, pwd), NEW path
    PROVE  Found(vfs_lookup(s, pwd, path), R, O)
<1> DEFINE start == get_device(s, pwd, path.start)
           n == start.node
           one == vop_lookup(start.s, n, path.name)
           r == [one EXCEPT !.s = vop_ref_dec(@, n)]
<1>1. Found(start, R, O)
  BY GetDevice
<1>2. vfs_lookup(s, pwd, path) = IF start.ret = "ok" THEN IF path.name = "" THEN start ELSE r ELSE start
  BY Zenon DEF vfs_lookup, Then
<1> HIDE DEF start
<1>3. ASSUME start.ret = "ok" PROVE Found(r, R, O)
  <2> DEFINE C == OneMore(R, n)
  <2>1. n \in Node /\ Held(start.s, C, O)
    BY <1>1, <1>3 DEF Found
  <2>2. Found(one, C, O)
    BY <2>1, LookupOne
  <2>3. r.ret = one.ret /\ r.s = vop_ref_dec(one.s, n) /\ (one.ret = "ok" => r.node = one.node)
    <3>1. one = (IF n \in Dir /\ path.name \in DOMAIN DirEntry[n]
                 THEN [ret |-> "ok", s |-> sfs_load_inode(start.s, DirEntry[n][path.name]),
                       node |-> DirEntry[n][path.name]]
                 ELSE [ret |-> "E_NOENT", s |-> Checked(start.s, n \notin File, "vop")])
      BY Zenon DEF vop_lookup, Fail
    <3> QED BY <3>1
  <2>4. O[n] < C[n] /\ R \in Counts /\ C \in Counts
    BY <2>1, HeldMore, OneApart DEF Held, Tallied, Found
  <2> HIDE DEF r, one
  <2>5. CASE one.ret = "ok"
    <3>1. one.node \in Node /\ Held(one.s, OneMore(C, one.node), O)
      BY <2>2, <2>5 DEF Found
    <3>2. OneLess(OneMore(C, one.node), n) = OneMore(R, one.node)
      BY <2>1, <2>4, <3>1, MoreLess
    <3>3. O[n] < OneMore(C, one.node)[n]
      <4>1. C[n] <= OneMore(C, one.node)[n] /\ C[n] \in Int /\ OneMore(C, one.node)[n] \in Int /\ O[n] \in Int
        BY <2>1, <3>1, HeldMore
      <4> QED BY <2>4, <4>1
    <3>4. Held(vop_ref_dec(one.s, n), OneLess(OneMore(C, one.node), n), O)
      BY <2>1, <3>1, <3>3, RefDec
    <3>5. ASSUME one.node \in File PROVE one.node \in vop_ref_dec(one.s, n).in_core
      <4>1. n \in Dir
        <5>1. one = (IF n \in Dir /\ path.name \in DOMAIN DirEntry[n]
                     THEN [ret |-> "ok", s |-> sfs_load_inode(start.s, DirEntry[n][path.name]),
                           node |-> DirEntry[n][path.name]]
                     ELSE [ret |-> "E_NOENT", s |-> Checked(start.s, n \notin File, "vop")])
          BY Zenon DEF one, vop_lookup, Fail
        <5>2. one.ret # "ok" \/ n \in Dir
          BY <5>1
        <5> QED BY <2>5, <5>2
      <4>2. one.node # n
        BY <3>5, <4>1, SfsAssumption
      <4>3. one.node \in one.s.in_core /\ FsShape(one.s)
        BY <2>2, <2>5, <3>5 DEF Found, Held, Tallied
      <4> QED BY <4>2, <4>3, OthersStay
    <3> QED BY <2>3, <2>5, <3>1, <3>2, <3>4, <3>5 DEF Found
  <2>6. CASE one.ret # "ok"
    <3>1. one.ret \in {"E_NOENT", "E_NO_DEV"} /\ Held(one.s, C, O)
      BY <2>2, <2>6 DEF Found
    <3>2. Held(vop_ref_dec(one.s, n), OneLess(C, n), O) /\ OneLess(C, n) = R
      BY <2>1, <2>4, <3>1, RefDec, MoreLess
    <3> QED BY <2>3, <2>6, <3>1, <3>2 DEF Found
  <2> QED BY <2>5, <2>6
<1> HIDE DEF r
<1> QED BY <1>1, <1>2, <1>3

(* What vfs_open hands back: a reference and an open more, nothing more,   *)
(* or, with E_EXISTS, the reference of the lookup.                         *)
OpenResult(r, R, O, flags, found) ==
    CASE r.ret = "ok" -> /\ r.node \in Node /\ Accepts(r.node, flags)
                         /\ Held(r.s, OneMore(R, r.node), OneMore(O, r.node))
      [] r.ret = "E_EXISTS" -> /\ flags.creat /\ flags.excl
                               /\ found.ret = "ok" /\ found.node \in Node
                               /\ Held(r.s, OneMore(R, found.node), O)
      [] OTHER -> Held(r.s, R, O)

LEMMA OpenInode ==
    ASSUME NEW s, NEW R, NEW O, NEW n \in Node, R \in Counts, Held(s, OneMore(R, n), O),
           \A m \in Node : O[m] <= R[m], n \in File => n \in s.in_core, NEW flags, NEW found
    PROVE  OpenResult(Opened(s, n, flags), R, O, flags, found)
<1> DEFINE C == OneMore(R, n)
           D == OneMore(O, n)
           t == vop_open_inc(s, n)
           q == sfs_truncfile(t, n, 0)
           trunc == IF q.ret = "ok" THEN [ret |-> "ok", s |-> q.s, node |-> n]
                    ELSE Fail(vfs_close(q.s, n), q.ret)
           r == Opened(s, n, flags)
           Good(x) == OpenResult(x, R, O, flags, found)
<1>1. O \in Counts /\ C \in Counts /\ D \in Counts
  BY OneApart DEF Held, Tallied
<1>2. O[n] + 1 <= C[n] /\ O[n] < C[n]
  <2>1. C[n] = R[n] + 1 /\ R[n] \in Int /\ O[n] \in Int /\ O[n] <= R[n]
    BY <1>1, OneApart
  <2> QED BY <2>1
<1>3. OneLess(C, n) = R /\ OneLess(D, n) = O
  BY <1>1, MoreLess
<1>4. Held(t, C, D)
  BY <1>2, OpenInc
<1>12. t.panic = "none" => D[n] > 0
  <2>1. DOMAIN s = FsFields /\ (s.panic = "none" => 0 <= O[n])
    BY DEF Held, Tallied, FsShape
  <2>2. t.panic = s.panic
    BY <2>1 DEF FsFields, vop_open_inc
  <2>3. D[n] = O[n] + 1 /\ O[n] \in Int
    BY <1>1, OneApart
  <2> QED BY <2>1, <2>2, <2>3
<1>13. ASSUME n \in File PROVE InUseBy(t, n)
  <2>1. DOMAIN s = FsFields
    BY DEF Held, Tallied, FsShape
  <2>2. t.in_core = s.in_core
    BY <2>1 DEF FsFields, vop_open_inc
  <2>3. t.panic = "none" => t.open = D
    BY <1>4 DEF Held, Tallied
  <2> HIDE DEF D, t
  <2> QED BY <1>12, <1>13, <2>2, <2>3 DEF InUseBy
<1> HIDE DEF C, D, t
<1>5. FsShape(t) /\ VolOK(t)
  BY <1>4 DEF Held, Tallied
<1>6. Good(Fail(vop_ref_dec(s, n), "E_INVAL"))
  <2>1. Held(vop_ref_dec(s, n), R, O)
    BY <1>2, <1>3, RefDec DEF C
  <2> QED BY <2>1 DEF OpenResult, Fail
<1>7. ASSUME Accepts(n, flags)
      PROVE  Good([ret |-> "ok", s |-> t, node |-> n])
  BY <1>4, <1>7 DEF OpenResult, C, D
<1>8. Good(Fail(Checked(t, FALSE, "vop"), "E_INVAL"))
  <2>1. VolOK(Checked(t, FALSE, "vop")) /\ Checked(t, FALSE, "vop").panic # "none"
    BY <1>5, CheckedKeeps, CheckedVolOK DEF CountsKept
  <2>2. Held(Checked(t, FALSE, "vop"), R, O)
    BY <1>1, <2>1, Stopped
  <2> QED BY <2>2 DEF OpenResult, Fail
<1>9. ASSUME Accepts(n, flags), n \in File
      PROVE  Good(trunc)
  <2>1. CountsKept(t, q.s) /\ q.ret \in {"ok", "E_INVAL", "E_NO_MEM"}
    BY <1>5, <1>9, TruncfileKeeps
  <2>6. VolOK(q.s)
    BY <1>5, <1>9, <1>13, TruncfileVolOK
  <2>2. Held(q.s, C, D)
    BY <1>4, <2>1, <2>6, KeptHeld
  <2> HIDE DEF q
  <2>3. Held(vfs_close(q.s, n), R, O)
    <3>1. q.s.panic = "none" => D[n] > 0
      BY <1>12, <2>1 DEF CountsKept
    <3> QED BY <1>3, <2>2, <3>1, Close
  <2>4. CASE q.ret = "ok"
    BY <1>9, <2>2, <2>4 DEF OpenResult, C, D
  <2>5. CASE q.ret # "ok"
    BY <2>1, <2>3, <2>5 DEF OpenResult, Fail
  <2> QED BY <2>4, <2>5
<1>10. r = IF ~Accepts(n, flags) THEN Fail(vop_ref_dec(s, n), "E_INVAL")
           ELSE IF ~(flags.trunc \/ flags.creat) THEN [ret |-> "ok", s |-> t, node |-> n]
           ELSE IF n \notin File THEN Fail(Checked(t, FALSE, "vop"), "E_INVAL")
           ELSE trunc
  BY Zenon DEF Opened, Truncated, t
<1> HIDE DEF r, trunc, Good
<1>11. Good(r)
  BY <1>6, <1>7, <1>8, <1>9, <1>10, Zenon
<1> QED BY <1>11 DEF Good, r

LEMMA Open ==
    ASSUME NEW s, NEW R, NEW O, Held(s, R, O), NEW pwd, Rooted(R, pwd), NEW path, NEW flags
    PROVE  OpenResult(vfs_open(s, pwd, path, flags), R, O, flags, vfs_lookup(s, pwd, path))
<1> DEFINE found == vfs_lookup(s, pwd, path)
           parent == get_device(found.s, pwd, path.start)
           none == Fail(Checked(parent.s, FALSE, "vop"), "E_NOENT")
           Good(x) == OpenResult(x, R, O, flags, found)
           r == OpenFound(found, pwd, path, flags)
<1>1. Found(found, R, O)
  BY Lookup
<1> HIDE DEF found
<1>2. Good(Fail(s, "E_INVAL"))
  BY DEF OpenResult, Fail
<1>3. R \in Counts /\ \A m \in Node : O[m] <= R[m]
  BY DEF Held, Tallied
<1>4. CASE found.ret = "E_NOENT" /\ flags.creat
  <2>1. Held(found.s, R, O)
    BY <1>1, <1>4 DEF Found
  <2>2. Found(parent, R, O)
    BY <2>1, GetDevice
  <2> HIDE DEF parent
  <2>3. ASSUME parent.ret = "ok" PROVE Good(none)
    <3>1. Held(parent.s, OneMore(R, parent.node), O)
      BY <2>2, <2>3 DEF Found
    <3>2. VolOK(Checked(parent.s, FALSE, "vop")) /\ Checked(parent.s, FALSE, "vop").panic # "none"
      <4>1. FsShape(parent.s) /\ VolOK(parent.s) /\ "vop" # "none"
        BY <3>1 DEF Held, Tallied
      <4>2. Checked(parent.s, FALSE, "vop").panic = "none" => FALSE
        BY <4>1, CheckedKeeps
      <4> QED BY <4>1, <4>2, CheckedVolOK
    <3>3. Held(Checked(parent.s, FALSE, "vop"), R, O)
      BY <1>3, <2>1, <3>2, Stopped DEF Held, Tallied
    <3> QED BY <3>3 DEF OpenResult, Fail
  <2>4. ASSUME parent.ret # "ok" PROVE Good(parent)
    BY <2>2, <2>4 DEF OpenResult, Found
  <2>5. r = IF parent.ret = "ok" THEN none ELSE parent
    BY <1>4, Zenon DEF OpenFound, Then, parent
  <2> HIDE DEF none, Good, r
  <2>6. Good(r)
    BY <2>3, <2>4, <2>5
  <2> QED BY <1>2, <2>6 DEF vfs_open, Good, r, found
<1>5. CASE ~ (found.ret = "E_NOENT" /\ flags.creat)
  <2>1. ASSUME found.ret = "ok"
        PROVE  Good(Fail(found.s, "E_EXISTS")) \/ ~ (flags.creat /\ flags.excl)
    BY <1>1, <2>1 DEF OpenResult, Found, Fail
  <2>2. ASSUME found.ret = "ok" PROVE Good(Opened(found.s, found.node, flags))
    <3>1. /\ found.node \in Node /\ Held(found.s, OneMore(R, found.node), O)
          /\ found.node \in File => found.node \in found.s.in_core
      BY <1>1, <2>2 DEF Found
    <3> QED BY <1>3, <3>1, OpenInode
  <2>3. ASSUME found.ret # "ok" PROVE Good(found)
    BY <1>1, <2>3 DEF OpenResult, Found
  <2>4. r = IF found.ret = "ok"
            THEN IF flags.creat /\ flags.excl THEN Fail(found.s, "E_EXISTS")
                 ELSE Opened(found.s, found.node, flags)
            ELSE found
    BY <1>5, Zenon DEF OpenFound, Then
  <2> HIDE DEF Good, r
  <2>5. Good(r)
    BY <2>1, <2>2, <2>3, <2>4
  <2> QED BY <1>2, <2>5 DEF vfs_open, Good, r, found
<1> QED BY <1>4, <1>5
-----------------------------------------------------------------------------
(* The holders of every inode, counted in the tables T: the descriptors on *)
(* it, the tables whose directory it is, and P, what else holds it.        *)
Opens(T) == [n \in Node |-> Cardinality(Descriptors(T, n))]
Refs(T, P) == [n \in Node |-> Cardinality(Descriptors(T, n)) + Cardinality(CurDirs(T, n)) + P[n]]
Uses(file, n) == file.status # "FD_NONE" /\ file.node = n
With(T, t, f) == [T EXCEPT ![t].fd_array = f]

LEMMA HoldersFinite ==
    ASSUME NEW T, NEW P \in [Node -> Nat]
    PROVE  /\ Opens(T) \in Counts /\ Refs(T, P) \in Counts
           /\ \A n \in Node : /\ IsFiniteSet(Descriptors(T, n)) /\ IsFiniteSet(CurDirs(T, n))
                              /\ Cardinality(Descriptors(T, n)) \in Nat
                              /\ Cardinality(CurDirs(T, n)) \in Nat
                              /\ Opens(T)[n] = Cardinality(Descriptors(T, n))
                              /\ Refs(T, P)[n] = Opens(T)[n] + Cardinality(CurDirs(T, n)) + P[n]
                              /\ Opens(T)[n] <= Refs(T, P)[n]
<1>1. IsFiniteSet(Table \X Fd)
  <2>1. IsFiniteSet(Fd)
    BY FilesAssumption, FS_Interval DEF Fd
  <2> QED BY <2>1, FilesAssumption, FS_Product
<1>2. ASSUME NEW n \in Node
      PROVE  /\ IsFiniteSet(Descriptors(T, n)) /\ IsFiniteSet(CurDirs(T, n))
             /\ Cardinality(Descriptors(T, n)) \in Nat /\ Cardinality(CurDirs(T, n)) \in Nat
  <2>1. Descriptors(T, n) \subseteq Table \X Fd /\ CurDirs(T, n) \subseteq Table
    BY DEF Descriptors, CurDirs
  <2>2. IsFiniteSet(Descriptors(T, n)) /\ IsFiniteSet(CurDirs(T, n))
    BY <1>1, <2>1, FilesAssumption, FS_Subset
  <2> QED BY <2>2, FS_CardinalityType
<1> QED BY <1>2 DEF Opens, Refs, Counts

(* One descriptor <<t, d>> is all that tells U from T. *)
ApartAt(T, U, t, d) ==
    /\ \A u \in Table : U[u].pwd = T[u].pwd
    /\ \A u \in Table, e \in Fd :
        <<u, e>> # <<t, d>> => \A n \in Node : Uses(U[u].fd_array[e], n) <=> Uses(T[u].fd_array[e], n)

HoldersApart(T, U, t, d, n) ==
    /\ CurDirs(U, n) = CurDirs(T, n)
    /\ <<t, d>> \in Descriptors(T, n) <=> Uses(T[t].fd_array[d], n)
    /\ Uses(U[t].fd_array[d], n) => Descriptors(U, n) = Descriptors(T, n) \cup {<<t, d>>}
    /\ ~ Uses(U[t].fd_array[d], n) => Descriptors(U, n) = Descriptors(T, n) \ {<<t, d>>}

LEMMA Apart ==
    ASSUME NEW T, NEW U, NEW t \in Table, NEW d \in Fd, ApartAt(T, U, t, d), NEW n \in Node
    PROVE  HoldersApart(T, U, t, d, n)
<1> DEFINE x == <<t, d>>
<1>1. CurDirs(U, n) = CurDirs(T, n)
  BY DEF CurDirs, ApartAt
<1>2. x \in Table \X Fd /\ x[1] = t /\ x[2] = d
  OBVIOUS
<1>3. \A h \in Table \X Fd : h # x => (h \in Descriptors(U, n) <=> h \in Descriptors(T, n))
  <2> TAKE h \in Table \X Fd
  <2> HAVE h # x
  <2>1. h[1] \in Table /\ h[2] \in Fd /\ <<h[1], h[2]>> # x
    OBVIOUS
  <2>2. Uses(U[h[1]].fd_array[h[2]], n) <=> Uses(T[h[1]].fd_array[h[2]], n)
    BY <2>1 DEF ApartAt
  <2> QED BY <2>2 DEF Descriptors, Uses
<1>4. /\ x \in Descriptors(T, n) <=> Uses(T[t].fd_array[d], n)
      /\ x \in Descriptors(U, n) <=> Uses(U[t].fd_array[d], n)
  BY <1>2 DEF Descriptors, Uses
<1>5. Descriptors(T, n) \subseteq Table \X Fd /\ Descriptors(U, n) \subseteq Table \X Fd
  BY DEF Descriptors
<1> HIDE DEF x
<1> QED BY <1>1, <1>3, <1>4, <1>5 DEF x, HoldersApart

LEMMA SlotTaken ==
    ASSUME NEW T, NEW U, NEW P \in [Node -> Nat], NEW t \in Table, NEW d \in Fd, NEW a \in Node,
           ApartAt(T, U, t, d), T[t].fd_array[d].status = "FD_NONE", Uses(U[t].fd_array[d], a)
    PROVE  Opens(U) = OneMore(Opens(T), a) /\ Refs(U, P) = OneMore(Refs(T, P), a)
<1>1. /\ Opens(T) \in Counts /\ Refs(T, P) \in Counts
      /\ Opens(U) \in Counts /\ Refs(U, P) \in Counts
  BY HoldersFinite
<1>2. ASSUME NEW n \in Node
      PROVE  Opens(U)[n] = OneMore(Opens(T), a)[n] /\ Refs(U, P)[n] = OneMore(Refs(T, P), a)[n]
  <2>0. HoldersApart(T, U, t, d, n)
    BY Apart
  <2>1. ~ Uses(T[t].fd_array[d], n)
    BY DEF Uses
  <2>2. CurDirs(U, n) = CurDirs(T, n) /\ <<t, d>> \notin Descriptors(T, n)
    BY <2>0, <2>1, Zenon DEF HoldersApart
  <2>3. /\ Opens(T)[n] = Cardinality(Descriptors(T, n)) /\ IsFiniteSet(Descriptors(T, n))
        /\ Opens(U)[n] = Cardinality(Descriptors(U, n))
        /\ Cardinality(Descriptors(T, n)) \in Nat /\ Cardinality(CurDirs(T, n)) \in Nat
        /\ Refs(T, P)[n] = Opens(T)[n] + Cardinality(CurDirs(T, n)) + P[n]
        /\ Refs(U, P)[n] = Opens(U)[n] + Cardinality(CurDirs(U, n)) + P[n]
        /\ P[n] \in Nat
    BY HoldersFinite
  <2>4. /\ OneMore(Opens(T), a)[n] = IF n = a THEN Opens(T)[n] + 1 ELSE Opens(T)[n]
        /\ OneMore(Refs(T, P), a)[n] = IF n = a THEN Refs(T, P)[n] + 1 ELSE Refs(T, P)[n]
    BY <1>1, OneApart
  <2>5. CASE n = a
    <3>1. Uses(U[t].fd_array[d], n)
      BY <2>5
    <3>2. Descriptors(U, n) = Descriptors(T, n) \cup {<<t, d>>}
      BY <2>0, <3>1, Zenon DEF HoldersApart
    <3>3. Cardinality(Descriptors(U, n)) = Cardinality(Descriptors(T, n)) + 1
      BY <2>2, <2>3, <3>2, FS_AddElement
    <3> QED BY <2>2, <2>3, <2>4, <2>5, <3>3
  <2>6. CASE n # a
    <3>1. ~ Uses(U[t].fd_array[d], n)
      BY <2>6 DEF Uses
    <3>2. Descriptors(U, n) = Descriptors(T, n) \ {<<t, d>>}
      BY <2>0, <3>1, Zenon DEF HoldersApart
    <3>3. Descriptors(U, n) = Descriptors(T, n)
      BY <2>2, <3>2
    <3> QED BY <2>2, <2>3, <2>4, <2>6, <3>3
  <2> QED BY <2>5, <2>6
<1>3. OneMore(Opens(T), a) \in Counts /\ OneMore(Refs(T, P), a) \in Counts
  BY <1>1, OneApart
<1> QED BY <1>1, <1>2, <1>3, SameCounts

LEMMA SlotGiven ==
    ASSUME NEW T, NEW U, NEW P \in [Node -> Nat], NEW t \in Table, NEW d \in Fd, NEW a \in Node,
           ApartAt(T, U, t, d), Uses(T[t].fd_array[d], a), U[t].fd_array[d].status = "FD_NONE"
    PROVE  Opens(U) = OneLess(Opens(T), a) /\ Refs(U, P) = OneLess(Refs(T, P), a)
<1>1. ApartAt(U, T, t, d)
  BY DEF ApartAt
<1>2. Opens(T) = OneMore(Opens(U), a) /\ Refs(T, P) = OneMore(Refs(U, P), a)
  BY <1>1, SlotTaken
<1> QED BY <1>2, HoldersFinite, MoreLess

LEMMA SlotStays ==
    ASSUME NEW T, NEW U, NEW P \in [Node -> Nat], NEW t \in Table, NEW d \in Fd,
           ApartAt(T, U, t, d),
           \A n \in Node : Uses(U[t].fd_array[d], n) <=> Uses(T[t].fd_array[d], n)
    PROVE  Opens(U) = Opens(T) /\ Refs(U, P) = Refs(T, P)
<1>1. ASSUME NEW n \in Node
      PROVE  Descriptors(U, n) = Descriptors(T, n) /\ CurDirs(U, n) = CurDirs(T, n)
  <2>0. HoldersApart(T, U, t, d, n)
    BY Apart
  <2>1. CurDirs(U, n) = CurDirs(T, n)
    BY <2>0, Zenon DEF HoldersApart
  <2>2. CASE Uses(T[t].fd_array[d], n)
    <3>1. /\ <<t, d>> \in Descriptors(T, n)
          /\ Descriptors(U, n) = Descriptors(T, n) \cup {<<t, d>>}
      BY <2>0, <2>2, Zenon DEF HoldersApart
    <3> QED BY <2>1, <3>1
  <2>3. CASE ~ Uses(T[t].fd_array[d], n)
    <3>1. /\ <<t, d>> \notin Descriptors(T, n)
          /\ Descriptors(U, n) = Descriptors(T, n) \ {<<t, d>>}
      BY <2>0, <2>3, Zenon DEF HoldersApart
    <3> QED BY <2>1, <3>1
  <2> QED BY <2>2, <2>3
<1> QED BY <1>1 DEF Opens, Refs
-----------------------------------------------------------------------------
(* One descriptor.  n is the number of reads that sleep on it, and only a  *)
(* read of stdin sleeps.                                                   *)
SlotShape(file) ==
    /\ DOMAIN file = {"status", "node", "open_count", "pos", "readable", "writable"}
    /\ file.status # "FD_NONE" => /\ file.node \in Node
                                  /\ file.readable /\ file.node \in Dev => file.node = "stdin"

AsleepOn(file, n) == n > 0 => file.node = "stdin"

SlotOK(file, n) ==
    /\ SlotShape(file)
    /\ file.status \in {"FD_NONE", "FD_OPENED", "FD_CLOSED"}
    /\ file.open_count = n + IF file.status = "FD_OPENED" THEN 1 ELSE 0
    /\ file.status = "FD_NONE" => file.open_count = 0
    /\ file.status = "FD_CLOSED" => file.open_count > 0
    /\ AsleepOn(file, n)

FdOK(f, N) ==
    /\ DOMAIN f = Fd /\ N \in [Fd -> Nat]
    /\ \A d \in Fd : SlotOK(f[d], N[d])

TabShape(T) ==
    /\ DOMAIN T = Table
    /\ \A t \in Table : DOMAIN T[t] = {"files_count", "pwd", "fd_array"}

(* The pair k = [s, f] of the operators of file.c, where f is the array of *)
(* the table t: the counts of s are the holders there are when t has f.    *)
Balanced(k, T, t, P) == Held(k.s, Refs(With(T, t, k.f), P), Opens(With(T, t, k.f)))
PairOK(k, T, t, P, N) == FdOK(k.f, N) /\ Balanced(k, T, t, P)

SlotApart(T, t, f, d, x) ==
    /\ ApartAt(With(T, t, f), With(T, t, [f EXCEPT ![d] = x]), t, d)
    /\ With(T, t, f)[t].fd_array[d] = f[d]
    /\ With(T, t, [f EXCEPT ![d] = x])[t].fd_array[d] = x

LEMMA WithSlot ==
    ASSUME NEW T, TabShape(T), NEW t \in Table, NEW f, DOMAIN f = Fd, NEW d \in Fd, NEW x
    PROVE  SlotApart(T, t, f, d, x)
<1> DEFINE g == [f EXCEPT ![d] = x]
<1>1. DOMAIN g = Fd /\ g[d] = x /\ \A e \in Fd : e # d => g[e] = f[e]
  OBVIOUS
<1> HIDE DEF g
<1>2. /\ With(T, t, f)[t].fd_array = f /\ With(T, t, g)[t].fd_array = g
      /\ \A u \in Table : /\ u # t => With(T, t, f)[u] = T[u] /\ With(T, t, g)[u] = T[u]
                          /\ With(T, t, f)[u].pwd = T[u].pwd /\ With(T, t, g)[u].pwd = T[u].pwd
  BY DEF With, TabShape
<1>3. ASSUME NEW u \in Table, NEW e \in Fd, <<u, e>> # <<t, d>>
      PROVE  With(T, t, g)[u].fd_array[e] = With(T, t, f)[u].fd_array[e]
  <2>1. u # t \/ e # d
    BY <1>3
  <2> QED BY <1>1, <1>2, <2>1
<1>4. ApartAt(With(T, t, f), With(T, t, g), t, d)
  BY <1>2, <1>3 DEF ApartAt
<1> QED BY <1>1, <1>2, <1>4 DEF g, SlotApart

(* A slot is given back, taken, or changed in a way that is not seen in    *)
(* the counts of its inode.                                                *)
LEMMA GiveBack ==
    ASSUME NEW T, TabShape(T), NEW t \in Table, NEW P \in [Node -> Nat],
           NEW k, DOMAIN k.f = Fd, NEW d \in Fd, NEW x, NEW n \in Node,
           Uses(k.f[d], n), x.status = "FD_NONE", Balanced(k, T, t, P)
    PROVE  Balanced([s |-> vfs_close(k.s, n), f |-> [k.f EXCEPT ![d] = x]], T, t, P)
<1> DEFINE g == [k.f EXCEPT ![d] = x]
           V == With(T, t, k.f)
           U == With(T, t, g)
<1>1. ApartAt(V, U, t, d) /\ V[t].fd_array[d] = k.f[d] /\ U[t].fd_array[d] = x
  <2>1. SlotApart(T, t, k.f, d, x)
    BY WithSlot
  <2> QED BY <2>1, Zenon DEF SlotApart
<1> HIDE DEF g, U, V
<1>2. Opens(U) = OneLess(Opens(V), n) /\ Refs(U, P) = OneLess(Refs(V, P), n)
  BY <1>1, SlotGiven
<1>4. Opens(V)[n] > 0
  <2>1. Opens(V) \in Counts /\ Opens(U)[n] \in Nat
    BY HoldersFinite
  <2>2. Opens(U)[n] = Opens(V)[n] - 1 /\ Opens(V)[n] \in Int
    BY <1>2, <2>1, OneApart
  <2> QED BY <2>1, <2>2
<1>3. Held(vfs_close(k.s, n), OneLess(Refs(V, P), n), OneLess(Opens(V), n))
  BY <1>4, Close DEF Balanced, V
<1> QED BY <1>2, <1>3 DEF Balanced, U, g

LEMMA TakeSlot ==
    ASSUME NEW T, TabShape(T), NEW t \in Table, NEW P \in [Node -> Nat],
           NEW f, DOMAIN f = Fd, NEW d \in Fd, NEW x, NEW n \in Node, NEW s,
           f[d].status = "FD_NONE", Uses(x, n),
           Held(s, OneMore(Refs(With(T, t, f), P), n), OneMore(Opens(With(T, t, f)), n))
    PROVE  Balanced([s |-> s, f |-> [f EXCEPT ![d] = x]], T, t, P)
<1> DEFINE g == [f EXCEPT ![d] = x]
           V == With(T, t, f)
           U == With(T, t, g)
<1>1. ApartAt(V, U, t, d) /\ V[t].fd_array[d] = f[d] /\ U[t].fd_array[d] = x
  <2>1. SlotApart(T, t, f, d, x)
    BY WithSlot
  <2> QED BY <2>1, Zenon DEF SlotApart
<1> HIDE DEF g, U, V
<1>2. Opens(U) = OneMore(Opens(V), n) /\ Refs(U, P) = OneMore(Refs(V, P), n)
  BY <1>1, SlotTaken
<1> QED BY <1>2 DEF Balanced, U, V, g

Put(f, d, x) == [f EXCEPT ![d] = x]

LEMMA KeepSlot ==
    ASSUME NEW T, TabShape(T), NEW t \in Table, NEW P \in [Node -> Nat],
           NEW f, DOMAIN f = Fd, NEW d \in Fd, NEW x,
           \A n \in Node : Uses(x, n) <=> Uses(f[d], n)
    PROVE  /\ Opens(With(T, t, Put(f, d, x))) = Opens(With(T, t, f))
           /\ Refs(With(T, t, Put(f, d, x)), P) = Refs(With(T, t, f), P)
<1> DEFINE g == [f EXCEPT ![d] = x]
           V == With(T, t, f)
           U == With(T, t, g)
<1>1. ApartAt(V, U, t, d) /\ V[t].fd_array[d] = f[d] /\ U[t].fd_array[d] = x
  <2>1. SlotApart(T, t, f, d, x)
    BY WithSlot
  <2> QED BY <2>1, Zenon DEF SlotApart
<1> HIDE DEF g, U, V
<1>2. Opens(U) = Opens(V) /\ Refs(U, P) = Refs(V, P)
  <2>1. \A n \in Node : Uses(U[t].fd_array[d], n) <=> Uses(V[t].fd_array[d], n)
    BY <1>1
  <2> QED BY <1>1, <2>1, SlotStays
<1>3. g = Put(f, d, x)
  BY DEF g, Put
<1> QED BY <1>2, <1>3 DEF U, V

(* fopen_count_dec, and fd_array_free by the last.                         *)
LEMMA DroppedOK ==
    ASSUME NEW T, TabShape(T), NEW t \in Table, NEW P \in [Node -> Nat], NEW N \in [Fd -> Nat],
           NEW k, DOMAIN k.f = Fd, NEW d \in Fd, Balanced(k, T, t, P),
           \A e \in Fd \ {d} : SlotOK(k.f[e], N[e]),
           SlotShape(k.f[d]), k.f[d].status \in {"FD_OPENED", "FD_CLOSED"},
           k.f[d].open_count = N[d] + 1 + IF k.f[d].status = "FD_OPENED" THEN 1 ELSE 0,
           AsleepOn(k.f[d], N[d])
    PROVE  PairOK(Dropped(k, d), T, t, P, N)
<1> DEFINE file == k.f[d]
           less == [file EXCEPT !.open_count = @ - 1]
           g == [k.f EXCEPT ![d].open_count = @ - 1]
           q == [s |-> Checked(k.s, k.f[d].open_count > 0, "file"), f |-> g]
           n == file.node
<1>1. file.open_count > 0 /\ N[d] \in Nat
  OBVIOUS
<1>2. q = [s |-> k.s, f |-> g]
  BY <1>1 DEF Checked
<1>3. g = Put(k.f, d, less) /\ DOMAIN g = Fd /\ g[d] = less
  BY DEF Put
<1>4. /\ less.status = file.status /\ less.node = file.node /\ less.open_count = file.open_count - 1
      /\ SlotShape(less) /\ n \in Node
  BY DEF SlotShape
<1>5. Uses(file, n)
  BY DEF Uses
<1>6. CASE less.open_count # 0
  <2>1. Balanced(q, T, t, P)
    <3>1. \A m \in Node : Uses(less, m) <=> Uses(file, m)
      BY <1>4 DEF Uses
    <3> HIDE DEF less, g
    <3>2. /\ Opens(With(T, t, g)) = Opens(With(T, t, k.f))
          /\ Refs(With(T, t, g), P) = Refs(With(T, t, k.f), P)
      BY <1>3, <3>1, KeepSlot
    <3>3. q.s = k.s /\ q.f = g
      BY <1>2
    <3> HIDE DEF q
    <3> QED BY <3>2, <3>3 DEF Balanced
  <2>2. SlotOK(less, N[d])
    BY <1>1, <1>4, <1>6 DEF SlotOK, AsleepOn
  <2>3. \A e \in Fd : e # d => g[e] = k.f[e]
    OBVIOUS
  <2> HIDE DEF g, less
  <2>4. FdOK(g, N)
    BY <1>3, <2>2, <2>3 DEF FdOK
  <2>5. Dropped(k, d) = q
    BY <1>2, <1>3, <1>6 DEF Dropped, g
  <2> QED BY <1>2, <2>1, <2>4, <2>5 DEF PairOK
<1>7. CASE less.open_count = 0
  <2> DEFINE h == [k.f EXCEPT ![d] = Unused]
  <2>1. N[d] = 0 /\ file.status = "FD_CLOSED"
    BY <1>1, <1>4, <1>7
  <2>2. [g EXCEPT ![d] = Unused] = h
    BY <1>3
  <2>3. Dropped(k, d) = [s |-> vfs_close(k.s, n), f |-> h]
    <3>1. Dropped(k, d) = fd_array_free(q, d)
      BY <1>2, <1>3, <1>7 DEF Dropped
    <3>2. Checked(k.s, less.status \in {"FD_INIT", "FD_CLOSED"} /\ less.open_count = 0, "file") = k.s
      BY <1>4, <1>7, <2>1 DEF Checked
    <3> QED BY <1>2, <1>3, <1>4, <2>1, <2>2, <3>1, <3>2 DEF fd_array_free
  <2>4. Unused.status = "FD_NONE" /\ SlotOK(Unused, 0)
    BY DEF Unused, SlotOK, SlotShape, AsleepOn
  <2>5. Balanced([s |-> vfs_close(k.s, n), f |-> h], T, t, P)
    BY <1>4, <1>5, <2>4, GiveBack
  <2>6. DOMAIN h = Fd /\ h[d] = Unused /\ \A e \in Fd : e # d => h[e] = k.f[e]
    OBVIOUS
  <2> HIDE DEF h
  <2>7. FdOK(h, N)
    BY <2>1, <2>4, <2>6 DEF FdOK
  <2> QED BY <2>3, <2>5, <2>7 DEF PairOK
<1> QED BY <1>6, <1>7

LEMMA CloseOK ==
    ASSUME NEW T, TabShape(T), NEW t \in Table, NEW P \in [Node -> Nat], NEW N,
           NEW k, PairOK(k, T, t, P, N), NEW d \in Fd, k.f[d].status = "FD_OPENED"
    PROVE  PairOK(fd_array_close(k, d), T, t, P, N)
<1> DEFINE file == k.f[d]
           closed == [file EXCEPT !.status = "FD_CLOSED"]
           g == [k.f EXCEPT ![d].status = "FD_CLOSED"]
           q == [s |-> k.s, f |-> g]
<1>1. DOMAIN k.f = Fd /\ SlotOK(file, N[d]) /\ N \in [Fd -> Nat]
  BY DEF PairOK, FdOK
<1>2. fd_array_close(k, d) = Dropped(q, d)
  BY DEF fd_array_close, Checked
<1>3. g = Put(k.f, d, closed) /\ DOMAIN g = Fd /\ g[d] = closed
  BY <1>1 DEF Put
<1>4. /\ closed.status = "FD_CLOSED" /\ closed.node = file.node
      /\ closed.open_count = file.open_count /\ SlotShape(closed)
  BY <1>1 DEF SlotOK, SlotShape
<1>5. Balanced(q, T, t, P)
  <2>1. \A m \in Node : Uses(closed, m) <=> Uses(file, m)
    BY <1>4 DEF Uses
  <2>2. /\ Opens(With(T, t, g)) = Opens(With(T, t, k.f))
        /\ Refs(With(T, t, g), P) = Refs(With(T, t, k.f), P)
    BY <1>1, <1>3, <2>1, KeepSlot
  <2> QED BY <2>2 DEF Balanced, PairOK
<1>6. \A e \in Fd \ {d} : SlotOK(g[e], N[e])
  BY <1>1 DEF PairOK, FdOK
<1>7. file.open_count = N[d] + 1 /\ N[d] \in Nat /\ AsleepOn(closed, N[d])
  BY <1>1, <1>4 DEF SlotOK, AsleepOn
<1> HIDE DEF g, closed
<1> QED BY <1>1, <1>2, <1>3, <1>4, <1>5, <1>6, <1>7, DroppedOK

LEMMA CloseSlot ==
    ASSUME NEW k, DOMAIN k.f = Fd, NEW d \in Fd, SlotShape(k.f[d])
    PROVE  /\ \A e \in Fd : e # d => fd_array_close(k, d).f[e] = k.f[e]
           /\ fd_array_close(k, d).f[d].status # "FD_OPENED"
<1> DEFINE g == [k.f EXCEPT ![d].status = "FD_CLOSED"]
           h == [g EXCEPT ![d].open_count = @ - 1]
           q == [s |-> Checked(k.s, k.f[d].status = "FD_OPENED", "file"), f |-> g]
           v == [s |-> Checked(q.s, q.f[d].open_count > 0, "file"), f |-> h]
<1>1. DOMAIN g = Fd /\ g[d].status = "FD_CLOSED" /\ \A e \in Fd : e # d => g[e] = k.f[e]
  BY DEF SlotShape
<1>2. DOMAIN h = Fd /\ h[d].status = "FD_CLOSED" /\ \A e \in Fd : e # d => h[e] = k.f[e]
  <2>1. "status" \in DOMAIN g[d]
    BY DEF SlotShape
  <2> QED BY <1>1, <2>1
<1>3. fd_array_close(k, d) = IF v.f[d].open_count = 0 THEN fd_array_free(v, d) ELSE v
  BY DEF fd_array_close, Dropped
<1>4. v.f = h /\ fd_array_free(v, d).f = [h EXCEPT ![d] = Unused]
  BY DEF fd_array_free
<1> HIDE DEF h, v
<1>5. CASE v.f[d].open_count = 0
  <2>1. Unused.status = "FD_NONE"
    BY DEF Unused
  <2>2. [h EXCEPT ![d] = Unused][d] = Unused /\ \A e \in Fd : e # d => [h EXCEPT ![d] = Unused][e] = h[e]
    BY <1>2
  <2>3. fd_array_close(k, d).f = [h EXCEPT ![d] = Unused]
    BY <1>3, <1>4, <1>5
  <2> QED BY <1>2, <2>1, <2>2, <2>3
<1>6. CASE v.f[d].open_count # 0
  BY <1>2, <1>3, <1>4, <1>6
<1> QED BY <1>5, <1>6

LEMMA AcquireOK ==
    ASSUME NEW T, TabShape(T), NEW t \in Table, NEW P \in [Node -> Nat], NEW N,
           NEW k, PairOK(k, T, t, P, N), NEW d \in Fd, k.f[d].status = "FD_OPENED",
           k.f[d].node = "stdin"
    PROVE  PairOK(fd_array_acquire(k, d), T, t, P, [N EXCEPT ![d] = @ + 1])
<1> DEFINE file == k.f[d]
           more == [file EXCEPT !.open_count = @ + 1]
           g == [k.f EXCEPT ![d].open_count = @ + 1]
           M == [N EXCEPT ![d] = @ + 1]
<1>1. /\ DOMAIN k.f = Fd /\ N \in [Fd -> Nat] /\ \A e \in Fd : SlotOK(k.f[e], N[e])
  BY DEF PairOK, FdOK
<1>2. fd_array_acquire(k, d) = [s |-> k.s, f |-> g]
  BY DEF fd_array_acquire, Checked
<1>3. g = Put(k.f, d, more) /\ DOMAIN g = Fd /\ g[d] = more /\ \A e \in Fd : e # d => g[e] = k.f[e]
  BY <1>1 DEF Put
<1>4. M \in [Fd -> Nat] /\ M[d] = N[d] + 1 /\ N[d] \in Nat /\ \A e \in Fd : e # d => M[e] = N[e]
  BY <1>1
<1>5. /\ more.status = file.status /\ more.node = file.node
      /\ more.open_count = file.open_count + 1 /\ SlotShape(more)
  BY <1>1 DEF SlotOK, SlotShape
<1>6. SlotOK(more, N[d] + 1)
  BY <1>1, <1>4, <1>5 DEF SlotOK, AsleepOn
<1>7. \A m \in Node : Uses(more, m) <=> Uses(file, m)
  BY <1>5 DEF Uses
<1> HIDE DEF g, more, M
<1>8. FdOK(g, M)
  BY <1>1, <1>3, <1>4, <1>6 DEF FdOK
<1>9. /\ Opens(With(T, t, g)) = Opens(With(T, t, k.f))
      /\ Refs(With(T, t, g), P) = Refs(With(T, t, k.f), P)
  BY <1>1, <1>3, <1>7, KeepSlot
<1>10. PairOK([s |-> k.s, f |-> g], T, t, P, M)
  BY <1>8, <1>9 DEF PairOK, Balanced
<1> QED BY <1>2, <1>10 DEF M

LEMMA ReleaseOK ==
    ASSUME NEW T, TabShape(T), NEW t \in Table, NEW P \in [Node -> Nat], NEW N,
           NEW k, DOMAIN k = {"s", "f"}, PairOK(k, T, t, P, N), NEW d \in Fd, N[d] > 0
    PROVE  PairOK(fd_array_release(k, d), T, t, P, [N EXCEPT ![d] = @ - 1])
<1> DEFINE file == k.f[d]
           q == [k EXCEPT !.s = Checked(@, k.f[d].status \in {"FD_OPENED", "FD_CLOSED"}, "file")]
           M == [N EXCEPT ![d] = @ - 1]
<1>1. /\ DOMAIN k.f = Fd /\ N \in [Fd -> Nat] /\ \A e \in Fd : SlotOK(k.f[e], N[e])
  BY DEF PairOK, FdOK
<1>2. file.status \in {"FD_OPENED", "FD_CLOSED"}
  BY <1>1 DEF SlotOK
<1>3. q.s = k.s /\ q.f = k.f
  BY <1>2 DEF Checked
<1>4. M \in [Fd -> Nat] /\ M[d] + 1 = N[d] /\ N[d] \in Nat /\ \A e \in Fd : e # d => M[e] = N[e]
  BY <1>1
<1>5. Balanced(q, T, t, P)
  BY <1>3 DEF PairOK, Balanced
<1>6. fd_array_release(k, d) = Dropped(q, d)
  BY Zenon DEF fd_array_release
<1> HIDE DEF q, M
<1>7. \A e \in Fd \ {d} : SlotOK(q.f[e], M[e])
  BY <1>1, <1>3, <1>4
<1>8. /\ SlotShape(q.f[d]) /\ q.f[d].status \in {"FD_OPENED", "FD_CLOSED"}
      /\ q.f[d].open_count = M[d] + 1 + IF q.f[d].status = "FD_OPENED" THEN 1 ELSE 0
      /\ AsleepOn(q.f[d], M[d])
  BY <1>1, <1>2, <1>3, <1>4 DEF SlotOK, AsleepOn
<1>9. PairOK(Dropped(q, d), T, t, P, M)
  BY <1>1, <1>3, <1>4, <1>5, <1>7, <1>8, DroppedOK
<1> QED BY <1>6, <1>9 DEF M

LEMMA DupOK ==
    ASSUME NEW T, TabShape(T), NEW t \in Table, NEW P \in [Node -> Nat], NEW N,
           NEW k, PairOK(k, T, t, P, N), NEW d \in Fd, k.f[d].status = "FD_NONE",
           NEW from, SlotShape(from), from.status = "FD_OPENED",
           Refs(With(T, t, k.f), P)[from.node] > 0
    PROVE  PairOK(fd_array_dup(k, d, from), T, t, P, N)
<1> DEFINE n == from.node
           x == [from EXCEPT !.open_count = 1]
           g == [k.f EXCEPT ![d] = x]
           R == Refs(With(T, t, k.f), P)
           O == Opens(With(T, t, k.f))
           s == vop_open_inc(vop_ref_inc(k.s, n), n)
<1>1. /\ DOMAIN k.f = Fd /\ N \in [Fd -> Nat] /\ \A e \in Fd : SlotOK(k.f[e], N[e])
  BY DEF PairOK, FdOK
<1>2. fd_array_dup(k, d, from) = [s |-> s, f |-> g]
  BY DEF fd_array_dup, Checked
<1>3. n \in Node
  BY DEF SlotShape
<1>4. /\ x.status = "FD_OPENED" /\ x.node = n /\ x.open_count = 1 /\ SlotShape(x)
  BY DEF SlotShape
<1>5. N[d] = 0 /\ SlotOK(x, 0)
  BY <1>1, <1>4 DEF SlotOK, AsleepOn
<1> HIDE DEF x, R, O
<1>6. Held(vop_ref_inc(k.s, n), OneMore(R, n), O) /\ Held(k.s, R, O)
  BY <1>3, RefInc DEF PairOK, Balanced, R, O
<1>7. Held(s, OneMore(R, n), OneMore(O, n))
  BY <1>3, <1>6, HeldMore, OpenInc
<1>8. Balanced([s |-> s, f |-> g], T, t, P)
  BY <1>1, <1>3, <1>4, <1>7, TakeSlot DEF Uses, R, O
<1>9. FdOK(g, N)
  BY <1>1, <1>5 DEF FdOK
<1> HIDE DEF g, s
<1> QED BY <1>2, <1>8, <1>9 DEF PairOK

(* The loops over the descriptors, by the same two inductions as above.    *)
LEMMA ClosedOK ==
    ASSUME NEW T, TabShape(T), NEW t \in Table, NEW P \in [Node -> Nat], NEW N,
           NEW k, PairOK(k, T, t, P, N), NEW first \in Nat
    PROVE  /\ PairOK(ClosedFrom(k, first), T, t, P, N)
           /\ \A e \in Fd : e >= first => ClosedFrom(k, first).f[e].status # "FD_OPENED"
<1> DEFINE last == FILES_STRUCT_NENTRY
           Step(q, d) == IF q.f[d].status = "FD_OPENED" THEN fd_array_close(q, d) ELSE q
           Loop(close, end) ==
                close = [d \in first .. end |->
                            IF d = first THEN k
                            ELSE IF close[d - 1].f[d - 1].status = "FD_OPENED"
                                 THEN fd_array_close(close[d - 1], d - 1) ELSE close[d - 1]]
           S == {end \in Int : \E close : Loop(close, end)}
           Closed(r, d) == \A e \in Fd : first <= e /\ e < d => r.f[e].status # "FD_OPENED"
           G(close) == {d \in Int : PairOK(close[d], T, t, P, N) /\ Closed(close[d], d)}
<1>1. last \in Nat
  BY FilesAssumption
<1> HIDE DEF last
<1>2. ASSUME NEW end \in first + 1 .. last, \E close : Loop(close, end - 1)
      PROVE  \E close : Loop(close, end)
  <2>1. PICK g : Loop(g, end - 1)
    BY <1>2
  <2> DEFINE h == [d \in first .. end |->
                      IF d = first THEN k
                      ELSE IF g[d - 1].f[d - 1].status = "FD_OPENED"
                           THEN fd_array_close(g[d - 1], d - 1) ELSE g[d - 1]]
  <2>2. ASSUME NEW d \in first .. end - 1 PROVE h[d] = g[d]
    <3>1. d \in first .. end
      BY <1>1
    <3>2. g[d] = IF d = first THEN k
                 ELSE IF g[d - 1].f[d - 1].status = "FD_OPENED"
                      THEN fd_array_close(g[d - 1], d - 1) ELSE g[d - 1]
      BY <2>1, Zenon
    <3>3. h[d] = IF d = first THEN k
                 ELSE IF g[d - 1].f[d - 1].status = "FD_OPENED"
                      THEN fd_array_close(g[d - 1], d - 1) ELSE g[d - 1]
      BY <3>1, Zenon
    <3> QED BY <3>2, <3>3, Zenon
  <2>3. \A d \in first .. end : d # first => d - 1 \in first .. end - 1
    BY <1>1
  <2>4. Loop(h, end)
    BY <2>2, <2>3
  <2> HIDE DEF h
  <2> QED BY <2>4, Zenon
<1>3. first \in S
  <2>1. Loop([d \in first .. first |-> k], first)
    OBVIOUS
  <2> HIDE DEF Loop
  <2>2. \E close : Loop(close, first)
    BY <2>1, Zenon
  <2>3. first \in Int
    OBVIOUS
  <2> QED BY <2>2, <2>3
<1>4. CASE first > last
  BY <1>1, <1>4 DEF ClosedFrom, last, Fd
<1>5. CASE first <= last
  <2>1. \E close : Loop(close, last)
    <3> HIDE DEF Loop
    <3>1. \A end \in first + 1 .. last : end - 1 \in S => end \in S
      BY <1>1, <1>2
    <3> HIDE DEF S
    <3>2. first \in Int /\ last \in Int /\ last \in first .. last
      BY <1>1, <1>5
    <3>3. \A end \in first .. last : end \in S
      BY <1>3, <3>1, <3>2, Interval, Zenon
    <3> QED BY <3>2, <3>3 DEF S
  <2>2. ~ (first > last)
    BY <1>1, <1>5
  <2>3. PICK close : Loop(close, last) /\ ClosedFrom(k, first) = close[last]
    BY <2>1, <2>2, Zenon DEF ClosedFrom, last
  <2>4. first \in G(close)
    <3>1. first \in first .. last
      BY <1>1, <1>5
    <3>2. close[first] = k
      BY <2>3, <3>1, Zenon
    <3> QED BY <3>2 DEF Fd
  <2>5. ASSUME NEW d \in first + 1 .. last, d - 1 \in G(close)
        PROVE  d \in G(close)
    <3>1. d \in first .. last /\ d # first /\ d - 1 \in Fd /\ d \in Int
      BY <1>1 DEF Fd, last
    <3>2. close[d] = Step(close[d - 1], d - 1)
      BY <2>3, <3>1, Zenon
    <3>3. PairOK(Step(close[d - 1], d - 1), T, t, P, N)
      BY <2>5, <3>1, CloseOK
    <3>4. Closed(Step(close[d - 1], d - 1), d)
      <4>1. DOMAIN close[d - 1].f = Fd /\ SlotShape(close[d - 1].f[d - 1])
        BY <2>5, <3>1 DEF PairOK, FdOK, SlotOK
      <4>2. \A e \in Fd : e \in Int
        BY DEF Fd
      <4>3. \A e \in Fd : e # d - 1 => Step(close[d - 1], d - 1).f[e] = close[d - 1].f[e]
        BY <3>1, <4>1, CloseSlot
      <4>4. Step(close[d - 1], d - 1).f[d - 1].status # "FD_OPENED"
        BY <3>1, <4>1, CloseSlot
      <4>5. \A e \in Fd : e < d => e < d - 1 \/ e = d - 1
        BY <4>2
      <4> HIDE DEF Step
      <4> QED BY <2>5, <4>3, <4>4, <4>5
    <3> HIDE DEF Step, Closed
    <3> QED BY <3>1, <3>2, <3>3, <3>4
  <2> HIDE DEF Loop, G
  <2>6. first \in Int /\ last \in Int /\ last \in first .. last
    BY <1>1, <1>5
  <2>7. \A d \in first .. last : d \in G(close)
    BY <2>4, <2>5, <2>6, Interval, Zenon
  <2>8. \A e \in Fd : e < last
    BY <1>1 DEF Fd, last
  <2> QED BY <2>3, <2>6, <2>7, <2>8 DEF G
<1> QED BY <1>1, <1>4, <1>5

LEMMA DupFilesOK ==
    ASSUME NEW T, TabShape(T), NEW t \in Table, NEW P \in [Node -> Nat],
           NEW N, N = [d \in Fd |-> 0], NEW s, NEW from,
           \A d \in Fd : SlotShape(from.fd_array[d]),
           \A f : \A d \in Fd : from.fd_array[d].status = "FD_OPENED" =>
                Refs(With(T, t, f), P)[from.fd_array[d].node] > 0,
           PairOK([s |-> IF from.pwd = NoNode THEN s ELSE vop_ref_inc(s, from.pwd),
                   f |-> NoFiles.fd_array], T, t, P, N)
    PROVE  PairOK(dup_files(s, from), T, t, P, N)
<1> DEFINE last == FILES_STRUCT_NENTRY
           k0 == [s |-> IF from.pwd = NoNode THEN s ELSE vop_ref_inc(s, from.pwd),
                  f |-> NoFiles.fd_array]
           file(d) == from.fd_array[d]
           Step(q, d) == IF file(d).status = "FD_OPENED" THEN fd_array_dup(q, d, file(d)) ELSE q
           Loop(dup, end) ==
                dup = [d \in 0 .. end |->
                          IF d = 0 THEN k0
                          ELSE IF from.fd_array[d - 1].status = "FD_OPENED"
                               THEN fd_array_dup(dup[d - 1], d - 1, from.fd_array[d - 1])
                               ELSE dup[d - 1]]
           S == {end \in Int : \E dup : Loop(dup, end)}
           G(dup) == {d \in Int : /\ PairOK(dup[d], T, t, P, N)
                                  /\ \A e \in Fd : e >= d => dup[d].f[e].status = "FD_NONE"}
<1>1. last \in Nat /\ 0 \in Int /\ last \in 0 .. last
  BY FilesAssumption
<1> HIDE DEF last
<1>2. ASSUME NEW end \in 0 + 1 .. last, \E dup : Loop(dup, end - 1)
      PROVE  \E dup : Loop(dup, end)
  <2>1. PICK g : Loop(g, end - 1)
    BY <1>2
  <2> DEFINE h == [d \in 0 .. end |->
                      IF d = 0 THEN k0
                      ELSE IF from.fd_array[d - 1].status = "FD_OPENED"
                           THEN fd_array_dup(g[d - 1], d - 1, from.fd_array[d - 1])
                           ELSE g[d - 1]]
  <2> HIDE DEF k0
  <2>2. \A d \in 0 .. end - 1 : h[d] = g[d]
    BY <2>1, <1>1
  <2>3. \A d \in 0 .. end : d # 0 => d - 1 \in 0 .. end - 1
    BY <1>1
  <2>4. Loop(h, end)
    BY <2>2, <2>3
  <2> HIDE DEF h
  <2> QED BY <2>4, Zenon
<1> HIDE DEF k0
<1>3. Loop([d \in 0 .. 0 |-> k0], 0)
  OBVIOUS
<1>4. \E dup : Loop(dup, last)
  <2> HIDE DEF Loop
  <2>0. 0 \in S
    <3>1. \E dup : Loop(dup, 0)
      BY <1>3, Zenon
    <3> QED BY <1>1, <3>1
  <2>1. \A end \in 0 + 1 .. last : end - 1 \in S => end \in S
    BY <1>1, <1>2
  <2> HIDE DEF S
  <2>2. last \in Int
    BY <1>1
  <2>3. \A end \in 0 .. last : end \in S
    BY <1>1, <2>0, <2>1, <2>2, Interval, Zenon
  <2> QED BY <1>1, <2>3 DEF S
<1>5. PICK dup : Loop(dup, last) /\ dup_files(s, from) = dup[last]
  BY <1>4, Zenon DEF dup_files, last, k0
<1>6. 0 \in G(dup)
  <2>1. 0 \in 0 .. last
    BY <1>1
  <2>2. dup[0] = k0
    BY <1>5, <2>1, Zenon
  <2>3. k0.f = NoFiles.fd_array /\ \A e \in Fd : NoFiles.fd_array[e].status = "FD_NONE"
    BY DEF k0, NoFiles, Unused
  <2> QED BY <2>2, <2>3 DEF k0
<1>7. ASSUME NEW d \in 0 + 1 .. last, d - 1 \in G(dup)
      PROVE  d \in G(dup)
  <2>1. d \in 0 .. last /\ d # 0 /\ d - 1 \in Fd /\ d \in Int
    BY <1>1 DEF Fd, last
  <2>2. dup[d] = Step(dup[d - 1], d - 1)
    BY <1>5, <2>1, Zenon
  <2>3. /\ PairOK(dup[d - 1], T, t, P, N)
        /\ \A e \in Fd : e >= d - 1 => dup[d - 1].f[e].status = "FD_NONE"
    BY <1>7
  <2>4. PairOK(Step(dup[d - 1], d - 1), T, t, P, N)
    <3>1. dup[d - 1].f[d - 1].status = "FD_NONE"
      BY <2>1, <2>3
    <3>2. CASE file(d - 1).status = "FD_OPENED"
      <4>1. Refs(With(T, t, dup[d - 1].f), P)[file(d - 1).node] > 0
        BY <2>1, <3>2
      <4>2. SlotShape(file(d - 1))
        BY <2>1
      <4>3. PairOK(fd_array_dup(dup[d - 1], d - 1, file(d - 1)), T, t, P, N)
        BY <2>1, <2>3, <3>1, <3>2, <4>1, <4>2, DupOK
      <4> QED BY <3>2, <4>3
    <3>3. CASE file(d - 1).status # "FD_OPENED"
      BY <2>3, <3>3
    <3> QED BY <3>2, <3>3
  <2>5. \A e \in Fd : e >= d => Step(dup[d - 1], d - 1).f[e] = dup[d - 1].f[e]
    <3>1. \A e \in Fd : e >= d => e # d - 1 /\ e \in Int
      BY DEF Fd
    <3>2. DOMAIN dup[d - 1].f = Fd
      BY <2>3 DEF PairOK, FdOK
    <3> QED BY <3>1, <3>2 DEF fd_array_dup
  <2>6. \A e \in Fd : e >= d => e >= d - 1
    BY DEF Fd
  <2> HIDE DEF Step
  <2> QED BY <2>1, <2>2, <2>3, <2>4, <2>5, <2>6
<1> HIDE DEF Loop, G
<1>8. \A d \in 0 + 1 .. last : d - 1 \in G(dup) => d \in G(dup)
  BY <1>7
<1>9. last \in Int
  BY <1>1
<1>10. \A d \in 0 .. last : d \in G(dup)
  BY <1>1, <1>6, <1>8, <1>9, Interval, Zenon
<1> QED BY <1>1, <1>5, <1>10 DEF G

(* The descriptor of an open, from what vfs_open hands back.               *)
OpenedOK(q, T, t, P, N, flags, found) ==
    IF q.ret = "E_EXISTS"
    THEN /\ flags.creat /\ flags.excl /\ found.ret = "ok" /\ found.node \in Node
         /\ FdOK(q.f, N)
         /\ Held(q.s, OneMore(Refs(With(T, t, q.f), P), found.node), Opens(With(T, t, q.f)))
    ELSE PairOK(q, T, t, P, N)

LEMMA InstalledOK ==
    ASSUME NEW T, TabShape(T), NEW t \in Table, NEW P \in [Node -> Nat], NEW N,
           NEW f, FdOK(f, N), NEW d \in Fd, f[d].status = "FD_NONE", NEW flags, NEW r, NEW found,
           OpenResult(r, Refs(With(T, t, f), P), Opens(With(T, t, f)), flags, found)
    PROVE  OpenedOK(Installed(r, f, d, flags), T, t, P, N, flags, found)
<1>1. DOMAIN f = Fd /\ N \in [Fd -> Nat] /\ \A e \in Fd : SlotOK(f[e], N[e])
  BY DEF FdOK
<1>2. N[d] = 0
  BY <1>1 DEF SlotOK
<1>3. CASE r.ret # "ok"
  <2> DEFINE g == [f EXCEPT ![d] = Unused]
             R == Refs(With(T, t, f), P)
             O == Opens(With(T, t, f))
             init == [Unused EXCEPT !.status = "FD_INIT"]
  <2>1. init.status = "FD_INIT" /\ init.open_count = 0
    BY DEF Unused
  <2> HIDE DEF init
  <2>2. fd_array_free([s |-> r.s, f |-> [f EXCEPT ![d] = init]], d) = [s |-> r.s, f |-> g]
    BY <1>1, <2>1 DEF fd_array_free, Checked
  <2>3. Installed(r, f, d, flags) = [s |-> r.s, f |-> g, ret |-> r.ret]
    BY <1>3, <2>2 DEF Installed, init
  <2>4. Unused.status = "FD_NONE" /\ SlotOK(Unused, 0)
    BY DEF Unused, SlotOK, SlotShape, AsleepOn
  <2>5. /\ DOMAIN g = Fd /\ g[d] = Unused /\ \A e \in Fd : e # d => g[e] = f[e]
        /\ g = Put(f, d, Unused)
    BY <1>1 DEF Put
  <2>6. \A n \in Node : Uses(Unused, n) <=> Uses(f[d], n)
    BY <2>4 DEF Uses
  <2> HIDE DEF g, R, O
  <2>7. Opens(With(T, t, g)) = O /\ Refs(With(T, t, g), P) = R
    <3>1. /\ Opens(With(T, t, g)) = Opens(With(T, t, f))
          /\ Refs(With(T, t, g), P) = Refs(With(T, t, f), P)
      BY <1>1, <2>5, <2>6, KeepSlot
    <3> QED BY <3>1 DEF R, O
  <2>8. FdOK(g, N)
    BY <1>1, <1>2, <2>4, <2>5 DEF FdOK
  <2>9. OpenResult(r, R, O, flags, found)
    BY DEF R, O
  <2>10. CASE r.ret = "E_EXISTS"
    <3>1. /\ flags.creat /\ flags.excl /\ found.ret = "ok" /\ found.node \in Node
          /\ Held(r.s, OneMore(R, found.node), O)
      BY <2>9, <2>10, Zenon DEF OpenResult
    <3> QED BY <2>3, <2>7, <2>8, <2>10, <3>1 DEF OpenedOK
  <2>11. CASE r.ret # "E_EXISTS"
    <3>1. Held(r.s, R, O)
      BY <1>3, <2>9, <2>11 DEF OpenResult
    <3> QED BY <2>3, <2>7, <2>8, <2>11, <3>1 DEF OpenedOK, PairOK, Balanced
  <2> QED BY <2>10, <2>11
<1>4. CASE r.ret = "ok"
  <2> DEFINE n == r.node
             x == [status |-> "FD_OPENED", node |-> r.node, open_count |-> 1,
                   pos |-> IF flags.append THEN r.s.din[r.node].size ELSE 0,
                   readable |-> flags.acc # "w", writable |-> flags.acc # "r"]
             g == [f EXCEPT ![d] = x]
  <2>1. Installed(r, f, d, flags) = [s |-> r.s, ret |-> "ok", f |-> g]
    BY <1>4 DEF Installed
  <2>2. /\ n \in Node /\ Accepts(n, flags)
        /\ Held(r.s, OneMore(Refs(With(T, t, f), P), n), OneMore(Opens(With(T, t, f)), n))
    BY <1>4, Zenon DEF OpenResult
  <2>3. x.status = "FD_OPENED" /\ x.node = n /\ x.open_count = 1
    OBVIOUS
  <2>4. SlotOK(x, 0)
    <3>1. n \in Dev /\ flags.acc # "w" => n = "stdin"
      BY <2>2, SfsAssumption DEF Accepts, Node, Ino
    <3>2. DOMAIN x = {"status", "node", "open_count", "pos", "readable", "writable"}
      OBVIOUS
    <3>3. x.readable <=> flags.acc # "w"
      OBVIOUS
    <3> HIDE DEF x
    <3> QED BY <2>2, <2>3, <3>1, <3>2, <3>3 DEF SlotOK, SlotShape, AsleepOn
  <2> HIDE DEF x
  <2>5. DOMAIN g = Fd /\ g[d] = x /\ \A e \in Fd : e # d => g[e] = f[e]
    BY <1>1
  <2>6. FdOK(g, N)
    <3> HIDE DEF g
    <3> QED BY <1>1, <1>2, <2>4, <2>5 DEF FdOK
  <2>7. Balanced([s |-> r.s, f |-> g], T, t, P)
    BY <1>1, <2>2, <2>3, TakeSlot DEF Uses
  <2> HIDE DEF g
  <2> QED BY <2>1, <2>6, <2>7 DEF OpenedOK, PairOK, Balanced
<1> QED BY <1>3, <1>4
-----------------------------------------------------------------------------
(* Tables that differ in nothing that holds an inode.                      *)
SameHolders(T, U) ==
    /\ \A u \in Table : U[u].pwd = T[u].pwd
    /\ \A u \in Table, e \in Fd, n \in Node :
        Uses(U[u].fd_array[e], n) <=> Uses(T[u].fd_array[e], n)

LEMMA HoldersSame ==
    ASSUME NEW T, NEW U, NEW P \in [Node -> Nat], SameHolders(T, U)
    PROVE  Opens(U) = Opens(T) /\ Refs(U, P) = Refs(T, P)
<1>1. ASSUME NEW n \in Node
      PROVE  Descriptors(U, n) = Descriptors(T, n) /\ CurDirs(U, n) = CurDirs(T, n)
  <2>1. ASSUME NEW h \in Table \X Fd
        PROVE  Uses(U[h[1]].fd_array[h[2]], n) <=> Uses(T[h[1]].fd_array[h[2]], n)
    <3>1. h[1] \in Table /\ h[2] \in Fd
      OBVIOUS
    <3> QED BY <3>1, Zenon DEF SameHolders
  <2>2. Descriptors(U, n) = Descriptors(T, n)
    BY <2>1 DEF Descriptors, Uses
  <2>3. CurDirs(U, n) = CurDirs(T, n)
    BY DEF CurDirs, SameHolders
  <2> QED BY <2>2, <2>3
<1> QED BY <1>1 DEF Opens, Refs

(* A table gets its directory, and gives it back. *)
LEMMA DirTaken ==
    ASSUME NEW T, NEW U, NEW P \in [Node -> Nat], NEW t \in Table, NEW a \in Node,
           T[t].pwd = NoNode, U[t].pwd = a,
           \A u \in Table : u # t => U[u].pwd = T[u].pwd,
           \A u \in Table, e \in Fd, n \in Node :
                Uses(U[u].fd_array[e], n) <=> Uses(T[u].fd_array[e], n)
    PROVE  Opens(U) = Opens(T) /\ Refs(U, P) = OneMore(Refs(T, P), a)
<1>1. NoNode \notin Node
  BY SfsAssumption
<1>2. ASSUME NEW n \in Node
      PROVE  /\ Descriptors(U, n) = Descriptors(T, n)
             /\ n # a => CurDirs(U, n) = CurDirs(T, n)
  <2>1. ASSUME NEW h \in Table \X Fd
        PROVE  Uses(U[h[1]].fd_array[h[2]], n) <=> Uses(T[h[1]].fd_array[h[2]], n)
    <3>1. h[1] \in Table /\ h[2] \in Fd
      OBVIOUS
    <3> QED BY <3>1, Zenon
  <2>2. Descriptors(U, n) = Descriptors(T, n)
    BY <2>1 DEF Descriptors, Uses
  <2>3. n # a => CurDirs(U, n) = CurDirs(T, n)
    BY <1>1 DEF CurDirs
  <2> QED BY <2>2, <2>3
<1>3. CurDirs(U, a) = CurDirs(T, a) \cup {t} /\ t \notin CurDirs(T, a)
  BY <1>1 DEF CurDirs
<1>4. Opens(U) = Opens(T)
  BY <1>2 DEF Opens
<1>5. /\ Opens(T) \in Counts /\ Refs(T, P) \in Counts /\ Refs(U, P) \in Counts
      /\ \A n \in Node : /\ IsFiniteSet(CurDirs(T, n)) /\ Cardinality(CurDirs(T, n)) \in Nat
                         /\ Refs(T, P)[n] = Opens(T)[n] + Cardinality(CurDirs(T, n)) + P[n]
                         /\ Refs(U, P)[n] = Opens(U)[n] + Cardinality(CurDirs(U, n)) + P[n]
  BY HoldersFinite
<1>6. Cardinality(CurDirs(U, a)) = Cardinality(CurDirs(T, a)) + 1
  <2> DEFINE C == CurDirs(T, a)
  <2>1. IsFiniteSet(C) /\ t \notin C /\ CurDirs(U, a) = C \cup {t}
    BY <1>3, <1>5
  <2> HIDE DEF C
  <2>2. Cardinality(C \cup {t}) = Cardinality(C) + 1
    BY <2>1, FS_AddElement
  <2>3. Cardinality(CurDirs(U, a)) = Cardinality(C) + 1
    BY <2>1, <2>2, Zenon
  <2> QED BY <2>3 DEF C
<1>7. \A n \in Node : Opens(T)[n] \in Int /\ P[n] \in Int
  BY <1>5 DEF Counts
<1>8. /\ OneMore(Refs(T, P), a) \in Counts
      /\ \A n \in Node : OneMore(Refs(T, P), a)[n]
                            = IF n = a THEN Refs(T, P)[n] + 1 ELSE Refs(T, P)[n]
  BY <1>5, OneApart
<1>9. ASSUME NEW n \in Node
      PROVE  Refs(U, P)[n] = OneMore(Refs(T, P), a)[n]
  <2>1. CASE n = a
    <3>1. /\ Refs(T, P)[a] = Opens(T)[a] + Cardinality(CurDirs(T, a)) + P[a]
          /\ Refs(U, P)[a] = Opens(T)[a] + Cardinality(CurDirs(T, a)) + 1 + P[a]
          /\ Cardinality(CurDirs(T, a)) \in Nat
          /\ OneMore(Refs(T, P), a)[a] = Refs(T, P)[a] + 1
          /\ Opens(T)[a] \in Int /\ P[a] \in Int
      BY <1>4, <1>5, <1>6, <1>7, <1>8
    <3> QED BY <2>1, <3>1
  <2>2. CASE n # a
    BY <1>2, <1>4, <1>5, <1>7, <1>8, <2>2
  <2> QED BY <2>1, <2>2
<1>10. Refs(U, P) = OneMore(Refs(T, P), a)
  BY <1>5, <1>8, <1>9, SameCounts
<1> QED BY <1>4, <1>10

LEMMA DirGiven ==
    ASSUME NEW T, NEW U, NEW P \in [Node -> Nat], NEW t \in Table, NEW a \in Node,
           T[t].pwd = a, U[t].pwd = NoNode,
           \A u \in Table : u # t => U[u].pwd = T[u].pwd,
           \A u \in Table, e \in Fd, n \in Node :
                Uses(U[u].fd_array[e], n) <=> Uses(T[u].fd_array[e], n)
    PROVE  Opens(U) = Opens(T) /\ Refs(U, P) = OneLess(Refs(T, P), a)
<1>1. /\ \A u \in Table : u # t => T[u].pwd = U[u].pwd
      /\ \A u \in Table, e \in Fd, n \in Node :
            Uses(T[u].fd_array[e], n) <=> Uses(U[u].fd_array[e], n)
  OBVIOUS
<1>2. Opens(T) = Opens(U) /\ Refs(T, P) = OneMore(Refs(U, P), a)
  BY <1>1, DirTaken
<1> QED BY <1>2, HoldersFinite, MoreLess

(* A table whose directory it is has a reference to it, and a descriptor   *)
(* has one to its inode.                                                   *)
LEMMA DirHeld ==
    ASSUME NEW T, NEW P \in [Node -> Nat], NEW t \in Table, T[t].pwd \in Node
    PROVE  Opens(T)[T[t].pwd] < Refs(T, P)[T[t].pwd] /\ Refs(T, P)[T[t].pwd] > 0
<1> DEFINE n == T[t].pwd
           C == CurDirs(T, n)
<1>1. t \in C
  BY DEF CurDirs
<1>2. /\ IsFiniteSet(C) /\ Cardinality(C) \in Nat /\ Cardinality(Descriptors(T, n)) \in Nat
      /\ Opens(T)[n] = Cardinality(Descriptors(T, n))
      /\ Refs(T, P)[n] = Opens(T)[n] + Cardinality(C) + P[n]
  BY HoldersFinite
<1> HIDE DEF C
<1>3. Cardinality(C) # 0
  BY <1>1, <1>2, FS_EmptySet
<1> QED BY <1>2, <1>3

LEMMA FileHeld ==
    ASSUME NEW T, NEW P \in [Node -> Nat], NEW t \in Table, NEW d \in Fd, NEW n \in Node,
           Uses(T[t].fd_array[d], n)
    PROVE  Refs(T, P)[n] > 0 /\ Opens(T)[n] > 0
<1> DEFINE C == Descriptors(T, n)
<1>1. <<t, d>> \in C
  BY DEF Descriptors, Uses
<1>2. /\ IsFiniteSet(C) /\ Cardinality(C) \in Nat /\ Cardinality(CurDirs(T, n)) \in Nat
      /\ Opens(T)[n] = Cardinality(C)
      /\ Refs(T, P)[n] = Opens(T)[n] + Cardinality(CurDirs(T, n)) + P[n]
  BY HoldersFinite
<1> HIDE DEF C
<1>3. Cardinality(C) # 0
  BY <1>1, <1>2, FS_EmptySet
<1> QED BY <1>2, <1>3
-----------------------------------------------------------------------------
(* The inductive invariant.  Asleep counts the reads that sleep on every   *)
(* descriptor of t; besides the tables, an inode is held by the kernel for *)
(* good and by the opens refused with E_EXISTS.  A table nobody shares is  *)
(* an empty one.  Held says of the file system that the counts are these   *)
(* holders, that every block is free or named by one pointer, and that     *)
(* what is not dirty is on the disk.                                       *)
Asleep(fp, rd, t) == [d \in Fd |-> Cardinality({p \in Proc : fp[p] = t /\ rd[p] = d})]
Kept(l) == [n \in Node |-> Pinned[n] + l[n]]

TablesOK(tb) ==
    /\ TabShape(tb)
    /\ \A t \in Table : /\ tb[t].files_count \in Nat /\ tb[t].pwd \in Dir \cup {NoNode}
                        /\ tb[t].files_count = 0 => tb[t] = NoFiles
ProcsOK(fp, rd) ==
    /\ fp \in [Proc -> Table \cup {NoTable}]
    /\ rd \in [Proc -> Fd \cup {NO_FD}]
    /\ \A p \in Proc : rd[p] # NO_FD => fp[p] # NoTable

FilesInv ==
    /\ TablesOK(tab) /\ ProcsOK(filesp, reading)
    /\ lost \in [Node -> Nat] /\ orphaned \in [Table -> Nat]
    /\ TablesAreShared
    /\ \A t \in Table : FdOK(tab[t].fd_array, Asleep(filesp, reading, t))
    /\ Held(fs, Refs(tab, Kept(lost)), Opens(tab))

LEMMA KeptNat ==
    ASSUME NEW l \in [Node -> Nat]
    PROVE  /\ Kept(l) \in [Node -> Nat] /\ Kept(l)[Root] > 0
           /\ \A n \in Node : Kept(l)[n] >= l[n]
<1>1. Pinned \in [Node -> Nat] /\ Pinned[Root] = 2 /\ Root \in Node
  BY SfsAssumption DEF Pinned, Node, Ino
<1>2. \A n \in Node : Pinned[n] \in Nat /\ l[n] \in Nat /\ Pinned[n] + l[n] \in Nat
  BY <1>1
<1> QED BY <1>1, <1>2 DEF Kept

(* An open more is lost. *)
LEMMA LostMore ==
    ASSUME NEW l \in [Node -> Nat], NEW n \in Node, NEW T
    PROVE  /\ [l EXCEPT ![n] = @ + 1] \in [Node -> Nat]
           /\ Refs(T, Kept([l EXCEPT ![n] = @ + 1])) = OneMore(Refs(T, Kept(l)), n)
<1> DEFINE m == [l EXCEPT ![n] = @ + 1]
<1>1. m \in [Node -> Nat] /\ \A a \in Node : m[a] = IF a = n THEN l[a] + 1 ELSE l[a]
  OBVIOUS
<1> HIDE DEF m
<1>2. Pinned \in [Node -> Nat]
  BY DEF Pinned
<1>3. Kept(l) \in [Node -> Nat] /\ Kept(m) \in [Node -> Nat]
  BY <1>1, KeptNat
<1>4. ASSUME NEW a \in Node
      PROVE  Kept(m)[a] = IF a = n THEN Kept(l)[a] + 1 ELSE Kept(l)[a]
  <2>1. Pinned[a] \in Nat /\ l[a] \in Nat
    BY <1>2
  <2> QED BY <1>1, <2>1 DEF Kept
<1>5. /\ Refs(T, Kept(l)) \in Counts /\ Refs(T, Kept(m)) \in Counts /\ Opens(T) \in Counts
      /\ \A a \in Node :
            /\ Cardinality(CurDirs(T, a)) \in Nat
            /\ Refs(T, Kept(l))[a] = Opens(T)[a] + Cardinality(CurDirs(T, a)) + Kept(l)[a]
            /\ Refs(T, Kept(m))[a] = Opens(T)[a] + Cardinality(CurDirs(T, a)) + Kept(m)[a]
  BY <1>3, HoldersFinite
<1>6. /\ OneMore(Refs(T, Kept(l)), n) \in Counts
      /\ \A a \in Node : OneMore(Refs(T, Kept(l)), n)[a]
                            = IF a = n THEN Refs(T, Kept(l))[a] + 1 ELSE Refs(T, Kept(l))[a]
  BY <1>5, OneApart
<1>7. ASSUME NEW a \in Node
      PROVE  Refs(T, Kept(m))[a] = OneMore(Refs(T, Kept(l)), n)[a]
  <2>1. Opens(T)[a] \in Int /\ Kept(l)[a] \in Nat
    BY <1>3, <1>5 DEF Counts
  <2>2. CASE a = n
    BY <1>4, <1>5, <1>6, <2>1, <2>2
  <2>3. CASE a # n
    BY <1>4, <1>5, <1>6, <2>1, <2>3
  <2> QED BY <2>2, <2>3
<1>8. Refs(T, Kept(m)) = OneMore(Refs(T, Kept(l)), n)
  BY <1>5, <1>6, <1>7, SameCounts
<1> QED BY <1>1, <1>8 DEF m

(* A table that a process uses is in use.                                  *)
LEMMA InUse ==
    ASSUME FilesInv, NEW p \in Proc, filesp[p] \in Table
    PROVE  tab[filesp[p]].files_count > 0
<1> DEFINE S == {q \in Proc : filesp[q] = filesp[p]}
<1>1. p \in S /\ S \subseteq Proc
  OBVIOUS
<1>2. IsFiniteSet(S) /\ Cardinality(S) \in Nat
  BY <1>1, FilesAssumption, FS_Subset, FS_CardinalityType
<1>3. tab[filesp[p]].files_count = Cardinality(S) + orphaned[filesp[p]]
  BY DEF FilesInv, TablesAreShared
<1>4. orphaned[filesp[p]] \in Nat
  BY DEF FilesInv
<1> HIDE DEF S
<1>5. Cardinality(S) # 0
  BY <1>1, <1>2, FS_EmptySet
<1> QED BY <1>2, <1>3, <1>4, <1>5

LEMMA WithItself ==
    ASSUME NEW T, TabShape(T), NEW t \in Table
    PROVE  SameHolders(With(T, t, T[t].fd_array), T)
<1>1. \A u \in Table : /\ With(T, t, T[t].fd_array)[u].pwd = T[u].pwd
                       /\ With(T, t, T[t].fd_array)[u].fd_array = T[u].fd_array
  BY DEF With, TabShape
<1> QED BY <1>1 DEF SameHolders

LEMMA RootedAlways ==
    ASSUME NEW T, NEW t \in Table, NEW P \in [Node -> Nat], P[Root] > 0,
           T[t].pwd \in Dir \cup {NoNode}
    PROVE  Rooted(Refs(T, P), T[t].pwd)
<1>1. Root \in Node /\ Dir \subseteq Node
  BY SfsAssumption DEF Node, Ino
<1>2. Refs(T, P)[Root] > 0
  <2>1. /\ Opens(T)[Root] = Cardinality(Descriptors(T, Root))
        /\ Refs(T, P)[Root] = Opens(T)[Root] + Cardinality(CurDirs(T, Root)) + P[Root]
        /\ Cardinality(Descriptors(T, Root)) \in Nat /\ Cardinality(CurDirs(T, Root)) \in Nat
    BY <1>1, HoldersFinite
  <2>2. P[Root] \in Nat
    BY <1>1
  <2> QED BY <2>1, <2>2
<1>3. T[t].pwd # NoNode => Refs(T, P)[T[t].pwd] > 0
  BY <1>1, DirHeld
<1> QED BY <1>2, <1>3 DEF Rooted

(* What a system call starts with.                                         *)
Start(p) ==
    /\ TabShape(tab) /\ Kept(lost) \in [Node -> Nat]
    /\ PairOK(Both(p), tab, filesp[p], Kept(lost), Asleep(filesp, reading, filesp[p]))
    /\ Rooted(Refs(tab, Kept(lost)), Files(p).pwd)
    /\ Refs(With(tab, filesp[p], Files(p).fd_array), Kept(lost)) = Refs(tab, Kept(lost))
    /\ Opens(With(tab, filesp[p], Files(p).fd_array)) = Opens(tab)
    /\ tab[filesp[p]].files_count > 0

LEMMA Started ==
    ASSUME FilesInv, NEW p \in Proc, filesp[p] \in Table
    PROVE  Start(p)
<1> DEFINE t == filesp[p]
           P == Kept(lost)
<1>1. /\ TabShape(tab) /\ P \in [Node -> Nat] /\ P[Root] > 0
      /\ Files(p) = tab[t] /\ Files(p).pwd \in Dir \cup {NoNode}
      /\ Held(fs, Refs(tab, P), Opens(tab))
      /\ FdOK(tab[t].fd_array, Asleep(filesp, reading, t))
  BY KeptNat DEF FilesInv, TablesOK, Files
<1> HIDE DEF t, P
<1>2. t \in Table
  BY DEF t
<1>3. /\ Refs(With(tab, t, tab[t].fd_array), P) = Refs(tab, P)
      /\ Opens(With(tab, t, tab[t].fd_array)) = Opens(tab)
  BY <1>1, <1>2, WithItself, HoldersSame
<1>4. PairOK(Both(p), tab, t, P, Asleep(filesp, reading, t))
  BY <1>1, <1>3 DEF PairOK, Balanced, Both
<1>5. Rooted(Refs(tab, P), Files(p).pwd)
  BY <1>1, <1>2, RootedAlways
<1> QED BY <1>1, <1>3, <1>4, <1>5, InUse DEF t, P, Start

(* The array of one table is replaced. *)
LEMMA Replaced ==
    ASSUME FilesInv, NEW p \in Proc, filesp[p] \in Table, NEW k, Becomes(p, k),
           UNCHANGED <<filesp, orphaned>>, lost' \in [Node -> Nat], ProcsOK(filesp, reading'),
           FdOK(k.f, Asleep(filesp, reading', filesp[p])),
           \A u \in Table \ {filesp[p]} : Asleep(filesp, reading', u) = Asleep(filesp, reading, u),
           Held(k.s, Refs(With(tab, filesp[p], k.f), Kept(lost')), Opens(With(tab, filesp[p], k.f)))
    PROVE  FilesInv'
<1> DEFINE t == filesp[p]
<1>1. /\ tab' = With(tab, t, k.f) /\ fs' = k.s /\ TabShape(tab)
  BY DEF Becomes, With, FilesInv, TablesOK
<1>2. /\ TabShape(tab') /\ tab'[t].fd_array = k.f
      /\ \A u \in Table : /\ tab'[u].pwd = tab[u].pwd /\ tab'[u].files_count = tab[u].files_count
                          /\ u # t => tab'[u] = tab[u]
  BY <1>1 DEF With, TabShape
<1>3. TablesOK(tab')
  BY <1>2, InUse DEF TablesOK, FilesInv
<1>4. TablesAreShared'
  BY <1>2 DEF FilesInv, TablesAreShared
<1>5. \A u \in Table : FdOK(tab'[u].fd_array, Asleep(filesp', reading', u))
  <2> TAKE u \in Table
  <2>1. CASE u = t
    BY <1>2, <2>1
  <2>2. CASE u # t
    <3>1. FdOK(tab[u].fd_array, Asleep(filesp, reading, u))
      BY DEF FilesInv
    <3>2. Asleep(filesp, reading', u) = Asleep(filesp, reading, u)
      BY <2>2
    <3> QED BY <1>2, <2>2, <3>1, <3>2
  <2> QED BY <2>1, <2>2
<1>6. Held(fs', Refs(tab', Kept(lost')), Opens(tab'))
  BY <1>1
<1>7. ProcsOK(filesp', reading') /\ orphaned' \in [Table -> Nat]
  BY DEF FilesInv
<1> QED BY <1>3, <1>4, <1>5, <1>6, <1>7 DEF FilesInv

(* Only the file system changes, and none of the counts.                   *)
LEMMA FsHeld ==
    ASSUME FilesInv, UNCHANGED <<tab, filesp, reading, lost, orphaned>>,
           Held(fs', Refs(tab, Kept(lost)), Opens(tab))
    PROVE  FilesInv'
BY DEF FilesInv, TablesAreShared

LEMMA FsOnly ==
    ASSUME FilesInv, UNCHANGED <<tab, filesp, reading, lost, orphaned>>,
           CountsKept(fs, fs'), VolOK(fs')
    PROVE  FilesInv'
<1>1. Held(fs', Refs(tab, Kept(lost)), Opens(tab))
  BY KeptHeld DEF FilesInv
<1> QED BY <1>1, FsHeld

LEMMA FsHasShape ==
    ASSUME FilesInv
    PROVE  FsShape(fs) /\ VolOK(fs)
BY DEF FilesInv, Held, Tallied

(* The array of the caller's table is replaced, and no process goes to     *)
(* sleep or wakes up.                                                      *)
LEMMA Called ==
    ASSUME FilesInv, NEW p \in Proc, filesp[p] \in Table, NEW k, Becomes(p, k),
           UNCHANGED <<filesp, reading, lost, orphaned>>,
           PairOK(k, tab, filesp[p], Kept(lost), Asleep(filesp, reading, filesp[p]))
    PROVE  FilesInv'
<1>1. lost' \in [Node -> Nat] /\ ProcsOK(filesp, reading') /\ lost' = lost /\ reading' = reading
  BY DEF FilesInv
<1>2. /\ FdOK(k.f, Asleep(filesp, reading', filesp[p]))
      /\ Held(k.s, Refs(With(tab, filesp[p], k.f), Kept(lost')), Opens(With(tab, filesp[p], k.f)))
  BY <1>1 DEF PairOK, Balanced
<1> QED BY <1>1, <1>2, Replaced

LEMMA Runs ==
    ASSUME FilesInv, NEW p \in Proc, Running(p)
    PROVE  filesp[p] \in Table /\ reading[p] = NO_FD /\ fs.panic = "none"
BY DEF FilesInv, ProcsOK, Running

(* The file behind an open descriptor is in core, and somebody has it open.*)
LEMMA SlotInUse ==
    ASSUME FilesInv, NEW p \in Proc, Running(p), NEW d \in Fd, IsOpen(p, d),
           Files(p).fd_array[d].node \in File
    PROVE  InUseBy(fs, Files(p).fd_array[d].node)
<1> DEFINE n == Files(p).fd_array[d].node
           P == Kept(lost)
<1>1. filesp[p] \in Table /\ fs.panic = "none"
  BY Runs
<1>2. P \in [Node -> Nat]
  BY KeptNat DEF FilesInv
<1>3. n \in Ino /\ n \in Node /\ Uses(tab[filesp[p]].fd_array[d], n)
  BY DEF Node, Ino, Uses, IsOpen, Files
<1> HIDE DEF n, P
<1>4. Refs(tab, P)[n] > 0 /\ Opens(tab)[n] > 0
  BY <1>1, <1>2, <1>3, FileHeld
<1>5. fs.open = Opens(tab) /\ \A i \in Ino : (i \in fs.in_core) <=> (Refs(tab, P)[i] > 0)
  BY <1>1 DEF FilesInv, Held, Tallied, P
<1>6. InUseBy(fs, n)
  BY <1>3, <1>4, <1>5 DEF InUseBy
<1> QED BY <1>6 DEF n

LEMMA OpenFile ==
    ASSUME NEW T, TabShape(T), NEW t \in Table, NEW P \in [Node -> Nat], NEW N,
           NEW k, PairOK(k, T, t, P, N), {c \in Fd : k.f[c].status = "FD_NONE"} # {},
           NEW pwd, Rooted(Refs(With(T, t, k.f), P), pwd), NEW path, NEW flags
    PROVE  OpenedOK(Installed(vfs_open(k.s, pwd, path, flags), k.f,
                              Min({c \in Fd : k.f[c].status = "FD_NONE"}), flags),
                    T, t, P, N, flags, vfs_lookup(k.s, pwd, path))
<1> DEFINE S == {c \in Fd : k.f[c].status = "FD_NONE"}
<1>1. S \in SUBSET Nat
  BY DEF Fd
<1> HIDE DEF S
<1>2. Min(S) \in S
  BY <1>1, MinIsLeast DEF S
<1>3. Min(S) \in Fd /\ k.f[Min(S)].status = "FD_NONE"
  BY <1>2 DEF S
<1>4. Held(k.s, Refs(With(T, t, k.f), P), Opens(With(T, t, k.f))) /\ FdOK(k.f, N)
  BY DEF PairOK, Balanced
<1>5. OpenResult(vfs_open(k.s, pwd, path, flags), Refs(With(T, t, k.f), P),
                 Opens(With(T, t, k.f)), flags, vfs_lookup(k.s, pwd, path))
  BY <1>4, Open
<1> QED BY <1>3, <1>4, <1>5, InstalledOK DEF S

LEMMA StepOpen ==
    ASSUME FilesInv, NEW p \in Proc, NEW path, NEW flags, file_open(p, path, flags)
    PROVE  FilesInv'
<1> DEFINE t == filesp[p]
           P == Kept(lost)
           k == Both(p)
           N == Asleep(filesp, reading, t)
           r == OpenedFile(p, k, path, flags)
           found == vfs_lookup(fs, Files(p).pwd, path)
<1>1. /\ Running(p) /\ fd_array_alloc(p) # {}
      /\ Becomes(p, r)
      /\ r.ret = "E_EXISTS" => lost' = [lost EXCEPT ![found.node] = @ + 1]
      /\ r.ret # "E_EXISTS" => lost' = lost
      /\ UNCHANGED <<filesp, reading, orphaned>>
  BY DEF Calls, file_open
<1>2. t \in Table /\ Start(p)
  BY <1>1, Runs, Started
<1>3. k.s = fs /\ k.f = Files(p).fd_array
  BY DEF Both
<1>4. {c \in Fd : k.f[c].status = "FD_NONE"} # {}
  BY <1>1, <1>3 DEF fd_array_alloc
<1>5. OpenedOK(r, tab, t, P, N, flags, found)
  <2>1. /\ TabShape(tab) /\ P \in [Node -> Nat] /\ PairOK(k, tab, t, P, N)
        /\ Rooted(Refs(With(tab, t, k.f), P), Files(p).pwd)
    BY <1>2, <1>3 DEF Start
  <2> HIDE DEF k, P, N, t
  <2>2. OpenedOK(Installed(vfs_open(k.s, Files(p).pwd, path, flags), k.f,
                           Min({c \in Fd : k.f[c].status = "FD_NONE"}), flags),
                 tab, t, P, N, flags, vfs_lookup(k.s, Files(p).pwd, path))
    BY <1>2, <1>4, <2>1, OpenFile
  <2> QED BY <1>3, <2>2 DEF OpenedFile
<1> HIDE DEF r, found, k
<1>6. CASE r.ret = "E_EXISTS"
  <2>1. /\ found.node \in Node /\ FdOK(r.f, N)
        /\ Held(r.s, OneMore(Refs(With(tab, t, r.f), P), found.node), Opens(With(tab, t, r.f)))
    BY <1>5, <1>6 DEF OpenedOK
  <2>2. lost \in [Node -> Nat] /\ lost' = [lost EXCEPT ![found.node] = @ + 1]
    BY <1>1, <1>6 DEF FilesInv
  <2>3. /\ lost' \in [Node -> Nat]
        /\ Refs(With(tab, t, r.f), Kept(lost')) = OneMore(Refs(With(tab, t, r.f), P), found.node)
    BY <2>1, <2>2, LostMore
  <2>4. ProcsOK(filesp, reading') /\ reading' = reading
    BY <1>1 DEF FilesInv
  <2> QED BY <1>1, <1>2, <2>1, <2>3, <2>4, Replaced
<1>7. CASE r.ret # "E_EXISTS"
  <2>1. PairOK(r, tab, t, P, N)
    BY <1>5, <1>7 DEF OpenedOK
  <2> QED BY <1>1, <1>2, <1>7, <2>1, Called
<1> QED BY <1>6, <1>7

LEMMA StepClose ==
    ASSUME FilesInv, NEW p \in Proc, NEW d \in Fd, file_close(p, d)
    PROVE  FilesInv'
<1>1. /\ Running(p) /\ IsOpen(p, d) /\ Becomes(p, fd_array_close(Both(p), d))
      /\ UNCHANGED <<filesp, reading, lost, orphaned>>
  BY DEF Calls, file_close
<1>2. filesp[p] \in Table /\ Start(p)
  BY <1>1, Runs, Started
<1>3. Both(p).f[d].status = "FD_OPENED"
  BY <1>1 DEF Both, IsOpen
<1>4. PairOK(fd_array_close(Both(p), d), tab, filesp[p], Kept(lost), Asleep(filesp, reading, filesp[p]))
  BY <1>2, <1>3, CloseOK DEF Start
<1> QED BY <1>1, <1>2, <1>4, Called

(* A process falls asleep on a descriptor, and wakes up.                   *)
LEMMA FallsAsleep ==
    ASSUME NEW fp, NEW rd, ProcsOK(fp, rd), NEW p \in Proc, rd[p] = NO_FD, NEW d \in Fd,
           fp[p] \in Table, NEW re, re = Put(rd, p, d)
    PROVE  /\ ProcsOK(fp, re)
           /\ Asleep(fp, re, fp[p]) = Put(Asleep(fp, rd, fp[p]), d, Asleep(fp, rd, fp[p])[d] + 1)
           /\ \A u \in Table \ {fp[p]} : Asleep(fp, re, u) = Asleep(fp, rd, u)
<1> DEFINE S(r, u, e) == {q \in Proc : fp[q] = u /\ r[q] = e}
<1>1. NO_FD \notin Fd
  BY FilesAssumption DEF NO_FD, Fd
<1>2. /\ DOMAIN rd = Proc /\ re[p] = d /\ \A q \in Proc : q # p => re[q] = rd[q]
      /\ ProcsOK(fp, re)
  BY FilesAssumption DEF ProcsOK, Put
<1>3. \A u \in Table, e \in Fd : u # fp[p] \/ e # d => S(re, u, e) = S(rd, u, e)
  BY <1>1, <1>2
<1>4. S(re, fp[p], d) = S(rd, fp[p], d) \cup {p} /\ p \notin S(rd, fp[p], d)
  BY <1>1, <1>2
<1>5. IsFiniteSet(S(rd, fp[p], d))
  BY FilesAssumption, FS_Subset
<1>6. Cardinality(S(re, fp[p], d)) = Cardinality(S(rd, fp[p], d)) + 1
  BY <1>4, <1>5, FS_AddElement
<1>7. \A r, u : Asleep(fp, r, u) = [e \in Fd |-> Cardinality(S(r, u, e))]
  BY DEF Asleep
<1> HIDE DEF S
<1>8. Asleep(fp, re, fp[p]) = Put(Asleep(fp, rd, fp[p]), d, Asleep(fp, rd, fp[p])[d] + 1)
  <2> DEFINE A == [e \in Fd |-> Cardinality(S(rd, fp[p], e))]
             B == [e \in Fd |-> Cardinality(S(re, fp[p], e))]
  <2>1. \A e \in Fd : B[e] = IF e = d THEN A[d] + 1 ELSE A[e]
    BY <1>3, <1>6
  <2>2. DOMAIN A = Fd /\ B = [e \in Fd |-> B[e]]
    OBVIOUS
  <2>3. A = Asleep(fp, rd, fp[p]) /\ B = Asleep(fp, re, fp[p])
    BY <1>7
  <2> HIDE DEF A, B
  <2>4. B = [e \in Fd |-> IF e = d THEN A[d] + 1 ELSE A[e]]
    BY <2>1, <2>2
  <2> QED BY <2>2, <2>3, <2>4 DEF Put
<1>9. \A u \in Table \ {fp[p]} : Asleep(fp, re, u) = Asleep(fp, rd, u)
  BY <1>3, <1>7
<1> QED BY <1>2, <1>8, <1>9

LEMMA AsleepNat ==
    ASSUME NEW fp, NEW rd, NEW u
    PROVE  Asleep(fp, rd, u) \in [Fd -> Nat]
<1> DEFINE S(e) == {q \in Proc : fp[q] = u /\ rd[q] = e}
<1>1. \A e : S(e) \subseteq Proc
  OBVIOUS
<1>2. \A e : Cardinality(S(e)) \in Nat
  BY <1>1, FilesAssumption, FS_Subset, FS_CardinalityType
<1>3. Asleep(fp, rd, u) = [e \in Fd |-> Cardinality(S(e))]
  BY DEF Asleep
<1> HIDE DEF S
<1> QED BY <1>2, <1>3

LEMMA UpAndDown ==
    ASSUME NEW A \in [Fd -> Nat], NEW d \in Fd, NEW B, B = Put(A, d, A[d] + 1)
    PROVE  B[d] > 0 /\ A = Put(B, d, B[d] - 1)
<1>1. /\ DOMAIN B = Fd /\ B[d] = A[d] + 1 /\ A[d] \in Nat
      /\ \A e \in Fd : e # d => B[e] = A[e]
  BY DEF Put
<1>2. Put(B, d, B[d] - 1) = [e \in Fd |-> IF e = d THEN B[d] - 1 ELSE B[e]]
  BY <1>1 DEF Put
<1>3. A = [e \in Fd |-> A[e]]
  OBVIOUS
<1> QED BY <1>1, <1>2, <1>3

LEMMA WakesUp ==
    ASSUME NEW fp, NEW rd, ProcsOK(fp, rd), NEW p \in Proc, rd[p] # NO_FD,
           NEW re, re = Put(rd, p, NO_FD)
    PROVE  /\ rd[p] \in Fd /\ fp[p] \in Table /\ ProcsOK(fp, re)
           /\ Asleep(fp, rd, fp[p])[rd[p]] > 0
           /\ Asleep(fp, re, fp[p])
                = Put(Asleep(fp, rd, fp[p]), rd[p], Asleep(fp, rd, fp[p])[rd[p]] - 1)
           /\ \A u \in Table \ {fp[p]} : Asleep(fp, re, u) = Asleep(fp, rd, u)
<1> DEFINE d == rd[p]
<1>1. /\ d \in Fd /\ fp[p] \in Table /\ DOMAIN rd = Proc
      /\ re[p] = NO_FD /\ \A q \in Proc : q # p => re[q] = rd[q]
      /\ ProcsOK(fp, re)
  BY DEF ProcsOK, Put
<1>2. rd = Put(re, p, d)
  BY <1>1 DEF ProcsOK, Put
<1> HIDE DEF d
<1>3. /\ Asleep(fp, rd, fp[p]) = Put(Asleep(fp, re, fp[p]), d, Asleep(fp, re, fp[p])[d] + 1)
      /\ \A u \in Table \ {fp[p]} : Asleep(fp, rd, u) = Asleep(fp, re, u)
  BY <1>1, <1>2, FallsAsleep
<1>4. /\ Asleep(fp, rd, fp[p])[d] > 0
      /\ Asleep(fp, re, fp[p]) = Put(Asleep(fp, rd, fp[p]), d, Asleep(fp, rd, fp[p])[d] - 1)
  BY <1>1, <1>3, AsleepNat, UpAndDown
<1> QED BY <1>1, <1>3, <1>4 DEF d

(* A read of a file: the descriptor is acquired and released at once.      *)
LEMMA ReadFileOK ==
    ASSUME NEW T, TabShape(T), NEW t \in Table, NEW P \in [Node -> Nat], NEW N,
           NEW k, PairOK(k, T, t, P, N), NEW d \in Fd, k.f[d].status = "FD_OPENED",
           NEW c, NEW u, u = fd_array_acquire(k, d)
    PROVE  PairOK(fd_array_release([u EXCEPT !.s = Checked(@, c, "vop")], d), T, t, P, N)
<1> DEFINE file == k.f[d]
           more == [file EXCEPT !.open_count = @ + 1]
           g == [k.f EXCEPT ![d].open_count = @ + 1]
           s == Checked(k.s, c, "vop")
           q == [s |-> s, f |-> g]
<1>1. /\ DOMAIN k.f = Fd /\ N \in [Fd -> Nat] /\ \A e \in Fd : SlotOK(k.f[e], N[e])
  BY DEF PairOK, FdOK
<1>2. u = [s |-> k.s, f |-> g]
  BY DEF fd_array_acquire, Checked
<1>3. g = Put(k.f, d, more) /\ DOMAIN g = Fd /\ g[d] = more /\ \A e \in Fd : e # d => g[e] = k.f[e]
  BY <1>1 DEF Put
<1>4. N[d] \in Nat
  BY <1>1
<1>5. /\ more.status = file.status /\ more.node = file.node
      /\ more.open_count = file.open_count + 1 /\ SlotShape(more)
  BY <1>1 DEF SlotOK, SlotShape
<1>6. /\ more.open_count = N[d] + 1 + 1 /\ AsleepOn(more, N[d]) /\ more.status = "FD_OPENED"
  BY <1>1, <1>4, <1>5 DEF SlotOK, AsleepOn
<1>7. \A m \in Node : Uses(more, m) <=> Uses(file, m)
  BY <1>5 DEF Uses
<1> HIDE DEF g, more
<1>8. /\ Opens(With(T, t, g)) = Opens(With(T, t, k.f))
      /\ Refs(With(T, t, g), P) = Refs(With(T, t, k.f), P)
  BY <1>1, <1>3, <1>7, KeepSlot
<1>9. Held(k.s, Refs(With(T, t, k.f), P), Opens(With(T, t, k.f)))
  BY DEF PairOK, Balanced
<1>10. CountsKept(k.s, s) /\ VolOK(s)
  <2>1. FsShape(k.s) /\ VolOK(k.s)
    BY <1>9 DEF Held, Tallied
  <2> QED BY <2>1, CheckedKeeps, CheckedVolOK
<1>11. [u EXCEPT !.s = Checked(@, c, "vop")] = q
  BY <1>2
<1> HIDE DEF s
<1>12. Held(s, Refs(With(T, t, k.f), P), Opens(With(T, t, k.f)))
  BY <1>9, <1>10, KeptHeld
<1>13. Balanced(q, T, t, P)
  BY <1>8, <1>12 DEF Balanced
<1>14. fd_array_release(q, d) = Dropped(q, d)
  <2>1. [q EXCEPT !.s = Checked(@, q.f[d].status \in {"FD_OPENED", "FD_CLOSED"}, "file")] = q
    BY <1>3, <1>6 DEF Checked
  <2> QED BY <2>1 DEF fd_array_release
<1>15. /\ q.f = g /\ \A e \in Fd \ {d} : SlotOK(q.f[e], N[e])
  BY <1>1, <1>3
<1> HIDE DEF q
<1>16. PairOK(Dropped(q, d), T, t, P, N)
  BY <1>1, <1>3, <1>5, <1>6, <1>13, <1>15, DroppedOK
<1> QED BY <1>11, <1>14, <1>16

LEMMA StepRead ==
    ASSUME FilesInv, NEW p \in Proc, NEW d \in Fd, file_read(p, d)
    PROVE  FilesInv'
<1> DEFINE t == filesp[p]
           n == Files(p).fd_array[d].node
           u == fd_array_acquire(Both(p), d)
           P == Kept(lost)
           N == Asleep(filesp, reading, t)
<1>1. /\ Running(p) /\ IsOpen(p, d) /\ Files(p).fd_array[d].readable
      /\ n \in Dev => Becomes(p, u) /\ reading' = [reading EXCEPT ![p] = d]
      /\ n \notin Dev => /\ Becomes(p, fd_array_release([u EXCEPT !.s = Checked(@, n \in File, "vop")], d))
                         /\ reading' = reading
      /\ UNCHANGED <<filesp, lost, orphaned>>
  BY DEF Calls, file_read
<1>2. t \in Table /\ Start(p) /\ reading[p] = NO_FD
  BY <1>1, Runs, Started
<1>3. /\ TabShape(tab) /\ P \in [Node -> Nat] /\ PairOK(Both(p), tab, t, P, N)
  BY <1>2 DEF Start
<1>4. Both(p).f = Files(p).fd_array /\ Both(p).f[d].status = "FD_OPENED"
  BY <1>1 DEF Both, IsOpen
<1>5. CASE n \in Dev
  <2>1. n = "stdin"
    <3>1. SlotShape(Both(p).f[d])
      BY <1>3 DEF PairOK, FdOK, SlotOK
    <3> QED BY <1>1, <1>4, <1>5, <3>1 DEF SlotShape
  <2>2. PairOK(u, tab, t, P, [N EXCEPT ![d] = @ + 1])
    <3> HIDE DEF P, N, t
    <3> QED BY <1>2, <1>3, <1>4, <2>1, AcquireOK
  <2>3. ProcsOK(filesp, reading)
    BY DEF FilesInv
  <2>4. /\ ProcsOK(filesp, reading') /\ Asleep(filesp, reading', t) = Put(N, d, N[d] + 1)
        /\ \A v \in Table \ {t} : Asleep(filesp, reading', v) = Asleep(filesp, reading, v)
    <3>1. reading' = Put(reading, p, d)
      BY <1>1, <1>5 DEF Put
    <3> QED BY <1>2, <2>3, <3>1, FallsAsleep
  <2>5. lost' \in [Node -> Nat] /\ lost' = lost
    BY <1>1 DEF FilesInv
  <2>6. /\ FdOK(u.f, Asleep(filesp, reading', t))
        /\ Held(u.s, Refs(With(tab, t, u.f), Kept(lost')), Opens(With(tab, t, u.f)))
    BY <2>2, <2>4, <2>5 DEF PairOK, Balanced, Put
  <2> HIDE DEF u
  <2> QED BY <1>1, <1>2, <1>5, <2>4, <2>5, <2>6, Replaced
<1>6. CASE n \notin Dev
  <2> DEFINE r == fd_array_release([u EXCEPT !.s = Checked(@, n \in File, "vop")], d)
  <2>1. PairOK(r, tab, t, P, N)
    <3> HIDE DEF P, N, t
    <3> QED BY <1>2, <1>3, <1>4, ReadFileOK
  <2>2. Becomes(p, r) /\ UNCHANGED <<filesp, reading, lost, orphaned>>
    BY <1>1, <1>6
  <2> HIDE DEF r
  <2> QED BY <1>2, <2>1, <2>2, Called
<1> QED BY <1>5, <1>6

LEMMA StepReadReturns ==
    ASSUME FilesInv, NEW p \in Proc, file_read_returns(p)
    PROVE  FilesInv'
<1> DEFINE t == filesp[p]
           d == reading[p]
           k == Both(p)
           r == fd_array_release(k, d)
           P == Kept(lost)
           N == Asleep(filesp, reading, t)
<1>1. /\ d # NO_FD /\ Becomes(p, r) /\ reading' = [reading EXCEPT ![p] = NO_FD]
      /\ UNCHANGED <<filesp, lost, orphaned>>
  BY DEF file_read_returns
<1>2. ProcsOK(filesp, reading)
  BY DEF FilesInv
<1>3. /\ d \in Fd /\ t \in Table /\ N[d] > 0
      /\ ProcsOK(filesp, reading') /\ Asleep(filesp, reading', t) = Put(N, d, N[d] - 1)
      /\ \A v \in Table \ {t} : Asleep(filesp, reading', v) = Asleep(filesp, reading, v)
  <2>1. reading' = Put(reading, p, NO_FD)
    BY <1>1 DEF Put
  <2>2. reading[p] # NO_FD
    BY <1>1
  <2> QED BY <1>2, <2>1, <2>2, WakesUp
<1>4. Start(p)
  BY <1>3, Started
<1>5. /\ TabShape(tab) /\ P \in [Node -> Nat] /\ PairOK(k, tab, t, P, N) /\ DOMAIN k = {"s", "f"}
  BY <1>4 DEF Start, Both
<1>6. PairOK(r, tab, t, P, [N EXCEPT ![d] = @ - 1])
  <2> HIDE DEF P, N, t, d, k
  <2> QED BY <1>3, <1>5, ReleaseOK
<1>7. lost' \in [Node -> Nat] /\ lost' = lost
  BY <1>1 DEF FilesInv
<1>8. /\ FdOK(r.f, Asleep(filesp, reading', t))
      /\ Held(r.s, Refs(With(tab, t, r.f), Kept(lost')), Opens(With(tab, t, r.f)))
  BY <1>3, <1>6, <1>7 DEF PairOK, Balanced, Put
<1> HIDE DEF r
<1> QED BY <1>1, <1>3, <1>7, <1>8, Replaced

LEMMA StepWrite ==
    ASSUME FilesInv, NEW p \in Proc, NEW d \in Fd, file_write(p, d)
    PROVE  FilesInv'
<1> DEFINE file == Files(p).fd_array[d]
<1>1. /\ fs' = IF file.node \in File THEN sfs_io_nolock(fs, file.node, file.pos, TRUE) ELSE fs
      /\ UNCHANGED <<tab, filesp, reading, lost, orphaned>>
  BY DEF Calls, file_write
<1>2. /\ FsShape(fs) /\ VolOK(fs)
      /\ file.node \in File => InUseBy(fs, file.node)
  BY FsHasShape, SlotInUse DEF Calls, file_write
<1> HIDE DEF file
<1>3. CASE file.node \in File
  <2>1. /\ CountsKept(fs, sfs_io_nolock(fs, file.node, file.pos, TRUE))
        /\ VolOK(sfs_io_nolock(fs, file.node, file.pos, TRUE))
    BY <1>2, <1>3, WriteKeeps, WriteVolOK
  <2> QED BY <1>1, <1>3, <2>1, FsOnly
<1>4. CASE file.node \notin File
  <2>1. CountsKept(fs, fs)
    BY <1>2 DEF CountsKept
  <2> QED BY <1>1, <1>2, <1>4, <2>1, FsOnly
<1> QED BY <1>3, <1>4

LEMMA StepFsync ==
    ASSUME FilesInv, NEW p \in Proc, NEW d \in Fd, file_fsync(p, d)
    PROVE  FilesInv'
<1> DEFINE n == Files(p).fd_array[d].node
<1>1. /\ fs' = IF n \in Ino THEN sfs_fsync(fs, n) ELSE Checked(fs, FALSE, "vop")
      /\ UNCHANGED <<tab, filesp, reading, lost, orphaned>>
  BY DEF Calls, file_fsync
<1>2. FsShape(fs) /\ VolOK(fs)
  BY FsHasShape
<1> HIDE DEF n
<1>3. CountsKept(fs, sfs_fsync(fs, n)) /\ CountsKept(fs, Checked(fs, FALSE, "vop"))
  BY <1>2, FsyncKeeps, CheckedKeeps
<1>4. VolOK(sfs_fsync(fs, n)) /\ VolOK(Checked(fs, FALSE, "vop"))
  <2>1. Volume(fs) /\ OnDisk(fs) /\ SuperOnDisk(fs) /\ \A j \in fs.dirty \ {n} : InUseBy(fs, j)
    BY <1>2 DEF VolOK, Written
  <2> QED BY <1>2, <2>1, FsyncVolOK, CheckedVolOK
<1> QED BY <1>1, <1>3, <1>4, FsOnly

LEMMA StepGetdirentry ==
    ASSUME FilesInv, NEW p \in Proc, NEW d \in Fd, file_getdirentry(p, d)
    PROVE  FilesInv'
<1> DEFINE c == Files(p).fd_array[d].node \in Dir
<1>1. /\ fs' = Checked(fs, c, "vop")
      /\ UNCHANGED <<tab, filesp, reading, lost, orphaned>>
  BY DEF Calls, file_getdirentry
<1>2. CountsKept(fs, Checked(fs, c, "vop")) /\ VolOK(Checked(fs, c, "vop"))
  BY FsHasShape, CheckedKeeps, CheckedVolOK
<1> QED BY <1>1, <1>2, FsOnly

LEMMA StepCleanup ==
    ASSUME FilesInv, fs_cleanup
    PROVE  FilesInv'
<1>1. fs' = sfs_sync(fs) /\ UNCHANGED <<tab, filesp, reading, lost, orphaned>>
  BY DEF fs_cleanup
<1>2. CountsKept(fs, sfs_sync(fs)) /\ VolOK(sfs_sync(fs))
  BY FsHasShape, SyncKeeps, SyncVolOK
<1> QED BY <1>1, <1>2, FsOnly

(* The position of a descriptor is nobody's count.                         *)
LEMMA SeekOK ==
    ASSUME NEW T, TabShape(T), NEW t \in Table, NEW P \in [Node -> Nat], NEW N,
           NEW k, PairOK(k, T, t, P, N), NEW d \in Fd, NEW s, CountsKept(k.s, s), VolOK(s), NEW pos
    PROVE  /\ PairOK([s |-> s, f |-> k.f], T, t, P, N)
           /\ PairOK([s |-> s, f |-> [k.f EXCEPT ![d].pos = pos]], T, t, P, N)
<1> DEFINE file == k.f[d]
           moved == [file EXCEPT !.pos = pos]
           g == [k.f EXCEPT ![d].pos = pos]
<1>1. /\ DOMAIN k.f = Fd /\ N \in [Fd -> Nat] /\ \A e \in Fd : SlotOK(k.f[e], N[e])
      /\ Held(k.s, Refs(With(T, t, k.f), P), Opens(With(T, t, k.f)))
  BY DEF PairOK, FdOK, Balanced
<1>2. g = Put(k.f, d, moved) /\ DOMAIN g = Fd /\ g[d] = moved /\ \A e \in Fd : e # d => g[e] = k.f[e]
  BY <1>1 DEF Put
<1>3. /\ moved.status = file.status /\ moved.node = file.node
      /\ moved.open_count = file.open_count /\ moved.readable = file.readable
      /\ DOMAIN moved = DOMAIN file
  BY <1>1 DEF SlotOK, SlotShape
<1>4. SlotOK(file, N[d])
  BY <1>1
<1> HIDE DEF g, moved, file
<1>5. SlotOK(moved, N[d])
  BY <1>3, <1>4 DEF SlotOK, SlotShape, AsleepOn
<1>6. \A m \in Node : Uses(moved, m) <=> Uses(k.f[d], m)
  BY <1>3 DEF Uses, file
<1>7. /\ Opens(With(T, t, g)) = Opens(With(T, t, k.f))
      /\ Refs(With(T, t, g), P) = Refs(With(T, t, k.f), P)
  BY <1>1, <1>2, <1>6, KeepSlot
<1>8. Held(s, Refs(With(T, t, k.f), P), Opens(With(T, t, k.f)))
  BY <1>1, KeptHeld
<1>9. FdOK(g, N) /\ FdOK(k.f, N)
  BY <1>1, <1>2, <1>5 DEF FdOK
<1>10. PairOK([s |-> s, f |-> g], T, t, P, N) /\ PairOK([s |-> s, f |-> k.f], T, t, P, N)
  BY <1>7, <1>8, <1>9 DEF PairOK, Balanced
<1> QED BY <1>10 DEF g

LEMMA StepSeek ==
    ASSUME FilesInv, NEW p \in Proc, NEW d \in Fd, NEW pos, file_seek(p, d, pos)
    PROVE  FilesInv'
<1> DEFINE t == filesp[p]
           P == Kept(lost)
           N == Asleep(filesp, reading, t)
           n == Files(p).fd_array[d].node
           r == IF n \in File THEN sfs_tryseek(fs, n, pos)
                ELSE Fail(Checked(fs, n \in Dev, "vop"), "E_INVAL")
           f == Files(p).fd_array
           k == [s |-> r.s, f |-> IF r.ret # "ok" THEN f ELSE [f EXCEPT ![d].pos = pos]]
<1>1. Running(p) /\ Becomes(p, k) /\ UNCHANGED <<filesp, reading, lost, orphaned>>
  BY DEF Calls, file_seek
<1>2. t \in Table /\ Start(p)
  BY <1>1, Runs, Started
<1>3. /\ TabShape(tab) /\ P \in [Node -> Nat] /\ PairOK(Both(p), tab, t, P, N)
      /\ Both(p).s = fs /\ Both(p).f = f /\ FsShape(fs)
  BY <1>2, FsHasShape DEF Start, Both
<1>4. CountsKept(fs, r.s) /\ VolOK(r.s)
  <2>4. VolOK(fs) /\ (n \in File => InUseBy(fs, n))
    BY FsHasShape, SlotInUse DEF Calls, file_seek
  <2> HIDE DEF n
  <2>1. n \in File => /\ CountsKept(fs, sfs_tryseek(fs, n, pos).s)
                      /\ VolOK(sfs_tryseek(fs, n, pos).s)
    BY <1>3, <2>4, TryseekKeeps, TryseekVolOK
  <2>2. Fail(Checked(fs, n \in Dev, "vop"), "E_INVAL").s = Checked(fs, n \in Dev, "vop")
    BY DEF Fail
  <2>3. CountsKept(fs, Checked(fs, n \in Dev, "vop")) /\ VolOK(Checked(fs, n \in Dev, "vop"))
    BY <1>3, <2>4, CheckedKeeps, CheckedVolOK
  <2> QED BY <2>1, <2>2, <2>3
<1> HIDE DEF r
<1>5. /\ PairOK([s |-> r.s, f |-> f], tab, t, P, N)
      /\ PairOK([s |-> r.s, f |-> [f EXCEPT ![d].pos = pos]], tab, t, P, N)
  <2>1. CountsKept(Both(p).s, r.s) /\ VolOK(r.s)
    BY <1>3, <1>4
  <2>2. /\ PairOK([s |-> r.s, f |-> Both(p).f], tab, t, P, N)
        /\ PairOK([s |-> r.s, f |-> [Both(p).f EXCEPT ![d].pos = pos]], tab, t, P, N)
    <3> HIDE DEF P, N, t
    <3> QED BY <1>2, <1>3, <2>1, SeekOK
  <2> QED BY <1>3, <2>2
<1>6. PairOK(k, tab, t, P, N)
  <2>1. k = [s |-> r.s, f |-> f] \/ k = [s |-> r.s, f |-> [f EXCEPT ![d].pos = pos]]
    OBVIOUS
  <2> HIDE DEF k
  <2> QED BY <1>5, <2>1
<1> HIDE DEF k
<1> QED BY <1>1, <1>2, <1>6, Called

LEMMA StepDup ==
    ASSUME FilesInv, NEW p \in Proc, NEW fd1 \in Fd, NEW fd2 \in Fd \cup {NO_FD}, file_dup(p, fd1, fd2)
    PROVE  FilesInv'
<1> DEFINE t == filesp[p]
           P == Kept(lost)
           N == Asleep(filesp, reading, t)
           d == IF fd2 = NO_FD THEN Min(fd_array_alloc(p)) ELSE fd2
           from == Files(p).fd_array[fd1]
           k == fd_array_dup(Both(p), d, from)
<1>1. /\ Running(p) /\ IsOpen(p, fd1) /\ Becomes(p, k)
      /\ UNCHANGED <<filesp, reading, lost, orphaned>>
      /\ IF fd2 = NO_FD THEN fd_array_alloc(p) # {} ELSE fd2 \in fd_array_alloc(p)
  BY DEF Calls, file_dup
<1>2. t \in Table /\ Start(p)
  BY <1>1, Runs, Started
<1>3. /\ TabShape(tab) /\ P \in [Node -> Nat] /\ PairOK(Both(p), tab, t, P, N)
      /\ Refs(With(tab, t, Both(p).f), P) = Refs(tab, P)
      /\ Both(p).f = Files(p).fd_array /\ Files(p) = tab[t]
  BY <1>2 DEF Start, Both, Files
<1>4. d \in Fd /\ Both(p).f[d].status = "FD_NONE"
  <2> DEFINE S == fd_array_alloc(p)
  <2>1. S \in SUBSET Nat
    BY DEF fd_array_alloc, Fd
  <2> HIDE DEF S
  <2>2. fd2 = NO_FD => Min(S) \in S
    BY <1>1, <2>1, MinIsLeast DEF S
  <2>3. d \in S
    BY <1>1, <2>2 DEF S
  <2> QED BY <1>3, <2>3 DEF S, fd_array_alloc
<1>5. SlotShape(from) /\ from.status = "FD_OPENED" /\ from.node \in Node
  BY <1>1, <1>3 DEF PairOK, FdOK, SlotOK, SlotShape, IsOpen
<1>6. Refs(tab, P)[from.node] > 0
  <2>1. Uses(tab[t].fd_array[fd1], from.node)
    BY <1>3, <1>5 DEF Uses
  <2> QED BY <1>2, <1>3, <1>5, <2>1, FileHeld
<1>7. PairOK(k, tab, t, P, N)
  <2> HIDE DEF t, P, N, d, from
  <2> QED BY <1>2, <1>3, <1>4, <1>5, <1>6, DupOK
<1> HIDE DEF k
<1> QED BY <1>1, <1>2, <1>7, Called

(* sysfile_chdir.                                                          *)
Homed(T, t, a) == [T EXCEPT ![t].pwd = a]

LEMMA HomedApart ==
    ASSUME NEW T, TabShape(T), NEW t \in Table, NEW a
    PROVE  /\ TabShape(Homed(T, t, a)) /\ Homed(T, t, a)[t].pwd = a
           /\ \A u \in Table : /\ u # t => Homed(T, t, a)[u] = T[u]
                               /\ Homed(T, t, a)[u].fd_array = T[u].fd_array
                               /\ Homed(T, t, a)[u].files_count = T[u].files_count
BY DEF TabShape, Homed

LEMMA Rehomed ==
    ASSUME FilesInv, NEW p \in Proc, filesp[p] \in Table, NEW a \in Dir,
           tab' = Homed(tab, filesp[p], a), UNCHANGED <<filesp, reading, lost, orphaned>>,
           Held(fs', Refs(tab', Kept(lost)), Opens(tab'))
    PROVE  FilesInv'
<1>1. TabShape(tab)
  BY DEF FilesInv, TablesOK
<1>2. /\ TabShape(tab') /\ tab'[filesp[p]].pwd = a
      /\ \A u \in Table : /\ u # filesp[p] => tab'[u] = tab[u]
                          /\ tab'[u].fd_array = tab[u].fd_array
                          /\ tab'[u].files_count = tab[u].files_count
  BY <1>1, HomedApart
<1>3. TablesOK(tab')
  BY <1>2, InUse DEF TablesOK, FilesInv
<1>4. TablesAreShared'
  BY <1>2 DEF FilesInv, TablesAreShared
<1>5. \A u \in Table : FdOK(tab'[u].fd_array, Asleep(filesp, reading, u))
  BY <1>2 DEF FilesInv
<1> QED BY <1>3, <1>4, <1>5 DEF FilesInv

LEMMA TwoHomes ==
    ASSUME NEW B \in Counts, NEW n \in Node, NEW m \in Node
    PROVE  OneLess(OneMore(OneMore(OneMore(B, n), m), m), n) = OneMore(OneMore(B, m), m)
<1> DEFINE B1 == OneMore(B, n)
           B2 == OneMore(B1, m)
           B3 == OneMore(B2, m)
           B4 == OneLess(B3, n)
           C1 == OneMore(B, m)
           C2 == OneMore(C1, m)
<1>1. /\ B1 \in Counts
      /\ \A a \in Node : B1[a] = (IF a = n THEN B[a] + 1 ELSE B[a]) /\ B[a] \in Int
  BY OneApart
<1> HIDE DEF B1
<1>2. B2 \in Counts /\ \A a \in Node : B2[a] = IF a = m THEN B1[a] + 1 ELSE B1[a]
  BY <1>1, OneApart
<1> HIDE DEF B2
<1>3. B3 \in Counts /\ \A a \in Node : B3[a] = IF a = m THEN B2[a] + 1 ELSE B2[a]
  BY <1>2, OneApart
<1> HIDE DEF B3
<1>4. B4 \in Counts /\ \A a \in Node : B4[a] = IF a = n THEN B3[a] - 1 ELSE B3[a]
  BY <1>3, OneApart
<1>5. C1 \in Counts /\ \A a \in Node : C1[a] = IF a = m THEN B[a] + 1 ELSE B[a]
  BY OneApart
<1> HIDE DEF C1
<1>6. C2 \in Counts /\ \A a \in Node : C2[a] = IF a = m THEN C1[a] + 1 ELSE C1[a]
  BY <1>5, OneApart
<1> HIDE DEF B4, C2
<1>7. \A a \in Node : B4[a] = C2[a]
  BY <1>1, <1>2, <1>3, <1>4, <1>5, <1>6
<1>8. B4 = C2
  BY <1>4, <1>6, <1>7, SameCounts
<1> QED BY <1>8 DEF B1, B2, B3, B4, C1, C2

LEMMA SetCurdir ==
    ASSUME NEW T, TabShape(T), NEW t \in Table, NEW P \in [Node -> Nat], NEW a \in Dir,
           T[t].pwd \in Dir \cup {NoNode}, NEW s, Held(s, OneMore(Refs(T, P), a), Opens(T))
    PROVE  Held(vop_ref_dec(vfs_set_curdir(s, T[t].pwd, a), a),
                Refs(Homed(T, t, a), P), Opens(Homed(T, t, a)))
<1> DEFINE U == Homed(T, t, a)
           M == Homed(T, t, NoNode)
           R == Refs(T, P)
           O == Opens(T)
           old == T[t].pwd
<1>1. a \in Node /\ (old \in Dir => old \in Node) /\ NoNode \notin Dir
  BY SfsAssumption DEF Node, Ino
<1>2. /\ R \in Counts /\ O \in Counts
      /\ \A n \in Node : O[n] \in Nat /\ R[n] \in Int /\ O[n] <= R[n]
  BY HoldersFinite DEF Counts
<1>3. /\ TabShape(U) /\ U[t].pwd = a
      /\ TabShape(M) /\ M[t].pwd = NoNode
      /\ \A u \in Table : /\ u # t => U[u] = T[u] /\ M[u] = T[u]
                          /\ U[u].fd_array = T[u].fd_array /\ M[u].fd_array = T[u].fd_array
  BY HomedApart
<1> HIDE DEF U, M
<1>4. /\ OneMore(R, a) \in Counts /\ OneMore(OneMore(R, a), a) \in Counts
      /\ OneMore(R, a)[a] = R[a] + 1
      /\ OneMore(OneMore(R, a), a)[a] = R[a] + 1 + 1
      /\ \A n \in Node : OneMore(OneMore(R, a), a)[n] >= R[n]
      /\ OneLess(OneMore(R, a), a) = R
      /\ OneLess(OneMore(OneMore(R, a), a), a) = OneMore(R, a)
  BY <1>1, <1>2, OneApart, MoreLess
<1> HIDE DEF R, O
<1>5. Held(s, OneMore(R, a), O)
  BY DEF R, O
<1>6. Held(vop_ref_inc(s, a), OneMore(OneMore(R, a), a), O)
  BY <1>1, <1>2, <1>4, <1>5, RefInc
<1>7. CASE a = old
  <2>1. SameHolders(T, U)
    <3>1. \A u \in Table : U[u].pwd = T[u].pwd
      BY <1>3, <1>7
    <3> QED BY <1>3, <3>1 DEF SameHolders
  <2>2. Refs(U, P) = R /\ Opens(U) = O
    BY <2>1, HoldersSame DEF R, O
  <2>3. Held(vop_ref_dec(s, a), R, O)
    BY <1>1, <1>2, <1>4, <1>5, RefDec
  <2> QED BY <1>7, <2>2, <2>3 DEF vfs_set_curdir, U
<1>8. CASE a # old /\ old = NoNode
  <2>1. Opens(U) = O /\ Refs(U, P) = OneMore(R, a)
    BY <1>1, <1>3, <1>8, DirTaken DEF R, O
  <2>2. Held(vop_ref_dec(vop_ref_inc(s, a), a), OneMore(R, a), O)
    BY <1>1, <1>2, <1>4, <1>6, RefDec
  <2> QED BY <1>8, <2>1, <2>2 DEF vfs_set_curdir, U
<1>9. CASE a # old /\ old # NoNode
  <2> DEFINE B == Refs(M, P)
             X == OneMore(OneMore(B, a), a)
  <2>1. old \in Node
    BY <1>1, <1>9
  <2>2. Opens(M) = O /\ B = OneLess(R, old)
    BY <1>3, <2>1, DirGiven DEF R, O
  <2>3. /\ B \in Counts /\ \A n \in Node : O[n] <= B[n] /\ B[n] \in Int
    <3>1. Refs(M, P) \in Counts /\ \A n \in Node : Opens(M)[n] <= Refs(M, P)[n]
      BY HoldersFinite
    <3> QED BY <2>2, <3>1 DEF Counts
  <2>4. Opens(U) = O /\ Refs(U, P) = OneMore(B, a)
    <3>1. /\ M[t].pwd = NoNode /\ U[t].pwd = a
          /\ \A u \in Table : u # t => U[u].pwd = M[u].pwd
          /\ \A u \in Table, e \in Fd, n \in Node :
                Uses(U[u].fd_array[e], n) <=> Uses(M[u].fd_array[e], n)
      BY <1>3
    <3>2. Opens(U) = Opens(M) /\ Refs(U, P) = OneMore(Refs(M, P), a)
      BY <1>1, <3>1, DirTaken
    <3> QED BY <2>2, <3>2
  <2>5. OneMore(B, old) = R
    BY <1>2, <2>1, <2>2, MoreLess
  <2> HIDE DEF B
  <2>6. OneLess(OneMore(OneMore(R, a), a), old) = X
    BY <1>1, <2>1, <2>3, <2>5, TwoHomes
  <2>7. O[old] < OneMore(OneMore(R, a), a)[old]
    <3>1. R[old] = B[old] + 1
      BY <2>1, <2>3, <2>5, OneApart
    <3> QED BY <1>1, <1>2, <1>4, <2>1, <2>3, <3>1 DEF Counts
  <2>8. Held(vop_ref_dec(vop_ref_inc(s, a), old), X, O)
    BY <1>6, <2>1, <2>6, <2>7, RefDec
  <2>9. /\ OneMore(B, a) \in Counts /\ X \in Counts /\ OneLess(X, a) = OneMore(B, a)
        /\ X[a] = B[a] + 1 + 1
    BY <1>1, <2>3, OneApart, MoreLess
  <2> HIDE DEF X
  <2>10. O[a] < X[a]
    BY <1>1, <1>2, <2>3, <2>9
  <2>11. Held(vop_ref_dec(vop_ref_dec(vop_ref_inc(s, a), old), a), OneMore(B, a), O)
    BY <1>1, <2>8, <2>9, <2>10, RefDec
  <2> QED BY <1>9, <2>4, <2>11 DEF vfs_set_curdir, U
<1> QED BY <1>7, <1>8, <1>9

LEMMA StepChdir ==
    ASSUME FilesInv, NEW p \in Proc, NEW path, sysfile_chdir(p, path)
    PROVE  FilesInv'
<1> DEFINE t == filesp[p]
           P == Kept(lost)
           R == Refs(tab, P)
           O == Opens(tab)
           found == vfs_lookup(fs, Files(p).pwd, path)
           n == found.node
<1>1. /\ Running(p) /\ UNCHANGED <<filesp, reading, lost, orphaned>>
      /\ found.ret # "ok" => fs' = found.s /\ tab' = tab
      /\ found.ret = "ok" /\ n \notin Dir => fs' = vop_ref_dec(found.s, n) /\ tab' = tab
      /\ found.ret = "ok" /\ n \in Dir =>
            /\ fs' = vop_ref_dec(vfs_set_curdir(found.s, Files(p).pwd, n), n)
            /\ tab' = Homed(tab, t, n)
  BY DEF Calls, sysfile_chdir, Homed
<1>2. t \in Table /\ Start(p)
  BY <1>1, Runs, Started
<1>3. /\ TabShape(tab) /\ P \in [Node -> Nat] /\ Rooted(R, Files(p).pwd)
      /\ Held(fs, R, O) /\ Files(p) = tab[t] /\ tab[t].pwd \in Dir \cup {NoNode}
  BY <1>2 DEF Start, Files, FilesInv, TablesOK
<1> HIDE DEF R, O
<1>4. Found(found, R, O)
  BY <1>3, Lookup
<1> HIDE DEF found
<1>5. CASE found.ret # "ok"
  <2>1. Held(fs', R, O)
    BY <1>1, <1>4, <1>5 DEF Found
  <2> QED BY <1>1, <1>5, <2>1, FsHeld DEF R, O
<1>6. CASE found.ret = "ok"
  <2>1. n \in Node /\ Held(found.s, OneMore(R, n), O)
    BY <1>4, <1>6 DEF Found
  <2>2. CASE n \notin Dir
    <3>1. O[n] < OneMore(R, n)[n] /\ R \in Counts
      BY <1>3, <2>1, HeldMore
    <3>2. Held(vop_ref_dec(found.s, n), OneLess(OneMore(R, n), n), O)
      BY <2>1, <3>1, RefDec
    <3>3. OneLess(OneMore(R, n), n) = R
      BY <2>1, <3>1, MoreLess
    <3> QED BY <1>1, <1>6, <2>2, <3>2, <3>3, FsHeld DEF R, O
  <2>3. CASE n \in Dir
    <3>1. Held(vop_ref_dec(vfs_set_curdir(found.s, tab[t].pwd, n), n),
               Refs(Homed(tab, t, n), P), Opens(Homed(tab, t, n)))
      BY <1>2, <1>3, <2>1, <2>3, SetCurdir DEF R, O
    <3>2. Held(fs', Refs(tab', P), Opens(tab'))
      BY <1>1, <1>3, <1>6, <2>3, <3>1
    <3> QED BY <1>1, <1>2, <1>6, <2>3, <3>2, Rehomed
  <2> QED BY <2>2, <2>3
<1> QED BY <1>5, <1>6
-----------------------------------------------------------------------------
(* Processes: one joins a table, and one leaves it.                        *)
Users(fp, u) == {p \in Proc : fp[p] = u}

LEMMA UsersFinite ==
    ASSUME NEW fp, NEW u
    PROVE  IsFiniteSet(Users(fp, u)) /\ Cardinality(Users(fp, u)) \in Nat
BY FilesAssumption, FS_Subset, FS_CardinalityType DEF Users

LEMMA Joins ==
    ASSUME NEW fp, NEW rd, ProcsOK(fp, rd), NEW q \in Proc, fp[q] = NoTable, NEW t \in Table,
           NEW fq, fq = Put(fp, q, t)
    PROVE  /\ ProcsOK(fq, rd) /\ rd[q] = NO_FD
           /\ \A u \in Table : Asleep(fq, rd, u) = Asleep(fp, rd, u)
           /\ Cardinality(Users(fq, t)) = Cardinality(Users(fp, t)) + 1
           /\ \A u \in Table : u # t => Users(fq, u) = Users(fp, u)
<1>1. NO_FD \notin Fd /\ NoTable \notin Table
  BY FilesAssumption DEF NO_FD, Fd
<1>2. /\ DOMAIN fp = Proc /\ fq[q] = t /\ \A p \in Proc : p # q => fq[p] = fp[p]
      /\ ProcsOK(fq, rd) /\ rd[q] = NO_FD
  BY <1>1 DEF ProcsOK, Put
<1>3. ASSUME NEW u \in Table
      PROVE  Asleep(fq, rd, u) = Asleep(fp, rd, u)
  <2> DEFINE S(f, d) == {p \in Proc : f[p] = u /\ rd[p] = d}
  <2>1. \A d \in Fd : S(fq, d) = S(fp, d)
    BY <1>1, <1>2
  <2>2. \A f : Asleep(f, rd, u) = [d \in Fd |-> Cardinality(S(f, d))]
    BY DEF Asleep
  <2> HIDE DEF S
  <2> QED BY <2>1, <2>2
<1>4. Users(fq, t) = Users(fp, t) \cup {q} /\ q \notin Users(fp, t)
  BY <1>1, <1>2 DEF Users
<1>5. Cardinality(Users(fq, t)) = Cardinality(Users(fp, t)) + 1
  BY <1>4, UsersFinite, FS_AddElement
<1>6. \A u \in Table : u # t => Users(fq, u) = Users(fp, u)
  BY <1>1, <1>2 DEF Users
<1> QED BY <1>2, <1>3, <1>5, <1>6

LEMMA Leaves ==
    ASSUME NEW fp, NEW rd, ProcsOK(fp, rd), NEW p \in Proc, NEW t \in Table, fp[p] = t,
           rd[p] = NO_FD, NEW fq, fq = Put(fp, p, NoTable)
    PROVE  /\ ProcsOK(fq, rd)
           /\ \A u \in Table : Asleep(fq, rd, u) = Asleep(fp, rd, u)
           /\ Cardinality(Users(fp, t)) = Cardinality(Users(fq, t)) + 1
           /\ \A u \in Table : u # t => Users(fq, u) = Users(fp, u)
<1>1. ProcsOK(fq, rd) /\ fq[p] = NoTable /\ fp = Put(fq, p, t)
  BY DEF ProcsOK, Put
<1> QED BY <1>1, Joins

LEMMA Deserted ==
    ASSUME NEW fp, NEW rd, NEW t, Cardinality(Users(fp, t)) = 0
    PROVE  Asleep(fp, rd, t) = [d \in Fd |-> 0]
<1>1. Users(fp, t) = {}
  BY UsersFinite, FS_EmptySet
<1>2. \A d \in Fd : {p \in Proc : fp[p] = t /\ rd[p] = d} = {}
  BY <1>1 DEF Users
<1>3. Cardinality({}) = 0
  BY FS_EmptySet
<1> QED BY <1>2, <1>3 DEF Asleep

LEMMA UsersCounted ==
    ASSUME FilesInv, NEW t \in Table
    PROVE  /\ tab[t].files_count = Cardinality(Users(filesp, t)) + orphaned[t]
           /\ orphaned[t] \in Nat /\ tab[t].files_count \in Nat
BY DEF FilesInv, TablesAreShared, Users, TablesOK

LEMMA FreshFiles ==
    ASSUME NEW N, N = [d \in Fd |-> 0]
    PROVE  /\ FdOK(NoFiles.fd_array, N) /\ NoFiles.files_count = 0 /\ NoFiles.pwd = NoNode
           /\ DOMAIN NoFiles = {"files_count", "pwd", "fd_array"}
           /\ \A d \in Fd, n \in Node : ~ Uses(NoFiles.fd_array[d], n)
<1>1. SlotOK(Unused, 0) /\ Unused.status = "FD_NONE"
  BY DEF Unused, SlotOK, SlotShape, AsleepOn
<1>2. NoFiles.fd_array = [d \in Fd |-> Unused]
  BY DEF NoFiles
<1>3. NoFiles.files_count = 0 /\ NoFiles.pwd = NoNode /\ DOMAIN NoFiles = {"files_count", "pwd", "fd_array"}
  BY DEF NoFiles
<1>4. \A d \in Fd, n \in Node : ~ Uses(NoFiles.fd_array[d], n)
  BY <1>1, <1>2 DEF Uses
<1>5. FdOK(NoFiles.fd_array, N)
  BY <1>1, <1>2 DEF FdOK
<1> QED BY <1>3, <1>4, <1>5

(* The tables and the processes that use them change.                      *)
LEMMA NewTables ==
    ASSUME FilesInv, TablesOK(tab'), ProcsOK(filesp', reading'), UNCHANGED lost,
           orphaned' \in [Table -> Nat],
           \A t \in Table : /\ tab'[t].files_count = Cardinality(Users(filesp', t)) + orphaned'[t]
                            /\ FdOK(tab'[t].fd_array, Asleep(filesp', reading', t)),
           Held(fs', Refs(tab', Kept(lost)), Opens(tab'))
    PROVE  FilesInv'
BY DEF FilesInv, TablesAreShared, Users

(* copy_files that shares the table, and copy_files that copies it.        *)
LEMMA StepShare ==
    ASSUME FilesInv, NEW p \in Proc, NEW q \in Proc, Running(p), filesp[q] = NoTable,
           tab' = [tab EXCEPT ![filesp[p]] = Shared(@)],
           filesp' = Put(filesp, q, filesp[p]), UNCHANGED <<fs, reading, lost, orphaned>>
    PROVE  FilesInv'
<1> DEFINE t == filesp[p]
<1>1. t \in Table /\ TablesOK(tab) /\ TabShape(tab) /\ ProcsOK(filesp, reading)
  BY Runs DEF FilesInv, TablesOK
<1>2. filesp' = Put(filesp, q, t)
  OBVIOUS
<1> HIDE DEF t
<1>3. /\ ProcsOK(filesp', reading)
      /\ \A u \in Table : Asleep(filesp', reading, u) = Asleep(filesp, reading, u)
      /\ Cardinality(Users(filesp', t)) = Cardinality(Users(filesp, t)) + 1
      /\ \A u \in Table : u # t => Users(filesp', u) = Users(filesp, u)
  BY <1>1, <1>2, Joins
<1>4. /\ TabShape(tab') /\ tab'[t].files_count = tab[t].files_count + 1
      /\ \A u \in Table : /\ u # t => tab'[u] = tab[u]
                          /\ tab'[u].pwd = tab[u].pwd /\ tab'[u].fd_array = tab[u].fd_array
  BY <1>1 DEF Shared, TabShape, t
<1>5. TablesOK(tab')
  <2>1. tab[t].files_count \in Nat /\ tab'[t].files_count # 0
    BY <1>1, <1>4 DEF TablesOK
  <2> QED BY <1>1, <1>4, <2>1 DEF TablesOK
<1>6. \A u \in Table : tab'[u].files_count = Cardinality(Users(filesp', u)) + orphaned[u]
  <2> TAKE u \in Table
  <2>1. /\ tab[u].files_count = Cardinality(Users(filesp, u)) + orphaned[u] /\ orphaned[u] \in Nat
        /\ Cardinality(Users(filesp, u)) \in Nat
    BY UsersCounted, UsersFinite
  <2>2. CASE u = t
    BY <1>3, <1>4, <2>1, <2>2
  <2>3. CASE u # t
    BY <1>3, <1>4, <2>1, <2>3
  <2> QED BY <2>2, <2>3
<1>7. \A u \in Table : FdOK(tab'[u].fd_array, Asleep(filesp', reading, u))
  BY <1>3, <1>4 DEF FilesInv
<1>8. Held(fs, Refs(tab', Kept(lost)), Opens(tab'))
  <2>1. SameHolders(tab, tab')
    BY <1>4 DEF SameHolders
  <2>2. Kept(lost) \in [Node -> Nat] /\ Held(fs, Refs(tab, Kept(lost)), Opens(tab))
    BY KeptNat DEF FilesInv
  <2> QED BY <2>1, <2>2, HoldersSame
<1>9. orphaned' \in [Table -> Nat] /\ orphaned' = orphaned /\ reading' = reading /\ lost' = lost /\ fs' = fs
  BY DEF FilesInv
<1> QED BY <1>3, <1>5, <1>6, <1>7, <1>8, <1>9, NewTables

(* The counts of the copy of `from' that takes the place of an empty table.*)
LEMMA CopyOK ==
    ASSUME NEW T, TabShape(T), NEW t \in Table, NEW v \in Table, v # t, T[v] = NoFiles,
           NEW P \in [Node -> Nat], NEW N, N = [d \in Fd |-> 0], T[t].pwd \in Dir \cup {NoNode},
           \A d \in Fd : SlotShape(T[t].fd_array[d]),
           NEW s, Held(s, Refs(T, P), Opens(T)),
           NEW U, U[v].pwd = T[t].pwd, U[v].fd_array = dup_files(s, T[t]).f,
           \A u \in Table : u # v => U[u] = T[u]
    PROVE  /\ FdOK(dup_files(s, T[t]).f, N)
           /\ Held(dup_files(s, T[t]).s, Refs(U, P), Opens(U))
<1> DEFINE from == T[t]
           W == Homed(T, v, from.pwd)
           s1 == IF from.pwd = NoNode THEN s ELSE vop_ref_inc(s, from.pwd)
           k == dup_files(s, from)
<1>1. /\ FdOK(NoFiles.fd_array, N) /\ T[v].pwd = NoNode /\ T[v].fd_array = NoFiles.fd_array
  BY FreshFiles
<1>2. /\ TabShape(W) /\ W[v].pwd = from.pwd
      /\ \A u \in Table : /\ u # v => W[u] = T[u]
                          /\ W[u].fd_array = T[u].fd_array
  BY HomedApart
<1> HIDE DEF W
<1>3. Held(s1, Refs(W, P), Opens(W))
  <2>1. CASE from.pwd = NoNode
    <3>1. SameHolders(T, W)
      <4>1. \A u \in Table : W[u].pwd = T[u].pwd
        BY <1>1, <1>2, <2>1
      <4> QED BY <1>2, <4>1 DEF SameHolders
    <3>2. Refs(W, P) = Refs(T, P) /\ Opens(W) = Opens(T)
      BY <3>1, HoldersSame
    <3> QED BY <2>1, <3>2
  <2>2. CASE from.pwd # NoNode
    <3>1. from.pwd \in Node
      BY <2>2 DEF Node, Ino
    <3>2. Refs(T, P)[from.pwd] > 0
      BY <3>1, DirHeld
    <3>3. Held(vop_ref_inc(s, from.pwd), OneMore(Refs(T, P), from.pwd), Opens(T))
      BY <3>1, <3>2, RefInc
    <3>4. /\ \A u \in Table : u # v => W[u].pwd = T[u].pwd
          /\ \A u \in Table, e \in Fd, n \in Node :
                Uses(W[u].fd_array[e], n) <=> Uses(T[u].fd_array[e], n)
      BY <1>2
    <3>6. T[v].pwd = NoNode /\ W[v].pwd = from.pwd
      BY <1>1, <1>2
    <3>5. Opens(W) = Opens(T) /\ Refs(W, P) = OneMore(Refs(T, P), from.pwd)
      <4> HIDE DEF from
      <4> QED BY <3>1, <3>4, <3>6, DirTaken
    <3> QED BY <2>2, <3>3, <3>5
  <2> QED BY <2>1, <2>2
<1>4. PairOK([s |-> s1, f |-> NoFiles.fd_array], W, v, P, N)
  <2>1. SameHolders(With(W, v, W[v].fd_array), W)
    BY <1>2, WithItself
  <2>2. W[v].fd_array = NoFiles.fd_array
    BY <1>1, <1>2
  <2>3. /\ Refs(W, P) = Refs(With(W, v, NoFiles.fd_array), P)
        /\ Opens(W) = Opens(With(W, v, NoFiles.fd_array))
    BY <2>1, <2>2, HoldersSame
  <2> HIDE DEF s1
  <2> QED BY <1>1, <1>3, <2>3 DEF PairOK, Balanced
<1>5. ASSUME NEW f, NEW d \in Fd, from.fd_array[d].status = "FD_OPENED"
      PROVE  Refs(With(W, v, f), P)[from.fd_array[d].node] > 0
  <2>1. With(W, v, f)[t].fd_array = from.fd_array
    BY <1>2 DEF With, TabShape
  <2>2. from.fd_array[d].node \in Node
    BY <1>5 DEF SlotShape
  <2>3. Uses(With(W, v, f)[t].fd_array[d], from.fd_array[d].node)
    BY <1>5, <2>1 DEF Uses
  <2> QED BY <2>2, <2>3, FileHeld
<1>6. PairOK(k, W, v, P, N)
  <2>1. \A d \in Fd : SlotShape(from.fd_array[d])
    OBVIOUS
  <2> HIDE DEF from
  <2> QED BY <1>2, <1>4, <1>5, <2>1, DupFilesOK
<1>7. SameHolders(With(W, v, k.f), U)
  <2> HIDE DEF k
  <2>1. \A u \in Table : /\ With(W, v, k.f)[u].pwd = U[u].pwd
                         /\ With(W, v, k.f)[u].fd_array = U[u].fd_array
    BY <1>2 DEF With, TabShape, k
  <2> QED BY <2>1 DEF SameHolders
<1>8. Refs(U, P) = Refs(With(W, v, k.f), P) /\ Opens(U) = Opens(With(W, v, k.f))
  BY <1>7, HoldersSame
<1> HIDE DEF k
<1>9. FdOK(k.f, N) /\ Held(k.s, Refs(U, P), Opens(U))
  BY <1>6, <1>8 DEF PairOK, Balanced
<1> QED BY <1>9 DEF k

LEMMA StepCopy ==
    ASSUME FilesInv, NEW p \in Proc, NEW q \in Proc, NEW v \in Table, NEW k,
           Running(p), filesp[q] = NoTable, k = dup_files(fs, Files(p)),
           tab[v].files_count = 0, fs' = k.s,
           tab' = Put(tab, v, [files_count |-> 1, pwd |-> Files(p).pwd, fd_array |-> k.f]),
           filesp' = Put(filesp, q, v), UNCHANGED <<reading, lost, orphaned>>
    PROVE  FilesInv'
<1> DEFINE t == filesp[p]
           P == Kept(lost)
<1>1. /\ t \in Table /\ TablesOK(tab) /\ TabShape(tab) /\ ProcsOK(filesp, reading)
      /\ tab[t].files_count > 0 /\ P \in [Node -> Nat]
      /\ Held(fs, Refs(tab, P), Opens(tab))
  BY Runs, InUse, KeptNat DEF FilesInv, TablesOK
<1>2. filesp' = Put(filesp, q, v)
  OBVIOUS
<1>3. Files(p) = tab[t]
  BY DEF Files
<1> HIDE DEF t, P
<1>4. /\ ProcsOK(filesp', reading)
      /\ \A u \in Table : Asleep(filesp', reading, u) = Asleep(filesp, reading, u)
      /\ Cardinality(Users(filesp', v)) = Cardinality(Users(filesp, v)) + 1
      /\ \A u \in Table : u # v => Users(filesp', u) = Users(filesp, u)
  BY <1>1, <1>2, Joins
<1>5. /\ TabShape(tab') /\ tab'[v].files_count = 1 /\ tab'[v].pwd = tab[t].pwd
      /\ tab'[v].fd_array = k.f
      /\ \A u \in Table : u # v => tab'[u] = tab[u]
  BY <1>1, <1>3 DEF TabShape, Put
<1>6. TablesOK(tab')
  BY <1>1, <1>5 DEF TablesOK
<1>7. Cardinality(Users(filesp, v)) = 0 /\ orphaned[v] = 0
  BY UsersCounted, UsersFinite
<1>8. Asleep(filesp, reading, v) = [d \in Fd |-> 0]
  BY <1>7, Deserted
<1>9. \A u \in Table : tab'[u].files_count = Cardinality(Users(filesp', u)) + orphaned[u]
  <2> TAKE u \in Table
  <2>1. tab[u].files_count = Cardinality(Users(filesp, u)) + orphaned[u]
    BY UsersCounted
  <2>2. CASE u = v
    BY <1>4, <1>5, <1>7, <2>2
  <2>3. CASE u # v
    BY <1>4, <1>5, <2>1, <2>3
  <2> QED BY <2>2, <2>3
<1>10. /\ FdOK(k.f, Asleep(filesp, reading, v))
       /\ Held(k.s, Refs(tab', P), Opens(tab'))
  <2>1. v # t /\ tab[v] = NoFiles /\ tab[t].pwd \in Dir \cup {NoNode}
    BY <1>1 DEF TablesOK
  <2>2. \A d \in Fd : SlotShape(tab[t].fd_array[d])
    BY <1>1 DEF FilesInv, FdOK, SlotOK
  <2>3. k = dup_files(fs, tab[t])
    BY <1>3
  <2>4. /\ tab'[v].pwd = tab[t].pwd /\ tab'[v].fd_array = dup_files(fs, tab[t]).f
        /\ \A u \in Table : u # v => tab'[u] = tab[u]
    BY <1>5, <2>3
  <2>5. /\ FdOK(dup_files(fs, tab[t]).f, Asleep(filesp, reading, v))
        /\ Held(dup_files(fs, tab[t]).s, Refs(tab', P), Opens(tab'))
    BY <1>1, <1>8, <2>1, <2>2, <2>4, CopyOK
  <2> QED BY <2>3, <2>5
<1>11. \A u \in Table : FdOK(tab'[u].fd_array, Asleep(filesp', reading, u))
  <2> TAKE u \in Table
  <2>1. CASE u = v
    BY <1>4, <1>5, <1>10, <2>1
  <2>2. CASE u # v
    BY <1>4, <1>5, <2>2 DEF FilesInv
  <2> QED BY <2>1, <2>2
<1>12. orphaned' \in [Table -> Nat] /\ orphaned' = orphaned /\ reading' = reading /\ lost' = lost
  BY DEF FilesInv
<1> QED BY <1>4, <1>6, <1>9, <1>10, <1>11, <1>12, NewTables DEF P

LEMMA StepFork ==
    ASSUME FilesInv, NEW p \in Proc, NEW q \in Proc, NEW clone_fs, copy_files(p, q, clone_fs)
    PROVE  FilesInv'
<1>1. Running(p) /\ filesp[q] = NoTable /\ UNCHANGED <<reading, lost, orphaned>>
  BY DEF Calls, copy_files
<1>2. CASE clone_fs
  <2>1. /\ tab' = [tab EXCEPT ![filesp[p]] = Shared(@)]
        /\ filesp' = Put(filesp, q, filesp[p]) /\ UNCHANGED fs
    BY <1>2 DEF Calls, copy_files, Put
  <2> QED BY <1>1, <2>1, StepShare
<1>3. CASE ~ clone_fs
  <2> DEFINE k == dup_files(fs, Files(p))
  <2>1. PICK v \in Table :
            /\ tab[v].files_count = 0 /\ fs' = k.s
            /\ tab' = Put(tab, v, [files_count |-> 1, pwd |-> Files(p).pwd, fd_array |-> k.f])
            /\ filesp' = Put(filesp, q, v)
    BY <1>3 DEF Calls, copy_files, Put
  <2>2. k = dup_files(fs, Files(p))
    OBVIOUS
  <2> HIDE DEF k
  <2> QED BY <1>1, <2>1, <2>2, StepCopy
<1> QED BY <1>2, <1>3

(* files_destroy of the last user's table x, which then is an empty one.   *)
LEMMA DestroyOK ==
    ASSUME NEW T, TabShape(T), NEW t \in Table, NEW P \in [Node -> Nat],
           NEW N, N = [d \in Fd |-> 0], NEW k, PairOK(k, T, t, P, N),
           T[t].pwd \in Dir \cup {NoNode}, NEW x, x.pwd = T[t].pwd, x.fd_array = k.f,
           NEW U, U[t] = NoFiles, \A u \in Table : u # t => U[u] = T[u]
    PROVE  Held(files_destroy(k.s, x), Refs(U, P), Opens(U))
<1> DEFINE V == With(T, t, k.f)
           W == Homed(T, t, NoNode)
           X == With(W, t, k.f)
           pwd == T[t].pwd
           s1 == IF pwd = NoNode THEN k.s ELSE vop_ref_dec(k.s, pwd)
           k1 == [s |-> s1, f |-> k.f]
           r == ClosedFrom(k1, 0)
<1>1. /\ TabShape(W) /\ W[t].pwd = NoNode
      /\ \A u \in Table : /\ u # t => W[u] = T[u]
                          /\ W[u].fd_array = T[u].fd_array
  BY HomedApart
<1>2. /\ V[t].pwd = pwd /\ X[t].pwd = NoNode
      /\ V[t].fd_array = k.f /\ X[t].fd_array = k.f
      /\ \A u \in Table : u # t => V[u] = T[u] /\ X[u] = T[u]
  <2> HIDE DEF W
  <2> QED BY <1>1 DEF With, TabShape
<1>3. Held(k.s, Refs(V, P), Opens(V)) /\ FdOK(k.f, N)
  BY DEF PairOK, Balanced
<1>4. \A u \in Table, e \in Fd, n \in Node : Uses(X[u].fd_array[e], n) <=> Uses(V[u].fd_array[e], n)
  <2> HIDE DEF X, V
  <2>1. \A u \in Table : X[u].fd_array = V[u].fd_array
    BY <1>2
  <2> QED BY <2>1
<1> HIDE DEF V, X, W
<1>5. Held(s1, Refs(X, P), Opens(X))
  <2>1. CASE pwd = NoNode
    <3>1. SameHolders(V, X)
      <4>1. \A u \in Table : X[u].pwd = V[u].pwd
        BY <1>2, <2>1
      <4> QED BY <1>4, <4>1 DEF SameHolders
    <3>2. Refs(X, P) = Refs(V, P) /\ Opens(X) = Opens(V)
      BY <3>1, HoldersSame
    <3> QED BY <1>3, <2>1, <3>2
  <2>2. CASE pwd # NoNode
    <3>1. pwd \in Node
      BY <2>2 DEF Node, Ino
    <3>2. Opens(V)[pwd] < Refs(V, P)[pwd]
      BY <1>2, <3>1, DirHeld
    <3>3. Held(vop_ref_dec(k.s, pwd), OneLess(Refs(V, P), pwd), Opens(V))
      BY <1>3, <3>1, <3>2, RefDec
    <3>4. \A u \in Table : u # t => X[u].pwd = V[u].pwd
      BY <1>2
    <3>5. Opens(X) = Opens(V) /\ Refs(X, P) = OneLess(Refs(V, P), pwd)
      BY <1>2, <1>4, <3>1, <3>4, DirGiven
    <3> QED BY <2>2, <3>3, <3>5
  <2> QED BY <2>1, <2>2
<1> HIDE DEF s1
<1>6. PairOK(k1, W, t, P, N)
  BY <1>3, <1>5 DEF PairOK, Balanced, X
<1> HIDE DEF k1
<1>7. PairOK(r, W, t, P, N) /\ \A e \in Fd : e >= 0 => r.f[e].status # "FD_OPENED"
  BY <1>1, <1>6, ClosedOK
<1>8. \A d \in Fd : r.f[d].status = "FD_NONE"
  <2> TAKE d \in Fd
  <2>1. d >= 0 /\ SlotOK(r.f[d], 0)
    BY <1>7 DEF PairOK, FdOK, Fd
  <2> QED BY <1>7, <2>1 DEF SlotOK
<1>9. files_destroy(k.s, x) = r.s
  <2>1. files_destroy(k.s, x) = Checked(r.s, \A d \in Fd : r.f[d].status = "FD_NONE", "file")
    BY DEF files_destroy, s1, k1
  <2> HIDE DEF r
  <2> QED BY <1>8, <2>1 DEF Checked
<1> HIDE DEF r
<1>10. SameHolders(With(W, t, r.f), U)
  <2>1. /\ With(W, t, r.f)[t].pwd = NoNode /\ With(W, t, r.f)[t].fd_array = r.f
        /\ \A u \in Table : u # t => With(W, t, r.f)[u] = T[u]
    BY <1>1 DEF With, TabShape
  <2>2. \A d \in Fd, n \in Node : ~ Uses(r.f[d], n) /\ ~ Uses(U[t].fd_array[d], n)
    BY <1>8, FreshFiles DEF Uses
  <2>3. U[t].pwd = NoNode
    BY FreshFiles
  <2>4. ASSUME NEW u \in Table, NEW e \in Fd, NEW n \in Node
        PROVE  Uses(U[u].fd_array[e], n) <=> Uses(With(W, t, r.f)[u].fd_array[e], n)
    <3>1. CASE u = t
      BY <2>1, <2>2, <3>1
    <3>2. CASE u # t
      BY <2>1, <3>2
    <3> QED BY <3>1, <3>2
  <2>5. \A u \in Table : U[u].pwd = With(W, t, r.f)[u].pwd
    BY <2>1, <2>3
  <2> QED BY <2>4, <2>5 DEF SameHolders
<1>11. Held(r.s, Refs(With(W, t, r.f), P), Opens(With(W, t, r.f)))
  BY <1>7 DEF PairOK, Balanced
<1> QED BY <1>9, <1>10, <1>11, HoldersSame

(* put_files in do_exit: the table is left to the others, destroyed with   *)
(* its last user, or forgotten when the process has no memory left.        *)
LEMMA StepExit ==
    ASSUME FilesInv, NEW p \in Proc, filesp[p] \in Table, reading[p] = NO_FD, NEW k, NEW has_mm,
           PairOK(k, tab, filesp[p], Kept(lost), Asleep(filesp, reading, filesp[p])),
           Exit(p, k, has_mm), UNCHANGED <<reading, lost>>
    PROVE  FilesInv'
<1> DEFINE t == filesp[p]
           P == Kept(lost)
           N == Asleep(filesp, reading, t)
           x == [Files(p) EXCEPT !.fd_array = k.f]
           last == tab[t].files_count = 1
           y == IF ~has_mm THEN x
                ELSE IF last THEN NoFiles ELSE [x EXCEPT !.files_count = @ - 1]
<1>1. /\ TablesOK(tab) /\ TabShape(tab) /\ ProcsOK(filesp, reading)
      /\ tab[t].files_count > 0 /\ tab[t].files_count \in Nat /\ P \in [Node -> Nat]
      /\ Files(p) = tab[t] /\ tab[t].pwd \in Dir \cup {NoNode}
  BY InUse, KeptNat DEF FilesInv, TablesOK, Files
<1>2. x.files_count = tab[t].files_count /\ x.pwd = tab[t].pwd /\ x.fd_array = k.f
      /\ DOMAIN x = {"files_count", "pwd", "fd_array"}
  BY <1>1 DEF TabShape
<1> HIDE DEF x
<1>3. /\ fs' = IF has_mm /\ last THEN files_destroy(k.s, x) ELSE k.s
      /\ tab' = Put(tab, t, y)
      /\ filesp' = Put(filesp, p, NoTable)
      /\ orphaned' = IF has_mm THEN orphaned ELSE Put(orphaned, t, orphaned[t] + 1)
  BY <1>2 DEF Exit, Put, x
<1>4. FdOK(k.f, N) /\ Held(k.s, Refs(With(tab, t, k.f), P), Opens(With(tab, t, k.f)))
  BY DEF PairOK, Balanced
<1>5. t \in Table /\ reading' = reading /\ lost' = lost
  OBVIOUS
<1>6. /\ ProcsOK(filesp', reading)
      /\ \A u \in Table : Asleep(filesp', reading, u) = Asleep(filesp, reading, u)
      /\ Cardinality(Users(filesp, t)) = Cardinality(Users(filesp', t)) + 1
      /\ \A u \in Table : u # t => Users(filesp', u) = Users(filesp, u)
  BY <1>1, <1>3, Leaves
<1>7. \A u \in Table : /\ tab[u].files_count = Cardinality(Users(filesp, u)) + orphaned[u]
                       /\ orphaned[u] \in Nat
                       /\ Cardinality(Users(filesp, u)) \in Nat
                       /\ Cardinality(Users(filesp', u)) \in Nat
  BY UsersCounted, UsersFinite
<1>8. orphaned \in [Table -> Nat] /\ \A u \in Table : FdOK(tab[u].fd_array, Asleep(filesp, reading, u))
  BY DEF FilesInv
<1> HIDE DEF t, N, P
<1>9. tab'[t] = y /\ \A u \in Table : u # t => tab'[u] = tab[u]
  <2> HIDE DEF y
  <2> QED BY <1>1, <1>3, <1>5 DEF TabShape, Put
<1>10. DOMAIN tab' = Table
  <2> HIDE DEF y
  <2> QED BY <1>1, <1>3, <1>5 DEF TabShape, Put
<1>11. CASE has_mm /\ last
  <2>1. y = NoFiles /\ fs' = files_destroy(k.s, x) /\ orphaned' = orphaned
    BY <1>3, <1>11
  <2> HIDE DEF y
  <2>10. /\ NoFiles.files_count = 0 /\ NoFiles.pwd = NoNode
         /\ DOMAIN NoFiles = {"files_count", "pwd", "fd_array"}
    BY FreshFiles
  <2>2. Cardinality(Users(filesp', t)) = 0 /\ orphaned[t] = 0
    <3>1. /\ tab[t].files_count = Cardinality(Users(filesp, t)) + orphaned[t] /\ orphaned[t] \in Nat
          /\ Cardinality(Users(filesp', t)) \in Nat
      BY <1>5, <1>7
    <3>2. tab[t].files_count = 1
      BY <1>11
    <3>3. Cardinality(Users(filesp, t)) = Cardinality(Users(filesp', t)) + 1
      BY <1>6
    <3> QED BY <3>1, <3>2, <3>3
  <2>3. Asleep(filesp', reading, t) = [d \in Fd |-> 0]
    BY <2>2, Deserted
  <2>4. N = [d \in Fd |-> 0]
    BY <1>5, <1>6, <2>3 DEF N
  <2>5. PairOK(k, tab, t, P, N)
    BY DEF t, P, N
  <2>6. Held(fs', Refs(tab', P), Opens(tab'))
    <3>1. tab'[t] = NoFiles
      BY <1>9, <2>1
    <3>2. Held(files_destroy(k.s, x), Refs(tab', P), Opens(tab'))
      <4> DEFINE U == tab'
      <4>1. U[t] = NoFiles /\ \A u \in Table : u # t => U[u] = tab[u]
        BY <1>9, <3>1
      <4> HIDE DEF U
      <4>2. Held(files_destroy(k.s, x), Refs(U, P), Opens(U))
        BY <1>1, <1>2, <1>5, <2>4, <2>5, <4>1, DestroyOK
      <4> QED BY <4>2 DEF U
    <3> QED BY <2>1, <3>2
  <2>7. TablesOK(tab')
    <3>1. tab'[t] = NoFiles /\ \A u \in Table : u # t => tab'[u] = tab[u]
      BY <1>9, <2>1
    <3> QED BY <1>1, <1>10, <2>10, <3>1 DEF TablesOK, TabShape
  <2>8. \A u \in Table : tab'[u].files_count = Cardinality(Users(filesp', u)) + orphaned'[u]
    <3> TAKE u \in Table
    <3>1. CASE u = t
      BY <1>9, <2>1, <2>2, <2>10, <3>1
    <3>2. CASE u # t
      BY <1>6, <1>7, <1>9, <2>1, <3>2
    <3> QED BY <3>1, <3>2
  <2>9. \A u \in Table : FdOK(tab'[u].fd_array, Asleep(filesp', reading, u))
    <3> TAKE u \in Table
    <3>1. CASE u = t
      BY <1>9, <2>1, <2>3, <3>1, FreshFiles
    <3>2. CASE u # t
      BY <1>6, <1>8, <1>9, <3>2
    <3> QED BY <3>1, <3>2
  <2> QED BY <1>5, <1>6, <1>8, <2>1, <2>6, <2>7, <2>8, <2>9, NewTables DEF P
<1>12. CASE ~ (has_mm /\ last)
  <2>1. /\ y.fd_array = k.f /\ y.pwd = tab[t].pwd /\ DOMAIN y = {"files_count", "pwd", "fd_array"}
        /\ y.files_count = IF has_mm THEN tab[t].files_count - 1 ELSE tab[t].files_count
        /\ fs' = k.s
    BY <1>2, <1>3, <1>12
  <2>2. y.files_count \in Nat /\ y.files_count # 0
    BY <1>1, <1>12, <2>1
  <2> HIDE DEF y
  <2>3. TablesOK(tab')
    BY <1>1, <1>5, <1>9, <1>10, <2>1, <2>2 DEF TablesOK, TabShape
  <2>4. Held(fs', Refs(tab', P), Opens(tab'))
    <3>1. SameHolders(With(tab, t, k.f), tab')
      <4>1. \A u \in Table : /\ tab'[u].pwd = With(tab, t, k.f)[u].pwd
                             /\ tab'[u].fd_array = With(tab, t, k.f)[u].fd_array
        BY <1>1, <1>5, <1>9, <2>1 DEF With, TabShape
      <4> QED BY <4>1 DEF SameHolders
    <3>2. /\ Refs(tab', P) = Refs(With(tab, t, k.f), P)
          /\ Opens(tab') = Opens(With(tab, t, k.f))
      BY <1>1, <3>1, HoldersSame
    <3> QED BY <1>4, <2>1, <3>2
  <2>5. /\ orphaned' \in [Table -> Nat]
        /\ orphaned'[t] = IF has_mm THEN orphaned[t] ELSE orphaned[t] + 1
        /\ \A u \in Table : u # t => orphaned'[u] = orphaned[u]
    BY <1>3, <1>5, <1>8 DEF Put
  <2>6. \A u \in Table : tab'[u].files_count = Cardinality(Users(filesp', u)) + orphaned'[u]
    <3> TAKE u \in Table
    <3>1. CASE u = t
      <4>1. tab'[t].files_count = IF has_mm THEN tab[t].files_count - 1 ELSE tab[t].files_count
        BY <1>9, <2>1
      <4>2. /\ tab[t].files_count = Cardinality(Users(filesp', t)) + 1 + orphaned[t]
            /\ Cardinality(Users(filesp', t)) \in Nat /\ orphaned[t] \in Nat
        BY <1>5, <1>6, <1>7
      <4> QED BY <2>5, <3>1, <4>1, <4>2
    <3>2. CASE u # t
      BY <1>6, <1>7, <1>9, <2>5, <3>2
    <3> QED BY <3>1, <3>2
  <2>7. \A u \in Table : FdOK(tab'[u].fd_array, Asleep(filesp', reading, u))
    <3> TAKE u \in Table
    <3>1. CASE u = t
      BY <1>4, <1>5, <1>6, <1>9, <2>1, <3>1 DEF N
    <3>2. CASE u # t
      BY <1>6, <1>8, <1>9, <3>2
    <3> QED BY <3>1, <3>2
  <2> QED BY <1>5, <1>6, <2>3, <2>4, <2>5, <2>6, <2>7, NewTables DEF P
<1> QED BY <1>11, <1>12

LEMMA StepDoExit ==
    ASSUME FilesInv, NEW p \in Proc, do_exit(p)
    PROVE  FilesInv'
<1>1. Running(p) /\ Exit(p, Both(p), TRUE) /\ UNCHANGED <<reading, lost>>
  BY DEF Calls, do_exit
<1>2. filesp[p] \in Table /\ reading[p] = NO_FD /\ Start(p)
  BY <1>1, Runs, Started
<1>3. PairOK(Both(p), tab, filesp[p], Kept(lost), Asleep(filesp, reading, filesp[p]))
  BY <1>2 DEF Start
<1> QED BY <1>1, <1>2, <1>3, StepExit

LEMMA StepExec ==
    ASSUME FilesInv, NEW p \in Proc, NEW path, NEW loads, do_execve(p, path, loads)
    PROVE  FilesInv'
<1> DEFINE t == filesp[p]
           P == Kept(lost)
           N == Asleep(filesp, reading, t)
           k == files_closeall(Both(p))
           r == IF \A d \in Fd : k.f[d].status # "FD_NONE"
                THEN [s |-> k.s, f |-> k.f, ret |-> "E_MAX_OPEN"]
                ELSE OpenedFile(p, k, path, ReadOnly)
<1>1. /\ Running(p) /\ UNCHANGED <<reading, lost>>
      /\ IF r.ret = "ok" /\ loads
         THEN Becomes(p, r) /\ UNCHANGED <<filesp, orphaned>>
         ELSE Exit(p, r, mm[p] /\ r.ret # "ok")
  BY Zenon DEF do_execve
<1>2. /\ t \in Table /\ reading[p] = NO_FD
      /\ TabShape(tab) /\ P \in [Node -> Nat] /\ P[Root] > 0
      /\ PairOK(Both(p), tab, t, P, N) /\ Files(p).pwd = tab[t].pwd
      /\ tab[t].pwd \in Dir \cup {NoNode}
  BY <1>1, Runs, Started, KeptNat DEF Start, FilesInv, TablesOK, Files
<1>3. PairOK(k, tab, t, P, N)
  <2>1. k = ClosedFrom(Both(p), 2) /\ 2 \in Nat
    BY DEF files_closeall
  <2> HIDE DEF k, t, P, N
  <2> QED BY <1>2, <2>1, ClosedOK
<1> HIDE DEF k, P, N
<1>4. PairOK(r, tab, t, P, N)
  <2>1. CASE \A d \in Fd : k.f[d].status # "FD_NONE"
    <3>1. r = [s |-> k.s, f |-> k.f, ret |-> "E_MAX_OPEN"]
      BY <2>1
    <3>2. r.s = k.s /\ r.f = k.f
      BY <3>1
    <3> HIDE DEF r
    <3> QED BY <1>3, <3>2 DEF PairOK, Balanced
  <2>2. CASE ~ \A d \in Fd : k.f[d].status # "FD_NONE"
    <3>1. r = Installed(vfs_open(k.s, Files(p).pwd, path, ReadOnly), k.f,
                        Min({c \in Fd : k.f[c].status = "FD_NONE"}), ReadOnly)
      BY <2>2, Zenon DEF OpenedFile
    <3> HIDE DEF r, t
    <3>2. {c \in Fd : k.f[c].status = "FD_NONE"} # {}
      BY <2>2
    <3>3. Rooted(Refs(With(tab, t, k.f), P), Files(p).pwd)
      <4>1. With(tab, t, k.f)[t].pwd = tab[t].pwd
        BY <1>2 DEF With, TabShape
      <4> QED BY <1>2, <4>1, RootedAlways
    <3>4. OpenedOK(r, tab, t, P, N, ReadOnly, vfs_lookup(k.s, Files(p).pwd, path))
      BY <1>2, <1>3, <3>1, <3>2, <3>3, OpenFile
    <3>5. ~ ReadOnly.creat
      BY DEF ReadOnly
    <3> QED BY <3>4, <3>5 DEF OpenedOK
  <2> QED BY <2>1, <2>2
<1> HIDE DEF r
<1>5. PairOK(r, tab, filesp[p], Kept(lost), Asleep(filesp, reading, filesp[p]))
  BY <1>4 DEF P, N
<1>6. CASE r.ret = "ok" /\ loads
  BY <1>1, <1>2, <1>5, <1>6, Called
<1>7. CASE ~ (r.ret = "ok" /\ loads)
  <2> DEFINE has_mm == mm[p] /\ r.ret # "ok"
  <2>1. Exit(p, r, has_mm)
    BY <1>1, <1>7
  <2> HIDE DEF has_mm
  <2> QED BY <1>1, <1>2, <1>5, <2>1, StepExit
<1> QED BY <1>6, <1>7

LEMMA FilesInit == Init => FilesInv
<1> SUFFICES ASSUME Init PROVE FilesInv
  OBVIOUS
<1> DEFINE First(q, u) ==
        /\ filesp = [x \in Proc |-> IF x = q THEN u ELSE NoTable]
        /\ tab = [x \in Table |-> IF x = u THEN [NoFiles EXCEPT !.files_count = 1, !.pwd = Root]
                                  ELSE NoFiles]
<1>1. PICK p \in Proc, t \in Table : First(p, t)
  BY DEF Init
<1>2. /\ reading = [q \in Proc |-> NO_FD] /\ lost = [n \in Node |-> 0]
      /\ orphaned = [u \in Table |-> 0]
      /\ fs.ref = [Pinned EXCEPT ![Root] = @ + 1] /\ fs.open = [n \in Node |-> 0]
      /\ fs.in_core = {Root} /\ fs.reclaim = [i \in Ino |-> IF i = Root THEN 1 ELSE 0]
      /\ fs.din = [i \in File |-> EmptyDin] /\ fs.disk = [i \in File |-> EmptyDin]
      /\ DOMAIN fs = FsFields
  BY DEF Init, FsFields
<1>3. NO_FD \notin Fd /\ NoTable \notin Table /\ NoNode \notin Node /\ Root \in Ino /\ Root \in Dir
      /\ Root \in Node /\ Root \notin Dev
  BY FilesAssumption, SfsAssumption DEF NO_FD, Fd, Node, Ino
<1>4. /\ DOMAIN tab = Table
      /\ tab[t].files_count = 1 /\ tab[t].pwd = Root /\ tab[t].fd_array = NoFiles.fd_array
      /\ DOMAIN tab[t] = {"files_count", "pwd", "fd_array"}
      /\ \A u \in Table : u # t => tab[u] = NoFiles
  <2>1. tab[t] = [NoFiles EXCEPT !.files_count = 1, !.pwd = Root]
    BY <1>1
  <2>2. tab[t] = [files_count |-> 1, pwd |-> Root, fd_array |-> NoFiles.fd_array]
    BY <2>1 DEF NoFiles
  <2> QED BY <1>1, <2>2
<1>5. /\ NoFiles.files_count = 0 /\ NoFiles.pwd = NoNode
      /\ DOMAIN NoFiles = {"files_count", "pwd", "fd_array"}
      /\ FdOK(NoFiles.fd_array, [d \in Fd |-> 0])
      /\ \A d \in Fd, n \in Node : ~ Uses(NoFiles.fd_array[d], n)
  BY FreshFiles
<1>6. TablesOK(tab)
  BY <1>3, <1>4, <1>5 DEF TablesOK, TabShape
<1>7. ProcsOK(filesp, reading) /\ lost \in [Node -> Nat] /\ orphaned \in [Table -> Nat]
  BY <1>1, <1>2 DEF ProcsOK
<1>8. TablesAreShared
  <2> SUFFICES ASSUME NEW u \in Table
               PROVE  tab[u].files_count = Cardinality({q \in Proc : filesp[q] = u}) + orphaned[u]
    BY DEF TablesAreShared
  <2>1. CASE u = t
    <3>1. {q \in Proc : filesp[q] = u} = {p}
      BY <1>1, <1>3, <2>1
    <3>2. Cardinality({p}) = 1
      BY FS_Singleton
    <3>3. tab[u].files_count = 1 /\ orphaned[u] = 0
      BY <1>2, <1>4, <2>1
    <3> QED BY <3>1, <3>2, <3>3
  <2>2. CASE u # t
    <3>1. {q \in Proc : filesp[q] = u} = {}
      BY <1>1, <1>3, <2>2
    <3>2. Cardinality({}) = 0
      BY FS_EmptySet
    <3>3. tab[u].files_count = 0 /\ orphaned[u] = 0
      BY <1>2, <1>4, <1>5, <2>2
    <3> QED BY <3>1, <3>2, <3>3
  <2> QED BY <2>1, <2>2
<1>9. ASSUME NEW u \in Table
      PROVE  /\ FdOK(tab[u].fd_array, Asleep(filesp, reading, u))
             /\ tab[u].fd_array = NoFiles.fd_array
  <2>1. Asleep(filesp, reading, u) = [d \in Fd |-> 0]
    <3>1. \A d \in Fd : {q \in Proc : filesp[q] = u /\ reading[q] = d} = {}
      BY <1>2, <1>3
    <3>2. Cardinality({}) = 0
      BY FS_EmptySet
    <3> QED BY <3>1, <3>2 DEF Asleep
  <2>2. tab[u].fd_array = NoFiles.fd_array
    BY <1>4
  <2> QED BY <1>5, <2>1, <2>2
<1>10. Held(fs, Refs(tab, Kept(lost)), Opens(tab))
  <2>1. ASSUME NEW n \in Node
        PROVE  /\ Opens(tab)[n] = 0
               /\ Refs(tab, Kept(lost))[n] = (IF n = Root THEN 1 ELSE 0) + Pinned[n]
    <3>1. Descriptors(tab, n) = {}
      BY <1>5, <1>9 DEF Descriptors, Uses
    <3>2. CurDirs(tab, n) = IF n = Root THEN {t} ELSE {}
      BY <1>3, <1>4, <1>5 DEF CurDirs
    <3>3. Cardinality(CurDirs(tab, n)) = IF n = Root THEN 1 ELSE 0
      BY <3>2, FS_EmptySet, FS_Singleton
    <3>4. Cardinality(Descriptors(tab, n)) = 0
      BY <3>1, FS_EmptySet
    <3>5. Kept(lost)[n] = Pinned[n] /\ Pinned[n] \in Nat
      BY <1>2 DEF Kept, Pinned
    <3> QED BY <3>3, <3>4, <3>5 DEF Opens, Refs
  <2>2. Pinned \in [Node -> Nat] /\ \A i \in Ino : Pinned[i] = IF i = Root THEN 2 ELSE 0
    BY SfsAssumption DEF Pinned, Node, Ino
  <2>3. Refs(tab, Kept(lost)) \in Counts /\ Opens(tab) \in Counts
    BY <1>7, KeptNat, HoldersFinite
  <2>4. fs.ref \in Counts /\ fs.open \in Counts
    BY <1>2, <1>3, <2>2 DEF Counts
  <2>5. fs.open = Opens(tab)
    BY <1>2, <2>1, <2>3, <2>4, SameCounts
  <2>6. \A n \in Node : fs.ref[n] = Refs(tab, Kept(lost))[n]
    BY <1>2, <1>3, <2>1, <2>2
  <2>7. fs.ref = Refs(tab, Kept(lost))
    BY <2>3, <2>4, <2>6, SameCounts
  <2>8. FsShape(fs)
    <3>1. DOMAIN EmptyDin = {"size", "blocks", "direct", "indirect"} /\ EmptyDin.blocks \in Int
      BY DEF EmptyDin
    <3> QED BY <1>2, <3>1 DEF FsShape, DinShape
  <2>9. \A n \in Node : Opens(tab)[n] <= Refs(tab, Kept(lost))[n] /\ 0 <= Opens(tab)[n]
    BY <2>1, <2>2
  <2>10. \A i \in Ino : (i \in fs.in_core) <=> (Refs(tab, Kept(lost))[i] > 0)
    BY <1>2, <2>1, <2>2 DEF Node
  <2>11. Tallied(fs, Refs(tab, Kept(lost)), Opens(tab))
    BY <1>2, <2>3, <2>5, <2>7, <2>8, <2>9, <2>10 DEF Tallied
  <2>12. VolOK(fs)
    <3>1. \A i \in File : /\ fs.din[i] = fs.disk[i] /\ fs.din[i].blocks = 0
                           /\ fs.din[i].indirect = NoBlock
                           /\ fs.din[i].direct = [k \in Direct |-> NoBlock]
      BY <1>2 DEF EmptyDin
    <3>2. /\ fs.dirty = {} /\ fs.ents = [b \in Block |-> EmptySlots]
          /\ fs.free = Block /\ fs.unused = Cardinality(Block)
          /\ fs.disk_free = Block /\ fs.disk_unused = Cardinality(Block) /\ fs.panic = "none"
      BY DEF Init
    <3>3. \A i \in File, k \in Place : PointerAt(fs, i, k) = NoBlock
      BY <3>1 DEF PointerAt
    <3>4. MapShape(fs)
      BY <3>1, <3>2 DEF MapShape, EmptySlots
    <3>5. Owned(fs, fs.free)
      BY <3>2, <3>3 DEF Owned
    <3>6. Filled(fs)
      <4>1. SFS_NDIRECT + SFS_BLK_NENTRY \in Nat
        BY SfsAssumption
      <4> QED BY <3>1, <4>1 DEF Filled
    <3>7. Volume(fs)
      BY <2>8, <3>2, <3>4, <3>5, <3>6 DEF Volume
    <3>8. OnDisk(fs)
      BY <3>1 DEF OnDisk
    <3> QED BY <3>2, <3>7, <3>8 DEF VolOK, Written, SuperOnDisk
  <2> QED BY <2>11, <2>12 DEF Held
<1> QED BY <1>6, <1>7, <1>8, <1>9, <1>10 DEF FilesInv

LEMMA FilesStep == FilesInv /\ [Next]_vars => FilesInv'
<1> SUFFICES ASSUME FilesInv, [Next]_vars PROVE FilesInv'
  OBVIOUS
<1>1. CASE \E p \in Proc : \E path \in Path, flags \in Flags : file_open(p, path, flags)
  BY <1>1, StepOpen
<1>2. CASE \E p \in Proc : \E path \in Directory : sysfile_chdir(p, path)
  BY <1>2, StepChdir
<1>3. CASE \E p \in Proc : \E path \in Program, loads \in BOOLEAN : do_execve(p, path, loads)
  BY <1>3, StepExec
<1>4. CASE \E p \in Proc : \E d \in Fd : file_close(p, d)
  BY <1>4, StepClose
<1>5. CASE \E p \in Proc : \E d \in Fd : file_read(p, d)
  BY <1>5, StepRead
<1>6. CASE \E p \in Proc : \E d \in Fd : file_write(p, d)
  BY <1>6, StepWrite
<1>7. CASE \E p \in Proc : \E d \in Fd : file_fsync(p, d)
  BY <1>7, StepFsync
<1>8. CASE \E p \in Proc : \E d \in Fd : file_getdirentry(p, d)
  BY <1>8, StepGetdirentry
<1>9. CASE \E p \in Proc : \E d \in Fd : \E pos \in Position : file_seek(p, d, pos)
  BY <1>9, StepSeek
<1>10. CASE \E p \in Proc : \E d \in Fd : \E d2 \in Fd \cup {NO_FD} : file_dup(p, d, d2)
  BY <1>10, StepDup
<1>11. CASE \E p \in Proc : file_read_returns(p)
  BY <1>11, StepReadReturns
<1>12. CASE \E p \in Proc : \E q \in Proc, clone_fs \in CLONE_FS : copy_files(p, q, clone_fs)
  BY <1>12, StepFork
<1>13. CASE \E p \in Proc : do_exit(p)
  BY <1>13, StepDoExit
<1>14. CASE fs_cleanup
  BY <1>14, StepCleanup
<1>15. CASE UNCHANGED vars
  BY <1>15, FsHeld DEF vars, FilesInv
<1> QED
  BY <1>1, <1>2, <1>3, <1>4, <1>5, <1>6, <1>7, <1>8, <1>9, <1>10, <1>11, <1>12, <1>13, <1>14,
     <1>15 DEF Next

(* The inductive invariant holds in every reachable state.                 *)
THEOREM FilesInvariant == Spec => []FilesInv
BY FilesInit, FilesStep, PTL DEF Spec

-----------------------------------------------------------------------------
(* The properties. *)

(* files_count is the number of processes that share the table, and of     *)
(* those that died without giving it back: copy_files and put_files keep   *)
(* it, for any number of processes and tables.                             *)
THEOREM SharedTablesCounted == Spec => []TablesAreShared
<1>1. FilesInv => TablesAreShared
  BY DEF FilesInv
<1> QED BY <1>1, FilesInvariant, PTL

(* A slot's open_count is the slot itself and the reads asleep on it, and  *)
(* a slot under a read keeps its device: fd_array_acquire and              *)
(* fd_array_release around dev_stdin_read, with file_close, file_dup,      *)
(* do_execve, fork and exit of other processes in between.                 *)
THEOREM ReadersAlwaysHoldSlot == Spec => []ReadersHoldSlot
<1>1. FilesInv => ReadersHoldSlot
  <2> SUFFICES ASSUME FilesInv PROVE ReadersHoldSlot
    OBVIOUS
  <2>1. ASSUME NEW t \in Table, NEW d \in Fd
        PROVE  /\ SlotOK(tab[t].fd_array[d], Asleep(filesp, reading, t)[d])
               /\ Asleep(filesp, reading, t)[d] = Cardinality({q \in Proc : filesp[q] = t /\ reading[q] = d})
    BY DEF FilesInv, FdOK, Asleep
  <2>2. ASSUME NEW t \in Table, NEW d \in Fd
        PROVE  tab[t].fd_array[d].open_count = Cardinality({q \in Proc : filesp[q] = t /\ reading[q] = d})
                    + IF tab[t].fd_array[d].status = "FD_OPENED" THEN 1 ELSE 0
    BY <2>1 DEF SlotOK
  <2>3. ASSUME NEW p \in Proc, reading[p] # NO_FD
        PROVE  Files(p).fd_array[reading[p]].node = "stdin"
    <3> DEFINE t == filesp[p]
               d == reading[p]
               S == {q \in Proc : filesp[q] = t /\ reading[q] = d}
    <3>1. t \in Table /\ d \in Fd
      BY <2>3 DEF FilesInv, ProcsOK
    <3>2. p \in S /\ IsFiniteSet(S) /\ Cardinality(S) \in Nat
      BY FilesAssumption, FS_Subset, FS_CardinalityType
    <3>3. AsleepOn(tab[t].fd_array[d], Cardinality(S))
      <4>1. /\ SlotOK(tab[t].fd_array[d], Asleep(filesp, reading, t)[d])
            /\ Asleep(filesp, reading, t)[d] = Cardinality(S)
        BY <2>1, <3>1
      <4> QED BY <4>1 DEF SlotOK
    <3> HIDE DEF S
    <3>4. Cardinality(S) > 0
      BY <3>2, FS_EmptySet
    <3> QED BY <3>3, <3>4 DEF AsleepOn, Files
  <2> QED BY <2>2, <2>3 DEF ReadersHoldSlot
<1> QED BY <1>1, FilesInvariant, PTL

(* The two counts of every inode are its holders, on the paths of open,    *)
(* close, read, seek, dup, chdir, fork, exec and exit in file.c, fs.c,     *)
(* vfsfile.c, vfslookup.c and vfspath.c, the failing ones included.        *)
THEOREM CountsAlwaysHolders == Spec => []CountsAreHolders
<1>1. FilesInv => CountsAreHolders
  <2> SUFFICES ASSUME FilesInv, fs.panic = "none", NEW n \in Node
               PROVE  /\ fs.open[n] = Cardinality(Descriptors(tab, n))
                      /\ fs.ref[n] = Cardinality(Descriptors(tab, n)) + Cardinality(CurDirs(tab, n))
                                     + Pinned[n] + lost[n]
    BY DEF CountsAreHolders
  <2>1. fs.ref = Refs(tab, Kept(lost)) /\ fs.open = Opens(tab) /\ lost \in [Node -> Nat]
    BY DEF FilesInv, Held, Tallied
  <2>2. /\ Cardinality(Descriptors(tab, n)) \in Nat /\ Cardinality(CurDirs(tab, n)) \in Nat
        /\ Opens(tab)[n] = Cardinality(Descriptors(tab, n))
        /\ Refs(tab, Kept(lost))[n] = Opens(tab)[n] + Cardinality(CurDirs(tab, n)) + Kept(lost)[n]
    BY <2>1, KeptNat, HoldersFinite
  <2>3. Kept(lost)[n] = Pinned[n] + lost[n] /\ Pinned[n] \in Nat /\ lost[n] \in Nat
    BY <2>1 DEF Kept, Pinned
  <2> QED BY <2>1, <2>2, <2>3
<1> QED BY <1>1, FilesInvariant, PTL

(* An SFS inode is in core, with one reclaim due for it, exactly while it  *)
(* is referenced: sfs_load_inode, sfs_reclaim and vop_ref_dec neither free *)
(* an inode that somebody has nor keep one that nobody has.                *)
THEOREM CachedExactlyIfReferenced == Spec => []CachedIffReferenced
<1>1. FilesInv => CachedIffReferenced
  BY DEF FilesInv, Held, Tallied, CachedIffReferenced
<1> QED BY <1>1, FilesInvariant, PTL

(* The pointers of the map, as a set of places and blocks, are those of    *)
(* the volume: they name exactly the blocks that are not free, each once.  *)
LEMMA MapOfVolume ==
    ASSUME Volume(fs), NEW din, \A i \in File : /\ din[i].direct = fs.din[i].direct
                                                 /\ din[i].indirect = fs.din[i].indirect
    PROVE  /\ Named(AllPointers(din)) = Block \ fs.free
           /\ Cardinality(AllPointers(din)) = Cardinality(Named(AllPointers(din)))
           /\ \A i \in File, k \in Place : k # -1 => BlockAt(din[i], k) = PointerAt(fs, i, k)
<1> DEFINE S == AllPointers(din)
           T == Named(S)
           At(i, k) == PointerAt(fs, i, k)
           Mapped == 0 .. SFS_NDIRECT + SFS_BLK_NENTRY - 1
<1>1. \A i \in File, k \in Place : k # -1 => BlockAt(din[i], k) = At(i, k)
  BY Zenon DEF BlockAt, PointerAt
<1>2. \A k : k \in Place <=> k = -1 \/ k \in Mapped
  <2>1. SFS_NDIRECT \in Nat \ {0} /\ SFS_BLK_NENTRY \in Nat \ {0}
    BY SfsAssumption
  <2> QED BY <2>1 DEF Place
<1>3. -1 \notin Mapped
  <2>1. SFS_NDIRECT + SFS_BLK_NENTRY - 1 \in Int
    BY SfsAssumption
  <2> QED BY <2>1
<1> HIDE DEF Mapped
<1>4. ASSUME NEW i \in File
      PROVE  Pointers(i, din[i]) = {<<i, k, At(i, k)>> : k \in {l \in Place : At(i, l) # NoBlock}}
  <2>1. Pointers(i, din[i]) =
            {pt \in {<<i, -1, din[i].indirect>>} \cup {<<i, k, BlockAt(din[i], k)>> : k \in Mapped} :
                pt[3] # NoBlock}
    BY Zenon DEF Pointers, Mapped
  <2>2. din[i].indirect = At(i, -1)
    BY Places
  <2>3. \A k \in Mapped : k \in Place /\ k # -1 /\ BlockAt(din[i], k) = At(i, k)
    BY <1>1, <1>2, <1>3
  <2>4. -1 \in Place /\ \A k \in Place : k # -1 => k \in Mapped
    BY <1>2
  <2> HIDE DEF At
  <2> QED BY <2>1, <2>2, <2>3, <2>4
<1> HIDE DEF At
<1>5. \A pt : pt \in S <=> \E i \in File, k \in Place : pt = <<i, k, At(i, k)>> /\ At(i, k) # NoBlock
  BY <1>4 DEF AllPointers
<1>6. \A pt \in S : pt[3] \in Block \ fs.free
  <2>1. \A i \in File, k \in Place : At(i, k) \in (Block \ fs.free) \cup {NoBlock}
    BY DEF Volume, Owned, At
  <2> QED BY <1>5, <2>1
<1>7. \A b \in Block \ fs.free : \E pt \in S : pt[3] = b
  <2>1. \A b \in Block \ fs.free : \E i \in File : \E k \in Place : At(i, k) = b
    BY Zenon DEF Volume, Owned, At
  <2>2. NoBlock \notin Block
    BY SfsAssumption
  <2>3. ASSUME NEW b \in Block \ fs.free PROVE \E pt \in S : pt[3] = b
    <3>1. PICK i \in File : \E k \in Place : At(i, k) = b
      BY <2>1
    <3>2. PICK k \in Place : At(i, k) = b
      BY <3>1
    <3>3. <<i, k, At(i, k)>> \in S
      BY <1>5, <2>2, <3>2
    <3> QED BY <3>2, <3>3
  <2> QED BY <2>3
<1>8. ASSUME NEW a \in S, NEW b \in S, a[3] = b[3] PROVE a = b
  <2>1. PICK i \in File, k \in Place : a = <<i, k, At(i, k)>> /\ At(i, k) # NoBlock
    BY <1>5
  <2>2. PICK j \in File, l \in Place : b = <<j, l, At(j, l)>> /\ At(j, l) # NoBlock
    BY <1>5
  <2>3. At(i, k) = At(j, l)
    BY <1>8, <2>1, <2>2
  <2>4. i = j /\ k = l
    BY <2>1, <2>3 DEF Volume, Owned, At
  <2> QED BY <2>1, <2>2, <2>4
<1>9. T = {pt[3] : pt \in S}
  BY DEF Named
<1> HIDE DEF S, T
<1>10. T = Block \ fs.free
  BY <1>6, <1>7, <1>9
<1>11. IsFiniteSet(T)
  <2>1. IsFiniteSet(Block)
    BY SfsAssumption
  <2> QED BY <1>10, <2>1, FS_Subset
<1>12. Cardinality(S) = Cardinality(T)
  <2> DEFINE g == [b \in T |-> CHOOSE pt \in S : pt[3] = b]
  <2>1. \A b \in T : g[b] \in S /\ g[b][3] = b
    BY <1>9
  <2>2. g \in [T -> S]
    BY <2>1
  <2> HIDE DEF g
  <2>3. \A a, b \in T : g[a] = g[b] => a = b
    BY <2>1
  <2>4. \A pt \in S : \E b \in T : g[b] = pt
    <3>1. ASSUME NEW pt \in S PROVE pt[3] \in T /\ g[pt[3]] = pt
      <4>1. pt[3] \in T
        BY <1>9
      <4> QED BY <1>8, <2>1, <4>1
    <3> QED BY <3>1
  <2>5. ExistsBijection(T, S)
    BY <2>2, <2>3, <2>4 DEF ExistsBijection, Bijection, Injection, Surjection, IsInjective
  <2> QED BY <1>11, <2>5, FS_Bijection
<1> QED BY <1>1, <1>10, <1>12 DEF S, T, At

(* What is so of the volume, in the words of the model's properties.       *)
LEMMA VolumeOfFiles ==
    ASSUME FilesInv
    PROVE  /\ Volume(fs) /\ OnDisk(fs) /\ SuperOnDisk(fs)
           /\ \A i \in fs.dirty : i \in fs.in_core /\ (fs.panic = "none" => fs.open[i] # 0)
BY DEF FilesInv, Held, VolOK, Written, InUseBy

LEMMA CurrentIsKnown ==
    ASSUME FilesInv, NEW i \in File
    PROVE  /\ Current(i).direct = fs.din[i].direct /\ Current(i).indirect = fs.din[i].indirect
           /\ Current(i).blocks \in 0 .. fs.din[i].blocks /\ fs.din[i].blocks \in Nat
<1>1. Volume(fs) /\ OnDisk(fs) /\ (i \in fs.dirty => i \in fs.in_core)
  BY VolumeOfFiles
<1>2. fs.din[i].blocks \in Nat
  BY <1>1, SfsAssumption DEF Volume, Filled
<1>3. CASE i \in fs.in_core
  BY <1>2, <1>3 DEF Current
<1>4. CASE i \notin fs.in_core
  BY <1>1, <1>2, <1>4 DEF Current, OnDisk
<1> QED BY <1>3, <1>4

(* The assertions of file.c, fs.c, inode.c, bitmap.c and of the block map  *)
(* hold in every state, but for the two that the property leaves out.      *)
THEOREM AssertionsAlwaysHold == Spec => []AssertionsHold
<1>1. FilesInv => AssertionsHold
  BY VolumeOfFiles DEF Volume, AssertionsHold
<1> QED BY <1>1, FilesInvariant, PTL

(* Every disk block is free or named by exactly one pointer of one file,   *)
(* unused_blocks counts the free ones, and an inode has the blocks that it *)
(* counts, on every path of sfs_truncfile and of the block map.            *)
THEOREM BlocksAlwaysConserved == Spec => []BlocksConserved
<1>1. FilesInv => BlocksConserved
  <2> SUFFICES ASSUME FilesInv PROVE BlocksConserved
    OBVIOUS
  <2> DEFINE din == [i \in File |-> Current(i)]
  <2>1. Volume(fs)
    BY VolumeOfFiles
  <2>2. \A i \in File : /\ din[i] = Current(i)
                        /\ din[i].direct = fs.din[i].direct /\ din[i].indirect = fs.din[i].indirect
    BY CurrentIsKnown
  <2> HIDE DEF din
  <2>3. /\ Named(AllPointers(din)) = Block \ fs.free
        /\ Cardinality(AllPointers(din)) = Cardinality(Named(AllPointers(din)))
        /\ \A i \in File, k \in Place : k # -1 => BlockAt(din[i], k) = PointerAt(fs, i, k)
    BY <2>1, <2>2, MapOfVolume
  <2>4. NoHoles
    <3> SUFFICES ASSUME NEW i \in File, NEW k \in 0 .. Current(i).blocks - 1
                 PROVE  BlockAt(Current(i), k) # NoBlock
      BY DEF NoHoles
    <3>1. /\ fs.din[i].blocks \in 0 .. SFS_NDIRECT + SFS_BLK_NENTRY
          /\ \A l \in 0 .. fs.din[i].blocks - 1 : PointerAt(fs, i, l) # NoBlock
      BY <2>1 DEF Volume, Filled
    <3>2. Current(i).blocks \in Int /\ Current(i).blocks <= fs.din[i].blocks /\ fs.din[i].blocks \in Int
      BY CurrentIsKnown
    <3>3. SFS_NDIRECT \in Int /\ SFS_BLK_NENTRY \in Int
      BY SfsAssumption
    <3>4. k \in 0 .. fs.din[i].blocks - 1 /\ k \in Place /\ k # -1
      <4>1. k \in Int /\ 0 <= k /\ k <= fs.din[i].blocks - 1
        BY <3>2
      <4>2. fs.din[i].blocks <= SFS_NDIRECT + SFS_BLK_NENTRY
        BY <3>1, <3>3
      <4>3. k <= SFS_NDIRECT + SFS_BLK_NENTRY - 1
        BY <3>2, <3>3, <4>1, <4>2
      <4> QED BY <3>2, <3>3, <4>1, <4>3 DEF Place
    <3> QED BY <2>2, <2>3, <3>1, <3>4
  <2>5. fs.unused = Cardinality(fs.free)
    BY <2>1 DEF Volume, MapShape
  <2> QED BY <2>3, <2>4, <2>5 DEF BlocksConserved, din
<1> QED BY <1>1, FilesInvariant, PTL

(* A file that nobody has open is on the disk: sfs_close and sfs_reclaim   *)
(* write the inode back whatever it is that closes it.                     *)
THEOREM ClosedAlwaysOnDisk == Spec => []ClosedIsOnDisk
<1>1. FilesInv => ClosedIsOnDisk
  BY VolumeOfFiles DEF ClosedIsOnDisk, OnDisk
<1> QED BY <1>1, FilesInvariant, PTL

(* With every file closed and the super block written, the free map on the *)
(* disk is what the pointers on the disk leave over: what sfs_sync leaves. *)
THEOREM ImageAlwaysConsistent == Spec => []ImageConsistent
<1>1. FilesInv => ImageConsistent
  <2> SUFFICES ASSUME FilesInv, fs.panic = "none", ~ fs.super_dirty,
                      \A i \in File : fs.open[i] = 0
               PROVE  /\ fs.disk_free = Block \ Named(AllPointers(fs.disk))
                      /\ fs.disk_unused = Cardinality(fs.disk_free)
    BY DEF ImageConsistent
  <2>1. Volume(fs) /\ OnDisk(fs) /\ SuperOnDisk(fs) /\ fs.free \subseteq Block
    BY VolumeOfFiles DEF Volume, MapShape
  <2>2. fs.dirty \subseteq File /\ \A i \in fs.dirty : fs.open[i] # 0
    BY <2>1, VolumeOfFiles DEF Volume, MapShape
  <2>3. \A i \in File : /\ fs.disk[i].direct = fs.din[i].direct
                        /\ fs.disk[i].indirect = fs.din[i].indirect
    BY <2>1, <2>2 DEF OnDisk
  <2>4. Named(AllPointers(fs.disk)) = Block \ fs.free
    BY <2>1, <2>3, MapOfVolume
  <2>5. fs.disk_free = fs.free /\ fs.disk_unused = fs.unused
    BY <2>1 DEF SuperOnDisk
  <2>6. fs.unused = Cardinality(fs.free)
    BY <2>1 DEF Volume, MapShape
  <2> QED BY <2>1, <2>4, <2>5, <2>6
<1> QED BY <1>1, FilesInvariant, PTL
=============================================================================
