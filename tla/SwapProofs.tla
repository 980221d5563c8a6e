----------------------------- MODULE SwapProofs -----------------------------
(***************************************************************************)
(* Proofs about Swap for any frames, pages and size of the device.         *)
(***************************************************************************)
EXTENDS Swap, FiniteSetTheorems, SequenceTheorems, TLAPS

(* Sequences: where an element is, and a sequence without its last or its  *)
(* first element.                                                          *)
LEMMA MinOf ==
    ASSUME NEW S \in SUBSET Int, NEW k \in S, \A i \in S : k <= i
    PROVE  Min(S) = k
<1>1. \A m \in S : (\A i \in S : m <= i) => m = k
  OBVIOUS
<1> QED BY <1>1, Zenon DEF Min

LEMMA PositionOf ==
    ASSUME NEW S, NEW s \in Seq(S), NEW k \in 1 .. Len(s), \A i \in 1 .. k - 1 : s[i] # s[k]
    PROVE  Position(s, s[k]) = k
<1> DEFINE I == {i \in 1 .. Len(s) : s[i] = s[k]}
<1>1. I \in SUBSET Int /\ k \in I /\ \A i \in I : k <= i
  OBVIOUS
<1> HIDE DEF I
<1>2. Min(I) = k
  BY <1>1, MinOf
<1>3. I # {}
  BY <1>1
<1> QED BY <1>2, <1>3, Zenon DEF Position, SelectInSeq, I

LEMMA WithoutLast ==
    ASSUME NEW S, NEW s \in Seq(S), s # <<>>, IsInjective(s)
    PROVE  Position(s, Last(s)) = Len(s) /\ Without(s, Last(s)) = SubSeq(s, 1, Len(s) - 1)
<1>1. Len(s) \in 1 .. Len(s)
  OBVIOUS
<1>2. Position(s, s[Len(s)]) = Len(s)
  BY <1>1, PositionOf DEF IsInjective
<1>3. SubSeq(s, Len(s) + 1, Len(s)) = <<>>
  OBVIOUS
<1>4. SubSeq(s, 1, Len(s) - 1) \o <<>> = SubSeq(s, 1, Len(s) - 1)
  OBVIOUS
<1> QED BY <1>2, <1>3, <1>4 DEF Without, RemoveAt, Last

LEMMA WithoutFirst ==
    ASSUME NEW S, NEW s \in Seq(S), s # <<>>
    PROVE  Without(s, s[1]) = Tail(s)
<1>1. 1 \in 1 .. Len(s)
  OBVIOUS
<1>2. Position(s, s[1]) = 1
  BY <1>1, PositionOf
<1>3. SubSeq(s, 1, 0) \o SubSeq(s, 2, Len(s)) = Tail(s)
  OBVIOUS
<1> QED BY <1>2, <1>3 DEF Without, RemoveAt

LEMMA MembersOf ==
    ASSUME NEW S, NEW s \in Seq(S)
    PROVE  /\ \A k \in 1 .. Len(s) : s[k] \in ToSet(s)
           /\ \A x \in ToSet(s) : \E k \in 1 .. Len(s) : x = s[k]
<1>1. DOMAIN s = 1 .. Len(s)
  OBVIOUS
<1> QED BY <1>1, Zenon DEF ToSet

LEMMA ReversedSet ==
    ASSUME NEW S, NEW s \in Seq(S), NEW t \in Seq(S), Len(t) = Len(s),
           \A k \in 1 .. Len(s) : t[k] = s[Len(s) + 1 - k]
    PROVE  ToSet(t) = ToSet(s)
<1>1. ASSUME NEW k \in 1 .. Len(s)
      PROVE  Len(s) + 1 - k \in 1 .. Len(s) /\ t[k] = s[Len(s) + 1 - k] /\ s[k] = t[Len(s) + 1 - k]
  <2>1. Len(s) + 1 - k \in 1 .. Len(s) /\ Len(s) + 1 - (Len(s) + 1 - k) = k
    OBVIOUS
  <2> QED BY <2>1
<1>2. ASSUME NEW x \in ToSet(t) PROVE x \in ToSet(s)
  BY <1>1, MembersOf
<1>3. ASSUME NEW x \in ToSet(s) PROVE x \in ToSet(t)
  BY <1>1, MembersOf
<1> QED BY <1>2, <1>3

-----------------------------------------------------------------------------
(* The inductive invariant, of a record m of what alloc_page may change    *)
(* (as_it_is, or the result of swap_out) and of the fields it leaves alone. *)
PagesTypeOK(m) ==
    /\ m.pte \in [Virt -> Frame \cup Nat]
    /\ m.disk \in [{swap_entry(v) : v \in Virt} -> Value]
    /\ m.free \in SUBSET Frame
    /\ m.list \in Seq(Frame)
    /\ m.tlb \in [Virt -> Frame \cup {head}]
    /\ m.hand \in Frame \cup {head}
    /\ m.visited \in [Frame -> BOOLEAN]
    /\ m.arrived \in Seq(Virt)

(* A frame on the list is mapped once, where its pra_vaddr says; a page    *)
(* that has no frame has the swap entry of its own address, if any.        *)
Mapped(m, vaddr) ==
    /\ IsInjective(m.list)
    /\ \A i \in 1 .. Len(m.list) :
          vaddr[m.list[i]] \in Virt /\ m.pte[vaddr[m.list[i]]] = m.list[i]
    /\ \A v \in Virt : m.pte[v] \in Frame => m.pte[v] \in ToSet(m.list) /\ vaddr[m.pte[v]] = v
    /\ \A v \in Virt : m.pte[v] \notin Frame => m.pte[v] \in {NoEntry, swap_entry(v)}
    /\ \A v \in Virt : m.tlb[v] \in {head, m.pte[v]}

(* Each frame is in one place. *)
InOnePlace(m, kern) ==
    /\ m.free \cap kern = {}
    /\ ToSet(m.list) = Frame \ (m.free \cup kern)

(* The list is the order of arrival, the latest first. *)
InOrder(m, vaddr) ==
    /\ Len(m.arrived) = Len(m.list)
    /\ \A i \in 1 .. Len(m.list) : vaddr[m.list[Len(m.list) + 1 - i]] = m.arrived[i]

(* The clock's hand is at the end of the list, and no frame that has its   *)
(* bit set comes after one that has it clear.                              *)
HandAtEnd(m) ==
    IF sm = "clock"
    THEN /\ m.hand # head => m.list # << >> /\ m.hand = Last(m.list)
         /\ \A i, j \in 1 .. Len(m.list) :
               i < j /\ m.visited[m.list[j]] => m.visited[m.list[i]]
    ELSE m.hand = head

PagesInv(m, vaddr, kern) ==
    /\ PagesTypeOK(m)
    /\ Mapped(m, vaddr)
    /\ InOnePlace(m, kern)
    /\ InOrder(m, vaddr)
    /\ HandAtEnd(m)

OthersTypeOK ==
    /\ sm \in Manager
    /\ memory \in [Frame -> Value]
    /\ kernel \in SUBSET Frame /\ Cardinality(kernel) <= KernelPages
    /\ pra_vaddr \in [Frame -> Nat]

TypeOK == PagesTypeOK(as_it_is) /\ OthersTypeOK

SwapInv == OthersTypeOK /\ PagesInv(as_it_is, pra_vaddr, kernel)

-----------------------------------------------------------------------------
(* swap_out. *)
LEMMA HandOrder ==
    ASSUME SwapInv, sm = "clock", pra_list # << >>
    PROVE  /\ Len(FromHand) = Len(pra_list) /\ FromHand \in Seq(Frame)
           /\ \A k \in 1 .. Len(pra_list) : FromHand[k] = pra_list[Len(pra_list) + 1 - k]
<1> DEFINE n == Len(pra_list)
           h == IF curr_ptr = head THEN n ELSE Position(pra_list, curr_ptr)
<1>1. pra_list \in Seq(Frame) /\ IsInjective(pra_list) /\ n \in Nat \ {0}
  BY DEF SwapInv, PagesInv, PagesTypeOK, Mapped, as_it_is
<1>2. curr_ptr # head => curr_ptr = Last(pra_list)
  BY DEF SwapInv, PagesInv, HandAtEnd, as_it_is
<1>3. h = n
  BY <1>1, <1>2, WithoutLast
<1>4. FromHand = [k \in 1 .. n |-> pra_list[((h - k) % n) + 1]]
  BY DEF FromHand
<1>5. ASSUME NEW k \in 1 .. n PROVE (h - k) % n = n - k
  <2>1. n - k \in Nat /\ n - k < n
    BY <1>1
  <2> QED BY <1>1, <1>3, <2>1
<1> HIDE DEF h
<1>6. \A k \in 1 .. n : FromHand[k] = pra_list[n + 1 - k]
  BY <1>1, <1>4, <1>5
<1>7. FromHand \in [1 .. n -> Frame]
  BY <1>1, <1>4, <1>5
<1> QED BY <1>1, <1>6, <1>7

(* The clock, like the others, takes the last frame of the list: either    *)
(* its bit is clear and no other is looked at, or all bits are set and are *)
(* cleared on the way round.                                               *)
LEMMA VictimIsLast ==
    ASSUME SwapInv, pra_list # << >>
    PROVE  /\ Victim = Last(pra_list)
           /\ sm = "clock" => ToSet(Passed) \in {{}, ToSet(pra_list)}
<1> DEFINE n == Len(pra_list)
           I == {k \in 1 .. Len(FromHand) : ~visited[FromHand[k]]}
<1>1. CASE sm # "clock"
  BY <1>1 DEF Victim
<1>2. CASE sm = "clock"
  <2> HIDE DEF I
  <2>1. pra_list \in Seq(Frame) /\ n \in Nat \ {0} /\ Last(pra_list) = pra_list[n]
    BY DEF SwapInv, PagesInv, PagesTypeOK, as_it_is, Last
  <2>2. /\ Len(FromHand) = n /\ FromHand \in Seq(Frame)
        /\ \A k \in 1 .. n : FromHand[k] = pra_list[n + 1 - k]
    BY <1>2, HandOrder
  <2>3. FromHand[1] = Last(pra_list)
    BY <2>1, <2>2
  <2>4. Unvisited = IF I # {} THEN Min(I) ELSE 0
    BY Zenon DEF Unvisited, SelectInSeq, I
  <2>5. CASE visited[pra_list[n]]
    <3>1. \A k \in 1 .. n : visited[pra_list[k]]
      BY <1>2, <2>1, <2>5 DEF SwapInv, PagesInv, HandAtEnd, as_it_is
    <3>2. I = {}
      <4>1. ASSUME NEW k \in 1 .. n PROVE visited[FromHand[k]]
        <5>1. n + 1 - k \in 1 .. n
          BY <2>1
        <5> QED BY <2>2, <3>1, <5>1
      <4> QED BY <2>2, <4>1 DEF I
    <3>3. Passed = FromHand
      BY <2>4, <3>2 DEF Passed
    <3>4. ToSet(FromHand) = ToSet(pra_list)
      BY <2>1, <2>2, ReversedSet
    <3> QED BY <1>2, <2>2, <2>3, <3>3, <3>4 DEF Victim, ClockVictim
  <2>6. CASE ~visited[pra_list[n]]
    <3>1. I \in SUBSET Int /\ 1 \in I /\ \A i \in I : 1 <= i
      BY <2>1, <2>2, <2>3, <2>6 DEF I, Last
    <3>2. Unvisited = 1
      BY <2>4, <3>1, MinOf
    <3>3. Passed = << >>
      BY <2>2, <3>2 DEF Passed
    <3>4. Len(Passed) # n /\ Len(Passed) + 1 = 1 /\ ToSet(Passed) = {}
      BY <2>1, <3>3 DEF ToSet
    <3> QED BY <1>2, <2>3, <3>4 DEF Victim, ClockVictim
  <2> QED BY <2>5, <2>6
<1> QED BY <1>1, <1>2

(* What swap_out does: the last frame of the list is taken from the page   *)
(* that has been there the longest.                                        *)
LEMMA SwapOutResult ==
    ASSUME SwapInv, pra_list # << >>
    PROVE  LET n == Len(pra_list)
               f == pra_list[n]
               v == pra_vaddr[f]
           IN  /\ f \in Frame /\ v \in Virt /\ pte[v] = f /\ v = arrived[1] /\ arrived # << >>
               /\ swap_out.pte = [pte EXCEPT ![v] = swap_entry(v)]
               /\ swap_out.disk = [disk EXCEPT ![swap_entry(v)] = memory[f]]
               /\ swap_out.free = {f}
               /\ swap_out.list = SubSeq(pra_list, 1, n - 1)
               /\ swap_out.tlb = [w \in Virt |-> head]
               /\ swap_out.hand = IF sm = "clock" /\ n # 1 THEN pra_list[n - 1] ELSE head
               /\ swap_out.visited = IF sm = "clock" THEN [g \in Frame |-> visited[g] /\ g \notin ToSet(Passed)]
                                     ELSE visited
               /\ swap_out.arrived = Tail(arrived)
<1> DEFINE n == Len(pra_list)
           f == pra_list[n]
           v == pra_vaddr[f]
<1>1. pra_list \in Seq(Frame) /\ arrived \in Seq(Virt) /\ n \in Nat \ {0} /\ n \in 1 .. n /\ IsInjective(pra_list)
  BY DEF SwapInv, PagesInv, PagesTypeOK, Mapped, as_it_is
<1>2. f \in Frame /\ v \in Virt /\ pte[v] = f /\ f = Last(pra_list)
  BY <1>1 DEF SwapInv, PagesInv, Mapped, as_it_is, Last
<1>3. Len(arrived) = n /\ v = arrived[1] /\ arrived # << >>
  <2>1. Len(arrived) = n /\ \A i \in 1 .. n : pra_vaddr[pra_list[n + 1 - i]] = arrived[i]
    BY DEF SwapInv, PagesInv, InOrder, as_it_is
  <2>2. 1 \in 1 .. n /\ n + 1 - 1 = n
    BY <1>1
  <2> QED BY <1>1, <2>1, <2>2
<1>4. Victim = f
  BY <1>2, VictimIsLast
<1>5. Position(pra_list, f) = n /\ Without(pra_list, f) = SubSeq(pra_list, 1, n - 1)
  BY <1>1, <1>2, WithoutLast
<1>6. Without(arrived, v) = Tail(arrived)
  BY <1>1, <1>3, WithoutFirst
<1>7. sm # "clock" => curr_ptr = head
  BY DEF SwapInv, PagesInv, HandAtEnd, as_it_is
<1> HIDE DEF f, v
<1> QED BY <1>2, <1>3, <1>4, <1>5, <1>6, <1>7 DEF swap_out, tlb_invalidate, Preceding, n, f, v

LEMMA Prefix ==
    ASSUME NEW S, NEW s \in Seq(S), NEW n \in 0 .. Len(s)
    PROVE  /\ SubSeq(s, 1, n) \in Seq(S)
           /\ Len(SubSeq(s, 1, n)) = n
           /\ \A i \in 1 .. n : SubSeq(s, 1, n)[i] = s[i]
OBVIOUS

LEMMA AllButLast ==
    ASSUME NEW S, NEW s \in Seq(S), s # << >>
    PROVE  /\ SubSeq(s, 1, Len(s) - 1) \in Seq(S)
           /\ Len(SubSeq(s, 1, Len(s) - 1)) = Len(s) - 1
           /\ \A i \in 1 .. Len(s) - 1 : SubSeq(s, 1, Len(s) - 1)[i] = s[i] /\ i \in 1 .. Len(s)
           /\ IsInjective(s) => ToSet(SubSeq(s, 1, Len(s) - 1)) = ToSet(s) \ {s[Len(s)]}
<1> DEFINE t == SubSeq(s, 1, Len(s) - 1)
<1>0. Len(s) \in Nat /\ Len(s) >= 1
  OBVIOUS
<1>1. Len(s) - 1 \in 0 .. Len(s)
  BY <1>0
<1>2. t \in Seq(S) /\ Len(t) = Len(s) - 1 /\ \A i \in 1 .. Len(s) - 1 : t[i] = s[i]
  BY <1>1, Prefix
<1> HIDE DEF t
<1>3. ASSUME IsInjective(s) PROVE ToSet(t) = ToSet(s) \ {s[Len(s)]}
  <2>1. \A i, j \in 1 .. Len(s) : s[i] = s[j] => i = j
    BY <1>3 DEF IsInjective
  <2>2. \A i \in 1 .. Len(s) - 1 : t[i] = s[i] /\ i \in 1 .. Len(s) /\ i # Len(s) /\ Len(s) \in 1 .. Len(s)
    BY <1>0, <1>2
  <2>3. ASSUME NEW x \in ToSet(t) PROVE x \in ToSet(s) /\ x # s[Len(s)]
    <3>1. PICK i \in 1 .. Len(s) - 1 : x = t[i]
      BY <1>2, MembersOf
    <3> QED BY <2>1, <2>2, <3>1, MembersOf
  <2>4. ASSUME NEW x \in ToSet(s), x # s[Len(s)] PROVE x \in ToSet(t)
    <3>1. PICK i \in 1 .. Len(s) : x = s[i]
      BY MembersOf
    <3>2. i \in 1 .. Len(s) - 1
      BY <1>0, <2>4, <3>1
    <3> QED BY <1>2, <3>1, <3>2, MembersOf
  <2> QED BY <2>3, <2>4
<1>4. \A i \in 1 .. Len(s) - 1 : i \in 1 .. Len(s)
  BY <1>0
<1> QED BY <1>2, <1>3, <1>4 DEF t

LEMMA Entries ==
    ASSUME NEW v \in Virt
    PROVE  /\ NoEntry \notin Frame /\ head \notin Frame
           /\ swap_entry(v) \in Nat /\ swap_entry(v) # NoEntry /\ swap_entry(v) \notin Frame
           /\ \A w \in Virt : swap_entry(w) = swap_entry(v) => w = v
<1>1. v \in Nat /\ v # 0 /\ max_swap_offset \in Nat /\ v + 1 < max_swap_offset
  BY SwapAssumption DEF swap_entry
<1>2. v + 1 \in 0 .. max_swap_offset /\ 0 \in 0 .. max_swap_offset
  BY <1>1
<1>3. v + 1 \notin Frame /\ 0 \notin Frame /\ head \notin Frame
  BY <1>2, SwapAssumption
<1>4. \A w \in Virt : w \in Nat
  BY SwapAssumption
<1> QED BY <1>1, <1>3, <1>4 DEF swap_entry, NoEntry

(* The pages are in order after swap_out. *)
LEMMA SwapOutKeeps ==
    ASSUME SwapInv, pra_list # << >>, free = {}
    PROVE  PagesInv(swap_out, pra_vaddr, kernel)
<1> DEFINE n == Len(pra_list)
           f == pra_list[n]
           v == pra_vaddr[f]
           m == swap_out
<1>1. /\ f \in Frame /\ v \in Virt /\ pte[v] = f /\ v = arrived[1] /\ arrived # << >>
      /\ m.pte = [pte EXCEPT ![v] = swap_entry(v)]
      /\ m.disk = [disk EXCEPT ![swap_entry(v)] = memory[f]]
      /\ m.free = {f}
      /\ m.list = SubSeq(pra_list, 1, n - 1)
      /\ m.tlb = [w \in Virt |-> head]
      /\ m.hand = IF sm = "clock" /\ n # 1 THEN pra_list[n - 1] ELSE head
      /\ m.visited = IF sm = "clock" THEN [g \in Frame |-> visited[g] /\ g \notin ToSet(Passed)]
                     ELSE visited
      /\ m.arrived = Tail(arrived)
  BY SwapOutResult
<1>2. PagesTypeOK(as_it_is) /\ OthersTypeOK
  BY DEF SwapInv, PagesInv
<1>3. pra_list \in Seq(Frame) /\ IsInjective(pra_list) /\ pte \in [Virt -> Frame \cup Nat]
  BY <1>2 DEF SwapInv, PagesInv, PagesTypeOK, Mapped, as_it_is
<1>n. n \in Nat /\ n >= 1
  BY <1>3
<1>4. /\ m.list \in Seq(Frame) /\ Len(m.list) = n - 1
      /\ \A i \in 1 .. n - 1 : m.list[i] = pra_list[i] /\ i \in 1 .. n
      /\ ToSet(m.list) = ToSet(pra_list) \ {f}
  <2> DEFINE s == SubSeq(pra_list, 1, n - 1)
  <2>1. /\ s \in Seq(Frame) /\ Len(s) = n - 1
        /\ \A i \in 1 .. n - 1 : s[i] = pra_list[i] /\ i \in 1 .. n
        /\ ToSet(s) = ToSet(pra_list) \ {f}
    BY <1>3, AllButLast
  <2>2. m.list = s
    BY <1>1
  <2> HIDE DEF s, m
  <2> QED BY <2>1, <2>2
<1>5. swap_entry(v) \in Nat /\ swap_entry(v) # NoEntry /\ swap_entry(v) \notin Frame
  BY <1>1, Entries
<1> HIDE DEF n, f, v, m
<1>6. PagesTypeOK(m)
  <2>1. m.pte \in [Virt -> Frame \cup Nat]
    BY <1>1, <1>3, <1>5
  <2>2. m.disk \in [{swap_entry(w) : w \in Virt} -> Value]
    <3>1. disk \in [{swap_entry(w) : w \in Virt} -> Value] /\ memory \in [Frame -> Value]
      BY <1>2 DEF PagesTypeOK, OthersTypeOK, as_it_is
    <3>2. f \in Frame
      BY <1>1
    <3> QED BY <1>1, <3>1, <3>2
  <2>3. m.hand \in Frame \cup {head} /\ m.tlb \in [Virt -> Frame \cup {head}]
    <3>1. n # 1 => n - 1 \in 1 .. n
      BY <1>n
    <3>2. n # 1 => pra_list[n - 1] \in Frame
      BY <1>3, <3>1 DEF n
    <3> QED BY <1>1, <3>2
  <2>4. m.visited \in [Frame -> BOOLEAN]
    <3>1. visited \in [Frame -> BOOLEAN]
      BY <1>2 DEF PagesTypeOK, as_it_is
    <3>2. [g \in Frame |-> visited[g] /\ g \notin ToSet(Passed)] \in [Frame -> BOOLEAN]
      BY <3>1
    <3> QED BY <1>1, <3>1, <3>2
  <2>5. m.arrived \in Seq(Virt)
    BY <1>1, <1>2 DEF PagesTypeOK, as_it_is
  <2> QED BY <1>1, <1>4, <2>1, <2>2, <2>3, <2>4, <2>5 DEF PagesTypeOK
<1>7. Mapped(m, pra_vaddr)
  <2>1. IsInjective(m.list)
    <3>1. \A i, j \in 1 .. n : pra_list[i] = pra_list[j] => i = j
      BY <1>3 DEF n, IsInjective
    <3>2. DOMAIN m.list = 1 .. n - 1
      BY <1>4
    <3> QED BY <1>4, <3>1, <3>2 DEF IsInjective
  <2>2. ASSUME NEW i \in 1 .. n - 1
        PROVE  pra_vaddr[m.list[i]] \in Virt /\ m.pte[pra_vaddr[m.list[i]]] = m.list[i]
    <3>1. pra_vaddr[pra_list[i]] \in Virt /\ pte[pra_vaddr[pra_list[i]]] = pra_list[i]
      BY <1>3, <1>n, <1>4 DEF SwapInv, PagesInv, Mapped, as_it_is, n
    <3>2. pra_list[i] # f
      BY <1>3, <1>n, <1>4, <2>2 DEF IsInjective, n, f
    <3>3. pra_vaddr[pra_list[i]] # v
      BY <1>1, <3>1, <3>2
    <3> QED BY <1>1, <1>3, <1>4, <3>1, <3>3
  <2>3. ASSUME NEW w \in Virt, m.pte[w] \in Frame
        PROVE  m.pte[w] \in ToSet(m.list) /\ pra_vaddr[m.pte[w]] = w
    <3>1. w # v /\ m.pte[w] = pte[w]
      BY <1>1, <1>3, <1>5, <2>3
    <3>2. pte[w] \in ToSet(pra_list) /\ pra_vaddr[pte[w]] = w
      BY <2>3, <3>1 DEF SwapInv, PagesInv, Mapped, as_it_is
    <3>3. pte[w] # f
      BY <3>1, <3>2 DEF v
    <3> QED BY <1>4, <3>1, <3>2, <3>3
  <2>4. ASSUME NEW w \in Virt, m.pte[w] \notin Frame
        PROVE  m.pte[w] \in {NoEntry, swap_entry(w)}
    BY <1>1, <1>3, <2>4 DEF SwapInv, PagesInv, Mapped, as_it_is
  <2> QED BY <1>1, <1>4, <2>1, <2>2, <2>3, <2>4 DEF Mapped
<1>8. InOnePlace(m, kernel)
  <2>1. ToSet(pra_list) = Frame \ kernel
    BY DEF SwapInv, PagesInv, InOnePlace, as_it_is
  <2>2. f \in ToSet(pra_list)
    BY <1>3, <1>n, MembersOf DEF f, n
  <2> QED BY <1>1, <1>4, <2>1, <2>2 DEF InOnePlace
<1>9. InOrder(m, pra_vaddr)
  <2>1. /\ arrived \in Seq(Virt) /\ Len(arrived) = n
        /\ \A i \in 1 .. n : pra_vaddr[pra_list[n + 1 - i]] = arrived[i]
    BY <1>2 DEF SwapInv, PagesInv, PagesTypeOK, InOrder, as_it_is, n
  <2>2. Len(m.arrived) = n - 1 /\ \A i \in 1 .. n - 1 : m.arrived[i] = arrived[i + 1]
    BY <1>1, <1>n, <2>1
  <2>3. ASSUME NEW i \in 1 .. n - 1 PROVE pra_vaddr[m.list[n - 1 + 1 - i]] = m.arrived[i]
    <3>1. i + 1 \in 1 .. n /\ n + 1 - (i + 1) = n - i /\ n - 1 + 1 - i = n - i /\ n - i \in 1 .. n - 1
      BY <1>n
    <3>2. pra_vaddr[pra_list[n - i]] = arrived[i + 1]
      BY <2>1, <3>1
    <3> QED BY <1>4, <2>2, <3>1, <3>2
  <2> QED BY <1>4, <2>2, <2>3 DEF InOrder
<1>10. HandAtEnd(m)
  <2>1. CASE sm # "clock"
    BY <1>1, <2>1 DEF HandAtEnd
  <2>2. CASE sm = "clock"
    <3>1. m.hand # head => m.list # << >> /\ m.hand = Last(m.list)
      <4>1. CASE n = 1
        BY <1>1, <4>1
      <4>2. CASE n # 1
        <5>1. n - 1 \in 1 .. n - 1
          BY <1>n, <4>2
        <5>2. m.list # << >> /\ Last(m.list) = pra_list[n - 1]
          BY <1>4, <5>1 DEF Last
        <5> QED BY <1>1, <2>2, <4>2, <5>2
      <4> QED BY <4>1, <4>2
    <3>2. ASSUME NEW i \in 1 .. n - 1, NEW j \in 1 .. n - 1, i < j, m.visited[m.list[j]]
          PROVE  m.visited[m.list[i]]
      <4>1. /\ m.list[i] = pra_list[i] /\ m.list[j] = pra_list[j] /\ i \in 1 .. n /\ j \in 1 .. n
            /\ pra_list[i] \in Frame /\ pra_list[j] \in Frame
        BY <1>3, <1>n, <1>4 DEF n
      <4>2. visited[pra_list[j]] /\ pra_list[j] \notin ToSet(Passed)
        <5>1. m.visited = [g \in Frame |-> visited[g] /\ g \notin ToSet(Passed)]
          BY <1>1, <2>2
        <5>2. m.visited[pra_list[j]] = (visited[pra_list[j]] /\ pra_list[j] \notin ToSet(Passed))
          BY <4>1, <5>1, Zenon
        <5> QED BY <3>2, <4>1, <5>2, Zenon
      <4>3. visited[pra_list[i]]
        BY <2>2, <3>2, <4>1, <4>2 DEF SwapInv, PagesInv, HandAtEnd, as_it_is, n
      <4>4. ToSet(Passed) # ToSet(pra_list)
        BY <1>3, <4>1, <4>2, MembersOf DEF n
      <4>5. ToSet(Passed) = {}
        BY <2>2, <4>4, VictimIsLast
      <4>6. m.visited = [g \in Frame |-> visited[g] /\ g \notin {}]
        BY <1>1, <2>2, <4>5
      <4>7. m.visited[pra_list[i]] = (visited[pra_list[i]] /\ pra_list[i] \notin {})
        BY <4>1, <4>6, Zenon
      <4> QED BY <4>1, <4>3, <4>7
    <3> QED BY <1>4, <2>2, <3>1, <3>2 DEF HandAtEnd
  <2> QED BY <2>1, <2>2
<1> QED BY <1>6, <1>7, <1>8, <1>9, <1>10 DEF PagesInv, m

-----------------------------------------------------------------------------
(* alloc_page: the pages are in order after it, it has a frame to give,    *)
(* the page it took one from is the first that arrived, and no page has    *)
(* lost what it contained.                                                 *)
ContentsOf(m) ==
    [v \in Virt |-> IF m.pte[v] = NoEntry THEN head
                    ELSE IF m.pte[v] \in Frame THEN memory[m.pte[v]] ELSE m.disk[m.pte[v]]]

LEMMA SomeIsSwappable == SwapInv /\ free = {} => pra_list # << >>
<1> SUFFICES ASSUME SwapInv, free = {}, pra_list = << >> PROVE FALSE
  OBVIOUS
<1>1. ToSet(pra_list) = {}
  BY DEF ToSet
<1>2. kernel \in SUBSET Frame /\ Cardinality(kernel) <= KernelPages /\ ToSet(pra_list) = Frame \ kernel
  BY DEF SwapInv, OthersTypeOK, PagesInv, InOnePlace, as_it_is
<1>3. kernel = Frame
  BY <1>1, <1>2
<1>4. Cardinality(Frame) \in Nat
  BY SwapAssumption, FS_CardinalityType
<1> QED BY <1>2, <1>3, <1>4, SwapAssumption

LEMMA AllocPage ==
    ASSUME SwapInv, NEW m, m = alloc_page
    PROVE  /\ PagesInv(m, pra_vaddr, kernel)
           /\ m.free # {}
           /\ \A v \in Virt : pte[v] \notin Frame => m.pte[v] = pte[v]
           /\ \A v \in Virt : pte[v] \in Frame /\ m.pte[v] \notin Frame => v = Head(arrived)
           /\ ContentsOf(m) = contents
<1>0. pte \in [Virt -> Frame \cup Nat] /\ disk \in [{swap_entry(v) : v \in Virt} -> Value]
  BY DEF SwapInv, PagesInv, PagesTypeOK, as_it_is
<1>1. CASE free # {}
  <2>1. m = as_it_is
    BY <1>1 DEF alloc_page
  <2>2. m.pte = pte /\ m.disk = disk /\ m.free = free
    BY <2>1 DEF as_it_is
  <2> QED BY <1>1, <2>1, <2>2 DEF SwapInv, ContentsOf, contents
<1>2. CASE free = {}
  <2> DEFINE f == pra_list[Len(pra_list)]
             v == pra_vaddr[f]
  <2>1. m = swap_out /\ pra_list # << >>
    BY <1>2, SomeIsSwappable DEF alloc_page
  <2>2. PagesInv(m, pra_vaddr, kernel)
    BY <1>2, <2>1, SwapOutKeeps
  <2>3. /\ f \in Frame /\ v \in Virt /\ pte[v] = f /\ v = arrived[1] /\ arrived # << >>
        /\ m.pte = [pte EXCEPT ![v] = swap_entry(v)]
        /\ m.disk = [disk EXCEPT ![swap_entry(v)] = memory[f]]
        /\ m.free = {f}
    BY <2>1, SwapOutResult
  <2> HIDE DEF f, v
  <2>4. swap_entry(v) # NoEntry /\ swap_entry(v) \notin Frame /\ NoEntry \notin Frame
    BY <2>3, Entries
  <2>5. ASSUME NEW w \in Virt PROVE w # v => m.pte[w] = pte[w]
    BY <1>0, <2>3
  <2>6. m.pte[v] = swap_entry(v) /\ m.disk[swap_entry(v)] = memory[f]
    BY <1>0, <2>3
  <2>7. ASSUME NEW w \in Virt PROVE ContentsOf(m)[w] = contents[w]
    <3>1. CASE w = v
      BY <2>3, <2>4, <2>6, <3>1 DEF ContentsOf, contents
    <3>2. CASE w # v
      <4>1. pte[w] \notin Frame => pte[w] \in {NoEntry, swap_entry(w)}
        BY DEF SwapInv, PagesInv, Mapped, as_it_is
      <4>2. swap_entry(w) # swap_entry(v)
        BY <2>3, <3>2, Entries
      <4>3. pte[w] = swap_entry(w) => m.disk[pte[w]] = disk[pte[w]]
        BY <1>0, <2>3, <4>2
      <4> QED BY <2>5, <3>2, <4>1, <4>3 DEF ContentsOf, contents
    <3> QED BY <3>1, <3>2
  <2>8. ContentsOf(m) = contents
    BY <2>7 DEF ContentsOf, contents
  <2>9. Head(arrived) = arrived[1]
    BY <2>3 DEF SwapInv, PagesInv, PagesTypeOK, as_it_is
  <2> QED BY <2>2, <2>3, <2>4, <2>5, <2>8, <2>9
<1> QED BY <1>1, <1>2

-----------------------------------------------------------------------------
(* The end of do_pgfault: a free frame f is mapped at v. *)
LEMMA Consed ==
    ASSUME NEW S, NEW s \in Seq(S), NEW x \in S
    PROVE  /\ <<x>> \o s \in Seq(S) /\ Len(<<x>> \o s) = Len(s) + 1
           /\ (<<x>> \o s)[1] = x
           /\ \A i \in 1 .. Len(s) : (<<x>> \o s)[i + 1] = s[i]
           /\ \A i \in 2 .. Len(s) + 1 : (<<x>> \o s)[i] = s[i - 1] /\ i - 1 \in 1 .. Len(s)
           /\ ToSet(<<x>> \o s) = ToSet(s) \cup {x}
<1> DEFINE t == <<x>> \o s
<1>1. t \in Seq(S) /\ Len(t) = Len(s) + 1 /\ Len(s) \in Nat
  OBVIOUS
<1>2. t[1] = x /\ \A i \in 1 .. Len(s) : t[i + 1] = s[i]
  OBVIOUS
<1>3. \A i \in 2 .. Len(s) + 1 : t[i] = s[i - 1] /\ i - 1 \in 1 .. Len(s)
  OBVIOUS
<1> HIDE DEF t
<1>4. ASSUME NEW y \in ToSet(t) PROVE y \in ToSet(s) \cup {x}
  <2>1. PICK i \in 1 .. Len(s) + 1 : y = t[i]
    BY <1>1, MembersOf
  <2>2. i = 1 \/ i \in 2 .. Len(s) + 1
    BY <1>1
  <2> QED BY <1>2, <1>3, <2>1, <2>2, MembersOf
<1>5. ASSUME NEW y \in ToSet(s) PROVE y \in ToSet(t)
  <2>1. PICK i \in 1 .. Len(s) : y = s[i]
    BY MembersOf
  <2>2. i + 1 \in 1 .. Len(t)
    BY <1>1
  <2> QED BY <1>1, <1>2, <2>1, <2>2, MembersOf
<1>6. x \in ToSet(t)
  <2>1. 1 \in 1 .. Len(t)
    BY <1>1
  <2> QED BY <1>1, <1>2, <2>1, MembersOf
<1>7. ToSet(t) = ToSet(s) \cup {x}
  BY <1>4, <1>5, <1>6
<1> QED BY <1>1, <1>2, <1>3, <1>7 DEF t

LEMMA MapKeeps ==
    ASSUME NEW m, NEW vaddr \in [Frame -> Nat], NEW kern \in SUBSET Frame, PagesInv(m, vaddr, kern),
           NEW v \in Virt, m.pte[v] \notin Frame, NEW f \in m.free, NEW b \in BOOLEAN,
           sm = "clock" => b
    PROVE  PagesInv([pte |-> [m.pte EXCEPT ![v] = f], disk |-> m.disk, free |-> m.free \ {f},
                     list |-> <<f>> \o m.list, tlb |-> tlb_invalidate, hand |-> m.hand,
                     visited |-> [m.visited EXCEPT ![f] = b],
                     arrived |-> Append(m.arrived, v)], [vaddr EXCEPT ![f] = v], kern)
<1> DEFINE va == [vaddr EXCEPT ![f] = v]
           list == <<f>> \o m.list
           n == Len(m.list)
           p == [m.pte EXCEPT ![v] = f]
           vis == [m.visited EXCEPT ![f] = b]
           arr == Append(m.arrived, v)
           r == [pte |-> p, disk |-> m.disk, free |-> m.free \ {f}, list |-> list,
                 tlb |-> tlb_invalidate, hand |-> m.hand, visited |-> vis, arrived |-> arr]
<1>1. /\ m.pte \in [Virt -> Frame \cup Nat] /\ m.list \in Seq(Frame) /\ m.arrived \in Seq(Virt)
      /\ m.disk \in [{swap_entry(w) : w \in Virt} -> Value] /\ m.free \in SUBSET Frame
      /\ m.hand \in Frame \cup {head} /\ m.visited \in [Frame -> BOOLEAN] /\ f \in Frame
  BY DEF PagesInv, PagesTypeOK
<1>2. /\ r.pte = p /\ r.disk = m.disk /\ r.free = m.free \ {f} /\ r.list = list
      /\ r.tlb = tlb_invalidate /\ r.hand = m.hand /\ r.visited = vis /\ r.arrived = arr
  OBVIOUS
<1>3. /\ list \in Seq(Frame) /\ Len(list) = n + 1 /\ list[1] = f /\ n \in Nat
      /\ \A i \in 1 .. n : list[i + 1] = m.list[i]
      /\ \A i \in 2 .. n + 1 : list[i] = m.list[i - 1] /\ i - 1 \in 1 .. n
      /\ ToSet(list) = ToSet(m.list) \cup {f}
  BY <1>1, Consed
<1>4. \A i \in 1 .. n : m.list[i] \in Frame /\ m.list[i] \in ToSet(m.list)
  BY <1>1, MembersOf
<1>5. f \notin ToSet(m.list) /\ ToSet(m.list) = Frame \ (m.free \cup kern) /\ m.free \cap kern = {}
  BY DEF PagesInv, InOnePlace
<1> HIDE DEF va, list, n, p, vis, arr, r
<1>6. \A i \in 1 .. n : m.list[i] # f /\ va[m.list[i]] = vaddr[m.list[i]]
  BY <1>4, <1>5 DEF va
<1>7. PagesTypeOK(r)
  <2>1. p \in [Virt -> Frame \cup Nat] /\ vis \in [Frame -> BOOLEAN] /\ arr \in Seq(Virt)
    BY <1>1 DEF p, vis, arr
  <2>2. tlb_invalidate \in [Virt -> Frame \cup {head}]
    BY DEF tlb_invalidate
  <2> QED BY <1>1, <1>2, <1>3, <2>1, <2>2 DEF PagesTypeOK
<1>8. Mapped(r, va)
  <2>1. IsInjective(list)
    <3>1. \A i, j \in 1 .. n : m.list[i] = m.list[j] => i = j
      BY <1>1 DEF PagesInv, Mapped, IsInjective, n
    <3>2. ASSUME NEW i \in 1 .. n + 1, NEW j \in 1 .. n + 1, list[i] = list[j] PROVE i = j
      <4>1. /\ i = 1 \/ (i \in 2 .. n + 1 /\ i - 1 \in 1 .. n /\ list[i] = m.list[i - 1])
            /\ j = 1 \/ (j \in 2 .. n + 1 /\ j - 1 \in 1 .. n /\ list[j] = m.list[j - 1])
        BY <1>3
      <4>2. i # 1 => list[i] # f
        BY <1>6, <4>1
      <4>3. j # 1 => list[j] # f
        BY <1>6, <4>1
      <4>4. i = 1 <=> j = 1
        BY <1>3, <3>2, <4>2, <4>3
      <4>5. ASSUME i # 1 PROVE i - 1 = j - 1
        BY <3>1, <3>2, <4>1, <4>4, <4>5
      <4> QED BY <4>4, <4>5
    <3>3. DOMAIN list = 1 .. n + 1
      BY <1>3
    <3> QED BY <3>2, <3>3 DEF IsInjective
  <2>2. ASSUME NEW i \in 1 .. n + 1 PROVE va[list[i]] \in Virt /\ p[va[list[i]]] = list[i]
    <3>1. CASE i = 1
      BY <1>1, <1>3, <3>1 DEF va, p
    <3>2. CASE i # 1
      <4>1. i \in 2 .. n + 1
        BY <1>3, <3>2
      <4>2. list[i] = m.list[i - 1] /\ i - 1 \in 1 .. n
        BY <1>3, <4>1
      <4>3. vaddr[m.list[i - 1]] \in Virt /\ m.pte[vaddr[m.list[i - 1]]] = m.list[i - 1]
        BY <4>2 DEF PagesInv, Mapped, n
      <4>4. vaddr[m.list[i - 1]] # v
        BY <1>4, <4>2, <4>3
      <4> QED BY <1>1, <1>6, <4>2, <4>3, <4>4 DEF p
    <3> QED BY <3>1, <3>2
  <2>3. ASSUME NEW w \in Virt, p[w] \in Frame PROVE p[w] \in ToSet(list) /\ va[p[w]] = w
    <3>1. CASE w = v
      BY <1>1, <1>3, <3>1 DEF p, va
    <3>2. CASE w # v
      <4>1. p[w] = m.pte[w] /\ m.pte[w] \in ToSet(m.list) /\ vaddr[m.pte[w]] = w
        BY <1>1, <2>3, <3>2 DEF p, PagesInv, Mapped
      <4> QED BY <1>3, <1>5, <2>3, <4>1 DEF va
    <3> QED BY <3>1, <3>2
  <2>4. ASSUME NEW w \in Virt, p[w] \notin Frame PROVE p[w] \in {NoEntry, swap_entry(w)}
    BY <1>1, <2>4 DEF p, PagesInv, Mapped
  <2>5. \A w \in Virt : tlb_invalidate[w] = head
    BY DEF tlb_invalidate
  <2> QED BY <1>2, <1>3, <2>1, <2>2, <2>3, <2>4, <2>5 DEF Mapped
<1>9. InOnePlace(r, kern)
  BY <1>1, <1>2, <1>3, <1>5 DEF InOnePlace
<1>10. InOrder(r, va)
  <2>1. Len(m.arrived) = n /\ \A i \in 1 .. n : vaddr[m.list[n + 1 - i]] = m.arrived[i]
    BY DEF PagesInv, InOrder, n
  <2>2. Len(arr) = n + 1 /\ arr[n + 1] = v /\ \A i \in 1 .. n : arr[i] = m.arrived[i]
    BY <1>1, <2>1 DEF arr
  <2>3. ASSUME NEW i \in 1 .. n + 1 PROVE va[list[n + 1 + 1 - i]] = arr[i]
    <3>1. CASE i = n + 1
      <4>1. n + 1 + 1 - i = 1
        BY <1>3, <3>1
      <4> QED BY <1>1, <1>3, <2>2, <3>1, <4>1 DEF va
    <3>2. CASE i # n + 1
      <4>1. i \in 1 .. n /\ n + 1 - i \in 1 .. n /\ n + 1 + 1 - i = (n + 1 - i) + 1
        BY <1>3, <3>2
      <4>2. list[(n + 1 - i) + 1] = m.list[n + 1 - i]
        BY <1>3, <4>1
      <4>3. va[m.list[n + 1 - i]] = m.arrived[i]
        BY <1>6, <2>1, <4>1
      <4> QED BY <2>2, <4>1, <4>2, <4>3
    <3> QED BY <3>1, <3>2
  <2> QED BY <1>2, <1>3, <2>2, <2>3 DEF InOrder
<1>11. HandAtEnd(r)
  <2>1. CASE sm # "clock"
    BY <1>2, <2>1 DEF PagesInv, HandAtEnd
  <2>2. CASE sm = "clock"
    <3>1. m.hand # head => list # << >> /\ m.hand = Last(list)
      <4>1. m.hand # head => m.list # << >> /\ m.hand = m.list[n]
        BY <2>2 DEF PagesInv, HandAtEnd, Last, n
      <4>2. m.list # << >> => n \in 1 .. n
        BY <1>1 DEF n
      <4>3. m.list # << >> => list[n + 1] = m.list[n]
        BY <1>3, <4>2
      <4>4. list # << >>
        BY <1>3
      <4> QED BY <1>3, <4>1, <4>3, <4>4 DEF Last
    <3>2. ASSUME NEW i \in 1 .. n + 1, NEW j \in 1 .. n + 1, i < j, vis[list[j]] PROVE vis[list[i]]
      <4>1. j \in 2 .. n + 1 /\ (i = 1 \/ i \in 2 .. n + 1)
        BY <1>3, <3>2
      <4>2. CASE i = 1
        BY <1>1, <1>3, <2>2, <4>2 DEF vis
      <4>3. CASE i \in 2 .. n + 1
        <5>1. /\ list[i] = m.list[i - 1] /\ i - 1 \in 1 .. n
              /\ list[j] = m.list[j - 1] /\ j - 1 \in 1 .. n /\ i - 1 < j - 1
          BY <1>3, <3>2, <4>1, <4>3
        <5>2. vis[m.list[i - 1]] = m.visited[m.list[i - 1]] /\ vis[m.list[j - 1]] = m.visited[m.list[j - 1]]
          BY <1>1, <1>4, <1>6, <5>1 DEF vis
        <5>3. m.visited[m.list[j - 1]]
          BY <3>2, <5>1, <5>2
        <5> QED BY <2>2, <5>1, <5>2, <5>3 DEF PagesInv, HandAtEnd, n
      <4> QED BY <4>1, <4>2, <4>3
    <3> QED BY <1>2, <1>3, <2>2, <3>1, <3>2 DEF HandAtEnd
  <2> QED BY <2>1, <2>2
<1> QED BY <1>7, <1>8, <1>9, <1>10, <1>11 DEF PagesInv, r, p, list, vis, arr, va

(* A frame goes to the kernel, or comes back from it. *)
LEMMA TakeKeeps ==
    ASSUME NEW m, NEW vaddr, NEW kern, PagesInv(m, vaddr, kern), NEW f \in m.free
    PROVE  PagesInv([pte |-> m.pte, disk |-> m.disk, free |-> m.free \ {f}, list |-> m.list, tlb |-> m.tlb,
                     hand |-> m.hand, visited |-> m.visited, arrived |-> m.arrived], vaddr, kern \cup {f})
<1> DEFINE r == [pte |-> m.pte, disk |-> m.disk, free |-> m.free \ {f}, list |-> m.list, tlb |-> m.tlb,
                 hand |-> m.hand, visited |-> m.visited, arrived |-> m.arrived]
<1>1. /\ r.pte = m.pte /\ r.disk = m.disk /\ r.free = m.free \ {f} /\ r.list = m.list /\ r.tlb = m.tlb
      /\ r.hand = m.hand /\ r.visited = m.visited /\ r.arrived = m.arrived
  OBVIOUS
<1> HIDE DEF r
<1>2. PagesTypeOK(r)
  BY <1>1 DEF PagesInv, PagesTypeOK
<1>3. Mapped(r, vaddr)
  BY <1>1, Zenon DEF PagesInv, Mapped
<1>4. InOnePlace(r, kern \cup {f})
  BY <1>1 DEF PagesInv, InOnePlace
<1>5. InOrder(r, vaddr) /\ HandAtEnd(r)
  BY <1>1, Zenon DEF PagesInv, InOrder, HandAtEnd
<1> QED BY <1>2, <1>3, <1>4, <1>5 DEF PagesInv, r

-----------------------------------------------------------------------------
(* Every step keeps the invariant. *)
LEMMA SwapInit == Init => SwapInv
<1> SUFFICES ASSUME Init PROVE SwapInv
  OBVIOUS
<1>1. PagesTypeOK(as_it_is)
  BY DEF Init, PagesTypeOK, as_it_is, NoEntry
<1>2. Mapped(as_it_is, pra_vaddr)
  <2>1. IsInjective(<< >>)
    BY DEF IsInjective
  <2>2. \A v \in Virt : pte[v] = NoEntry /\ NoEntry \notin Frame /\ tlb[v] = head
    BY Entries DEF Init
  <2> QED BY <2>1, <2>2 DEF Init, Mapped, as_it_is
<1>3. InOnePlace(as_it_is, kernel)
  BY DEF Init, InOnePlace, as_it_is, ToSet
<1>4. InOrder(as_it_is, pra_vaddr) /\ HandAtEnd(as_it_is)
  BY DEF Init, InOrder, HandAtEnd, as_it_is
<1>5. OthersTypeOK
  BY SwapAssumption, FS_EmptySet DEF Init, OthersTypeOK
<1> QED BY <1>1, <1>2, <1>3, <1>4, <1>5 DEF SwapInv, PagesInv

(* A fault on v that alloc_page leaves as m is served with the frame f.    *)
Served(v, m, f) ==
    /\ memory' = IF pte[v] = NoEntry THEN memory ELSE [memory EXCEPT ![f] = m.disk[pte[v]]]
    /\ pte' = [m.pte EXCEPT ![v] = f]
    /\ disk' = m.disk
    /\ pra_vaddr' = [pra_vaddr EXCEPT ![f] = v]
    /\ as_it_is' = [pte |-> [m.pte EXCEPT ![v] = f], disk |-> m.disk, free |-> m.free \ {f},
                    list |-> <<f>> \o m.list, tlb |-> tlb_invalidate, hand |-> m.hand,
                    visited |-> [m.visited EXCEPT ![f] = IF sm = "fifo" THEN m.visited[f] ELSE TRUE],
                    arrived |-> Append(m.arrived, v)]

LEMMA FaultStep ==
    ASSUME NEW v \in Virt, do_pgfault(v), NEW m, m = alloc_page
    PROVE  \E f \in m.free : Served(v, m, f)
<1>1. PICK f \in m.free :
        /\ memory' = IF pte[v] = NoEntry THEN memory ELSE [memory EXCEPT ![f] = m.disk[pte[v]]]
        /\ pte' = [m.pte EXCEPT ![v] = f]
        /\ tlb' = tlb_invalidate
        /\ disk' = m.disk
        /\ free' = m.free \ {f}
        /\ pra_list' = map_swappable(m.list, f)
        /\ curr_ptr' = m.hand
        /\ visited' = [m.visited EXCEPT ![f] = IF sm = "fifo" THEN m.visited[f] ELSE TRUE]
        /\ pra_vaddr' = Vaddr(f, v, pte[v])
        /\ arrived' = Append(m.arrived, v)
  BY DEF do_pgfault
<1>2. pra_vaddr' = [pra_vaddr EXCEPT ![f] = v] /\ pra_list' = <<f>> \o m.list
  BY <1>1 DEF map_swappable, Vaddr
<1> QED BY <1>1, <1>2 DEF Served, as_it_is

LEMMA FaultKeeps ==
    ASSUME SwapInv, NEW v \in Virt, do_pgfault(v)
    PROVE  SwapInv'
<1> DEFINE m == alloc_page
<1>1. PagesInv(m, pra_vaddr, kernel) /\ m.pte[v] = pte[v] /\ pte[v] \notin Frame /\ sm' = sm /\ kernel' = kernel
  BY AllocPage DEF do_pgfault
<1>2. OthersTypeOK
  BY DEF SwapInv
<1>0. m = alloc_page
  OBVIOUS
<1> HIDE DEF m
<1>a. PICK f \in m.free : Served(v, m, f)
  BY <1>0, FaultStep
<1>3. /\ f \in m.free
      /\ memory' = IF pte[v] = NoEntry THEN memory ELSE [memory EXCEPT ![f] = m.disk[pte[v]]]
      /\ pra_vaddr' = [pra_vaddr EXCEPT ![f] = v]
      /\ as_it_is' = [pte |-> [m.pte EXCEPT ![v] = f], disk |-> m.disk, free |-> m.free \ {f},
                      list |-> <<f>> \o m.list, tlb |-> tlb_invalidate, hand |-> m.hand,
                      visited |-> [m.visited EXCEPT ![f] = IF sm = "fifo" THEN m.visited[f] ELSE TRUE],
                      arrived |-> Append(m.arrived, v)]
  BY <1>a DEF Served
<1>4. /\ m.free \in SUBSET Frame /\ m.visited \in [Frame -> BOOLEAN] /\ m.list \in Seq(Frame)
      /\ m.disk \in [{swap_entry(w) : w \in Virt} -> Value]
      /\ pte[v] # NoEntry => pte[v] = swap_entry(v)
  BY <1>1 DEF PagesInv, PagesTypeOK, Mapped
<1> DEFINE b == IF sm = "fifo" THEN m.visited[f] ELSE TRUE
<1>5. b \in BOOLEAN /\ (sm = "clock" => b)
  BY <1>3, <1>4
<1>6. pra_vaddr \in [Frame -> Nat] /\ kernel \in SUBSET Frame
  BY <1>2 DEF OthersTypeOK
<1> HIDE DEF b
<1>7. PagesInv(as_it_is', [pra_vaddr EXCEPT ![f] = v], kernel)
  BY <1>1, <1>3, <1>5, <1>6, MapKeeps DEF b
<1>8. PagesInv(as_it_is, pra_vaddr, kernel)'
  BY <1>1, <1>3, <1>7 DEF PagesInv, PagesTypeOK, Mapped, InOnePlace, InOrder, HandAtEnd
<1>9. OthersTypeOK'
  <2>1. memory' \in [Frame -> Value]
    BY <1>2, <1>3, <1>4 DEF OthersTypeOK
  <2>2. pra_vaddr' \in [Frame -> Nat]
    BY <1>3, <1>6, SwapAssumption
  <2> QED BY <1>1, <1>2, <2>1, <2>2 DEF OthersTypeOK
<1> QED BY <1>8, <1>9 DEF SwapInv

LEMMA KernelAllocStep ==
    ASSUME KernelAlloc, NEW m, m = alloc_page
    PROVE  \E f \in m.free, x \in Value :
              /\ memory' = [memory EXCEPT ![f] = x]
              /\ pte' = m.pte /\ disk' = m.disk
              /\ kernel' = kernel \cup {f}
              /\ as_it_is' = [pte |-> m.pte, disk |-> m.disk, free |-> m.free \ {f}, list |-> m.list,
                              tlb |-> m.tlb, hand |-> m.hand, visited |-> m.visited,
                              arrived |-> m.arrived]
BY DEF KernelAlloc, as_it_is

LEMMA KernelAllocKeeps == SwapInv /\ KernelAlloc => SwapInv'
<1> SUFFICES ASSUME SwapInv, KernelAlloc PROVE SwapInv'
  OBVIOUS
<1> DEFINE m == alloc_page
<1>1. PagesInv(m, pra_vaddr, kernel)
  BY AllocPage
<1>2. PICK f \in m.free, x \in Value :
        /\ memory' = [memory EXCEPT ![f] = x]
        /\ kernel' = kernel \cup {f}
        /\ as_it_is' = [pte |-> m.pte, disk |-> m.disk, free |-> m.free \ {f}, list |-> m.list,
                        tlb |-> m.tlb, hand |-> m.hand, visited |-> m.visited, arrived |-> m.arrived]
  BY KernelAllocStep
<1> HIDE DEF m
<1>3. PagesInv(as_it_is', pra_vaddr, kernel \cup {f})
  BY <1>1, <1>2, TakeKeeps
<1>4. sm' = sm /\ pra_vaddr' = pra_vaddr /\ Cardinality(kernel) < KernelPages
  BY DEF KernelAlloc
<1>5. PagesInv(as_it_is, pra_vaddr, kernel)'
  BY <1>2, <1>3, <1>4 DEF PagesInv, PagesTypeOK, Mapped, InOnePlace, InOrder, HandAtEnd
<1>6. OthersTypeOK'
  <2>1. OthersTypeOK /\ f \in Frame
    BY <1>1 DEF SwapInv, PagesInv, PagesTypeOK
  <2>2. kernel' \in SUBSET Frame
    BY <1>2, <2>1 DEF OthersTypeOK
  <2>3. IsFiniteSet(kernel) /\ Cardinality(kernel) \in Nat
    BY <2>1, SwapAssumption, FS_Subset, FS_CardinalityType DEF OthersTypeOK
  <2>4. Cardinality(kernel') <= Cardinality(kernel) + 1
    <3>1. Cardinality(kernel \cup {f}) =
            IF f \in kernel THEN Cardinality(kernel) ELSE Cardinality(kernel) + 1
      BY <2>3, FS_AddElement
    <3> QED BY <1>2, <2>3, <3>1
  <2>5. Cardinality(kernel') \in Nat
    BY <2>2, SwapAssumption, FS_Subset, FS_CardinalityType
  <2>6. Cardinality(kernel') <= KernelPages
    BY <1>4, <2>3, <2>4, <2>5, SwapAssumption
  <2>7. memory' \in [Frame -> Value]
    BY <1>2, <2>1 DEF OthersTypeOK
  <2> QED BY <1>4, <2>1, <2>2, <2>6, <2>7 DEF OthersTypeOK
<1> QED BY <1>5, <1>6 DEF SwapInv

LEMMA KernelFreeKeeps ==
    ASSUME SwapInv, NEW f \in Frame, KernelFree(f)
    PROVE  SwapInv'
<1>1. /\ f \in kernel /\ kernel' = kernel \ {f} /\ free' = free \cup {f}
      /\ UNCHANGED <<sm, pte, tlb, memory, disk, pra_list, curr_ptr, visited, pra_vaddr, arrived>>
  BY DEF KernelFree
<1>2. PagesInv(as_it_is, pra_vaddr, kernel) /\ OthersTypeOK
  BY DEF SwapInv
<1>3. PagesTypeOK(as_it_is)'
  BY <1>1, <1>2 DEF PagesInv, PagesTypeOK, as_it_is
<1>4. Mapped(as_it_is, pra_vaddr)'
  BY <1>1, <1>2 DEF PagesInv, Mapped, as_it_is
<1>5. InOnePlace(as_it_is, kernel)'
  BY <1>1, <1>2 DEF PagesInv, InOnePlace, as_it_is, OthersTypeOK
<1>6. InOrder(as_it_is, pra_vaddr)' /\ HandAtEnd(as_it_is)'
  BY <1>1, <1>2 DEF PagesInv, InOrder, HandAtEnd, as_it_is
<1>7. OthersTypeOK'
  <2>1. IsFiniteSet(kernel) /\ Cardinality(kernel) \in Nat
    BY <1>2, SwapAssumption, FS_Subset, FS_CardinalityType DEF OthersTypeOK
  <2>2. Cardinality(kernel') = Cardinality(kernel) - 1
    BY <1>1, <2>1, FS_RemoveElement
  <2> QED BY <1>1, <1>2, <2>1, <2>2, SwapAssumption DEF OthersTypeOK
<1> QED BY <1>3, <1>4, <1>5, <1>6, <1>7 DEF SwapInv, PagesInv

(* What the hart holds of a page is what the page table says. *)
LEMMA Translated ==
    ASSUME SwapInv, NEW v \in Virt, Translation(v) \in Frame
    PROVE  Translation(v) = pte[v]
BY Entries DEF SwapInv, PagesInv, Mapped, as_it_is, Translation

LEMMA AccessKeeps ==
    ASSUME SwapInv, NEW v \in Virt, Translation(v) \in Frame, tlb' = [tlb EXCEPT ![v] = Translation(v)],
           memory' \in [Frame -> Value],
           UNCHANGED <<sm, pte, disk, free, kernel, pra_list, curr_ptr, visited, pra_vaddr, arrived>>
    PROVE  SwapInv'
<1>1. PagesInv(as_it_is, pra_vaddr, kernel) /\ OthersTypeOK /\ Translation(v) = pte[v]
  BY Translated DEF SwapInv
<1>2. PagesTypeOK(as_it_is)'
  BY <1>1 DEF PagesInv, PagesTypeOK, as_it_is
<1>3. Mapped(as_it_is, pra_vaddr)'
  <2>1. \A w \in Virt : tlb'[w] \in {head, pte'[w]}
    BY <1>1 DEF PagesInv, PagesTypeOK, Mapped, as_it_is
  <2> QED BY <1>1, <2>1 DEF PagesInv, Mapped, as_it_is
<1>4. InOnePlace(as_it_is, kernel)' /\ InOrder(as_it_is, pra_vaddr)' /\ HandAtEnd(as_it_is)'
  BY <1>1 DEF PagesInv, InOnePlace, InOrder, HandAtEnd, as_it_is
<1>5. OthersTypeOK'
  BY <1>1 DEF OthersTypeOK
<1> QED BY <1>2, <1>3, <1>4, <1>5 DEF SwapInv, PagesInv

LEMMA SwapNext == SwapInv /\ [Next]_vars => SwapInv'
<1> SUFFICES ASSUME SwapInv, [Next]_vars PROVE SwapInv'
  OBVIOUS
<1>0. memory \in [Frame -> Value]
  BY DEF SwapInv, OthersTypeOK
<1>1. ASSUME NEW v \in Virt, do_pgfault(v) PROVE SwapInv'
  BY <1>1, FaultKeeps
<1>2. ASSUME NEW v \in Virt, Load(v) PROVE SwapInv'
  BY <1>0, <1>2, AccessKeeps DEF Load
<1>3. ASSUME NEW v \in Virt, NEW x \in Value, Store(v, x) PROVE SwapInv'
  <2>1. memory' \in [Frame -> Value]
    BY <1>0, <1>3 DEF Store
  <2> QED BY <1>3, <2>1, AccessKeeps DEF Store
<1>4. CASE KernelAlloc
  BY <1>4, KernelAllocKeeps
<1>5. ASSUME NEW f \in Frame, KernelFree(f) PROVE SwapInv'
  BY <1>5, KernelFreeKeeps
<1>6. CASE UNCHANGED vars
  <2>1. as_it_is' = as_it_is /\ pra_vaddr' = pra_vaddr /\ kernel' = kernel /\ sm' = sm /\ memory' = memory
    BY <1>6 DEF vars, as_it_is
  <2>2. OthersTypeOK'
    BY <2>1 DEF SwapInv, OthersTypeOK
  <2>3. HandAtEnd(as_it_is)'
    BY <2>1 DEF SwapInv, PagesInv, HandAtEnd
  <2>4. PagesTypeOK(as_it_is)' /\ Mapped(as_it_is, pra_vaddr)'
    BY <2>1 DEF SwapInv, PagesInv, PagesTypeOK, Mapped
  <2>5. InOnePlace(as_it_is, kernel)' /\ InOrder(as_it_is, pra_vaddr)'
    BY <2>1 DEF SwapInv, PagesInv, InOnePlace, InOrder
  <2> QED BY <2>2, <2>3, <2>4, <2>5 DEF SwapInv, PagesInv
<1> QED BY <1>1, <1>2, <1>3, <1>4, <1>5, <1>6 DEF Next

LEMMA SwapAlways == Spec => []SwapInv
BY SwapInit, SwapNext, PTL DEF Spec

(* Every variable keeps its type; in particular a frame that the hand, a   *)
(* page table or the list names is a frame of the machine.                 *)
THEOREM TypeCorrect == Spec => []TypeOK
<1>1. SwapInv => TypeOK
  BY DEF SwapInv, PagesInv, TypeOK
<1> QED BY <1>1, SwapAlways, PTL

LEMMA SwapInvImplies == SwapInv => FramesAccounted
<1> SUFFICES ASSUME SwapInv PROVE FramesAccounted
  OBVIOUS
<1> DEFINE L == pra_list
<1>1. /\ L \in Seq(Frame) /\ IsInjective(L) /\ free \in SUBSET Frame /\ kernel \in SUBSET Frame
      /\ \A i \in 1 .. Len(L) : pra_vaddr[L[i]] \in Virt /\ pte[pra_vaddr[L[i]]] = L[i]
      /\ \A v \in Virt : pte[v] \in Frame => pte[v] \in ToSet(L) /\ pra_vaddr[pte[v]] = v
      /\ \A v \in Virt : tlb[v] \in {head, pte[v]}
      /\ free \cap kernel = {}
      /\ ToSet(L) = Frame \ (free \cup kernel)
  BY DEF SwapInv, PagesInv, PagesTypeOK, Mapped, InOnePlace, OthersTypeOK, as_it_is
<1>2. ASSUME NEW f \in ToSet(L) PROVE f \in Resident /\ pte[pra_vaddr[f]] = f
  <2>1. PICK i \in 1 .. Len(L) : f = L[i]
    BY <1>1, MembersOf
  <2> QED BY <1>1, <2>1 DEF Resident
<1>3. ASSUME NEW f \in Resident PROVE f \in ToSet(L)
  BY <1>1 DEF Resident
<1>4. ToSet(L) = Resident
  BY <1>2, <1>3
<1>5. curr_ptr \in Resident \cup {head}
  <2>1. curr_ptr # head => L # << >> /\ curr_ptr = L[Len(L)]
    BY DEF SwapInv, PagesInv, HandAtEnd, as_it_is, Last
  <2>2. L # << >> => Len(L) \in 1 .. Len(L)
    BY <1>1
  <2> QED BY <1>1, <1>4, <2>1, <2>2, MembersOf
<1>6. \A v, w \in Virt : pte[v] \in Frame /\ pte[v] = pte[w] => v = w
  BY <1>1
<1> QED BY <1>1, <1>2, <1>4, <1>5, <1>6 DEF FramesAccounted

(* Whichever manager is used, and however many frames there are: each      *)
(* frame is free, the kernel's, or mapped and on the list once, and the    *)
(* hart holds no translation that the page table has lost.                 *)
THEOREM FramesAlwaysAccounted == Spec => []FramesAccounted
BY SwapAlways, SwapInvImplies, PTL

-----------------------------------------------------------------------------
LEMMA EvictsStep ==
    ASSUME SwapInv, [Next]_vars, NEW v \in Virt, pte[v] \in Frame, pte'[v] \notin Frame
    PROVE  v = Head(arrived)
<1> DEFINE m == alloc_page
<1>0. PagesInv(m, pra_vaddr, kernel) /\ (m.pte[v] \notin Frame => v = Head(arrived))
  BY AllocPage
<1>1. ASSUME NEW w \in Virt, do_pgfault(w) PROVE m.pte[v] \notin Frame
  <2>1. PICK f \in m.free : pte' = [m.pte EXCEPT ![w] = f]
    BY <1>1 DEF do_pgfault
  <2>2. m.pte \in [Virt -> Frame \cup Nat] /\ f \in Frame
    BY <1>0 DEF PagesInv, PagesTypeOK
  <2> HIDE DEF m
  <2> QED BY <2>1, <2>2
<1>2. CASE KernelAlloc
  BY <1>0, <1>2, KernelAllocStep
<1>3. pte' # pte => KernelAlloc \/ \E w \in Virt : do_pgfault(w)
  BY DEF Next, vars, Load, Store, KernelFree
<1> QED BY <1>0, <1>1, <1>2, <1>3

(* FIFO, clock and LRU give the frame of the page that was mapped first,   *)
(* for any number of frames: second chances are never given.               *)
THEOREM EvictsOldestAlways == Spec => EvictsOldest
<1>1. SwapInv /\ [Next]_vars => [\A v \in Virt : pte[v] \in Frame /\ pte'[v] \notin Frame => v = Head(arrived)]_vars
  BY EvictsStep
<1> QED BY <1>1, SwapAlways, PTL DEF Spec, EvictsOldest

-----------------------------------------------------------------------------
(* The refinement: a fault on a page that was never touched is Touch, one  *)
(* on a page that was swapped out stutters, like a swap_out itself.        *)
LEMMA MemoryInit == Init => Memory!Init
BY DEF Init, Memory!Init, contents

LEMMA MemoryFault ==
    ASSUME SwapInv, NEW v \in Virt, do_pgfault(v)
    PROVE  Memory!Touch(v) \/ contents' = contents
<1> DEFINE m == alloc_page
<1>1. PagesInv(m, pra_vaddr, kernel) /\ m.pte[v] = pte[v] /\ pte[v] \notin Frame /\ ContentsOf(m) = contents
  BY AllocPage DEF do_pgfault
<1>0. m = alloc_page
  OBVIOUS
<1> HIDE DEF m
<1>a. PICK f \in m.free : Served(v, m, f)
  BY <1>0, FaultStep
<1>2. /\ f \in m.free
      /\ memory' = IF pte[v] = NoEntry THEN memory ELSE [memory EXCEPT ![f] = m.disk[pte[v]]]
      /\ pte' = [m.pte EXCEPT ![v] = f]
      /\ disk' = m.disk
  BY <1>a DEF Served
<1>3. /\ m.pte \in [Virt -> Frame \cup Nat] /\ m.free \in SUBSET Frame /\ memory \in [Frame -> Value]
      /\ f \in Frame /\ NoEntry \notin Frame
  BY <1>1, <1>2, Entries DEF PagesInv, PagesTypeOK, SwapInv, OthersTypeOK
<1>4. ASSUME NEW w \in Virt, w # v PROVE contents'[w] = contents[w]
  <2>1. pte'[w] = m.pte[w]
    BY <1>2, <1>3, <1>4
  <2>2. m.pte[w] \in Frame => m.pte[w] # f
    <3>1. m.pte[w] \in Frame => m.pte[w] \in Frame \ m.free
      BY <1>1 DEF PagesInv, Mapped, InOnePlace
    <3> QED BY <1>2, <3>1
  <2>3. m.pte[w] \in Frame => memory'[m.pte[w]] = memory[m.pte[w]]
    BY <1>2, <1>3, <2>2
  <2>4. contents'[w] = ContentsOf(m)[w]
    BY <1>2, <2>1, <2>3 DEF contents, ContentsOf
  <2> QED BY <1>1, <2>4
<1>5. contents'[v] = memory'[f]
  BY <1>2, <1>3 DEF contents
<1>6. contents = [w \in Virt |-> contents[w]] /\ contents' = [w \in Virt |-> contents'[w]]
  BY DEF contents
<1>7. CASE pte[v] = NoEntry
  <2>1. contents[v] = head
    BY <1>7 DEF contents
  <2>2. contents' = [contents EXCEPT ![v] = memory[f]]
    BY <1>2, <1>4, <1>5, <1>6, <1>7
  <2>3. memory[f] \in Value
    BY <1>3
  <2> QED BY <2>1, <2>2, <2>3 DEF Memory!Touch
<1>8. CASE pte[v] # NoEntry
  <2>1. ContentsOf(m)[v] = m.disk[pte[v]]
    BY <1>1, <1>8 DEF ContentsOf
  <2>2. memory'[f] = m.disk[pte[v]]
    BY <1>2, <1>3, <1>8
  <2>3. contents'[v] = contents[v]
    BY <1>1, <1>5, <2>1, <2>2
  <2> QED BY <1>4, <1>6, <2>3
<1> QED BY <1>7, <1>8

LEMMA MemoryKernelAlloc ==
    ASSUME SwapInv, KernelAlloc
    PROVE  contents' = contents
<1> DEFINE m == alloc_page
<1>1. PagesInv(m, pra_vaddr, kernel) /\ ContentsOf(m) = contents
  BY AllocPage
<1>2. PICK f \in m.free, x \in Value :
        memory' = [memory EXCEPT ![f] = x] /\ pte' = m.pte /\ disk' = m.disk
  BY KernelAllocStep
<1> HIDE DEF m
<1>3. ASSUME NEW w \in Virt PROVE contents'[w] = ContentsOf(m)[w]
  <2>1. m.pte[w] \in Frame => m.pte[w] # f
    BY <1>1, <1>2 DEF PagesInv, Mapped, InOnePlace
  <2>2. m.pte[w] \in Frame => memory'[m.pte[w]] = memory[m.pte[w]]
    BY <1>2, <2>1 DEF SwapInv, OthersTypeOK
  <2> QED BY <1>2, <2>2 DEF contents, ContentsOf
<1> QED BY <1>1, <1>3 DEF contents, ContentsOf

LEMMA MemoryStore ==
    ASSUME SwapInv, NEW v \in Virt, NEW x \in Value, Store(v, x)
    PROVE  Memory!Store(v, x)
<1>1. /\ Translation(v) = pte[v] /\ pte[v] \in Frame
      /\ memory' = [memory EXCEPT ![pte[v]] = x] /\ pte' = pte /\ disk' = disk
  BY Translated DEF Store
<1>2. /\ memory \in [Frame -> Value] /\ NoEntry \notin Frame /\ head \notin Value
      /\ \A w \in Virt : pte[w] \in Frame /\ pte[w] = pte[v] => w = v
  BY Entries, SwapAssumption DEF SwapInv, OthersTypeOK, PagesInv, Mapped, as_it_is
<1>3. ASSUME NEW w \in Virt PROVE contents'[w] = IF w = v THEN x ELSE contents[w]
  BY <1>1, <1>2 DEF contents
<1>4. contents[v] # head
  BY <1>1, <1>2 DEF contents
<1>5. contents' = [contents EXCEPT ![v] = x]
  BY <1>3 DEF contents
<1> QED BY <1>4, <1>5 DEF Memory!Store

LEMMA MemoryNext == SwapInv /\ [Next]_vars => [Memory!Next]_contents
<1> SUFFICES ASSUME SwapInv, [Next]_vars PROVE Memory!Next \/ contents' = contents
  OBVIOUS
<1>1. ASSUME NEW v \in Virt, do_pgfault(v) PROVE Memory!Next \/ contents' = contents
  BY <1>1, MemoryFault DEF Memory!Next
<1>2. ASSUME NEW v \in Virt, NEW x \in Value, Store(v, x) PROVE Memory!Next
  BY <1>2, MemoryStore DEF Memory!Next
<1>3. CASE KernelAlloc
  BY <1>3, MemoryKernelAlloc
<1>4. CASE UNCHANGED <<pte, memory, disk>>
  BY <1>4 DEF contents
<1>5. \/ \E v \in Virt : do_pgfault(v) \/ \E x \in Value : Store(v, x)
      \/ KernelAlloc
      \/ UNCHANGED <<pte, memory, disk>>
  BY DEF Next, vars, Load, KernelFree
<1> QED BY <1>1, <1>2, <1>3, <1>4, <1>5

(* Page replacement is invisible: whatever the manager, the frames and     *)
(* the order of faults, the pages read like memory that is never moved.    *)
THEOREM SwapImplementsMemory == Spec => MemorySpec
BY SwapAlways, MemoryInit, MemoryNext, PTL DEF Spec, MemorySpec, Memory!Spec

=============================================================================
