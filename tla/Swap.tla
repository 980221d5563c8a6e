-------------------------------- MODULE Swap --------------------------------
(***************************************************************************)
(* Page faults and page replacement in lab3: do_pgfault (kern/mm/vmm.c),   *)
(* alloc_pages, page_insert and pgdir_alloc_page (kern/mm/pmm.c), swap_out *)
(* and swap_in (kern/mm/swap.c) and the three swap managers.               *)
(*                                                                         *)
(* There is one address space, check_mm_struct, whose pages may be read    *)
(* and written.  Interrupts stay off in the fault handler, so a fault is   *)
(* one step, the page it swaps out included.                               *)
(***************************************************************************)
EXTENDS Integers, SequencesExt

CONSTANTS
    Virt,               \* the page numbers of the vma
    Frame,              \* the physical pages
    Value,              \* what a page may contain
    max_swap_offset,    \* the size of the swap device, in pages
    Manager,            \* the swap managers that swap_init may be built with
    KernelPages,        \* bound: single pages the kernel takes for itself
    head                \* &pra_list_head

NoEntry == 0
swap_entry(v) == v + 1

(* swap_offset panics unless an entry's offset is within the device; the   *)
(* pages of check_swap are.  With a frame left for the user there always   *)
(* is a victim: no manager copes with an empty list.                       *)
ASSUME SwapAssumption ==
    /\ Virt \subseteq Nat \ {0} /\ max_swap_offset \in Nat /\ KernelPages \in Nat
    /\ \A v \in Virt : swap_entry(v) < max_swap_offset
    /\ Manager \subseteq {"fifo", "clock", "lru"}
    /\ Frame \cap 0 .. max_swap_offset = {} /\ head \notin Frame \cup Value \cup (0 .. max_swap_offset)
    /\ IsFiniteSet(Frame) /\ KernelPages < Cardinality(Frame)

VARIABLES
    sm,             \* the swap manager in use
    pte,            \* page-table entries: NoEntry, a frame (PTE_V) or a swap entry
    tlb,            \* translations that the hart holds, head for none
    memory, disk,   \* the contents of the frames and of the pages on the swap device
    free,           \* the page allocator's frames (PagePool.tla)
    kernel,         \* frames the kernel uses itself: page tables, kmalloc
    pra_list,       \* the frames on pra_list_head, from head.next to head.prev
    curr_ptr,       \* the clock's hand
    visited, pra_vaddr,   \* fields of the struct Page of each frame
    arrived         \* auxiliary: the resident pages in the order they were mapped

vars == <<sm, pte, tlb, memory, disk, free, kernel, pra_list, curr_ptr, visited, pra_vaddr, arrived>>

-----------------------------------------------------------------------------
(* The managers. *)

Position(list, f) == SelectInSeq(list, LAMBDA g : g = f)
Without(list, f) == RemoveAt(list, Position(list, f))

(* The frames in the order in which the hand comes to them.                *)
FromHand ==
    LET n == Len(pra_list)
        h == IF curr_ptr = head THEN n ELSE Position(pra_list, curr_ptr)
    IN  [k \in 1 .. n |-> pra_list[((h - k) % n) + 1]]

(* The hand takes the first frame that is not visited, clearing the bit of *)
(* those it passes: at the latest the one it started from, a round later.  *)
Unvisited == SelectInSeq(FromHand, LAMBDA f : ~visited[f])
Passed == IF Unvisited = 0 THEN FromHand ELSE SubSeq(FromHand, 1, Unvisited - 1)

ClockVictim == FromHand[IF Len(Passed) = Len(pra_list) THEN 1 ELSE Len(Passed) + 1]

Victim == IF sm = "clock" THEN ClockVictim ELSE Last(pra_list)

Preceding(f) ==   \* list_prev
    LET k == Position(pra_list, f) IN IF k = 1 THEN head ELSE pra_list[k - 1]

(* map_swappable: at the front of the list.  (The LRU manager looks for an *)
(* older place of the frame in the list, which no caller gives it.)        *)
map_swappable_at_back(list, f) == Append(list, f)
map_swappable(list, f) == <<f>> \o list

-----------------------------------------------------------------------------
(* flush_tlb. *)
tlb_invalidate_not == tlb
tlb_invalidate == [v \in Virt |-> head]

(* swap_out of one page: it goes to the page of the device that its        *)
(* address names.                                                          *)
swap_out ==
    LET f == Victim
        v == pra_vaddr[f]
    IN  [pte |-> [pte EXCEPT ![v] = swap_entry(v)],
         disk |-> [disk EXCEPT ![swap_entry(v)] = memory[f]],
         free |-> {f}, list |-> Without(pra_list, f), tlb |-> tlb_invalidate,
         hand |-> IF sm = "clock" THEN Preceding(f) ELSE curr_ptr,
         visited |-> IF sm = "clock" THEN [g \in Frame |-> visited[g] /\ g \notin ToSet(Passed)]
                     ELSE visited,
         arrived |-> Without(arrived, v)]

(* alloc_pages(1): a free frame, after a swap_out when there is none. *)
as_it_is ==
    [pte |-> pte, disk |-> disk, free |-> free, list |-> pra_list, tlb |-> tlb,
     hand |-> curr_ptr, visited |-> visited, arrived |-> arrived]

alloc_page == IF free = {} THEN swap_out ELSE as_it_is

(* pgdir_alloc_page, or swap_in and page_insert, at the end: the page is   *)
(* mapped, swappable and knows its address.                                *)
Vaddr_kept(f, v, entry) == IF entry = NoEntry THEN [pra_vaddr EXCEPT ![f] = v] ELSE pra_vaddr
Vaddr(f, v, entry) == [pra_vaddr EXCEPT ![f] = v]

do_pgfault(v) ==
    /\ pte[v] \notin Frame
    /\ \E m \in {alloc_page} : \E f \in m.free :
        /\ memory' = IF pte[v] = NoEntry THEN memory ELSE [memory EXCEPT ![f] = m.disk[pte[v]]]
        /\ pte' = [m.pte EXCEPT ![v] = f]
        /\ tlb' = tlb_invalidate
        /\ disk' = m.disk
        /\ free' = m.free \ {f}
        /\ pra_list' = map_swappable(m.list, f)
        /\ curr_ptr' = m.hand
        /\ visited' = [m.visited EXCEPT ![f] = IF sm = "fifo" THEN @ ELSE TRUE]
        /\ pra_vaddr' = Vaddr(f, v, pte[v])
        /\ arrived' = Append(m.arrived, v)
    /\ UNCHANGED <<sm, kernel>>

(* A single page for the kernel, such as a page table of get_pte, comes    *)
(* from the same frames; it is filled at once and not swappable.           *)
KernelAlloc ==
    /\ Cardinality(kernel) < KernelPages
    /\ \E m \in {alloc_page} : \E f \in m.free, x \in Value :
        /\ memory' = [memory EXCEPT ![f] = x]
        /\ pte' = m.pte
        /\ tlb' = m.tlb
        /\ disk' = m.disk
        /\ free' = m.free \ {f}
        /\ kernel' = kernel \cup {f}
        /\ pra_list' = m.list
        /\ curr_ptr' = m.hand
        /\ visited' = m.visited
        /\ arrived' = m.arrived
    /\ UNCHANGED <<sm, pra_vaddr>>

KernelFree(f) ==
    /\ f \in kernel
    /\ kernel' = kernel \ {f}
    /\ free' = free \cup {f}
    /\ UNCHANGED <<sm, pte, tlb, memory, disk, pra_list, curr_ptr, visited, pra_vaddr, arrived>>

-----------------------------------------------------------------------------
(* The user's accesses go through a translation the hart holds already, or *)
(* one it takes from the page table.                                       *)
Translation(v) == IF tlb[v] # head THEN tlb[v] ELSE pte[v]

Load(v) ==
    /\ Translation(v) \in Frame
    /\ tlb' = [tlb EXCEPT ![v] = Translation(v)]
    /\ UNCHANGED <<sm, pte, memory, disk, free, kernel, pra_list, curr_ptr, visited, pra_vaddr, arrived>>

Store(v, x) ==
    /\ Translation(v) \in Frame
    /\ tlb' = [tlb EXCEPT ![v] = Translation(v)]
    /\ memory' = [memory EXCEPT ![Translation(v)] = x]
    /\ UNCHANGED <<sm, pte, disk, free, kernel, pra_list, curr_ptr, visited, pra_vaddr, arrived>>

Init ==
    /\ sm \in Manager
    /\ pte = [v \in Virt |-> NoEntry]
    /\ tlb = [v \in Virt |-> head]
    /\ memory \in [Frame -> Value]
    /\ \E x \in Value : disk = [e \in {swap_entry(v) : v \in Virt} |-> x]   \* `ide', all zeroes
    /\ free = Frame
    /\ kernel = {}
    /\ pra_list = << >>
    /\ curr_ptr = head   \* _clock_init_mm; the other managers have no hand
    /\ visited = [f \in Frame |-> FALSE]
    /\ pra_vaddr = [f \in Frame |-> 0]
    /\ arrived = << >>

Next ==
    \/ \E v \in Virt : do_pgfault(v) \/ Load(v) \/ \E x \in Value : Store(v, x)
    \/ KernelAlloc
    \/ \E f \in Frame : KernelFree(f)

Spec == Init /\ [][Next]_vars

-----------------------------------------------------------------------------
Resident == {f \in Frame : \E v \in Virt : pte[v] = f}

(* Every frame is free, the kernel's, or mapped once and on pra_list once, *)
(* under the address where it is mapped: what swap_out unmaps and frees is *)
(* the page it saves, under every manager.  The clock's hand is on the     *)
(* list, and the hart holds no translation that the page table has lost.   *)
FramesAccounted ==
    /\ IsInjective(pra_list)
    /\ ToSet(pra_list) = Resident
    /\ \A f \in Resident : pte[pra_vaddr[f]] = f
    /\ \A v, w \in Virt : pte[v] \in Frame /\ pte[v] = pte[w] => v = w
    /\ free \cap kernel = {} /\ Resident = Frame \ (free \cup kernel)
    /\ curr_ptr \in Resident \cup {head}
    /\ \A v \in Virt : tlb[v] \in {head, pte[v]}

(* The three managers choose alike: the page that was mapped first.  The   *)
(* clock's bits and the LRU list change only when a page is mapped, never  *)
(* when it is used (_clock_map_swappable, _lru_map_swappable).             *)
EvictsOldest ==
    [][\A v \in Virt : pte[v] \in Frame /\ pte'[v] \notin Frame => v = Head(arrived)]_vars

(* Swapping is invisible: a page reads back what was stored in it last,    *)
(* whichever frames and pages of the device it has been through.           *)
contents == [v \in Virt |-> IF pte[v] = NoEntry THEN head
                            ELSE IF pte[v] \in Frame THEN memory[pte[v]] ELSE disk[pte[v]]]
Memory == INSTANCE PagedMemory WITH Untouched <- head
MemorySpec == Memory!Spec
=============================================================================
