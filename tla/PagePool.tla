------------------------------ MODULE PagePool ------------------------------
(***************************************************************************)
(* Physical pages: kern/mm/default_pmm.c (first fit) and lab2's            *)
(* kern/mm/best_fit_pmm.c, which differ only in the block they choose.     *)
(* The free blocks are in a doubly linked list through their first pages.  *)
(* The links are modelled one by one, as list.h writes them: what the list *)
(* holds depends on whether they agree.                                    *)
(***************************************************************************)
EXTENDS Integers, SequencesExt

CONSTANTS
    NPages,      \* page_init hands over the pages 0 .. NPages - 1
    free_list,   \* the head of the list
    MayExhaust   \* whether callers may take the last page too

Page == 0 .. NPages - 1
Node == Page \cup {free_list}

ASSUME PagesAssumption == NPages \in Nat \ {0} /\ free_list \notin Page /\ MayExhaust \in BOOLEAN

Policy == {"default", "best_fit"}

VARIABLES
    policy,         \* pmm_manager
    link,           \* the page_links: [next |-> .., prev |-> ..]
    property,       \* page->property
    PageProperty,   \* the pages with this flag
    nr_free,
    used            \* the pages callers have been given and not freed

vars == <<policy, link, property, PageProperty, nr_free, used>>

TypeOK ==
    /\ policy \in Policy
    /\ link \in [next : [Node -> Node], prev : [Node -> Node]]
    /\ property \in [Page -> 0 .. NPages]
    /\ PageProperty \subseteq Page
    /\ nr_free \in 0 .. NPages
    /\ used \subseteq Page

Run(b, n) == b .. b + n - 1

-----------------------------------------------------------------------------
(* list.h: list_add(after, e) and list_del(e). *)
list_add(l, after, e) ==
    [next |-> [l.next EXCEPT ![after] = e, ![e] = l.next[after]],
     prev |-> [l.prev EXCEPT ![l.next[after]] = e, ![e] = after]]

list_del(l, e) ==
    [next |-> [l.next EXCEPT ![l.prev[e]] = l.next[e]],
     prev |-> [l.prev EXCEPT ![l.next[e]] = l.prev[e]]]

(* The entries a walk from the head meets before it is back, in order. *)
Walked[k \in 1 .. NPages + 1] ==
    IF k = 1 THEN link.next[free_list]
    ELSE IF Walked[k - 1] = free_list THEN free_list
    ELSE link.next[Walked[k - 1]]

Blocks == SelectSeq([k \in 1 .. NPages |-> Walked[k]], LAMBDA e : e # free_list)

(* default_init and default_init_memmap of the one region page_init finds. *)
Init ==
    /\ policy \in Policy
    /\ link = list_add([next |-> [e \in Node |-> free_list], prev |-> [e \in Node |-> free_list]],
                       free_list, 0)
    /\ property = [p \in Page |-> IF p = 0 THEN NPages ELSE 0]
    /\ PageProperty = {0}
    /\ nr_free = NPages
    /\ used = {}

-----------------------------------------------------------------------------
(* The search of alloc_pages: the index in Blocks, 0 if nothing fits.      *)
FirstFit(n) == SelectInSeq(Blocks, LAMBDA p : property[p] >= n)

Smallest_of_all(n) == property[Blocks[Len(Blocks)]]
Smallest(n) ==
    LET sizes == {property[Blocks[k]] : k \in 1 .. Len(Blocks)} \cap n .. nr_free
    IN  CHOOSE m \in sizes : \A o \in sizes : m <= o

BestFit(n) ==
    IF FirstFit(n) = 0 THEN 0 ELSE SelectInSeq(Blocks, LAMBDA p : property[p] = Smallest(n))

Fit(n) ==
    IF n > nr_free THEN 0 ELSE IF policy = "default" THEN FirstFit(n) ELSE BestFit(n)

(* The first n pages of the block are handed out; what is left over takes  *)
(* its place in the list.                                                  *)
LinksAfter(page, n) ==
    IF property[page] > n
    THEN list_add(list_del(link, page), link.prev[page], page + n)
    ELSE list_del(link, page)

FlagsAfter(page, n) ==
    IF property[page] > n THEN (PageProperty \cup {page + n}) \ {page} ELSE PageProperty \ {page}

alloc_pages(n) ==
    /\ Fit(n) # 0
    /\ LET page == Blocks[Fit(n)]
       IN  /\ MayExhaust \/ NPages - 1 \notin Run(page, n)
           /\ link' = LinksAfter(page, n)
           /\ property' = IF property[page] > n
                          THEN [property EXCEPT ![page + n] = property[page] - n]
                          ELSE property
           /\ PageProperty' = FlagsAfter(page, n)
           /\ nr_free' = nr_free - n
           /\ used' = used \cup Run(page, n)
    /\ UNCHANGED policy

-----------------------------------------------------------------------------
(* The walk of free_pages inserts the block before the first one that lies *)
(* behind it.  At the end of the list the loop lacks a break: it goes on   *)
(* to the block it has just added and adds that behind itself once more.   *)
Inserted(base) ==
    LET behind == SelectInSeq(Blocks, LAMBDA p : base < p)
        last   == Blocks[Len(Blocks)]
    IN  IF Blocks = <<>> THEN list_add(link, free_list, base)
        ELSE IF behind # 0 THEN list_add(link, link.prev[Blocks[behind]], base)
        ELSE list_add(list_add(link, last, base), base, base)

(* Both merges, first with the block before and then with the one behind,  *)
(* as functions of [link, property, flags, base].                          *)
MergeBefore(s) ==
    LET p == s.link.prev[s.base]
    IN  IF p # free_list /\ p + s.property[p] = s.base
        THEN [link |-> list_del(s.link, s.base),
              property |-> [s.property EXCEPT ![p] = @ + s.property[s.base]],
              flags |-> s.flags \ {s.base},
              base |-> p]
        ELSE s

MergeBehind_not(s) == s
MergeBehind(s) ==
    LET p == s.link.next[s.base]
    IN  IF p # free_list /\ s.base + s.property[s.base] = p
        THEN [s EXCEPT !.link = list_del(@, p),
                       !.property = [@ EXCEPT ![s.base] = @ + s.property[p]],
                       !.flags = @ \ {p}]
        ELSE s

NrFreeAfter_merged(merged, n) == nr_free + merged.property[merged.base]
NrFreeAfter(merged, n) == nr_free + n

(* The assertion on every page that is freed. *)
FreeAssertion(base, n) == Run(base, n) \cap PageProperty = {}

free_pages(base, n) ==
    /\ Run(base, n) \subseteq used
    /\ FreeAssertion(base, n)
    /\ LET merged == MergeBehind(MergeBefore(
                        [link |-> Inserted(base),
                         property |-> [property EXCEPT ![base] = n],
                         flags |-> PageProperty \cup {base},
                         base |-> base]))
       IN  /\ link' = merged.link
           /\ property' = merged.property
           /\ PageProperty' = merged.flags
           /\ nr_free' = NrFreeAfter(merged, n)
    /\ used' = used \ Run(base, n)
    /\ UNCHANGED policy

Next ==
    \E n \in 1 .. NPages :
        \/ alloc_pages(n)
        \/ \E base \in Page : free_pages(base, n)

Spec == Init /\ [][Next]_vars

-----------------------------------------------------------------------------
(* The two directions of the list agree, and the blocks are in the order   *)
(* of their addresses.                                                     *)
ListWellFormed ==
    /\ link.next[link.prev[free_list]] = free_list
    /\ \A p \in ToSet(Blocks) : link.prev[link.next[p]] = p /\ link.next[link.prev[p]] = p
    /\ \A k \in 1 .. Len(Blocks) - 1 : Blocks[k] < Blocks[k + 1]

(* The blocks of the list are exactly the pages nobody uses, merged as far *)
(* as possible; nr_free counts them and the flag is on their first pages,  *)
(* so that the assertion on freed pages never fails; the links are sound.  *)
BlocksAreFree ==
    /\ ListWellFormed
    /\ UNION {Run(p, property[p]) : p \in ToSet(Blocks)} = Page \ used
    /\ \A p \in ToSet(Blocks) : p + property[p] \notin Page \ used
    /\ nr_free = Cardinality(Page \ used)
    /\ PageProperty = ToSet(Blocks)

(* alloc_pages returns NULL only if no n free pages lie in a row.          *)
RefusesOnlyWhenFull ==
    \A n \in 1 .. NPages :
        Fit(n) = 0 => \A b \in Page : ~(Run(b, n) \subseteq Page \ used)

(* default_check: "assert(total == nr_free_pages())", where total adds up  *)
(* the blocks of the list.                                                 *)
TotalIsNrFree == FoldLeft(LAMBDA total, p : total + property[p], 0, Blocks) = nr_free

(* The linked list implements the page allocator.                          *)
Allocator == INSTANCE PageAllocator
AllocatorSpec == Allocator!Spec
=============================================================================
