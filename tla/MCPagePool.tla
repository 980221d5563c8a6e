----------------------------- MODULE MCPagePool -----------------------------
EXTENDS PagePool

(* The links and the property of a page outside the list are left over     *)
(* from the last time it was in it; free_pages and alloc_pages write them  *)
(* before they read them, so states that differ in nothing else are one.   *)
Listed == ToSet(Blocks)

View ==
    <<policy, PageProperty, nr_free, used,
      [e \in Listed \cup {free_list} |-> <<link.next[e], link.prev[e]>>],
      [p \in Listed |-> property[p]]>>
=============================================================================
