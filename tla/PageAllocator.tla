---------------------------- MODULE PageAllocator ----------------------------
(***************************************************************************)
(* What a physical memory manager promises: alloc_pages(n) hands out n     *)
(* pages that nobody uses, in a row, from a place its policy determines;   *)
(* free_pages takes back any run of pages that are in use.                 *)
(***************************************************************************)
EXTENDS Integers

CONSTANTS NPages, Policy

VARIABLES used, policy

Page == 0 .. NPages - 1

Run(b, n) == b .. b + n - 1

(* A free run that no larger free run contains. *)
Maximal(b, n) ==
    /\ n > 0
    /\ Run(b, n) \subseteq Page \ used
    /\ b - 1 \notin Page \ used
    /\ b + n \notin Page \ used

(* First fit takes the lowest maximal run that is large enough, best fit   *)
(* the smallest, and of several as small the lowest.                       *)
Chosen(n, b, m) ==
    /\ Maximal(b, m) /\ m >= n
    /\ \A c \in Page : \A k \in n .. NPages : Maximal(c, k) =>
           IF policy = "default" THEN b <= c ELSE m < k \/ (m = k /\ b <= c)

Alloc(n) ==
    /\ \E b \in Page : \E m \in n .. NPages :
           Chosen(n, b, m) /\ used' = used \cup Run(b, n)
    /\ UNCHANGED policy

Free(b, n) ==
    /\ Run(b, n) \subseteq used
    /\ used' = used \ Run(b, n)
    /\ UNCHANGED policy

Init == used = {} /\ policy \in Policy

Next == \E n \in 1 .. NPages : Alloc(n) \/ \E b \in Page : Free(b, n)

Spec == Init /\ [][Next]_<<used, policy>>
=============================================================================
