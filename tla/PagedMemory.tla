----------------------------- MODULE PagedMemory -----------------------------
(***************************************************************************)
(* What virtual memory promises its user: a page keeps what was stored in  *)
(* it, wherever it is kept in the meantime.  Pages come into being when    *)
(* they are first touched, with any contents: the kernel does not clear    *)
(* them.                                                                   *)
(***************************************************************************)
CONSTANTS
    Virt, Value,
    Untouched   \* no value

VARIABLE contents

Init == contents = [v \in Virt |-> Untouched]

Touch(v) ==
    /\ contents[v] = Untouched
    /\ \E x \in Value : contents' = [contents EXCEPT ![v] = x]

Store(v, x) ==
    /\ contents[v] # Untouched
    /\ contents' = [contents EXCEPT ![v] = x]

Next == \E v \in Virt : Touch(v) \/ \E x \in Value : Store(v, x)

Spec == Init /\ [][Next]_contents
=============================================================================
