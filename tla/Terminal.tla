------------------------------ MODULE Terminal ------------------------------
(***************************************************************************)
(* What the stdin device promises its readers: the characters typed are    *)
(* read once each and in order, by one reader or another.  The device      *)
(* remembers `Size' of them; one typed when it is full replaces the oldest *)
(* that nobody has read yet.                                               *)
(***************************************************************************)
EXTENDS Naturals, Sequences

CONSTANTS Reader, Char, Size

VARIABLES
    unread,   \* the characters nobody has read, oldest first
    got       \* what the last read() of each reader has taken so far

Init == unread = <<>> /\ got = [p \in Reader |-> <<>>]

Type(c) ==
    /\ unread' = IF Len(unread) < Size THEN Append(unread, c) ELSE <<c>> \o Tail(unread)
    /\ UNCHANGED got

StartRead(p) ==
    /\ got' = [got EXCEPT ![p] = <<>>]
    /\ UNCHANGED unread

Take(p, n) ==
    /\ got' = [got EXCEPT ![p] = @ \o SubSeq(unread, 1, n)]
    /\ unread' = SubSeq(unread, n + 1, Len(unread))

Next ==
    \/ \E c \in Char : Type(c)
    \/ \E p \in Reader : StartRead(p) \/ \E n \in 1 .. Len(unread) : Take(p, n)

Spec == Init /\ [][Next]_<<unread, got>>
=============================================================================
