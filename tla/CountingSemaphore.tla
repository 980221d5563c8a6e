------------------------- MODULE CountingSemaphore -------------------------
(***************************************************************************)
(* What a semaphore promises, with no queue, no scheduler and no hand-off: *)
(* a process asks for a token, takes one when there is one, and gives it   *)
(* back.  Semaphore implements it.                                         *)
(***************************************************************************)
EXTENDS Naturals

CONSTANTS
    Proc,      \* the users
    Sem,       \* the semaphores
    Nothing,   \* what a process that asks for nothing asks for
    initial    \* the tokens each semaphore starts with

VARIABLES
    tokens,   \* the tokens of each semaphore that nobody holds
    asks,     \* the semaphore each process is blocked on, or Nothing
    holds     \* the semaphores each process holds a token of

vars == <<tokens, asks, holds>>

Init ==
    /\ tokens = initial
    /\ asks = [p \in Proc |-> Nothing]
    /\ holds = [p \in Proc |-> {}]

Ask(p, s) ==
    /\ asks[p] = Nothing
    /\ asks' = [asks EXCEPT ![p] = s]
    /\ UNCHANGED <<tokens, holds>>

TakeOne(p, s) ==
    /\ tokens[s] > 0
    /\ tokens' = [tokens EXCEPT ![s] = @ - 1]
    /\ holds' = [holds EXCEPT ![p] = @ \cup {s}]

(* A process that never had to ask. *)
TakeAtOnce(p, s) == asks[p] = Nothing /\ TakeOne(p, s) /\ UNCHANGED asks

Enter(p) ==
    \E s \in Sem :
        /\ asks[p] = s
        /\ TakeOne(p, s)
        /\ asks' = [asks EXCEPT ![p] = Nothing]

Leave(p, s) ==
    /\ s \in holds[p]
    /\ tokens' = [tokens EXCEPT ![s] = @ + 1]
    /\ holds' = [holds EXCEPT ![p] = @ \ {s}]
    /\ UNCHANGED asks

Next ==
    \E p \in Proc :
        \/ Enter(p)
        \/ \E s \in Sem : Ask(p, s) \/ TakeAtOnce(p, s) \/ Leave(p, s)

(* What a semaphore may do ... *)
Safety == Init /\ [][Next]_vars

(* ... and must: whoever asks again and again while there is a token gets one. *)
Spec == Safety /\ \A p \in Proc : SF_vars(Enter(p))
=============================================================================
