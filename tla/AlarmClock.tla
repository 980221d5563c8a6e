----------------------------- MODULE AlarmClock -----------------------------
(***************************************************************************)
(* What kernel timers promise, with no list and no deltas: everybody has   *)
(* an alarm of his own, counted down by every tick, and sleeps until it    *)
(* rings or somebody shakes him.  Sleeping implements it.                  *)
(***************************************************************************)
EXTENDS Naturals

CONSTANTS Sleeper, MaxTicks

VARIABLES
    left,     \* the ticks until each alarm rings, 0 when it is not set
    dozing    \* who is asleep

vars == <<left, dozing>>

Init == left = [p \in Sleeper |-> 0] /\ dozing = {}

LieDown(p) ==
    /\ left[p] = 0
    /\ \E ticks \in 1 .. MaxTicks : left' = [left EXCEPT ![p] = ticks]
    /\ dozing' = dozing \cup {p}

(* An alarm that rings wakes its owner, if nobody did before. *)
Tick ==
    /\ left' = [p \in Sleeper |-> IF left[p] > 0 THEN left[p] - 1 ELSE 0]
    /\ dozing' = dozing \ {p \in Sleeper : left[p] = 1}

Shake(p) ==
    /\ p \in dozing
    /\ dozing' = dozing \ {p}
    /\ UNCHANGED left

(* Who is up switches his alarm off. *)
SwitchOff(p) ==
    /\ p \notin dozing
    /\ left' = [left EXCEPT ![p] = 0]
    /\ UNCHANGED dozing

Next ==
    \/ Tick
    \/ \E p \in Sleeper : LieDown(p) \/ Shake(p) \/ SwitchOff(p)

(* Ticks keep coming, so that nobody sleeps longer than he asked for. *)
Spec == Init /\ [][Next]_vars /\ WF_vars(Tick /\ dozing # {})
=============================================================================
