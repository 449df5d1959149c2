------------------------------- MODULE SlotGroup -------------------------------
(***************************************************************************)
(* What slot admission promises: every llama server has a fixed number of  *)
(* slots and a first-come-first-served queue.  A request wants a slot of   *)
(* one server, may stop wanting it, is given one when nobody who came      *)
(* before it still waits and a slot is free, and gives it back.            *)
(***************************************************************************)
EXTENDS Integers, FiniteSets

CONSTANTS Requests, Groups, MaxSlots, None

VARIABLES
    want,    \* the group a request waits for, or None
    hold,    \* the group a request holds a slot of, or None
    before   \* the waiters that a waiter came after

vars == <<want, hold, before>>

Init ==
    /\ want = [r \in Requests |-> None]
    /\ hold = [r \in Requests |-> None]
    /\ before = [r \in Requests |-> {}]

\* r's place in every line is closed up.
Gone(r) == [q \in Requests |-> IF q = r THEN {} ELSE before[q] \ {r}]

Join(r, g) ==
    /\ want[r] = None
    /\ hold[r] = None
    /\ want' = [want EXCEPT ![r] = g]
    /\ before' = [before EXCEPT ![r] = {q \in Requests : want[q] = g}]
    /\ UNCHANGED hold

Leave(r) ==
    /\ want[r] # None
    /\ want' = [want EXCEPT ![r] = None]
    /\ before' = Gone(r)
    /\ UNCHANGED hold

Take(r) ==
    /\ want[r] # None
    /\ before[r] = {}
    /\ Cardinality({q \in Requests : hold[q] = want[r]}) < MaxSlots[want[r]]
    /\ hold' = [hold EXCEPT ![r] = want[r]]
    /\ want' = [want EXCEPT ![r] = None]
    /\ before' = Gone(r)

Release(r) ==
    /\ hold[r] # None
    /\ hold' = [hold EXCEPT ![r] = None]
    /\ UNCHANGED <<want, before>>

Next ==
    \E r \in Requests :
        \/ \E g \in Groups : Join(r, g)
        \/ Leave(r)
        \/ Take(r)
        \/ Release(r)

Spec == Init /\ [][Next]_vars
=============================================================================
