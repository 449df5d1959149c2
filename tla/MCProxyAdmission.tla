--------------------------- MODULE MCProxyAdmission ---------------------------
(***************************************************************************)
(* Instances of ProxyAdmission for TLC: two or three routes, one or two    *)
(* llama servers, three requests.                                          *)
(***************************************************************************)
EXTENDS ProxyAdmission, TLC

CONSTANTS r1, r2, r3, p1, p2, a, b

\* r1 and r3 come on one port, r2 on another.
TwoPorts == [r \in Requests |-> IF r = r2 THEN p2 ELSE p1]

\* One slot each; or two slots of b.
OneSlot == [g \in Groups |-> 1]
TwoSlotsOfB == [g \in Groups |-> IF g = b THEN 2 ELSE 1]

\* No crowns; p1 crowned (two preemptors, one victim).
Plain == [p \in Ports |-> 0]
CrownP1 == [p \in Ports |-> IF p = p1 THEN 1 ELSE 0]

\* No queue node; a queue node before a, whose spill edge leads to b, to the
\* cloud or to nothing.
NoSpill == [g \in Groups |-> {}]
SpillA == [g \in Groups |-> IF g = a THEN {b, Cloud, Unroutable} ELSE {}]

\* The pool: cell a and the cloud; the rescue edges lead back to a.
PoolOfA == {a, Cloud}
RescueToA == {a}
NoTargets == {}

\* r1 and r3 differ in name only.
SamePort == Permutations({r1, r3})
=============================================================================
