---------------------------- MODULE MCGoEventBus -----------------------------
(***************************************************************************)
(* Instances of the Go event bus: s1 listens to everybody, s2 to p1.       *)
(***************************************************************************)
EXTENDS GoEventBus

CONSTANTS p1, p2, s1, s2

OneFiltered == [s \in Subs |-> IF s = s1 THEN Publishers ELSE {p1}]

TwoAndOne == [p \in Publishers |-> IF p = p1 THEN 2 ELSE 1]
=============================================================================
