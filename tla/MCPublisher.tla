---------------------------- MODULE MCPublisher ----------------------------
(***************************************************************************)
(* Instances of Publisher.                                                 *)
(***************************************************************************)
EXTENDS Publisher

CONSTANTS l1, l2, p0, p1, p2

OneLaptop == [l \in {l1} |-> {p1}]
TwoLaptops == [l \in {l1, l2} |-> IF l = l1 THEN {p1} ELSE {p2}]
=============================================================================
