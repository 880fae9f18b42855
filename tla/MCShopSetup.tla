---------------------------- MODULE MCShopSetup -----------------------------
(* Instances of ShopSetup. *)
EXTENDS ShopSetup, TLC

CONSTANTS t1, t2

(* Two pages in two browsers, or in one. *)
Browsers == [t \in {t1, t2} |-> t]

SetupSymmetry == Permutations(Chains) \cup Permutations(Slots) \cup Permutations(Prices)
=============================================================================
