-------------------------- MODULE MCWorkerResolve --------------------------
(***************************************************************************)
(* Instances of the Worker's readers: two of them, the node and one public *)
(* gateway.  Nothing is pushed through the host's own requests.            *)
(***************************************************************************)
EXTENDS Worker, TLC

MCRouters == <<"node">>
MCGateways == <<"gateway">>
NoPaths == <<>>
ReaderSymmetry == Permutations(Readers)
=============================================================================
