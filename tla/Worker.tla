------------------------------- MODULE Worker -------------------------------
(***************************************************************************)
(* The Worker (worker/src/index.js): the host of WorkerHost, which takes   *)
(* pushes and claims, and beside it how its readers find the version that  *)
(* a name stands for (WorkerResolve).  Resolving a name writes nothing but *)
(* the cache, and takes of the host only the version of one site, which    *)
(* may change at any time (known): each is explored with the other at      *)
(* rest.                                                                   *)
(***************************************************************************)
EXTENDS WorkerHost, Sequences

CONSTANTS
  Readers,                  \* slots for requests that resolve a name
  Routers, Gateways,        \* who they ask elsewhere, in this order
  Ttl, MaxWait, MaxVersion  \* as in WorkerResolve

VARIABLES published, known, at, link, cache, lookup, since

R == INSTANCE WorkerResolve WITH Requests <- Readers, entry <- known, req <- lookup

ASSUME ResolveConstants == R!WorkerResolveAssumption

resolveVars == <<published, known, at, link, cache, lookup, since>>

WorkerInit == Init /\ R!Init

(* Requests push and claim. *)
HostNext == Next /\ UNCHANGED resolveVars

HostSpec == WorkerInit /\ [][HostNext]_<<vars, resolveVars>>

(* Requests resolve a name. *)
ResolveNext == R!Next /\ UNCHANGED vars

ResolveSpec == WorkerInit /\ [][ResolveNext]_<<vars, resolveVars>>

-----------------------------------------------------------------------------
(* No answer is older than the time it may have waited with the reader that
   fetched it, in the cache, and with the one it is passed on by (cached,
   resolveKey, resolveENS). *)
FreshEnough == R!FreshEnough
=============================================================================
