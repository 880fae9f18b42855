------------------------------ MODULE HeadRule ------------------------------
(***************************************************************************)
(* When a host lets one version of a site take the place of another: what  *)
(* every writer relies on (internal/host/host.go conflict and mirror,      *)
(* worker/src/index.js pushConflict).                                      *)
(***************************************************************************)
EXTENDS Naturals

CONSTANT NoVersion  \* no version held, or no parent named

(* Offer o may take the place of head h:
     - a mirrored version replaces any head that is not ahead of it,
     - a version built on a parent replaces that parent and nothing else,
     - a whole version replaces a lower sequence, or itself again. *)
Supersedes(o, h) ==
  \/ o.mirror /\ o.seq >= h.seq
  \/ ~o.mirror /\ o.parent # NoVersion /\ o.parent = h.cid /\ o.seq >= h.seq
  \/ ~o.mirror /\ o.parent = NoVersion /\ o.seq > h.seq
  \/ ~o.mirror /\ o.parent = NoVersion /\ o.seq = h.seq /\ h.cid \in {NoVersion, o.cid}
=============================================================================
