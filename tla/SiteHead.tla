------------------------------ MODULE SiteHead ------------------------------
(***************************************************************************)
(* What a host promises about the version it holds for each site key,      *)
(* however it is built (internal/host/host.go, worker/src/index.js).       *)
(* Writers offer versions; an offer is taken or dropped, and it is taken   *)
(* in one step that looks at the head it replaces (HeadRule).  So two      *)
(* writers that chose the same next sequence never replace one another     *)
(* unseen.  A restart may bring back an earlier head, but never one below  *)
(* a sequence that the host has confirmed to a writer.                     *)
(***************************************************************************)
EXTENDS HeadRule

CONSTANTS
  Keys,       \* the site keys (IPNS names)
  Versions,   \* the versions (root CIDs)
  Seqs,       \* the sequences in use
  Writers,    \* who may have an offer under way
  NoOffer     \* no offer under way

VARIABLES
  head,       \* head[k] = [cid, seq]: the version held for k
  offer,      \* offer[w]: the offer writer w has under way, or NoOffer
  confirmed   \* confirmed[k]: the sequence the last push to k was answered with

headVars == <<head, offer, confirmed>>

Offers == [key : Keys, cid : Versions, seq : Seqs,
           parent : Versions \cup {NoVersion}, mirror : BOOLEAN]

Heads == [cid : Versions \cup {NoVersion}, seq : Seqs]

HInit ==
  /\ head = [k \in Keys |-> [cid |-> NoVersion, seq |-> 0]]
  /\ offer = [w \in Writers |-> NoOffer]
  /\ confirmed = [k \in Keys |-> 0]

MakeOffer(w) ==
  /\ offer[w] = NoOffer
  /\ offer' = [offer EXCEPT ![w] = offer'[w]]
  /\ offer'[w] \in Offers
  /\ UNCHANGED <<head, confirmed>>

DropOffer(w) ==
  /\ offer' = [offer EXCEPT ![w] = NoOffer]
  /\ UNCHANGED <<head, confirmed>>

(* The answer that confirms an offer may be lost, or be an error. *)
TakeOffer(w) ==
  /\ offer[w] # NoOffer
  /\ LET o == offer[w] IN
       /\ Supersedes(o, head[o.key])
       /\ head' = [head EXCEPT ![o.key] = [cid |-> o.cid, seq |-> o.seq]]
       /\ confirmed' \in {confirmed, [confirmed EXCEPT ![o.key] = o.seq]}
  /\ offer' = [offer EXCEPT ![w] = NoOffer]

(* A crash and restart drop every offer. *)
FallBack ==
  /\ head' \in [Keys -> Heads]
  /\ \A k \in Keys : head'[k].seq >= confirmed[k]
  /\ offer' = [w \in Writers |-> NoOffer]
  /\ UNCHANGED confirmed

HNext ==
  \/ \E w \in Writers : MakeOffer(w) \/ DropOffer(w) \/ TakeOffer(w)
  \/ FallBack

HSpec == HInit /\ [][HNext]_headVars

(* The steps of a host whose heads never fall back. *)
HWrites == [][\E w \in Writers : MakeOffer(w) \/ DropOffer(w) \/ TakeOffer(w)]_headVars
=============================================================================
