---------------------------- MODULE MCWorkerHost ----------------------------
(***************************************************************************)
(* Instances of WorkerHost.  The site has an index page (i0, then i1) and  *)
(* posts a and b; an agent adds b on a parent, a laptop drops and adds a.  *)
(***************************************************************************)
EXTENDS Worker, TLC

CONSTANTS k1, k2, i0, i1, a, b

MCFiles == {i0, i1, a, b}
MCPathOf == [f \in MCFiles |-> IF f \in {i0, i1} THEN "index" ELSE IF f = a THEN "a" ELSE "b"]

Old    == {i0, a}
Laptop == {i1}
Agent  == {i0, a, b}
Fewer  == {i1, a}
Page   == {i0}
MCVersions == {Old, Laptop, Agent, Fewer, Page}
MCSeqs == 0..3

Push(cid, seq, parent, own) ==
  [key |-> k1, cid |-> cid, seq |-> seq, parent |-> parent, own |-> own,
   manifest |-> FALSE, carry |-> {}]

First     == Push(Old, 1, NoVersion, Old)
Whole     == Push(Laptop, 2, NoVersion, Laptop)
AgentPost == Push(Agent, 2, Old, {b})
Drops     == [Push(Fewer, 3, Agent, {i1}) EXCEPT !.manifest = TRUE, !.carry = {"a"}]
WrongBase == [Push(Fewer, 3, Laptop, {i1}) EXCEPT !.manifest = TRUE, !.carry = {"a"}]

(* An agent's post and a laptop's whole version chose the same sequence, and
   a manifest drops the agent's post and keeps what
   the agent's version carried from an earlier one. *)
SiteAndAgent == {First, Whole, AgentPost, Drops, WrongBase}

OnePage == Push(Page, 1, NoVersion, Page)
SamePage == Push(Page, 2, NoVersion, Page)

MCPushes == SiteAndAgent \cup {OnePage, SamePage}

(* What does not meet, each of them two requests: the pushes of SiteAndAgent,
   the claims of two sites, and the claims of a site with the push of its one
   page. *)
Claimed(k) ==
  \/ \E n \in Names : names[n] = k
  \/ entry[k].name # NoName
  \/ k \in loose \ behind
  \/ \E r \in Requests : Claims(r, k)

PushedAny(c) ==
  \/ stored[c] # {} \/ owners[c] # NoKey
  \/ \E r \in Requests : req[r].pc # "idle" /\ "push" \in DOMAIN req[r] /\ req[r].push.cid = c

OneScene ==
  /\ PushedAny(Page) => ~Claimed(k2)
  /\ \A c \in Versions \ {Page} :
       PushedAny(c) => ~PushedAny(Page) /\ \A k \in Keys : ~Claimed(k)

NoSources == <<>>

Symmetry == Permutations(Requests) \cup Permutations(Names)
=============================================================================
