--------------------------- MODULE MCHostRegistry ---------------------------
(***************************************************************************)
(* Instances of HostRegistry.  The site has an index page i (rendered by   *)
(* the laptop), the laptop's post a and the agent's post b.                *)
(***************************************************************************)
EXTENDS HostRegistry

CONSTANTS k1, k2, i0, i1, a, b

MCFiles == {i0, i1, a, b}
MCPathOf == [f \in MCFiles |-> IF f \in {i0, i1} THEN "index" ELSE IF f = a THEN "a" ELSE "b"]

Old    == {i0}
Laptop == {i1, a}
Agent  == {i0, b}
Both   == {i1, a, b}
MCVersions == {Old, Laptop, Agent, Both}
MCSeqs == 0..2

Push(cid, seq, parent, files) ==
  [key |-> k1, cid |-> cid, seq |-> seq, parent |-> parent, files |-> files,
   manifest |-> FALSE, carry |-> {}, last |-> TRUE, mirror |-> FALSE, rec |-> cid]

First      == Push(Old, 1, NoVersion, Old)
AgentPost  == Push(Agent, 2, Old, {b})
Changes    == [Push(Laptop, 2, Old, Laptop) EXCEPT !.manifest = TRUE, !.carry = {}]
BadCarry   == [Push(Both, 2, Old, Laptop) EXCEPT !.manifest = TRUE, !.carry = {"b"}]
WrongCarry == [Push(Both, 2, Old, {a, b}) EXCEPT !.manifest = TRUE, !.carry = {"index"}]
PartOne    == [Push(Laptop, 2, NoVersion, {a}) EXCEPT !.last = FALSE]
NoRecord   == [Push(Old, 2, NoVersion, Old) EXCEPT !.rec = NoVersion]
Pull       == [Push(Agent, 2, NoVersion, Agent) EXCEPT !.mirror = TRUE]
OldPull    == [Push(Old, 1, NoVersion, {}) EXCEPT !.mirror = TRUE]

(* A laptop and an agent that chose the same next sequence, the laptop's
   version also as a first part, a push that carries a path its version has
   no longer, and one that carries a path its parent never had. *)
SiteAndAgent == {First, AgentPost, Changes, PartOne, WrongCarry, BadCarry}

(* A host that mirrors another one, and a record that is kept when a push
   brings none. *)
PushesAndPulls == {First, NoRecord, OldPull, Pull}
=============================================================================
