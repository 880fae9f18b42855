----------------------------- MODULE ShopDeploy -----------------------------
(***************************************************************************)
(* Creating a shop on one network (web/shop.js with internal/server/       *)
(* shop.go and internal/shop/shop.go): pages that may be open more than    *)
(* once ask a wallet to send a deployment; the server keeps a journal of   *)
(* what was to be signed, and believes only the network.  A wallet may     *)
(* send and never answer, a page may be closed at any point, and the       *)
(* server may stop between its saves.                                      *)
(*                                                                         *)
(* A slot is a sender and its nonce: the network takes one transaction for *)
(* each.  A plan is a configuration (the call data) and the fee it pays.   *)
(***************************************************************************)
EXTENDS Naturals, Sequences

CONSTANTS
  Pages,        \* the pages that show this session
  Slots,        \* the senders and nonces in use
  Configs,      \* the deployments a person may plan
  Fees,         \* the creation fees the network may ask
  None,         \* no plan, slot, transaction
  MaxAttempts   \* bound: how many attempts are journalled

Plan == [config : Configs, fee : Fees]

ASSUME ConstantsAssumption ==
  None \notin Slots \cup Plan /\ Fees # {} /\ MaxAttempts \in Nat

VARIABLES
  plan,       \* the plan saved on the server, or None
  attempts,   \* the journal: a sequence of [slot, hash, state]
  address,    \* the server knows the deployed address
  page,       \* page[t]: what page t does, with its copy of the session
  fee,        \* the creation fee now
  sent,       \* the transactions that were ever broadcast
  mined,      \* mined[s]: the transaction the network took for slot s, with its result
  final,      \* the slots that are final
  crossed     \* history: a page had a plan signed that was not the saved one

vars == <<plan, attempts, address, page, fee, sent, mined, final, crossed>>
server == <<plan, attempts, address>>
network == <<fee, sent, mined, final>>

(* A transaction is named by what it is: the deployment a page had signed, or
   another one of the same wallet (a cancelling or an unrelated one). *)
Transaction == [slot : Slots, plan : Plan \cup {None}]

States == {"signing", "pending", "confirmed", "reverted", "replaced", "cancelled"}
Attempt == [slot : Slots, hash : Transaction \cup {None}, state : States]
NoAttempt == [slot |-> None, hash |-> None, state |-> "none"]

(* What a page uses of the session it was last answered with. *)
Session == [plan : Plan \cup {None}, slot : Slots \cup {None}, state : States \cup {"none"},
            address : BOOLEAN]

Last == IF attempts = <<>> THEN NoAttempt ELSE attempts[Len(attempts)]
Saved == [plan |-> plan, slot |-> Last.slot, state |-> Last.state, address |-> address]

TxOf(q) == [slot |-> q.slot, plan |-> q.plan]

Page == [pc : {"closed", "idle", "wallet", "broadcast", "rejected"},
         seen : Session, reviewed : BOOLEAN, slot : Slots \cup {None}, plan : Plan \cup {None}]

Closed == [pc |-> "closed", seen |-> [plan |-> None, slot |-> None, state |-> "none", address |-> FALSE],
           reviewed |-> FALSE, slot |-> None, plan |-> None]

(* The session, the pages and the network keep their shape (shop.Session,
   shop.Attempt). *)
TypeOK ==
  /\ plan \in Plan \cup {None}
  /\ attempts \in Seq(Attempt)
  /\ address \in BOOLEAN
  /\ page \in [Pages -> Page]
  /\ fee \in Fees
  /\ sent \subseteq Transaction
  /\ mined \in [Slots -> [tx : Transaction \cup {None}, ok : BOOLEAN]]
  /\ final \subseteq Slots
  /\ crossed \in BOOLEAN

Init ==
  /\ plan = None /\ attempts = <<>> /\ address = FALSE
  /\ page = [t \in Pages |-> Closed]
  /\ fee \in Fees
  /\ sent = {} /\ mined = [s \in Slots |-> [tx |-> None, ok |-> FALSE]] /\ final = {}
  /\ crossed = FALSE

-----------------------------------------------------------------------------
(* Page t gets the session as it is saved now. *)
Answered(t, q) == page' = [page EXCEPT ![t] = [q EXCEPT !.seen = Saved']]

(* The page is idle again. *)
Rest(q) == [q EXCEPT !.pc = "idle", !.slot = None, !.plan = None]

(* The request is refused: the page says so and is idle again. *)
Refused(t) ==
  /\ page' = [page EXCEPT ![t] = Rest(@)]
  /\ UNCHANGED server

At(t, pc) == page[t].pc = pc
Now(a) == attempts' = [attempts EXCEPT ![Len(attempts)] = a]

-----------------------------------------------------------------------------
(* The page is opened, or closed and opened again, whatever it did. *)
Load(t) ==
  /\ UNCHANGED <<server, network, crossed>>
  /\ Answered(t, [Closed EXCEPT !.pc = "idle"])

(* review saves what is to be deployed, once. *)
PlanShop(t, c) ==
  /\ At(t, "idle") /\ page[t].seen.plan = None
  /\ IF plan # None THEN Refused(t)
     ELSE /\ plan' = [config |-> c, fee |-> fee]
          /\ UNCHANGED <<attempts, address>>
          /\ Answered(t, page[t])
  /\ UNCHANGED <<network, crossed>>

(* The details are taken back, if nothing was to be signed yet. *)
Edit(t) ==
  /\ At(t, "idle") /\ page[t].seen.plan # None /\ page[t].seen.state = "none"
  /\ IF attempts # <<>> THEN Refused(t)
     ELSE /\ plan' = None
          /\ UNCHANGED <<attempts, address>>
          /\ Answered(t, [page[t] EXCEPT !.reviewed = FALSE])
  /\ UNCHANGED <<network, crossed>>

Reviewable(q) == q.seen.plan # None /\ ~q.seen.address /\ q.seen.state # "pending"

(* review finds another fee: the plan pays it, if nothing may pay the old. *)
Reprice(t) ==
  /\ At(t, "idle") /\ Reviewable(page[t]) /\ page[t].seen.plan.fee # fee
  /\ IF plan = None \/ address \/ Last.state \notin {"none", "reverted", "replaced"} THEN Refused(t)
     ELSE /\ plan' = [plan EXCEPT !.fee = fee]
          /\ UNCHANGED <<attempts, address>>
          /\ Answered(t, page[t])
  /\ UNCHANGED <<network, crossed>>

(* review estimates the cost of the plan the page knows. *)
Review(t) ==
  /\ At(t, "idle") /\ Reviewable(page[t]) /\ page[t].seen.plan.fee = fee
  /\ page' = [page EXCEPT ![t].reviewed = TRUE]
  /\ UNCHANGED <<server, network, crossed>>

(* Mutant of MaySign: any nonce, once the wallet did not answer. *)
MaySignAnyNonce(s) == ~address /\ Last.state \notin {"pending", "confirmed"}

(* The server lets slot s be signed: a slot that may have been sent is kept. *)
MaySign(s) ==
  /\ ~address /\ Last.state \notin {"pending", "confirmed"}
  /\ Last.state \in {"signing", "cancelled"} => s = Last.slot

(* send: the page keeps the slot of an attempt whose end it does not know, or
   takes the wallet's next one.  "signing" goes to the journal before the
   wallet is asked to sign the plan that the page had. *)
Send(t, s) ==
  /\ At(t, "idle") /\ page[t].reviewed
  /\ page[t].seen.plan # None /\ page[t].seen.plan.fee = fee
  /\ IF page[t].seen.state \in {"signing", "cancelled"} THEN s = page[t].seen.slot
     ELSE mined[s].tx = None
  /\ IF plan = None \/ ~MaySign(s) THEN Refused(t) /\ UNCHANGED crossed
     ELSE /\ IF Last.state \in {"signing", "cancelled"}
             THEN Now([Last EXCEPT !.state = "signing"])
             ELSE /\ Len(attempts) < MaxAttempts
                  /\ attempts' = Append(attempts, [slot |-> s, hash |-> None, state |-> "signing"])
          /\ UNCHANGED <<plan, address>>
          /\ Answered(t, [page[t] EXCEPT !.pc = "wallet", !.slot = s, !.plan = page[t].seen.plan])
          /\ crossed' = (crossed \/ page[t].seen.plan # plan)
  /\ UNCHANGED network

(* The wallet sends the transaction, if its slot is not used up, and answers
   or does not; or the person rejects it. *)
Broadcast(t) ==
  /\ At(t, "wallet")
  /\ page[t].slot \notin {s \in Slots : mined[s].tx # None}
  /\ sent' = sent \cup {TxOf(page[t])}
  /\ page' = [page EXCEPT ![t].pc = "broadcast"]
  /\ UNCHANGED <<server, fee, mined, final, crossed>>

Uncertain(t) ==
  /\ At(t, "wallet")
  /\ page' = [page EXCEPT ![t] = Rest(@)]
  /\ sent' \in {sent, sent \cup {x \in {TxOf(page[t])} : mined[x.slot].tx = None}}
  /\ UNCHANGED <<server, fee, mined, final, crossed>>

Reject(t) ==
  /\ At(t, "wallet")
  /\ page' = [page EXCEPT ![t] = [Rest(@) EXCEPT !.pc = "rejected"]]
  /\ UNCHANGED <<server, network, crossed>>

(* The hash is saved by the server.  The page has stored it too: a hash that
   anyone still knows may be checked (Verify). *)
Submitted(t) ==
  /\ At(t, "broadcast")
  /\ LET x == TxOf(page[t]) IN
       IF Last.state \notin {"signing", "pending"} \/ Last.hash \notin {None, x} THEN Refused(t)
          ELSE /\ Now([Last EXCEPT !.hash = x, !.state = "pending"])
               /\ UNCHANGED <<plan, address>>
               /\ Answered(t, [Rest(page[t]) EXCEPT !.reviewed = FALSE])
  /\ UNCHANGED <<network, crossed>>

(* Only an explicit rejection says that nothing was sent. *)
Cancelled(t) ==
  /\ At(t, "rejected")
  /\ IF Last.state # "signing" \/ Last.hash # None THEN Refused(t)
     ELSE /\ Now([Last EXCEPT !.state = "cancelled"])
          /\ UNCHANGED <<plan, address>>
          /\ Answered(t, Rest(page[t]))
  /\ UNCHANGED <<network, crossed>>

(* Mutant of Verdict: a transaction is believed before it is final. *)
VerdictEarly(x) ==
  IF mined[x.slot].tx # x THEN "pending"
  ELSE IF x.plan # plan THEN "replaced"
  ELSE IF mined[x.slot].ok THEN "confirmed" ELSE "reverted"

(* What the network says of transaction x. *)
Verdict(x) ==
  IF mined[x.slot].tx # x \/ x.slot \notin final THEN "pending"
  ELSE IF x.plan # plan THEN "replaced"
  ELSE IF mined[x.slot].ok THEN "confirmed" ELSE "reverted"

(* verify asks the network about x, which must have the slot of the attempt.
   The timer of an idle page does so with the hash it knows, a person with
   any hash of the wallet's; a hash nobody knows changes nothing. *)
Verify(t, x) ==
  /\ At(t, "idle")
  /\ x \in sent
  /\ IF Last.state \in {"none", "reverted", "replaced"} \/ x.slot # Last.slot THEN Refused(t)
     ELSE /\ Now([Last EXCEPT !.hash = x, !.state = Verdict(x)])
          /\ address' = (address \/ Verdict(x) = "confirmed")
          /\ UNCHANGED plan
          /\ Answered(t, page[t])
  /\ UNCHANGED <<network, crossed>>

-----------------------------------------------------------------------------
(* The network and the wallet, outside this program. *)
Take(s, x, ok) == mined' = [mined EXCEPT ![s] = [tx |-> x, ok |-> ok]]

Mine(x) ==
  /\ mined[x.slot].tx = None
  /\ \E ok \in BOOLEAN : Take(x.slot, x, ok \/ x.plan = None)
  /\ UNCHANGED <<server, page, fee, sent, final, crossed>>

(* The wallet used a slot of the journal for something else: a cancellation,
   or a transaction that has nothing to do with the shop. *)
MineOther(s) ==
  /\ mined[s].tx = None /\ \E i \in 1..Len(attempts) : attempts[i].slot = s
  /\ Take(s, [slot |-> s, plan |-> None], TRUE)
  /\ sent' = sent \cup {[slot |-> s, plan |-> None]}
  /\ UNCHANGED <<server, page, fee, final, crossed>>

Reorganise(s) ==
  /\ s \notin final /\ mined[s].tx # None
  /\ mined' = [mined EXCEPT ![s] = [tx |-> None, ok |-> FALSE]]
  /\ UNCHANGED <<server, page, fee, sent, final, crossed>>

Finalise(s) ==
  /\ mined[s].tx # None /\ s \notin final
  /\ final' = final \cup {s}
  /\ UNCHANGED <<server, page, fee, sent, mined, crossed>>

FeeChanges ==
  /\ fee' \in Fees \ {fee}
  /\ UNCHANGED <<server, page, sent, mined, final, crossed>>

Next ==
  \/ \E t \in Pages :
       \/ Load(t) \/ Edit(t) \/ Reprice(t) \/ Review(t)
       \/ \E c \in Configs : PlanShop(t, c)
       \/ \E s \in Slots : Send(t, s)
       \/ Broadcast(t) \/ Uncertain(t) \/ Reject(t) \/ Submitted(t) \/ Cancelled(t)
       \/ \E x \in sent : Verify(t, x)
  \/ \E s \in Slots : MineOther(s) \/ Reorganise(s) \/ Finalise(s)
  \/ \E x \in sent : Mine(x)
  \/ FeeChanges

Spec == Init /\ [][Next]_vars

-----------------------------------------------------------------------------
Deployments == {s \in Slots : mined[s].tx # None /\ mined[s].tx.plan # None /\ mined[s].ok}

(* However often a page is reopened, a wallet does not answer and a person
   tries again, at most one deployment succeeds, unless a page had a plan
   signed that another one had replaced (MaySign, send, Verdict). *)
DeployedOnceUnlessCrossed ==
  ~crossed => \A s, u \in Deployments : s = u

(* Whatever a page had broadcast can be found again: its slot is in the
   journal, and while it may still be mined it is the last one there (the
   journal is written before the wallet is asked, and a slot is given up only
   when another transaction took it for good). *)
NothingLost ==
  \A x \in sent : x.plan # None =>
    /\ \E i \in 1..Len(attempts) : attempts[i].slot = x.slot
    /\ x.slot \notin final => x.slot = Last.slot

(* The address that is recorded is that of a deployment which is final and
   was the one planned, whatever hash was given for it (Verify). *)
RecordedIsDeployed ==
  TypeOK /\ (address => \E s \in final : mined[s].ok /\ mined[s].tx.plan = plan)
=============================================================================
