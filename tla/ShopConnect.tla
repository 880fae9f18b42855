---------------------------- MODULE ShopConnect -----------------------------
(***************************************************************************)
(* Connecting a shop that exists on one network (web/shop-connect.js with  *)
(* internal/server/shop_connect.go and internal/shop/connect.go): the      *)
(* shop's owner lets Croptop add posts and sets a minimum price, in up to  *)
(* two transactions.  Each transaction writes a whole value, the set of    *)
(* Croptop's permissions or the posting rules, from what was read when it  *)
(* was planned.  The chain may reorganise, the owner may change the shop   *)
(* elsewhere, and more than one page may work on the session.              *)
(*                                                                         *)
(* A slot is the owner's nonce: the network takes one transaction for it.  *)
(***************************************************************************)
EXTENDS Naturals

CONSTANTS
  Pages,        \* the pages that show this session
  Slots,        \* the owner's nonces
  Prices,       \* the prices a person may set
  None,         \* no price, slot, transaction
  MaxChanges    \* bound: how often the owner and the chain do something else

VARIABLES
  session,    \* what the server saved of the connection
  page,       \* page[t]: what page t does, with its copy of the session
  latest,     \* the newest state of the network
  final,      \* the state of its last final block
  sent,       \* the transactions that were ever broadcast
  changes,    \* how often they did
  moved,      \* history: the network changed the shop since the last signing
  agreed      \* history: the rules the shop was connected with, None once a transaction is
              \*   signed or the owner changes the shop

vars == <<session, page, latest, final, sent, changes, moved, agreed>>
network == <<latest, final, sent, changes>>

(* What Croptop may do: adjust the shop's tiers, and something else. *)
Permissions == SUBSET {"adjust", "other"}

(* The posting rules of the category: the price, and all the rest. *)
Unset == [price |-> None, rest |-> "unset"]
Rules == {Unset} \cup [price : Prices, rest : {"default", "theirs"}]

Grant(perms) == [kind |-> "permission", perms |-> perms, rules |-> Unset]
Configure(rules) == [kind |-> "criteria", perms |-> {}, rules |-> rules]
Setup == {Grant(perms) : perms \in Permissions} \cup {Configure(rules) : rules \in Rules}

Transaction == [slot : Slots, tx : Setup \cup {None}]
ConnectAssumption ==
  /\ MaxChanges \in Nat
  /\ None \notin Slots \cup Prices \cup Rules \cup Setup \cup Transaction

NotMined == [x |-> None, ok |-> FALSE]

Network == [perms : Permissions, rules : Rules,
            mined : [Slots -> {NotMined} \cup [x : Transaction, ok : BOOLEAN]]]

Attempt == [slot : Slots, hash : Transaction \cup {None},
            state : {"signing", "cancelled", "pending", "confirmed"}]
NoAttempt == [slot |-> None, hash |-> None, state |-> "none"]

Session == [expected : Rules \cup {None},
            plan : Rules \cup {None}, tx : Setup \cup {None},
            attempt : Attempt \cup {NoAttempt}, completed : BOOLEAN]

Opened == [expected |-> None, plan |-> None, tx |-> None,
                attempt |-> NoAttempt, completed |-> FALSE]

Page == [pc : {"closed", "idle", "wallet", "broadcast", "rejected"},
         planned : BOOLEAN, tx : Setup \cup {None}, slot : Slots \cup {None},
         state : {"none", "signing", "cancelled", "pending", "confirmed"},
         completed : BOOLEAN, reviewed : BOOLEAN, asked : Transaction \cup {None}]

Closed == [pc |-> "closed", planned |-> FALSE, tx |-> None, slot |-> None, state |-> "none",
           completed |-> FALSE, reviewed |-> FALSE, asked |-> None]

(* The session, the pages and the network keep their shape (shop.Connection,
   shop.Attempt). *)
TypeOK ==
  /\ session \in Session
  /\ page \in [Pages -> Page]
  /\ latest \in Network /\ final \in Network
  /\ sent \subseteq Transaction
  /\ changes \in 0..MaxChanges
  /\ moved \in BOOLEAN /\ agreed \in Rules \cup {None}

Init ==
  /\ session = Opened
  /\ page = [t \in Pages |-> Closed]
  /\ \E perms \in {{"other"}, {"other", "adjust"}}, rules \in {Unset} \cup [price : Prices, rest : {"theirs"}] :
       latest = [perms |-> perms, rules |-> rules, mined |-> [s \in Slots |-> NotMined]]
  /\ final = latest
  /\ sent = {} /\ changes = 0
  /\ moved = FALSE /\ agreed = None

-----------------------------------------------------------------------------
At(t, pc) == page[t].pc = pc

(* Page t gets the session as it is saved now. *)
Answered(t, q) ==
  page' = [page EXCEPT ![t] = [q EXCEPT !.planned = session'.expected # None, !.tx = session'.tx,
             !.slot = session'.attempt.slot, !.state = session'.attempt.state,
             !.completed = session'.completed]]

Rest(q) == [q EXCEPT !.pc = "idle", !.asked = None]

(* The request is refused: the page says so, and what was reviewed is not. *)
Refused(t) ==
  /\ page' = [page EXCEPT ![t] = [Rest(@) EXCEPT !.reviewed = FALSE]]
  /\ UNCHANGED session

(* The page is opened, or closed and opened again, whatever it did. *)
Load(t) ==
  /\ UNCHANGED <<session, network, moved, agreed>>
  /\ Answered(t, [Closed EXCEPT !.pc = "idle"])

(* NextSetup: the transaction that is missing on network n. *)
NextSetup(n, expected) ==
  IF "adjust" \notin n.perms THEN Grant(n.perms \cup {"adjust"})
  ELSE IF n.rules # expected THEN Configure(expected) ELSE None

(* PlanConnection keeps the rules that are there, but for the price. *)
Expected(price) ==
  [price |-> price, rest |-> IF latest.rules = Unset THEN "default" ELSE latest.rules.rest]

Active(q) == q.state \in {"signing", "cancelled", "pending"}

(* Review setup: the rules are planned, and the transaction's cost estimated,
   which may fail. *)
PlanConnection(t, price) ==
  /\ At(t, "idle") /\ ~Active(page[t]) /\ ~page[t].completed
  /\ IF session.tx # None /\ session.attempt.state \notin {"none", "confirmed"}
     THEN Refused(t)
     ELSE LET e == Expected(price) IN
          /\ session' = [session EXCEPT !.expected = e, !.plan = latest.rules,
                           !.tx = NextSetup(latest, e), !.attempt = NoAttempt]
          /\ \E estimated \in BOOLEAN :
               Answered(t, [page[t] EXCEPT !.reviewed = estimated /\ session'.tx # None])
  /\ UNCHANGED <<network, moved, agreed>>

(* Another price is typed. *)
EditPrice(t) ==
  /\ At(t, "idle") /\ ~Active(page[t]) /\ page[t].reviewed
  /\ page' = [page EXCEPT ![t].reviewed = FALSE]
  /\ UNCHANGED <<session, network, moved, agreed>>

(* Review the saved transaction, whose end is not known. *)
ReviewSaved(t) ==
  /\ At(t, "idle") /\ page[t].state \in {"signing", "cancelled"}
  /\ page' = [page EXCEPT ![t].reviewed = TRUE]
  /\ UNCHANGED <<session, network, moved, agreed>>

(* Mutant of SameShop: what the rules were when they were planned is not compared. *)
SameShopNow == NextSetup(latest, session.expected) = session.tx

(* The transaction is still the one that is missing, and what it replaces is
   what was read when it was planned. *)
SameShop ==
  /\ NextSetup(latest, session.expected) = session.tx
  /\ session.tx.kind = "criteria" => latest.rules = session.plan

(* Mutant of MaySign: the wallet's next nonce, whatever became of the last. *)
MaySignAnyNonce(s) == session.attempt.state \in {"none", "signing", "cancelled"}

(* A transaction that may have been sent keeps its slot. *)
MaySign(s) ==
  /\ session.attempt.state \in {"none", "signing", "cancelled"}
  /\ session.attempt # NoAttempt => session.attempt.slot = s

(* approve: the slot of the attempt the page knows, or the wallet's next one.
   "signing" is saved before the wallet is asked, and what the wallet is then
   asked to sign is the transaction that is saved by now. *)
Approve(t, s) ==
  /\ At(t, "idle") /\ page[t].reviewed /\ page[t].tx # None
  /\ page[t].state \in {"none", "signing", "cancelled"}
  /\ IF page[t].state = "none" THEN latest.mined[s] = NotMined ELSE s = page[t].slot
  /\ IF session.tx = None \/ ~MaySign(s) \/ ~SameShop THEN Refused(t) /\ UNCHANGED <<moved, agreed>>
     ELSE /\ session' = [session EXCEPT !.attempt = [slot |-> s, hash |-> None, state |-> "signing"]]
          /\ Answered(t, [page[t] EXCEPT !.pc = "wallet", !.asked = [slot |-> s, tx |-> session.tx]])
          /\ moved' = FALSE /\ agreed' = None
  /\ UNCHANGED <<network>>

(* The wallet sends the transaction and answers, or does not answer; or the
   person rejects it. *)
Broadcast(t) ==
  /\ At(t, "wallet") /\ latest.mined[page[t].asked.slot] = NotMined
  /\ sent' = sent \cup {page[t].asked}
  /\ \E q \in {[page[t] EXCEPT !.pc = "broadcast"], [Rest(page[t]) EXCEPT !.reviewed = FALSE]} :
       page' = [page EXCEPT ![t] = q]
  /\ UNCHANGED <<session, latest, final, changes, moved, agreed>>

Reject(t) ==
  /\ At(t, "wallet")
  /\ page' = [page EXCEPT ![t] = [Rest(@) EXCEPT !.pc = "rejected"]]
  /\ UNCHANGED <<session, network, moved, agreed>>

Submitted(t) ==
  /\ At(t, "broadcast")
  /\ IF session.attempt.state \notin {"signing", "pending"}
        \/ session.attempt.hash \notin {None, page[t].asked}
     THEN Refused(t)
     ELSE /\ session' = [session EXCEPT !.attempt.hash = page[t].asked, !.attempt.state = "pending"]
          /\ Answered(t, [Rest(page[t]) EXCEPT !.reviewed = FALSE])
  /\ UNCHANGED <<network, moved, agreed>>

Cancelled(t) ==
  /\ At(t, "rejected")
  /\ IF session.attempt.state # "signing" \/ session.attempt.hash # None THEN Refused(t)
     ELSE /\ session' = [session EXCEPT !.attempt.state = "cancelled"]
          /\ Answered(t, [Rest(page[t]) EXCEPT !.reviewed = FALSE])
  /\ UNCHANGED <<network, moved, agreed>>

(* VerifySetup: what the network says of transaction x. *)
Verdict(x) ==
  IF final.mined[x.slot].x # x THEN "pending"
  ELSE IF x.tx # session.tx THEN "replaced"
  ELSE IF final.mined[x.slot].ok THEN "confirmed" ELSE "reverted"

(* check, by a person or the timer, asks about a hash of the attempt's slot.
   A transaction that failed or was replaced for good is planned afresh. *)
Verify(t, x) ==
  /\ At(t, "idle") /\ page[t].state # "none"
  /\ IF session.attempt = NoAttempt \/ x.slot # session.attempt.slot THEN Refused(t)
     ELSE /\ session' =
               IF Verdict(x) \in {"reverted", "replaced"}
               THEN [session EXCEPT !.tx = None, !.attempt = NoAttempt]
               ELSE [session EXCEPT !.attempt.hash = x, !.attempt.state = Verdict(x)]
          /\ Answered(t, page[t])
  /\ UNCHANGED <<network, moved, agreed>>

(* Mutant of Connected: the newest block is enough. *)
ConnectedLatest ==
  "adjust" \in latest.perms /\ latest.rules = session.expected

(* What finish reads, at the final block and at the newest. *)
Connected ==
  \A n \in {final, latest} : "adjust" \in n.perms /\ n.rules = session.expected

(* finish, by its button or after a check: the site's settings are saved, and
   then the session, if the server does not stop before.  It is refused too
   if the person has changed these settings since setup was opened. *)
Finish(t) ==
  /\ At(t, "idle") /\ page[t].planned /\ ~page[t].completed
  /\ page[t].tx # None => page[t].tx.kind = "criteria" /\ page[t].state = "confirmed"
  /\ \/ Refused(t) /\ UNCHANGED agreed
     \/ /\ session.expected # None /\ Connected
        /\ agreed' = session.expected
        /\ \/ session' = [session EXCEPT !.completed = TRUE] /\ Answered(t, page[t])
           \/ Refused(t)
  /\ UNCHANGED <<network, moved>>

-----------------------------------------------------------------------------
(* The network and the wallet, outside this program. *)
Mine(x) ==
  /\ latest.mined[x.slot] = NotMined
  /\ \E ok \in BOOLEAN :
       latest' = [perms |-> IF ok /\ x.tx # None /\ x.tx.kind = "permission"
                            THEN x.tx.perms ELSE latest.perms,
                  rules |-> IF ok /\ x.tx # None /\ x.tx.kind = "criteria"
                            THEN x.tx.rules ELSE latest.rules,
                  mined |-> [latest.mined EXCEPT ![x.slot] = [x |-> x, ok |-> ok]]]
  /\ UNCHANGED <<session, page, final, sent, changes, moved, agreed>>

(* The wallet used the slot for something that has nothing to do with the shop. *)
MineOther(s) ==
  /\ latest.mined[s] = NotMined /\ changes < MaxChanges
  /\ latest' = [latest EXCEPT !.mined[s] = [x |-> [slot |-> s, tx |-> None], ok |-> TRUE]]
  /\ sent' = sent \cup {[slot |-> s, tx |-> None]}
  /\ changes' = changes + 1
  /\ UNCHANGED <<session, page, final, moved, agreed>>

(* The owner changes the permissions or the rules from elsewhere. *)
ChangeElsewhere ==
  /\ changes < MaxChanges
  /\ \/ \E perms \in Permissions : latest' = [latest EXCEPT !.perms = perms]
     \/ \E price \in Prices : latest' = [latest EXCEPT !.rules = [price |-> price, rest |-> "theirs"]]
  /\ changes' = changes + 1
  /\ moved' = TRUE /\ agreed' = None
  /\ UNCHANGED <<session, page, final, sent>>

Reorganise ==
  /\ latest # final /\ changes < MaxChanges
  /\ latest' = final
  /\ changes' = changes + 1
  /\ moved' = TRUE
  /\ UNCHANGED <<session, page, final, sent, agreed>>

Finalise ==
  /\ latest # final
  /\ final' = latest
  /\ UNCHANGED <<session, page, latest, sent, changes, moved, agreed>>

Next ==
  \/ \E t \in Pages :
       \/ Load(t) \/ EditPrice(t) \/ ReviewSaved(t)
       \/ \E price \in Prices : PlanConnection(t, price)
       \/ \E s \in Slots : Approve(t, s)
       \/ Broadcast(t) \/ Reject(t) \/ Submitted(t) \/ Cancelled(t) \/ Finish(t)
       \/ \E x \in sent : Verify(t, x)
  \/ \E x \in sent : Mine(x)
  \/ \E s \in Slots : MineOther(s)
  \/ ChangeElsewhere \/ Reorganise \/ Finalise

Spec == Init /\ [][Next]_vars

-----------------------------------------------------------------------------
(* A transaction of ours that is mined changes the price and grants one
   permission, and keeps the other rules and permissions, although it writes
   them all: unless the network changed the shop after the server last
   compared them, at the signing (signing in shop_connect.go, NextSetup). *)
KeepsTheRest ==
  [][\A s \in Slots :
       ~moved /\ latest.mined[s] = NotMined /\ latest'.mined[s] # NotMined =>
         /\ latest.perms \subseteq latest'.perms
         /\ latest.rules = Unset \/ latest'.rules.rest = latest.rules.rest]_vars

(* A transaction that was broadcast and may still be mined is the one that is
   saved, so that it can be found again, however pages are reopened and plan,
   sign and check in turn (signing, verify, PlanConnection). *)
NothingLost ==
  \A x \in sent : x.tx # None /\ final.mined[x.slot] = NotMined =>
    session.attempt.slot = x.slot /\ session.tx = x.tx

(* A shop that was connected stays connected: whatever the chain reorganises,
   Croptop may post there under the rules that were reviewed, until another
   transaction is signed or the owner changes the shop (finish). *)
ConnectedStays ==
  agreed # None =>
    \A n \in {final, latest} : "adjust" \in n.perms /\ n.rules = agreed
=============================================================================
