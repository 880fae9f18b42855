----------------------------- MODULE ShopSetup ------------------------------
(***************************************************************************)
(* Setting up posting on every network of a shop (web/shop-setup.js with   *)
(* internal/server/shop_bundle.go and internal/shop/bundle.go).  The owner *)
(* signs a request for each network, which stays good until its deadline;  *)
(* a relay runs them all once it is paid on one network.  A wallet may     *)
(* send and not answer, the person may reject, a page may be closed.       *)
(*                                                                         *)
(* Pages of one browser take turns (navigator.locks); two browsers do not. *)
(***************************************************************************)
EXTENDS Naturals

CONSTANTS
  Pages,        \* the pages that show this session
  BrowserOf,    \* BrowserOf[t]: the browser of page t
  Chains,       \* the networks to set up
  Prices,       \* the prices a person may set
  Slots,        \* the payer's nonces
  Hour,         \* how long a plan's requests are good for
  MaxTime,      \* bound: the last moment
  MaxPlans,     \* bound: how many plans are made
  None          \* no price, slot, network

ASSUME ConstantsAssumption ==
  /\ Hour \in Nat /\ MaxTime \in Nat /\ MaxPlans \in Nat
  /\ None \notin Prices \cup Slots \cup Chains

VARIABLES
  plans,      \* plans[p]: the p-th plan's price, deadline, networks, and their nonces then
  bundle,     \* what the server saved
  page,       \* page[t]: what page t does
  now,        \* the server's clock
  block,      \* block[c]: the time of network c's newest block, and of its final one
  done,       \* done[c]: the price that is set up on network c, and the owner's nonce there
  sent,       \* the payments that were ever broadcast
  mined,      \* mined[s]: the payment the network took for slot s for good, or None
  excused     \* history: the plans of which one try of the payment was rejected, but not all

vars == <<plans, bundle, page, now, block, done, sent, mined, excused>>
world == <<now, block, done, sent, mined>>

PlanIds == 0..MaxPlans

(* Plan 0 as the plan of a payment: one that has nothing to do with the shop. *)
Payment == [slot : Slots, plan : PlanIds]

Attempt == [slot : Slots, tries : 1..2, state : {"signing", "pending", "confirmed", "replaced"}]
NoAttempt == [slot |-> None, tries |-> 1, state |-> "none"]

(* signed[c]: the plan whose request the saved signature of network c is for,
   0 if there is none. *)
Bundle == [plan : PlanIds, signed : [Chains -> PlanIds], quoted : BOOLEAN,
           attempt : Attempt \cup {NoAttempt}, completed : BOOLEAN]

Planned(p) == [plan |-> p, signed |-> [c \in Chains |-> 0], quoted |-> FALSE,
               attempt |-> NoAttempt, completed |-> FALSE]

(* A page knows the plan it was last answered with, and what it signs. *)
Page == [pc : {"idle", "signature", "wallet", "broadcast", "rejected"}, plan : PlanIds,
         chain : Chains \cup {None}, slot : Slots \cup {None}]

Rest(p) == [pc |-> "idle", plan |-> p, chain |-> None, slot |-> None]

(* The session, the pages and the networks keep their shape
   (shop.SetupBundle, shop.Attempt). *)
TypeOK ==
  /\ plans \in [PlanIds -> [price : Prices \cup {None}, deadline : 0..(MaxTime + Hour),
                            chains : SUBSET Chains, nonce : [Chains -> 0..MaxPlans]]]
  /\ bundle \in Bundle
  /\ page \in [Pages -> Page]
  /\ now \in 0..MaxTime
  /\ block \in [Chains -> [time : 0..MaxTime, final : 0..MaxTime]]
  /\ done \in [Chains -> [price : Prices \cup {None}, nonce : 0..MaxPlans]]
  /\ sent \subseteq Payment
  /\ mined \in [Slots -> Payment \cup {None}]
  /\ excused \subseteq PlanIds

Init ==
  /\ plans = [p \in PlanIds |-> [price |-> None, deadline |-> 0, chains |-> {},
                                 nonce |-> [c \in Chains |-> 0]]]
  /\ bundle = Planned(0)
  /\ page = [t \in Pages |-> Rest(0)]
  /\ now = 0
  /\ block = [c \in Chains |-> [time |-> 0, final |-> 0]]
  /\ done = [c \in Chains |-> [price |-> None, nonce |-> 0]]
  /\ sent = {} /\ mined = [s \in Slots |-> None]
  /\ excused = {}

-----------------------------------------------------------------------------
b == bundle
Plan == plans[b.plan]
Active == b.plan # 0 /\ ~b.completed

(* Page t may act: it is not busy, and no page of its browser is. *)
Free(t) == \A u \in Pages : BrowserOf[u] = BrowserOf[t] => page[u].pc = "idle"

At(t, pc) == page[t].pc = pc
Show(t) == page' = [page EXCEPT ![t] = Rest(bundle'.plan)]

Load(t) ==
  /\ Free(t)
  /\ UNCHANGED <<plans, bundle, world, excused>>
  /\ Show(t)

(* The page is closed or reloaded, a call of it fails, or the wallet does. *)
Close(t) ==
  /\ ~At(t, "idle")
  /\ page' = [page EXCEPT ![t] = Rest(@.plan)]
  /\ UNCHANGED <<plans, bundle, world, excused>>

Settled == b.attempt.state \in {"none", "confirmed", "replaced"}

(* Mutant of MayPlan: the requests that were signed may still be good. *)
MayPlanAlways == Active => Settled

(* Nothing that was to be signed may run any more, on any network, as far as
   final blocks tell. *)
MayPlan ==
  Active => Settled /\ \A c \in Plan.chains : block[c].final > Plan.deadline

(* PlanBundle: each network that is not set up yet gets a request. *)
MakePlan(t, price) ==
  /\ Free(t) /\ ~b.completed
  /\ MayPlan
  /\ b.plan < MaxPlans
  /\ plans' = [plans EXCEPT ![b.plan + 1] =
                 [price |-> price, deadline |-> now + Hour,
                  chains |-> {c \in Chains : done[c].price # price},
                  nonce |-> [c \in Chains |-> done[c].nonce]]]
  /\ bundle' = Planned(b.plan + 1)
  /\ Show(t)
  /\ UNCHANGED <<world, excused>>

(* The wallet signs the request of network c that the page shows. *)
SignRequest(t, c) ==
  /\ Free(t)
  /\ c \in plans[page[t].plan].chains
  /\ page' = [page EXCEPT ![t].pc = "signature", ![t].chain = c]
  /\ UNCHANGED <<plans, bundle, world, excused>>

(* The server saves it with the plan it has by now, without a look at what it
   signs; a signature that is there stays. *)
SaveSignature(t) ==
  /\ At(t, "signature")
  /\ LET c == page[t].chain IN
       IF /\ b.attempt = NoAttempt /\ ~b.quoted
          /\ Active /\ now < Plan.deadline
          /\ c \in Plan.chains /\ b.signed[c] \in {0, page[t].plan}
       THEN bundle' = [b EXCEPT !.signed[c] = page[t].plan]
       ELSE UNCHANGED bundle
  /\ Show(t)
  /\ UNCHANGED <<plans, world, excused>>

(* ValidateBundleState: there is time, and no network moved on since. *)
StillGood ==
  /\ Active /\ now < Plan.deadline
  /\ \A c \in Plan.chains : done[c].nonce = Plan.nonce[c]

(* The relay is asked for a price, if every network would take its request. *)
Quote(t) ==
  /\ Free(t) /\ b.attempt = NoAttempt
  /\ StillGood /\ Plan.chains # {}
  /\ \A c \in Plan.chains : b.signed[c] = b.plan
  /\ bundle' = [b EXCEPT !.quoted = TRUE]
  /\ Show(t)
  /\ UNCHANGED <<plans, world, excused>>

(* Mutant of MayPay: the wallet's next nonce, whatever became of the last. *)
MayPayAgain(s) == b.attempt.state \in {"none", "signing"}

(* A payment begins, or the one whose end is not known is tried again. *)
MayPay(s) == b.attempt = NoAttempt \/ (b.attempt.state = "signing" /\ s = b.attempt.slot)

(* pay takes the wallet's next nonce, retry-payment that of the attempt;
   "paying" is saved before the wallet is asked. *)
Pay(t, s) ==
  /\ Free(t) /\ b.quoted /\ StillGood
  /\ \/ b.attempt.state = "signing" /\ s = b.attempt.slot
     \/ mined[s] = None /\ \A x \in sent : x.slot # s
  /\ MayPay(s)
  /\ bundle' = [b EXCEPT !.attempt = [slot |-> s, state |-> "signing",
                                      tries |-> IF b.attempt = NoAttempt THEN 1 ELSE 2]]
  /\ page' = [page EXCEPT ![t] = [Rest(b.plan) EXCEPT !.pc = "wallet", !.slot = s]]
  /\ UNCHANGED <<plans, world, excused>>

(* The wallet sends the payment and answers, or does not answer. *)
Broadcast(t) ==
  /\ At(t, "wallet") /\ mined[page[t].slot] = None
  /\ sent' = sent \cup {[slot |-> page[t].slot, plan |-> page[t].plan]}
  /\ \E q \in {[page[t] EXCEPT !.pc = "broadcast"], Rest(page[t].plan)} :
       page' = [page EXCEPT ![t] = q]
  /\ UNCHANGED <<plans, bundle, now, block, done, mined, excused>>

Reject(t) ==
  /\ At(t, "wallet")
  /\ page' = [page EXCEPT ![t].pc = "rejected"]
  /\ UNCHANGED <<plans, bundle, world, excused>>

Submitted(t) ==
  /\ At(t, "broadcast")
  /\ bundle' = IF b.attempt.state = "signing" THEN [b EXCEPT !.attempt.state = "pending"] ELSE b
  /\ Show(t)
  /\ UNCHANGED <<plans, world, excused>>

(* A rejection clears the payment that is saved by then, as the evidence that
   nothing was sent.  It is none about another try of it. *)
Cancelled(t) ==
  /\ At(t, "rejected")
  /\ IF b.attempt.state = "signing"
     THEN /\ bundle' = [b EXCEPT !.attempt = NoAttempt]
          /\ excused' = IF /\ b.attempt.tries = 1
                           /\ page[t].plan = b.plan /\ page[t].slot = b.attempt.slot
                        THEN excused ELSE excused \cup {b.plan}
     ELSE UNCHANGED <<bundle, excused>>
  /\ Show(t)
  /\ UNCHANGED <<plans, world>>

(* Mutant of SetUp: one network answers for all. *)
SetUpSomewhere == \E c \in Chains : done[c].price = Plan.price

(* CheckBundle: every network has the reviewed rules. *)
SetUp == \A c \in Chains : done[c].price = Plan.price

(* check: what became of payment x, which must have the attempt's nonce, and
   whether every network is set up. *)
Check(t, x) ==
  /\ Free(t) /\ b.plan # 0 /\ ~b.completed
  /\ x.slot = b.attempt.slot
  /\ LET state == IF mined[x.slot] # x THEN "pending"
                  ELSE IF x.plan = b.plan THEN "confirmed" ELSE "replaced"
     IN  bundle' = [b EXCEPT !.attempt.state = state, !.completed = SetUp]
  /\ Show(t)
  /\ UNCHANGED <<plans, world, excused>>

(* check before a payment, or with none known. *)
CheckNetworks(t) ==
  /\ Free(t) /\ b.plan # 0 /\ ~b.completed
  /\ bundle' = [b EXCEPT !.completed = SetUp]
  /\ Show(t)
  /\ UNCHANGED <<plans, world, excused>>

-----------------------------------------------------------------------------
(* The clock, the networks and the relay, outside this program. *)
Tick ==
  /\ now < MaxTime
  /\ now' = now + 1
  /\ UNCHANGED <<plans, bundle, page, block, done, sent, mined, excused>>

Block(c) ==
  /\ \/ block' = [block EXCEPT ![c].time = now]
     \/ block' = [block EXCEPT ![c].final = block[c].time]
  /\ UNCHANGED <<plans, bundle, page, now, done, sent, mined, excused>>

Mine(x) ==
  /\ mined[x.slot] = None
  /\ mined' = [mined EXCEPT ![x.slot] = x]
  /\ UNCHANGED <<plans, bundle, page, now, block, done, sent, excused>>

(* The wallet used the nonce for something else. *)
MineOther(s) ==
  /\ mined[s] = None
  /\ sent' = sent \cup {[slot |-> s, plan |-> 0]}
  /\ mined' = [mined EXCEPT ![s] = [slot |-> s, plan |-> 0]]
  /\ UNCHANGED <<plans, bundle, page, now, block, done, excused>>

Paid(p) == \E s \in Slots : mined[s] # None /\ mined[s].plan = p

(* A relay that was paid for plan p runs its request on network c: the
   forwarder takes it until its deadline, if its nonce is the owner's next. *)
Run(c, p) ==
  /\ p # 0 /\ Paid(p) /\ c \in plans[p].chains
  /\ block[c].time <= plans[p].deadline
  /\ done[c].nonce = plans[p].nonce[c]
  /\ done' = [done EXCEPT ![c] = [price |-> plans[p].price, nonce |-> @.nonce + 1]]
  /\ UNCHANGED <<plans, bundle, page, now, block, sent, mined, excused>>

Next ==
  \/ \E t \in Pages :
       \/ Load(t) \/ Close(t) \/ Quote(t) \/ SaveSignature(t) \/ CheckNetworks(t)
       \/ \E price \in Prices : MakePlan(t, price)
       \/ \E c \in Chains : SignRequest(t, c)
       \/ \E s \in Slots : Pay(t, s)
       \/ Broadcast(t) \/ Reject(t) \/ Submitted(t) \/ Cancelled(t)
       \/ \E x \in sent : Check(t, x)
  \/ Tick
  \/ \E c \in Chains : Block(c) \/ \E p \in PlanIds : Run(c, p)
  \/ \E s \in Slots : MineOther(s)
  \/ \E x \in sent : Mine(x)

Spec == Init /\ [][Next]_vars

-----------------------------------------------------------------------------
PaymentsFor(p) == {s \in Slots : mined[s] # None /\ mined[s].plan = p}

(* The network fees of a plan are paid once, however often pages are reopened,
   wallets do not answer and two browsers try again, except that a payment of
   which one try was rejected may have been sent by another (MayPay, Cancelled,
   Check). *)
PaidOnceUnlessTryRejected ==
  \A p \in PlanIds \ ({0} \cup excused) : \A s, u \in PaymentsFor(p) : s = u

(* What a relay runs on a network is what the saved plan says, never a request
   of a plan that another replaced (PlanBundle waits for every network's final
   block to pass the deadline). *)
OldPlansNeverRun ==
  [][\A c \in Chains : done'[c] # done[c] => done'[c].price = Plan.price /\ c \in Plan.chains]_vars

(* Once posting is recorded as set up, each network has the price that was
   reviewed, and keeps it (SetUp, PlanBundle). *)
CompletedIsSetUp == TypeOK /\ (b.completed => \A c \in Chains : done[c].price = Plan.price)
=============================================================================
