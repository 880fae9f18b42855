-------------------------- MODULE ShopSetup_proofs --------------------------
(***************************************************************************)
(* Proofs about ShopSetup, for any number of pages, browsers, networks,    *)
(* payments and plans.                                                     *)
(***************************************************************************)
EXTENDS ShopSetup, TLAPS

(* The page has handed a payment to the wallet. *)
InHand == {"wallet", "broadcast", "rejected"}
Holds(t, p) == page[t].pc \in InHand /\ page[t].plan = p

(* A page shows, signs and pays what there is. *)
PagesOK == \A t \in Pages :
  /\ page[t].pc \in InHand => page[t].slot \in Slots /\ page[t].plan # 0
  /\ page[t].pc = "signature" => page[t].chain \in Chains
  /\ page[t].plan <= b.plan

SentOK ==
  /\ \A x \in sent : x.plan <= b.plan
  /\ \A s \in Slots : mined[s] # None => mined[s] \in sent /\ mined[s].slot = s

(* The plans there will be are empty, and each plan runs once on a network. *)
PlansOK ==
  /\ \A p \in PlanIds : p = 0 \/ p > b.plan => plans[p].chains = {} /\ p \notin excused
  /\ b.plan = 0 => \A c \in Chains : done[c].nonce = 0
  /\ b.plan # 0 => \A c \in Chains : done[c].nonce <= Plan.nonce[c] + 1 /\ Plan.nonce[c] < b.plan
  /\ b.attempt # NoAttempt \/ b.quoted \/ b.completed => b.plan # 0

TypeInv == TypeOK /\ PagesOK /\ SentOK /\ PlansOK

(* The requests of a plan that another replaced are too late on every network:
   its final block was past their deadline. *)
LateInv ==
  /\ \A c \in Chains : block[c].final <= block[c].time /\ block[c].time <= now
  /\ \A p \in 1..MaxPlans : p < b.plan =>
       \A c \in plans[p].chains : block[c].time > plans[p].deadline

(* The payments for plan p that were or may be broadcast have one nonce. *)
OneNonce(p) ==
  /\ \A x, y \in sent : x.plan = p /\ y.plan = p => x.slot = y.slot
  /\ \A x \in sent, t \in Pages : x.plan = p /\ Holds(t, p) => page[t].slot = x.slot
  /\ \A t, u \in Pages : Holds(t, p) /\ Holds(u, p) => page[t].slot = page[u].slot

(* Of the plan there is, the nonce is that of the attempt.  Without an attempt
   nothing was sent nor may be, and the first try is in one page's hands, or
   out of them. *)
PaidInv ==
  /\ \A p \in PlanIds \ ({0} \cup excused) : OneNonce(p)
  /\ b.plan # 0 /\ b.plan \notin excused =>
       /\ b.attempt = NoAttempt => /\ \A x \in sent : x.plan # b.plan
                                   /\ \A t \in Pages : ~Holds(t, b.plan)
       /\ b.attempt # NoAttempt =>
            /\ \A x \in sent : x.plan = b.plan => x.slot = b.attempt.slot
            /\ \A t \in Pages : Holds(t, b.plan) => page[t].slot = b.attempt.slot
       /\ b.attempt.tries = 1 =>
            /\ \A t, u \in Pages : Holds(t, b.plan) /\ Holds(u, b.plan) => t = u
            /\ \A t \in Pages : Holds(t, b.plan) /\ page[t].pc # "broadcast" =>
                 \A x \in sent : x.plan # b.plan

CompletedInv == b.completed => \A c \in Chains : done[c].price = Plan.price

-----------------------------------------------------------------------------
LEMMA Numbers ==
  /\ Hour \in Nat /\ MaxTime \in Nat /\ MaxPlans \in Nat /\ PlanIds = 0..MaxPlans
  /\ None \notin Slots /\ None \notin Chains /\ NoAttempt \notin Attempt
  BY ConstantsAssumption DEF PlanIds, NoAttempt, Attempt

LEMMA PlanNumbers == \A p \in PlanIds : p \in Nat /\ p <= MaxPlans
  BY Numbers

(* What the plans and the networks say are numbers. *)
LEMMA Fields ==
  ASSUME TypeOK
  PROVE  /\ \A p \in PlanIds : /\ plans[p].deadline \in Nat
                               /\ plans[p].price \in Prices \cup {None}
                               /\ \A c \in Chains : plans[p].nonce[c] \in Nat
         /\ \A c \in Chains : block[c].time \in Nat /\ block[c].final \in Nat /\ done[c].nonce \in Nat
         /\ now \in Nat
<1>1. 0..(MaxTime + Hour) \subseteq Nat /\ 0..MaxTime \subseteq Nat /\ 0..MaxPlans \subseteq Nat
  BY Numbers
<1>2. ASSUME NEW p \in PlanIds
      PROVE  plans[p] \in [price : Prices \cup {None}, deadline : 0..(MaxTime + Hour),
                           chains : SUBSET Chains, nonce : [Chains -> 0..MaxPlans]]
  BY DEF TypeOK
<1>3. \A c \in Chains : /\ block[c] \in [time : 0..MaxTime, final : 0..MaxTime]
                        /\ done[c] \in [price : Prices \cup {None}, nonce : 0..MaxPlans]
  BY DEF TypeOK
<1> QED
  BY <1>1, <1>2, <1>3 DEF TypeOK

(* Page t is answered and shows the plan there is. *)
LEMMA Shown ==
  ASSUME TypeOK, NEW t \in Pages, Show(t), bundle'.plan \in PlanIds
  PROVE  /\ page' \in [Pages -> Page] /\ page'[t] = Rest(bundle'.plan)
         /\ page'[t].pc = "idle" /\ page'[t].plan = bundle'.plan
         /\ \A u \in Pages \ {t} : page'[u] = page[u]
  BY DEF Show, TypeOK, Rest, Page

(* A page that is answered, or changes what it does, leaves the others be. *)
LEMMA PagesOKOf ==
  ASSUME TypeInv, NEW t \in Pages, page' \in [Pages -> Page],
         \A u \in Pages \ {t} : page'[u] = page[u],
         bundle' \in Bundle, bundle.plan <= bundle'.plan,
         page'[t].pc \in InHand => page'[t].slot \in Slots /\ page'[t].plan # 0,
         page'[t].pc = "signature" => page'[t].chain \in Chains,
         page'[t].plan <= bundle'.plan
  PROVE  PagesOK'
<1>1. SUFFICES ASSUME NEW u \in Pages
               PROVE  /\ page'[u].pc \in InHand => page'[u].slot \in Slots /\ page'[u].plan # 0
                      /\ page'[u].pc = "signature" => page'[u].chain \in Chains
                      /\ page'[u].plan <= bundle'.plan
  BY DEF PagesOK, b
<1>2. CASE u = t
  BY <1>2
<1>3. CASE u # t
  <2>1. page'[u] = page[u] /\ page[u].plan \in Nat /\ bundle.plan \in Nat /\ bundle'.plan \in Nat
    BY <1>3, Numbers DEF TypeInv, TypeOK, Page, Bundle
  <2>2. page[u].plan <= bundle.plan
    BY DEF TypeInv, PagesOK, b
  <2>3. page[u].plan <= bundle'.plan
    BY <2>1, <2>2
  <2> QED
    BY <2>1, <2>3 DEF TypeInv, PagesOK
<1> QED
  BY <1>2, <1>3

LEMMA SettledIs ==
  ASSUME TypeInv
  PROVE  /\ bundle.plan \in PlanIds /\ bundle.plan \in Nat /\ bundle.plan <= MaxPlans
         /\ bundle.signed \in [Chains -> PlanIds]
         /\ bundle.quoted \in BOOLEAN /\ bundle.completed \in BOOLEAN
         /\ bundle.attempt \in Attempt \cup {NoAttempt}
         /\ bundle.attempt.state # "none" => bundle.attempt \in Attempt
         /\ bundle.attempt.state = "none" => bundle.attempt = NoAttempt
         /\ bundle.attempt.slot \in Slots => bundle.attempt \in Attempt
<1>1. bundle \in Bundle
  BY DEF TypeInv, TypeOK
<1>2. \A a \in Attempt : a.state # "none"
  BY DEF Attempt
<1> QED
  BY <1>1, <1>2, Numbers DEF Bundle, NoAttempt

(* A step of page t that plans, runs and broadcasts nothing. *)
LEMMA TypeOfPageStep ==
  ASSUME TypeInv, NEW t \in Pages, page' \in [Pages -> Page],
         \A u \in Pages \ {t} : page'[u] = page[u],
         page'[t].pc \in InHand => page'[t].slot \in Slots /\ page'[t].plan # 0,
         page'[t].pc = "signature" => page'[t].chain \in Chains,
         page'[t].plan <= bundle.plan,
         bundle' \in Bundle, bundle'.plan = bundle.plan,
         bundle'.attempt # NoAttempt \/ bundle'.quoted \/ bundle'.completed => bundle.plan # 0,
         UNCHANGED <<plans, world>>,
         excused' = excused \/ (excused' = excused \cup {bundle.plan} /\ bundle.plan # 0)
  PROVE  TypeInv'
<1>1. excused' \subseteq PlanIds /\ \A p \in PlanIds : p = 0 \/ p > bundle.plan => p \notin excused'
  <2>1. /\ excused \subseteq PlanIds /\ bundle.plan \in PlanIds /\ bundle.plan \in Nat
        /\ \A p \in PlanIds : p \in Nat
        /\ \A p \in PlanIds : p = 0 \/ p > bundle.plan => p \notin excused
    BY SettledIs, PlanNumbers DEF TypeInv, TypeOK, PlansOK, b
  <2>2. CASE excused' = excused
    BY <2>1, <2>2
  <2>3. CASE excused' = excused \cup {bundle.plan} /\ bundle.plan # 0
    <3>1. ~(bundle.plan > bundle.plan)
      BY <2>1
    <3> QED
      BY <2>1, <2>3, <3>1
  <2> QED
    BY <2>2, <2>3
<1>2. TypeOK'
  BY <1>1 DEF TypeInv, TypeOK, world
<1>3. PagesOK'
  BY SettledIs, PagesOKOf
<1>4. SentOK'
  BY DEF TypeInv, SentOK, world, b
<1>5. PlansOK'
  BY <1>1 DEF TypeInv, PlansOK, world, b, Plan
<1> QED
  BY <1>2, <1>3, <1>4, <1>5 DEF TypeInv

(* The page of such a step is answered. *)
LEMMA TypeOfAnswer ==
  ASSUME TypeInv, NEW t \in Pages, Show(t), bundle' \in Bundle, bundle'.plan = bundle.plan,
         bundle'.attempt # NoAttempt \/ bundle'.quoted \/ bundle'.completed => bundle.plan # 0,
         UNCHANGED <<plans, world>>,
         excused' = excused \/ (excused' = excused \cup {bundle.plan} /\ bundle.plan # 0)
  PROVE  TypeInv'
<1>1. bundle'.plan \in PlanIds /\ bundle.plan <= bundle.plan
  BY SettledIs
<1>2. /\ page' \in [Pages -> Page] /\ page'[t].pc = "idle" /\ page'[t].plan = bundle.plan
      /\ \A u \in Pages \ {t} : page'[u] = page[u]
  BY <1>1, Shown DEF TypeInv
<1>3. page'[t].pc \notin InHand /\ page'[t].pc # "signature"
  BY <1>2 DEF InHand
<1> QED
  BY <1>1, <1>2, <1>3, TypeOfPageStep

(* What a step makes of the session, when it changes only that. *)
LEMMA BundleChanges ==
  ASSUME TypeInv
  PROVE  /\ \A c \in Chains, p \in PlanIds :
              LET new == [b EXCEPT !.signed[c] = p] IN
                new \in Bundle /\ new.plan = b.plan /\ new.attempt = b.attempt
                /\ new.quoted = b.quoted /\ new.completed = b.completed
         /\ LET new == [b EXCEPT !.quoted = TRUE] IN
                new \in Bundle /\ new.plan = b.plan /\ new.attempt = b.attempt
                /\ new.completed = b.completed
         /\ \A a \in Attempt \cup {NoAttempt} :
              LET new == [b EXCEPT !.attempt = a] IN
                new \in Bundle /\ new.plan = b.plan /\ new.attempt = a
                /\ new.quoted = b.quoted /\ new.completed = b.completed
         /\ \A done_ \in BOOLEAN :
              LET new == [b EXCEPT !.completed = done_] IN
                new \in Bundle /\ new.plan = b.plan /\ new.attempt = b.attempt
                /\ new.quoted = b.quoted /\ new.completed = done_
<1>1. b \in Bundle
  BY DEF TypeInv, TypeOK, b
<1>2. \A c \in Chains, p \in PlanIds : [b.signed EXCEPT ![c] = p] \in [Chains -> PlanIds]
  BY <1>1 DEF Bundle
<1> QED
  BY <1>1, <1>2 DEF Bundle

LEMMA AttemptChanges ==
  ASSUME TypeInv, b.attempt \in Attempt
  PROVE  /\ \A state \in {"signing", "pending", "confirmed", "replaced"} :
              LET a == [b.attempt EXCEPT !.state = state] IN
                a \in Attempt /\ a # NoAttempt /\ a.slot = b.attempt.slot
                /\ a.tries = b.attempt.tries
         /\ b.attempt # NoAttempt
  BY Numbers DEF Attempt

LEMMA TypeInvInit == Init => TypeInv
<1> SUFFICES ASSUME Init PROVE TypeInv
  OBVIOUS
<1>1. /\ 0 \in PlanIds /\ 0 \in 0..(MaxTime + Hour) /\ 0 \in 0..MaxTime /\ 0 \in 0..MaxPlans
  BY Numbers
<1>2. bundle \in Bundle /\ bundle.plan = 0 /\ bundle.attempt = NoAttempt
      /\ ~bundle.quoted /\ ~bundle.completed
  BY <1>1 DEF Init, Planned, Bundle
<1>3. Rest(0) \in Page /\ Rest(0).pc = "idle" /\ Rest(0).plan = 0
  BY <1>1 DEF Rest, Page
<1>4. /\ plans \in [PlanIds -> [price : Prices \cup {None}, deadline : 0..(MaxTime + Hour),
                                chains : SUBSET Chains, nonce : [Chains -> 0..MaxPlans]]]
      /\ block \in [Chains -> [time : 0..MaxTime, final : 0..MaxTime]]
      /\ done \in [Chains -> [price : Prices \cup {None}, nonce : 0..MaxPlans]]
      /\ mined \in [Slots -> Payment \cup {None}]
  BY <1>1 DEF Init
<1>5. TypeOK
  BY <1>1, <1>2, <1>3, <1>4 DEF Init, TypeOK
<1>6. PagesOK /\ SentOK /\ PlansOK
  BY <1>1, <1>2, <1>3 DEF Init, PagesOK, SentOK, PlansOK, InHand, b
<1> QED
  BY <1>5, <1>6 DEF TypeInv

(* The plan a relay runs a request of is the one there is. *)
LEMMA RunsThePlan ==
  ASSUME TypeInv, LateInv, NEW c \in Chains, NEW p \in PlanIds, Run(c, p)
  PROVE  p = bundle.plan /\ p # 0
<1>1. /\ p # 0 /\ c \in plans[p].chains /\ block[c].time <= plans[p].deadline
      /\ p \in Nat /\ bundle.plan \in Nat /\ bundle.plan <= MaxPlans
  BY SettledIs, Numbers DEF Run
<1>2. ~(p > bundle.plan)
  BY <1>1 DEF TypeInv, PlansOK, b
<1>3. ~(p < bundle.plan)
  <2>1. SUFFICES ASSUME p < bundle.plan PROVE FALSE
    OBVIOUS
  <2>2. p \in 1..MaxPlans
    BY <1>1, <2>1, Numbers
  <2>3. block[c].time > plans[p].deadline
    BY <1>1, <2>1, <2>2 DEF LateInv, b
  <2>4. block[c].time \in Nat /\ plans[p].deadline \in Nat
    BY Fields DEF TypeInv
  <2> QED
    BY <1>1, <2>3, <2>4
<1> QED
  BY <1>1, <1>2, <1>3

LEMMA TypeInvStep == TypeInv /\ LateInv /\ [Next]_vars => TypeInv'
<1> SUFFICES ASSUME TypeInv, LateInv, [Next]_vars PROVE TypeInv'
  OBVIOUS
<1>p. /\ page \in [Pages -> Page] /\ \A t \in Pages : page[t] \in Page
      /\ \A t \in Pages : page[t].plan <= bundle.plan /\ page[t].plan \in PlanIds
  BY DEF TypeInv, TypeOK, PagesOK, b, Page
<1>b. bundle \in Bundle /\ bundle.plan \in PlanIds /\ bundle.plan \in Nat
      /\ (bundle.attempt # NoAttempt \/ bundle.quoted \/ bundle.completed => bundle.plan # 0)
  BY SettledIs DEF TypeInv, TypeOK, PlansOK, b
<1>1. ASSUME NEW t \in Pages, Load(t) PROVE TypeInv'
  BY <1>1, <1>b, TypeOfAnswer DEF Load
<1>2. ASSUME NEW t \in Pages, Close(t) PROVE TypeInv'
  <2>1. /\ page' \in [Pages -> Page] /\ page'[t].pc = "idle" /\ page'[t].plan = page[t].plan
        /\ \A u \in Pages \ {t} : page'[u] = page[u]
    BY <1>2, <1>p DEF Close, Rest, Page
  <2>2. page'[t].pc \notin InHand /\ page'[t].pc # "signature"
    BY <2>1 DEF InHand
  <2> QED
    BY <1>2, <1>b, <1>p, <2>1, <2>2, TypeOfPageStep DEF Close
<1>3. ASSUME NEW t \in Pages, NEW price \in Prices, MakePlan(t, price) PROVE TypeInv'
  <2> DEFINE p == b.plan + 1
             new == [price |-> price, deadline |-> now + Hour,
                     chains |-> {c \in Chains : done[c].price # price},
                     nonce |-> [c \in Chains |-> done[c].nonce]]
  <2>0. /\ p \in PlanIds /\ p \in Nat /\ p # 0 /\ bundle.plan < p /\ bundle.plan <= p
        /\ plans' = [plans EXCEPT ![p] = new] /\ bundle' = Planned(p) /\ Show(t)
        /\ UNCHANGED <<world, excused>>
    BY <1>3, <1>b, Numbers DEF MakePlan, b
  <2>1. bundle' \in Bundle /\ bundle'.plan = p /\ bundle'.attempt = NoAttempt
        /\ ~bundle'.quoted /\ ~bundle'.completed
    BY <2>0, Numbers DEF Planned, Bundle
  <2>2. /\ page' \in [Pages -> Page] /\ page'[t].pc = "idle" /\ page'[t].plan = p
        /\ \A u \in Pages \ {t} : page'[u] = page[u]
    BY <2>0, <2>1, Shown DEF TypeInv
  <2>3. page'[t].pc \notin InHand /\ page'[t].pc # "signature"
    BY <2>2 DEF InHand
  <2>4. /\ now + Hour \in 0..(MaxTime + Hour)
        /\ done \in [Chains -> [price : Prices \cup {None}, nonce : 0..MaxPlans]]
    BY Numbers DEF TypeInv, TypeOK
  <2>5. new \in [price : Prices \cup {None}, deadline : 0..(MaxTime + Hour),
                 chains : SUBSET Chains, nonce : [Chains -> 0..MaxPlans]]
        /\ \A c \in Chains : new.nonce[c] = done[c].nonce
    BY <2>4
  <2>6. \A c \in Chains : done[c].nonce <= bundle.plan /\ done[c].nonce \in Nat
    <3>1. \A c \in Chains : done[c].nonce \in Nat
      BY <2>4, Numbers
    <3>2. bundle.plan # 0 => \A c \in Chains : plans[bundle.plan].nonce[c] \in Nat
      BY <1>b, Fields DEF TypeInv
    <3> QED
      BY <1>b, <3>1, <3>2 DEF TypeInv, PlansOK, b, Plan
  <2> HIDE DEF p, new
  <2>7. /\ plans' \in [PlanIds -> [price : Prices \cup {None}, deadline : 0..(MaxTime + Hour),
                                   chains : SUBSET Chains, nonce : [Chains -> 0..MaxPlans]]]
        /\ plans'[p] = new /\ \A u \in PlanIds \ {p} : plans'[u] = plans[u]
    BY <2>0, <2>5 DEF TypeInv, TypeOK
  <2>8. TypeOK'
    BY <2>0, <2>1, <2>2, <2>7 DEF TypeInv, TypeOK, world
  <2>9. PagesOK'
    BY <2>0, <2>1, <2>2, <2>3, PagesOKOf
  <2>10. SentOK'
    <3>1. \A x \in sent : x.plan \in Nat /\ x.plan <= bundle.plan
      BY Numbers DEF TypeInv, TypeOK, SentOK, b, Payment
    <3>2. \A x \in sent : x.plan <= p
      BY <1>b, <2>0, <3>1
    <3> QED
      BY <2>0, <2>1, <3>2 DEF TypeInv, SentOK, world, b
  <2>11. PlansOK'
    <3>1. \A u \in PlanIds : u = 0 \/ u > p => plans'[u].chains = {} /\ u \notin excused
      <4>1. \A u \in PlanIds : u \in Nat
        BY Numbers
      <4>2. \A u \in PlanIds : u = 0 \/ u > p => (u = 0 \/ u > bundle.plan) /\ u # p
        BY <4>1, <1>b, <2>0
      <4> QED
        BY <4>2, <2>7 DEF TypeInv, PlansOK, b
    <3>2. \A c \in Chains : done[c].nonce <= plans'[p].nonce[c] + 1 /\ plans'[p].nonce[c] < p
      BY <1>b, <2>0, <2>5, <2>6, <2>7
    <3> QED
      BY <2>0, <2>1, <3>1, <3>2 DEF PlansOK, world, b, Plan
  <2> QED
    BY <2>8, <2>9, <2>10, <2>11 DEF TypeInv
<1>4. ASSUME NEW t \in Pages, NEW c \in Chains, SignRequest(t, c) PROVE TypeInv'
  <2>1. /\ page' \in [Pages -> Page] /\ page'[t].pc = "signature" /\ page'[t].plan = page[t].plan
        /\ page'[t].chain = c
        /\ \A u \in Pages \ {t} : page'[u] = page[u]
    BY <1>4, <1>p DEF SignRequest, Page
  <2>2. page'[t].pc \notin InHand
    BY <2>1 DEF InHand
  <2> QED
    BY <1>4, <1>b, <1>p, <2>1, <2>2, TypeOfPageStep DEF SignRequest
<1>5. ASSUME NEW t \in Pages, SaveSignature(t) PROVE TypeInv'
  <2>1. page[t].chain \in Chains /\ page[t].plan \in PlanIds
    BY <1>5, <1>p DEF SaveSignature, At, TypeInv, PagesOK
  <2>2. /\ bundle' \in Bundle /\ bundle'.plan = bundle.plan /\ bundle'.attempt = bundle.attempt
        /\ bundle'.quoted = bundle.quoted /\ bundle'.completed = bundle.completed
    <3>1. CASE bundle' = [b EXCEPT !.signed[page[t].chain] = page[t].plan]
      BY <2>1, <3>1, BundleChanges DEF b
    <3>2. CASE UNCHANGED bundle
      BY <3>2, <1>b
    <3> QED
      BY <1>5, <3>1, <3>2 DEF SaveSignature
  <2> QED
    BY <1>5, <1>b, <2>2, TypeOfAnswer DEF SaveSignature
<1>6. ASSUME NEW t \in Pages, Quote(t) PROVE TypeInv'
  <2>1. bundle' \in Bundle /\ bundle'.plan = bundle.plan
    BY <1>6, BundleChanges DEF Quote, b
  <2> QED
    BY <1>6, <2>1, TypeOfAnswer DEF Quote, StillGood, Active, b
<1>7. ASSUME NEW t \in Pages, NEW s \in Slots, Pay(t, s) PROVE TypeInv'
  <2> DEFINE a == [slot |-> s, state |-> "signing", tries |-> IF b.attempt = NoAttempt THEN 1 ELSE 2]
             q == [Rest(b.plan) EXCEPT !.pc = "wallet", !.slot = s]
  <2>1. a \in Attempt
    BY DEF Attempt
  <2>2. bundle' = [b EXCEPT !.attempt = a] /\ page' = [page EXCEPT ![t] = q] /\ bundle.plan # 0
    BY <1>7 DEF Pay, StillGood, Active, b
  <2>3. q \in Page /\ q.pc = "wallet" /\ q.plan = bundle.plan /\ q.slot = s
    BY <1>b DEF Rest, Page, b
  <2> HIDE DEF a, q
  <2>4. bundle' \in Bundle /\ bundle'.plan = bundle.plan
    BY <2>1, <2>2, BundleChanges DEF b
  <2>5. page' \in [Pages -> Page] /\ page'[t] = q /\ \A u \in Pages \ {t} : page'[u] = page[u]
    BY <1>p, <2>2, <2>3
  <2>6. page'[t].pc = "wallet" /\ page'[t].plan = bundle.plan /\ page'[t].slot = s
        /\ page'[t].plan <= bundle.plan
    BY <1>b, <2>3, <2>5
  <2>7. UNCHANGED <<plans, world, excused>>
    BY <1>7 DEF Pay
  <2> QED
    BY <2>2, <2>4, <2>5, <2>6, <2>7, TypeOfPageStep
<1>8. ASSUME NEW t \in Pages, Broadcast(t) PROVE TypeInv'
  <2> DEFINE x == [slot |-> page[t].slot, plan |-> page[t].plan]
  <2>1. page[t].slot \in Slots /\ page[t].plan # 0
    BY <1>8 DEF Broadcast, At, TypeInv, PagesOK, InHand
  <2>2. x \in Payment /\ x.plan <= bundle.plan
    BY <1>p, <2>1 DEF Payment
  <2>3. PICK q \in {[page[t] EXCEPT !.pc = "broadcast"], Rest(page[t].plan)} :
          page' = [page EXCEPT ![t] = q]
    BY <1>8 DEF Broadcast
  <2>4. q \in Page /\ q.plan = page[t].plan /\ q.pc # "signature"
        /\ (q.pc \in InHand => q.slot = page[t].slot)
    BY <1>p, <2>3 DEF Page, Rest, InHand
  <2>5. page' \in [Pages -> Page] /\ page'[t] = q /\ \A u \in Pages \ {t} : page'[u] = page[u]
    BY <1>p, <2>3, <2>4
  <2>6. sent' = sent \cup {x} /\ UNCHANGED <<plans, bundle, now, block, done, mined, excused>>
    BY <1>8 DEF Broadcast
  <2> HIDE DEF x
  <2>7. TypeOK'
    BY <2>2, <2>5, <2>6 DEF TypeInv, TypeOK
  <2>8. PagesOK'
    BY <1>b, <1>p, <2>1, <2>4, <2>5, <2>6, PagesOKOf
  <2>9. SentOK'
    BY <2>2, <2>6 DEF TypeInv, SentOK, b
  <2>10. PlansOK'
    BY <2>6 DEF TypeInv, PlansOK, b, Plan
  <2> QED
    BY <2>7, <2>8, <2>9, <2>10 DEF TypeInv
<1>9. ASSUME NEW t \in Pages, Reject(t) PROVE TypeInv'
  <2>0. page[t].slot \in Slots /\ page[t].plan # 0
    BY <1>9 DEF Reject, At, TypeInv, PagesOK, InHand
  <2>1. /\ page' \in [Pages -> Page] /\ page'[t].pc = "rejected" /\ page'[t].plan = page[t].plan
        /\ page'[t].slot = page[t].slot
        /\ \A u \in Pages \ {t} : page'[u] = page[u]
    BY <1>9, <1>p DEF Reject, Page
  <2> QED
    BY <1>9, <1>b, <1>p, <2>0, <2>1, TypeOfPageStep DEF Reject
<1>10. ASSUME NEW t \in Pages, Submitted(t) PROVE TypeInv'
  <2>1. /\ bundle' \in Bundle /\ bundle'.plan = bundle.plan
        /\ (bundle'.attempt # NoAttempt \/ bundle'.quoted \/ bundle'.completed => bundle.plan # 0)
    <3>1. CASE b.attempt.state = "signing"
      <4> DEFINE a == [b.attempt EXCEPT !.state = "pending"]
      <4>1. b.attempt \in Attempt
        BY <3>1, SettledIs DEF b
      <4>2. a \in Attempt /\ b.attempt # NoAttempt
        BY <4>1, AttemptChanges
      <4>3. bundle' = [b EXCEPT !.attempt = a]
        BY <1>10, <3>1 DEF Submitted
      <4> HIDE DEF a
      <4> QED
        BY <4>2, <4>3, <1>b, BundleChanges DEF b
    <3>2. CASE b.attempt.state # "signing"
      BY <1>10, <3>2, <1>b DEF Submitted, b
    <3> QED
      BY <3>1, <3>2
  <2> QED
    BY <1>10, <2>1, TypeOfAnswer DEF Submitted
<1>11. ASSUME NEW t \in Pages, Cancelled(t) PROVE TypeInv'
  <2>1. /\ bundle' \in Bundle /\ bundle'.plan = bundle.plan
        /\ (bundle'.attempt # NoAttempt \/ bundle'.quoted \/ bundle'.completed => bundle.plan # 0)
        /\ excused' = excused \/ (excused' = excused \cup {bundle.plan} /\ bundle.plan # 0)
    <3>1. CASE b.attempt.state = "signing"
      <4>1. b.attempt \in Attempt
        BY <3>1, SettledIs DEF b
      <4>2. b.attempt # NoAttempt /\ bundle.plan # 0
        BY <4>1, <1>b, AttemptChanges DEF b
      <4>3. bundle' = [b EXCEPT !.attempt = NoAttempt]
            /\ excused' \in {excused, excused \cup {bundle.plan}}
        BY <1>11, <3>1 DEF Cancelled, b
      <4> QED
        BY <4>2, <4>3, <1>b, BundleChanges DEF b
    <3>2. CASE b.attempt.state # "signing"
      BY <1>11, <3>2, <1>b DEF Cancelled, b
    <3> QED
      BY <3>1, <3>2
  <2> QED
    BY <1>11, <2>1, TypeOfAnswer DEF Cancelled
<1>12. ASSUME NEW t \in Pages, NEW x \in sent, Check(t, x) PROVE TypeInv'
  <2>1. PICK state \in {"pending", "confirmed", "replaced"} :
          bundle' = [b EXCEPT !.attempt.state = state, !.completed = SetUp]
    BY <1>12 DEF Check
  <2>2. b.attempt \in Attempt
    <3>1. x.slot \in Slots
      BY DEF TypeInv, TypeOK, Payment
    <3> QED
      BY <3>1, <1>12, SettledIs DEF Check, b
  <2> DEFINE a == [b.attempt EXCEPT !.state = state]
  <2>3. a \in Attempt
    BY <2>2, AttemptChanges
  <2>4. bundle' = [[b EXCEPT !.attempt = a] EXCEPT !.completed = SetUp]
    BY <2>1
  <2>5. SetUp \in BOOLEAN
    BY DEF SetUp
  <2> HIDE DEF a
  <2>6. bundle' \in Bundle /\ bundle'.plan = bundle.plan
    BY <2>3, <2>4, <2>5, <1>b DEF b, Bundle
  <2> QED
    BY <1>12, <2>6, TypeOfAnswer DEF Check, b
<1>13. ASSUME NEW t \in Pages, CheckNetworks(t) PROVE TypeInv'
  <2>1. SetUp \in BOOLEAN
    BY DEF SetUp
  <2>2. bundle' \in Bundle /\ bundle'.plan = bundle.plan
    BY <1>13, <2>1, BundleChanges DEF CheckNetworks, b
  <2> QED
    BY <1>13, <2>2, TypeOfAnswer DEF CheckNetworks, b
<1>14. CASE Tick
  <2>1. now' \in 0..MaxTime
    BY <1>14, Numbers DEF Tick, TypeInv, TypeOK
  <2> QED
    BY <1>14, <2>1 DEF Tick, TypeInv, TypeOK, PagesOK, SentOK, PlansOK, b, Plan
<1>15. ASSUME NEW c \in Chains, Block(c) PROVE TypeInv'
  <2>1. block' \in [Chains -> [time : 0..MaxTime, final : 0..MaxTime]]
    BY <1>15 DEF Block, TypeInv, TypeOK
  <2> QED
    BY <1>15, <2>1 DEF Block, TypeInv, TypeOK, PagesOK, SentOK, PlansOK, b, Plan
<1>16. ASSUME NEW x \in sent, Mine(x) PROVE TypeInv'
  <2>1. x \in Payment /\ x.slot \in Slots
    BY DEF TypeInv, TypeOK, Payment
  <2>2. mined' \in [Slots -> Payment \cup {None}]
        /\ mined'[x.slot] = x /\ \A s \in Slots \ {x.slot} : mined'[s] = mined[s]
    BY <1>16, <2>1 DEF Mine, TypeInv, TypeOK
  <2>3. SentOK'
    BY <1>16, <2>1, <2>2 DEF Mine, TypeInv, SentOK, b
  <2> QED
    BY <1>16, <2>2, <2>3 DEF Mine, TypeInv, TypeOK, PagesOK, PlansOK, b, Plan
<1>17. ASSUME NEW s \in Slots, MineOther(s) PROVE TypeInv'
  <2> DEFINE x == [slot |-> s, plan |-> 0]
  <2>1. x \in Payment /\ x.slot = s /\ x.plan = 0 /\ 0 <= bundle.plan
    BY <1>b, Numbers DEF Payment
  <2>2. sent' = sent \cup {x} /\ mined' = [mined EXCEPT ![s] = x]
        /\ UNCHANGED <<plans, bundle, page, now, block, done, excused>>
    BY <1>17 DEF MineOther
  <2> HIDE DEF x
  <2>3. mined' \in [Slots -> Payment \cup {None}]
        /\ mined'[s] = x /\ \A u \in Slots \ {s} : mined'[u] = mined[u]
    BY <2>1, <2>2 DEF TypeInv, TypeOK
  <2>4. SentOK'
    BY <2>1, <2>2, <2>3 DEF TypeInv, SentOK, b
  <2> QED
    BY <2>1, <2>2, <2>3, <2>4 DEF TypeInv, TypeOK, PagesOK, PlansOK, b, Plan
<1>18. ASSUME NEW c \in Chains, NEW p \in PlanIds, Run(c, p) PROVE TypeInv'
  <2>1. p = bundle.plan /\ p # 0
    BY <1>18, RunsThePlan
  <2>2. /\ done \in [Chains -> [price : Prices \cup {None}, nonce : 0..MaxPlans]]
        /\ plans[p].price \in Prices \cup {None} /\ plans[p].nonce[c] \in Nat
        /\ plans[p].nonce[c] < p /\ done[c].nonce = plans[p].nonce[c]
        /\ done' = [done EXCEPT ![c] = [price |-> plans[p].price, nonce |-> done[c].nonce + 1]]
        /\ UNCHANGED <<plans, bundle, page, now, block, sent, mined, excused>>
    <3>1. plans[p].price \in Prices \cup {None} /\ plans[p].nonce[c] \in Nat
      BY Fields DEF TypeInv
    <3>2. plans[p].nonce[c] < p
      BY <2>1 DEF TypeInv, PlansOK, b, Plan
    <3> QED
      BY <1>18, <3>1, <3>2 DEF Run, TypeInv, TypeOK
  <2>3. done[c].nonce + 1 \in 0..MaxPlans
    BY <2>1, <2>2, <1>b, Numbers
  <2>4. done' \in [Chains -> [price : Prices \cup {None}, nonce : 0..MaxPlans]]
        /\ done'[c].nonce = plans[p].nonce[c] + 1
        /\ \A u \in Chains \ {c} : done'[u] = done[u]
    BY <2>2, <2>3
  <2>5. TypeOK'
    BY <2>2, <2>4 DEF TypeInv, TypeOK
  <2>6. PlansOK'
    BY <2>1, <2>2, <2>4 DEF TypeInv, PlansOK, b, Plan
  <2> QED
    BY <2>2, <2>5, <2>6 DEF TypeInv, PagesOK, SentOK, b
<1>19. CASE UNCHANGED vars
  BY <1>19 DEF vars, TypeInv, TypeOK, PagesOK, SentOK, PlansOK, b, Plan
<1> QED
  BY <1>1, <1>2, <1>3, <1>4, <1>5, <1>6, <1>7, <1>8, <1>9, <1>10, <1>11, <1>12, <1>13, <1>14,
     <1>15, <1>16, <1>17, <1>18, <1>19 DEF Next

(* Only planning changes the plans, only the clock and the networks the time,
   only a relay what is set up, and a session that is completed stays so. *)
LEMMA WhatChanges ==
  ASSUME TypeInv, [Next]_vars
  PROVE  /\ \/ \E t \in Pages, price \in Prices : MakePlan(t, price)
            \/ UNCHANGED plans /\ bundle'.plan = bundle.plan
         /\ Tick \/ (\E c \in Chains : Block(c)) \/ UNCHANGED <<now, block>>
         /\ (\E c \in Chains, p \in PlanIds : Run(c, p)) \/ UNCHANGED done
         /\ \/ bundle'.completed = bundle.completed
            \/ \E t \in Pages, price \in Prices : MakePlan(t, price)
            \/ bundle'.completed = SetUp
<1> DEFINE Goal == /\ \/ \E t \in Pages, price \in Prices : MakePlan(t, price)
                      \/ UNCHANGED plans /\ bundle'.plan = bundle.plan
                   /\ Tick \/ (\E c \in Chains : Block(c)) \/ UNCHANGED <<now, block>>
                   /\ (\E c \in Chains, p \in PlanIds : Run(c, p)) \/ UNCHANGED done
                   /\ \/ bundle'.completed = bundle.completed
                      \/ \E t \in Pages, price \in Prices : MakePlan(t, price)
                      \/ bundle'.completed = SetUp
<1>b. bundle \in Bundle
  BY DEF TypeInv, TypeOK
<1>1. ASSUME NEW t \in Pages,
             \/ Load(t) \/ Close(t) \/ Quote(t) \/ CheckNetworks(t)
             \/ \E price \in Prices : MakePlan(t, price)
             \/ \E c \in Chains : SignRequest(t, c)
             \/ Broadcast(t) \/ Reject(t)
      PROVE  Goal
  BY <1>1, <1>b DEF Load, Close, Quote, CheckNetworks, MakePlan, SignRequest, Broadcast, Reject,
                    world, b, Bundle
<1>2. ASSUME NEW t \in Pages,
             \/ SaveSignature(t) \/ Submitted(t) \/ Cancelled(t)
             \/ \E s \in Slots : Pay(t, s)
             \/ \E x \in sent : Check(t, x)
      PROVE  Goal
  BY <1>2, <1>b DEF SaveSignature, Pay, Submitted, Cancelled, Check, world, b, Bundle
<1>3. ASSUME \/ Tick \/ \E s \in Slots : MineOther(s)
             \/ \E c \in Chains : Block(c) \/ \E p \in PlanIds : Run(c, p)
             \/ \E x \in sent : Mine(x)
             \/ UNCHANGED vars
      PROVE  Goal
  BY <1>3 DEF Tick, MineOther, Block, Run, Mine, vars
<1> QED
  BY <1>1, <1>2, <1>3 DEF Next

(* What planning waits for: the requests of the plan before are too late on
   every network. *)
LEMMA PlansAreLate ==
  ASSUME TypeInv, LateInv, NEW t \in Pages, NEW price \in Prices, MakePlan(t, price)
  PROVE  /\ bundle'.plan = bundle.plan + 1
         /\ \A p \in PlanIds : p <= bundle.plan => plans'[p] = plans[p]
         /\ bundle.plan # 0 => \A c \in plans[bundle.plan].chains :
                                 block[c].time > plans[bundle.plan].deadline
         /\ ~bundle.completed /\ ~bundle'.completed
<1>1. bundle.plan \in Nat /\ bundle.plan \in PlanIds /\ bundle.completed \in BOOLEAN
  BY SettledIs
<1>2. bundle'.plan = bundle.plan + 1 /\ ~bundle.completed /\ ~bundle'.completed
  BY <1>1 DEF MakePlan, b, Planned
<1>3. \A p \in PlanIds : p <= bundle.plan => plans'[p] = plans[p]
  <2>1. \A p \in PlanIds : p <= bundle.plan => p # bundle.plan + 1
    BY <1>1, PlanNumbers
  <2> QED
    BY <2>1 DEF MakePlan, b, TypeInv, TypeOK
<1>4. ASSUME bundle.plan # 0, NEW c \in plans[bundle.plan].chains
      PROVE  block[c].time > plans[bundle.plan].deadline
  <2>1. c \in Chains
    BY <1>1 DEF TypeInv, TypeOK
  <2>2. block[c].final > plans[bundle.plan].deadline
    BY <1>2, <1>4 DEF MakePlan, MayPlan, Active, b, Plan
  <2>3. block[c].final <= block[c].time
    BY <2>1 DEF LateInv
  <2> QED
    BY <1>1, <2>1, <2>2, <2>3, Fields DEF TypeInv
<1> QED
  BY <1>2, <1>3, <1>4

LEMMA LateInvStep == TypeInv /\ LateInv /\ [Next]_vars => LateInv'
<1> SUFFICES ASSUME TypeInv, LateInv, [Next]_vars PROVE LateInv'
  OBVIOUS
<1>t. TypeInv'
  BY TypeInvStep
<1>f. /\ \A c \in Chains : /\ block[c].time \in Nat /\ block[c].final \in Nat
                           /\ block'[c].time \in Nat /\ block'[c].final \in Nat
      /\ now \in Nat /\ now' \in Nat /\ bundle.plan \in Nat /\ bundle.plan <= MaxPlans
      /\ \A p \in 1..MaxPlans : p \in PlanIds /\ p \in Nat
      /\ \A p \in PlanIds : plans[p].deadline \in Nat /\ plans[p].chains \subseteq Chains
  <2>1. \A c \in Chains : block'[c].time \in Nat /\ block'[c].final \in Nat
    <3>1. block' \in [Chains -> [time : 0..MaxTime, final : 0..MaxTime]] /\ 0..MaxTime \subseteq Nat
      BY <1>t, Numbers DEF TypeInv, TypeOK
    <3> QED
      BY <3>1
  <2>2. now' \in Nat
    BY <1>t, Numbers DEF TypeInv, TypeOK
  <2>3. \A p \in PlanIds : plans[p].chains \subseteq Chains
    BY DEF TypeInv, TypeOK
  <2> QED
    BY <2>1, <2>2, <2>3, Fields, SettledIs, Numbers DEF TypeInv
<1>1. /\ \A c \in Chains : block'[c].final <= block'[c].time /\ block'[c].time <= now'
      /\ \A c \in Chains : block[c].time <= block'[c].time
  <2>1. CASE Tick
    BY <1>f, <2>1 DEF Tick, LateInv
  <2>2. ASSUME NEW c \in Chains, Block(c)
        PROVE  \A d \in Chains : /\ block'[d].final <= block'[d].time /\ block'[d].time <= now'
                                 /\ block[d].time <= block'[d].time
    <3>1. block \in [Chains -> [time : 0..MaxTime, final : 0..MaxTime]]
      BY DEF TypeInv, TypeOK
    <3>2. \A d \in Chains \ {c} : block'[d] = block[d]
      BY <2>2, <3>1 DEF Block
    <3>3. \/ block'[c].time = now /\ block'[c].final = block[c].final
          \/ block'[c].time = block[c].time /\ block'[c].final = block[c].time
      BY <2>2, <3>1 DEF Block
    <3>4. now' = now
      BY <2>2 DEF Block
    <3> QED
      BY <1>f, <3>2, <3>3, <3>4 DEF LateInv
  <2>3. CASE UNCHANGED <<now, block>>
    BY <1>f, <2>3 DEF LateInv
  <2> QED
    BY <2>1, <2>2, <2>3, WhatChanges
<1>2. CASE UNCHANGED plans /\ bundle'.plan = bundle.plan
  <2>1. ASSUME NEW p \in 1..MaxPlans, p < bundle.plan, NEW c \in plans[p].chains
        PROVE  block'[c].time > plans[p].deadline
    <3>1. block[c].time > plans[p].deadline /\ c \in Chains
      BY <1>f, <2>1 DEF LateInv, b
    <3> QED
      BY <1>1, <1>f, <3>1
  <2> QED
    BY <1>1, <1>2, <2>1 DEF LateInv, b
<1>3. ASSUME NEW t \in Pages, NEW price \in Prices, MakePlan(t, price) PROVE LateInv'
  <2>1. ASSUME NEW p \in 1..MaxPlans, p < bundle'.plan, NEW c \in plans'[p].chains
        PROVE  block'[c].time > plans'[p].deadline
    <3>1. p <= bundle.plan /\ plans'[p] = plans[p]
      BY <1>3, <1>f, <2>1, PlansAreLate
    <3>2. block[c].time > plans[p].deadline
      <4>1. CASE p = bundle.plan
        BY <1>3, <2>1, <3>1, <4>1, <1>f, PlansAreLate
      <4>2. CASE p < bundle.plan
        BY <2>1, <3>1, <4>2 DEF LateInv, b
      <4> QED
        BY <1>f, <3>1, <4>1, <4>2
    <3>3. c \in Chains
      BY <1>f, <2>1, <3>1
    <3> QED
      BY <1>1, <1>f, <3>1, <3>2, <3>3
  <2> QED
    BY <1>1, <2>1 DEF LateInv, b
<1> QED
  BY <1>2, <1>3, WhatChanges

LEMMA CompletedInvStep == TypeInv /\ LateInv /\ CompletedInv /\ [Next]_vars => CompletedInv'
<1> SUFFICES ASSUME TypeInv, LateInv, CompletedInv, [Next]_vars, bundle'.completed
             PROVE  \A c \in Chains : done'[c].price = plans'[bundle'.plan].price
  BY DEF CompletedInv, b, Plan
<1>1. UNCHANGED plans /\ bundle'.plan = bundle.plan
      /\ (bundle.completed \/ (bundle'.completed = SetUp))
  BY WhatChanges, PlansAreLate
<1>2. \A c \in Chains : done[c].price = plans[bundle.plan].price
  BY <1>1 DEF CompletedInv, SetUp, b, Plan
<1>3. CASE UNCHANGED done
  BY <1>1, <1>2, <1>3
<1>4. ASSUME NEW c \in Chains, NEW p \in PlanIds, Run(c, p)
      PROVE  \A d \in Chains : done'[d].price = plans[bundle.plan].price
  <2>1. p = bundle.plan
    BY <1>4, RunsThePlan
  <2>2. /\ done'[c].price = plans[p].price
        /\ \A d \in Chains \ {c} : done'[d] = done[d]
    BY <1>4 DEF Run, TypeInv, TypeOK
  <2> QED
    BY <1>2, <2>1, <2>2
<1> QED
  BY <1>1, <1>3, <1>4, WhatChanges

-----------------------------------------------------------------------------
(* Nobody is handed a payment, and one is broadcast by those who had it. *)
HandsQuiet == \A u \in Pages : page'[u].pc \in InHand =>
  /\ page[u].pc \in InHand /\ page'[u].plan = page[u].plan /\ page'[u].slot = page[u].slot
  /\ page[u].pc = "broadcast" => page'[u].pc = "broadcast"

(* A step that pays nothing for the shop, and keeps the attempt's nonce. *)
PaysNothing ==
  /\ HandsQuiet /\ bundle'.plan = bundle.plan /\ excused' = excused
  /\ \A x \in sent' : x \in sent \/ x.plan = 0
  /\ \/ bundle'.attempt = bundle.attempt
     \/ /\ bundle.attempt # NoAttempt /\ bundle'.attempt # NoAttempt
        /\ bundle'.attempt.slot = bundle.attempt.slot
        /\ bundle'.attempt.tries = bundle.attempt.tries

LEMMA PaidInvQuiet ==
  ASSUME PaidInv, PaysNothing
  PROVE  PaidInv'
<1>1. ASSUME NEW p \in PlanIds \ ({0} \cup excused) PROVE OneNonce(p)'
  <2>1. OneNonce(p) /\ p # 0
    BY <1>1 DEF PaidInv
  <2> QED
    BY <2>1 DEF OneNonce, PaysNothing, HandsQuiet, Holds
<1>2. ASSUME bundle.plan # 0, bundle.plan \notin excused
      PROVE  /\ bundle'.attempt = NoAttempt =>
                  /\ \A x \in sent' : x.plan # bundle.plan
                  /\ \A t \in Pages : ~(page'[t].pc \in InHand /\ page'[t].plan = bundle.plan)
             /\ bundle'.attempt # NoAttempt =>
                  /\ \A x \in sent' : x.plan = bundle.plan => x.slot = bundle'.attempt.slot
                  /\ \A t \in Pages : page'[t].pc \in InHand /\ page'[t].plan = bundle.plan
                                        => page'[t].slot = bundle'.attempt.slot
             /\ bundle'.attempt.tries = 1 =>
                  /\ \A t, u \in Pages :
                                         (   page'[t].pc \in InHand /\ page'[t].plan = bundle.plan
                                          /\ page'[u].pc \in InHand /\ page'[u].plan = bundle.plan) => t = u
                  /\ \A t \in Pages :
                                      (   page'[t].pc \in InHand /\ page'[t].plan = bundle.plan
                                       /\ page'[t].pc # "broadcast") => \A x \in sent' : x.plan # bundle.plan
  <2>1. /\ bundle.attempt = NoAttempt => /\ \A x \in sent : x.plan # bundle.plan
                                         /\ \A t \in Pages : ~Holds(t, bundle.plan)
        /\ bundle.attempt # NoAttempt =>
             /\ \A x \in sent : x.plan = bundle.plan => x.slot = bundle.attempt.slot
             /\ \A t \in Pages : Holds(t, bundle.plan) => page[t].slot = bundle.attempt.slot
        /\ bundle.attempt.tries = 1 =>
             /\ \A t, u \in Pages : Holds(t, bundle.plan) /\ Holds(u, bundle.plan) => t = u
             /\ \A t \in Pages : Holds(t, bundle.plan) /\ page[t].pc # "broadcast" =>
                  \A x \in sent : x.plan # bundle.plan
    BY <1>2 DEF PaidInv, b
  <2>2. /\ bundle'.attempt = NoAttempt <=> bundle.attempt = NoAttempt
        /\ bundle'.attempt.slot = bundle.attempt.slot
        /\ bundle'.attempt.tries = bundle.attempt.tries
    BY DEF PaysNothing
  <2>3. \A x \in sent' : x.plan = bundle.plan => x \in sent
    BY <1>2 DEF PaysNothing
  <2>4. \A t \in Pages : page'[t].pc \in InHand /\ page'[t].plan = bundle.plan =>
          /\ Holds(t, bundle.plan) /\ page'[t].slot = page[t].slot
          /\ page'[t].pc # "broadcast" => page[t].pc # "broadcast"
    BY DEF PaysNothing, HandsQuiet, Holds
  <2> QED
    BY <2>1, <2>2, <2>3, <2>4
<1> QED
  BY <1>1, <1>2 DEF PaidInv, PaysNothing, Holds, b

LEMMA HandsQuietOf ==
  ASSUME NEW t \in Pages, \A u \in Pages \ {t} : page'[u] = page[u],
         \/ page'[t].pc \notin InHand
         \/ /\ page[t].pc \in InHand /\ page'[t].plan = page[t].plan /\ page'[t].slot = page[t].slot
            /\ page[t].pc = "broadcast" => page'[t].pc = "broadcast"
  PROVE  HandsQuiet
  BY DEF HandsQuiet

(* Every other step plans, pays, broadcasts or takes back a payment. *)
LEMMA WhoPays ==
  ASSUME TypeInv, [Next]_vars
  PROVE  \/ PaysNothing
         \/ \E t \in Pages : \/ \E price \in Prices : MakePlan(t, price)
                             \/ \E s \in Slots : Pay(t, s)
                             \/ Broadcast(t) \/ (Cancelled(t) /\ b.attempt.state = "signing")
<1>b. bundle \in Bundle /\ bundle.plan \in PlanIds /\ \A t \in Pages : page[t] \in Page
  BY SettledIs DEF TypeInv, TypeOK
<1>s. ASSUME NEW t \in Pages, Show(t), bundle'.plan = bundle.plan PROVE HandsQuiet
  <2>1. page'[t].pc = "idle" /\ \A u \in Pages \ {t} : page'[u] = page[u]
    BY <1>b, <1>s, Shown DEF TypeInv
  <2> QED
    BY <2>1, HandsQuietOf DEF InHand
<1>1. ASSUME NEW t \in Pages,
             Load(t) \/ Quote(t) \/ CheckNetworks(t) \/ SaveSignature(t)
             \/ (Cancelled(t) /\ b.attempt.state # "signing")
      PROVE  PaysNothing
  <2>1. /\ Show(t) /\ bundle'.plan = bundle.plan /\ bundle'.attempt = bundle.attempt
        /\ UNCHANGED <<sent, excused>>
    BY <1>1, <1>b DEF Load, Quote, CheckNetworks, SaveSignature, Cancelled, world, b, Bundle
  <2> QED
    BY <2>1, <1>s DEF PaysNothing
<1>2. ASSUME NEW t \in Pages, Submitted(t) PROVE PaysNothing
  <2>1. Show(t) /\ bundle'.plan = bundle.plan /\ UNCHANGED <<sent, excused>>
    BY <1>2, <1>b DEF Submitted, world, b, Bundle
  <2>2. CASE b.attempt.state = "signing"
    <3> DEFINE a == [b.attempt EXCEPT !.state = "pending"]
    <3>1. b.attempt \in Attempt
      BY <2>2, SettledIs DEF b
    <3>2. a # NoAttempt /\ b.attempt # NoAttempt /\ a.slot = b.attempt.slot /\ a.tries = b.attempt.tries
      BY <3>1, AttemptChanges
    <3>3. bundle' = [b EXCEPT !.attempt = a]
      BY <1>2, <2>2 DEF Submitted
    <3>4. bundle'.attempt = a
      BY <1>b, <3>3 DEF b, Bundle
    <3> HIDE DEF a
    <3> QED
      BY <2>1, <3>2, <3>4, <1>s DEF PaysNothing, b
  <2>3. CASE b.attempt.state # "signing"
    BY <1>2, <2>1, <2>3, <1>s DEF PaysNothing, Submitted, b
  <2> QED
    BY <2>2, <2>3
<1>3. ASSUME NEW t \in Pages, NEW x \in sent, Check(t, x) PROVE PaysNothing
  <2>1. PICK state \in {"pending", "confirmed", "replaced"} :
          bundle' = [b EXCEPT !.attempt.state = state, !.completed = SetUp]
    BY <1>3 DEF Check
  <2>2. b.attempt \in Attempt
    <3>1. x.slot \in Slots
      BY DEF TypeInv, TypeOK, Payment
    <3> QED
      BY <3>1, <1>3, SettledIs DEF Check, b
  <2> DEFINE a == [b.attempt EXCEPT !.state = state]
  <2>3. a # NoAttempt /\ b.attempt # NoAttempt /\ a.slot = b.attempt.slot /\ a.tries = b.attempt.tries
    BY <2>2, AttemptChanges
  <2>4. bundle'.attempt = a /\ bundle'.plan = bundle.plan
    BY <1>b, <2>1 DEF b, Bundle
  <2> HIDE DEF a
  <2>5. Show(t) /\ UNCHANGED <<sent, excused>>
    BY <1>3 DEF Check, world
  <2> QED
    BY <2>3, <2>4, <2>5, <1>s DEF PaysNothing, b
<1>4. ASSUME NEW t \in Pages, Close(t) \/ Reject(t) \/ \E c \in Chains : SignRequest(t, c)
      PROVE  PaysNothing
  <2>1. UNCHANGED <<bundle, sent, excused>>
    BY <1>4 DEF Close, Reject, SignRequest, world
  <2>2. /\ \A u \in Pages \ {t} : page'[u] = page[u]
        /\ \/ page'[t].pc \in {"idle", "signature"}
           \/ /\ page[t].pc = "wallet" /\ page'[t].pc = "rejected"
              /\ page'[t].plan = page[t].plan /\ page'[t].slot = page[t].slot
    BY <1>4, <1>b DEF Close, Reject, SignRequest, At, Rest, Page, TypeInv, TypeOK
  <2>3. HandsQuiet
    BY <2>2, HandsQuietOf DEF InHand
  <2> QED
    BY <2>1, <2>3 DEF PaysNothing
<1>5. ASSUME \/ Tick \/ \E s \in Slots : MineOther(s)
             \/ \E c \in Chains : Block(c) \/ \E p \in PlanIds : Run(c, p)
             \/ \E x \in sent : Mine(x)
             \/ UNCHANGED vars
      PROVE  PaysNothing
  BY <1>5 DEF Tick, MineOther, Block, Run, Mine, vars, PaysNothing, HandsQuiet
<1> QED
  BY <1>1, <1>2, <1>3, <1>4, <1>5 DEF Next

LEMMA PaidInvStep == TypeInv /\ PaidInv /\ TypeInv' /\ [Next]_vars => PaidInv'
<1> SUFFICES ASSUME TypeInv, PaidInv, TypeInv', [Next]_vars PROVE PaidInv'
  OBVIOUS
<1>p. /\ \A t \in Pages : page[t] \in Page /\ page[t].plan \in Nat /\ page[t].plan <= bundle.plan
      /\ \A x \in sent : x.plan \in Nat /\ x.plan <= bundle.plan
      /\ bundle \in Bundle /\ bundle.plan \in PlanIds /\ bundle.plan \in Nat
      /\ page \in [Pages -> Page]
  <2>1. \A t \in Pages : page[t] \in Page /\ page[t].plan \in PlanIds /\ page[t].plan <= bundle.plan
    BY DEF TypeInv, TypeOK, PagesOK, b, Page
  <2>2. \A x \in sent : x.plan \in PlanIds /\ x.plan <= bundle.plan
    BY DEF TypeInv, TypeOK, SentOK, b, Payment
  <2> QED
    BY <2>1, <2>2, PlanNumbers, SettledIs DEF TypeInv, TypeOK
<1>o. \A p \in PlanIds : p # 0 /\ p \notin excused => OneNonce(p)
  BY DEF PaidInv
<1>1. CASE PaysNothing
  BY <1>1, PaidInvQuiet
<1>2. ASSUME NEW t \in Pages, NEW price \in Prices, MakePlan(t, price) PROVE PaidInv'
  <2>1. bundle' = Planned(bundle.plan + 1) /\ UNCHANGED <<sent, excused>> /\ Show(t)
    BY <1>2 DEF MakePlan, world, b
  <2>2. bundle'.plan = bundle.plan + 1 /\ bundle'.attempt = NoAttempt /\ bundle'.plan \in PlanIds
    BY <1>2, <1>p, <2>1, Numbers DEF Planned, MakePlan, b
  <2>3. page'[t].pc \notin InHand /\ \A u \in Pages \ {t} : page'[u] = page[u]
    BY <2>1, <2>2, Shown DEF TypeInv, InHand
  <2>4. \A u \in Pages : page'[u].pc \in InHand => page'[u] = page[u]
    BY <2>3
  <2>5. \A p \in PlanIds \ ({0} \cup excused) : OneNonce(p)'
    BY <1>o, <2>1, <2>4 DEF OneNonce, Holds
  <2>6. \A x \in sent : x.plan # bundle.plan + 1
    BY <1>p
  <2>7. \A u \in Pages : ~(page'[u].pc \in InHand /\ page'[u].plan = bundle.plan + 1)
    BY <1>p, <2>4
  <2> QED
    BY <2>1, <2>2, <2>5, <2>6, <2>7 DEF PaidInv, Holds, b
<1>3. ASSUME NEW t \in Pages, NEW s \in Slots, Pay(t, s) PROVE PaidInv'
  <2> DEFINE a == [slot |-> s, state |-> "signing", tries |-> IF b.attempt = NoAttempt THEN 1 ELSE 2]
             q == [Rest(b.plan) EXCEPT !.pc = "wallet", !.slot = s]
  <2>1. bundle' = [b EXCEPT !.attempt = a] /\ page' = [page EXCEPT ![t] = q]
        /\ UNCHANGED <<sent, excused>> /\ bundle.plan # 0
        /\ (b.attempt = NoAttempt \/ s = b.attempt.slot)
    BY <1>3 DEF Pay, StillGood, Active, b, world, MayPay
  <2>2. a \in Attempt
    BY DEF Attempt
  <2>3. bundle'.plan = bundle.plan /\ bundle'.attempt = a /\ a # NoAttempt /\ a.slot = s
        /\ (a.tries = 1 => bundle.attempt = NoAttempt)
    BY <1>p, <2>1, <2>2, Numbers DEF b, Bundle
  <2>4. q.pc = "wallet" /\ q.slot = s /\ q.plan = bundle.plan /\ page'[t] = q
        /\ \A u \in Pages \ {t} : page'[u] = page[u]
    BY <1>p, <2>1 DEF Rest, b
  <2> HIDE DEF a, q
  <2>5. ASSUME bundle.plan \notin excused
        PROVE  /\ \A x \in sent : x.plan = bundle.plan => x.slot = s
               /\ \A u \in Pages : Holds(u, bundle.plan) => page[u].slot = s
               /\ bundle.attempt = NoAttempt => /\ \A x \in sent : x.plan # bundle.plan
                                                /\ \A u \in Pages : ~Holds(u, bundle.plan)
    BY <2>1, <2>5 DEF PaidInv, b
  <2>6. ASSUME NEW p \in PlanIds \ ({0} \cup excused) PROVE OneNonce(p)'
    <3>1. OneNonce(p) /\ p # 0
      BY <2>6, <1>o
    <3>2. CASE p = bundle.plan
      <4>1. \A x \in sent : x.plan = p => x.slot = s
        BY <2>5, <2>6, <3>2
      <4>2. \A u \in Pages : page'[u].pc \in InHand /\ page'[u].plan = p => page'[u].slot = s
        BY <2>4, <2>5, <2>6, <3>2 DEF Holds
      <4> QED
        BY <2>1, <4>1, <4>2 DEF OneNonce, Holds
    <3>3. CASE p # bundle.plan
      <4>1. \A u \in Pages : page'[u].pc \in InHand /\ page'[u].plan = p => page'[u] = page[u]
        BY <2>4, <3>3
      <4> QED
        BY <2>1, <3>1, <4>1 DEF OneNonce, Holds
    <3> QED
      BY <3>2, <3>3
  <2>7. ASSUME bundle.plan \notin excused
        PROVE  \A u \in Pages : page'[u].pc \in InHand /\ page'[u].plan = bundle.plan => page'[u].slot = s
    BY <2>4, <2>5, <2>7 DEF Holds
  <2>8. ASSUME bundle.plan \notin excused, bundle.attempt = NoAttempt
        PROVE  /\ \A u \in Pages : page'[u].pc \in InHand /\ page'[u].plan = bundle.plan => u = t
               /\ \A x \in sent : x.plan # bundle.plan
    BY <2>4, <2>5, <2>8 DEF Holds
  <2> QED
    BY <2>1, <2>3, <2>5, <2>6, <2>7, <2>8 DEF PaidInv, Holds, b
<1>4. ASSUME NEW t \in Pages, Broadcast(t) PROVE PaidInv'
  <2> DEFINE y == [slot |-> page[t].slot, plan |-> page[t].plan]
  <2>1. sent' = sent \cup {y} /\ UNCHANGED <<bundle, excused>> /\ page[t].pc = "wallet"
    BY <1>4 DEF Broadcast, At
  <2>2. /\ \A u \in Pages \ {t} : page'[u] = page[u]
        /\ \/ page'[t].pc = "idle"
           \/ page'[t].pc = "broadcast" /\ page'[t].plan = page[t].plan /\ page'[t].slot = page[t].slot
    BY <1>4, <1>p DEF Broadcast, Rest, Page
  <2>3. HandsQuiet
    BY <2>1, <2>2, HandsQuietOf DEF InHand
  <2>4. Holds(t, y.plan) /\ y.slot = page[t].slot /\ y.plan # 0
    BY <2>1 DEF Holds, InHand, TypeInv, PagesOK
  <2> HIDE DEF y
  <2>5. ASSUME NEW p \in PlanIds \ ({0} \cup excused) PROVE OneNonce(p)'
    <3>1. OneNonce(p)
      BY <2>5, <1>o
    <3>2. \A x \in sent' : x.plan = p => x \in sent \/ (Holds(t, p) /\ x.slot = page[t].slot)
      BY <2>1, <2>4
    <3>3. \A u \in Pages : page'[u].pc \in InHand /\ page'[u].plan = p
                             => Holds(u, p) /\ page'[u].slot = page[u].slot
      BY <2>3 DEF HandsQuiet, Holds
    <3>4. \A x, z \in sent' : x.plan = p /\ z.plan = p => x.slot = z.slot
      BY <3>1, <3>2 DEF OneNonce
    <3>5. \A x \in sent', u \in Pages : x.plan = p /\ page'[u].pc \in InHand /\ page'[u].plan = p
                                          => page'[u].slot = x.slot
      BY <3>1, <3>2, <3>3 DEF OneNonce
    <3>6. \A u, v \in Pages :
                              (   page'[u].pc \in InHand /\ page'[u].plan = p
                               /\ page'[v].pc \in InHand /\ page'[v].plan = p) => page'[u].slot = page'[v].slot
      BY <3>1, <3>3 DEF OneNonce
    <3> QED
      BY <3>4, <3>5, <3>6 DEF OneNonce, Holds
  <2>6. ASSUME bundle.plan # 0, bundle.plan \notin excused
        PROVE  /\ bundle.attempt = NoAttempt =>
                    /\ \A x \in sent' : x.plan # bundle.plan
                    /\ \A u \in Pages : ~(page'[u].pc \in InHand /\ page'[u].plan = bundle.plan)
               /\ bundle.attempt # NoAttempt =>
                    /\ \A x \in sent' : x.plan = bundle.plan => x.slot = bundle.attempt.slot
                    /\ \A u \in Pages : page'[u].pc \in InHand /\ page'[u].plan = bundle.plan
                                          => page'[u].slot = bundle.attempt.slot
               /\ bundle.attempt.tries = 1 =>
                    /\ \A u, v \in Pages :
                                           (   page'[u].pc \in InHand /\ page'[u].plan = bundle.plan
                                            /\ page'[v].pc \in InHand /\ page'[v].plan = bundle.plan) => u = v
                    /\ \A u \in Pages :
                                        (   page'[u].pc \in InHand /\ page'[u].plan = bundle.plan
                                         /\ page'[u].pc # "broadcast") => \A x \in sent' : x.plan # bundle.plan
    <3>1. /\ bundle.attempt = NoAttempt => /\ \A x \in sent : x.plan # bundle.plan
                                           /\ \A u \in Pages : ~Holds(u, bundle.plan)
          /\ bundle.attempt # NoAttempt =>
               /\ \A x \in sent : x.plan = bundle.plan => x.slot = bundle.attempt.slot
               /\ \A u \in Pages : Holds(u, bundle.plan) => page[u].slot = bundle.attempt.slot
          /\ bundle.attempt.tries = 1 =>
               /\ \A u, v \in Pages : Holds(u, bundle.plan) /\ Holds(v, bundle.plan) => u = v
               /\ \A u \in Pages : Holds(u, bundle.plan) /\ page[u].pc # "broadcast" =>
                    \A x \in sent : x.plan # bundle.plan
      BY <2>6 DEF PaidInv, b
    <3>2. \A u \in Pages : page'[u].pc \in InHand /\ page'[u].plan = bundle.plan =>
            /\ Holds(u, bundle.plan) /\ page'[u].slot = page[u].slot
            /\ page'[u].pc # "broadcast" => page[u].pc # "broadcast" /\ u # t
      BY <2>2, <2>3 DEF HandsQuiet, Holds, InHand
    <3>3. \A x \in sent' : x.plan = bundle.plan =>
            x \in sent \/ (Holds(t, bundle.plan) /\ x.slot = page[t].slot)
      BY <2>1, <2>4
    <3>4. bundle.attempt.tries = 1 =>
            \A u \in Pages :
                             (   page'[u].pc \in InHand /\ page'[u].plan = bundle.plan
                              /\ page'[u].pc # "broadcast") => \A x \in sent' : x.plan # bundle.plan
      BY <3>1, <3>2, <3>3
    <3> QED
      BY <3>1, <3>2, <3>3, <3>4
  <2> QED
    BY <2>1, <2>5, <2>6 DEF PaidInv, Holds, b
<1>5. ASSUME NEW t \in Pages, Cancelled(t), b.attempt.state = "signing" PROVE PaidInv'
  <2>1. bundle' = [b EXCEPT !.attempt = NoAttempt] /\ Show(t) /\ UNCHANGED sent
        /\ page[t].pc = "rejected"
        /\ excused' = IF /\ b.attempt.tries = 1
                         /\ page[t].plan = b.plan /\ page[t].slot = b.attempt.slot
                      THEN excused ELSE excused \cup {b.plan}
    BY <1>5 DEF Cancelled, world, At
  <2>2. bundle'.plan = bundle.plan /\ bundle'.attempt = NoAttempt
    BY <1>p, <2>1 DEF b, Bundle
  <2>3. page'[t].pc \notin InHand /\ \A u \in Pages \ {t} : page'[u] = page[u]
    BY <1>p, <2>1, <2>2, Shown DEF TypeInv, InHand
  <2>4. \A u \in Pages : page'[u].pc \in InHand => page'[u] = page[u] /\ u # t
    BY <2>3
  <2>5. \A p \in PlanIds \ ({0} \cup excused') : OneNonce(p)'
    <3>1. excused \subseteq excused'
      BY <2>1
    <3> QED
      BY <1>o, <2>1, <2>4, <3>1 DEF OneNonce, Holds
  <2>6. ASSUME bundle.plan # 0, bundle.plan \notin excused'
        PROVE  /\ \A x \in sent : x.plan # bundle.plan
               /\ \A u \in Pages : ~(page'[u].pc \in InHand /\ page'[u].plan = bundle.plan)
    <3>1. bundle.plan \notin excused /\ bundle.attempt.tries = 1 /\ page[t].plan = bundle.plan
      BY <2>1, <2>6 DEF b
    <3>2. Holds(t, bundle.plan) /\ page[t].pc # "broadcast"
      BY <2>1, <3>1 DEF Holds, InHand
    <3>3. /\ \A u \in Pages : Holds(u, bundle.plan) => u = t
          /\ \A x \in sent : x.plan # bundle.plan
      BY <2>6, <3>1, <3>2 DEF PaidInv, b
    <3> QED
      BY <2>4, <3>3 DEF Holds
  <2> QED
    BY <2>1, <2>2, <2>5, <2>6 DEF PaidInv, Holds, b, NoAttempt
<1> QED
  BY <1>1, <1>2, <1>3, <1>4, <1>5, WhoPays

-----------------------------------------------------------------------------
SetupInv == TypeInv /\ LateInv /\ CompletedInv /\ PaidInv

LEMMA SetupInvHolds == Spec => []SetupInv
<1>1. Init => SetupInv
  <2> SUFFICES ASSUME Init PROVE SetupInv
    OBVIOUS
  <2>1. TypeInv
    BY TypeInvInit
  <2>2. bundle.plan = 0 /\ ~bundle.completed
    BY DEF Init, Planned
  <2>3. LateInv
    <3>1. \A p \in 1..MaxPlans : ~(p < bundle.plan)
      BY <2>2, Numbers
    <3>2. \A c \in Chains : block[c].final <= block[c].time /\ block[c].time <= now
      BY DEF Init
    <3> QED
      BY <3>1, <3>2 DEF LateInv, b
  <2>4. PaidInv
    <3>1. sent = {} /\ \A t \in Pages : page[t].pc = "idle"
      BY DEF Init, Rest
    <3>2. \A p \in PlanIds : OneNonce(p)
      BY <3>1 DEF OneNonce, Holds, InHand
    <3> QED
      BY <2>2, <3>2 DEF PaidInv, b
  <2> QED
    BY <2>1, <2>2, <2>3, <2>4 DEF SetupInv, CompletedInv, b
<1>2. SetupInv /\ [Next]_vars => SetupInv'
  BY TypeInvStep, LateInvStep, CompletedInvStep, PaidInvStep DEF SetupInv
<1> QED
  BY <1>1, <1>2, PTL DEF Spec

(* Once posting is recorded as set up, each network has the price that was
   reviewed, and keeps it (CheckBundle, PlanBundle). *)
THEOREM CompletedStaysSetUp == Spec => []CompletedIsSetUp
<1>1. SetupInv => CompletedIsSetUp
  BY DEF SetupInv, TypeInv, CompletedInv, CompletedIsSetUp
<1> QED
  BY <1>1, SetupInvHolds, PTL

(* The network fees of a plan are paid once, unless one try of the payment was
   rejected but not all (payment, cancelled, check). *)
THEOREM PaidOnce == Spec => []PaidOnceUnlessTryRejected
<1>1. SetupInv => PaidOnceUnlessTryRejected
  <2> SUFFICES ASSUME SetupInv, NEW p \in PlanIds \ ({0} \cup excused),
                      NEW s \in PaymentsFor(p), NEW u \in PaymentsFor(p)
               PROVE  s = u
    BY DEF PaidOnceUnlessTryRejected
  <2>1. /\ s \in Slots /\ mined[s] # None /\ mined[s].plan = p
        /\ u \in Slots /\ mined[u] # None /\ mined[u].plan = p
    BY DEF PaymentsFor
  <2>2. /\ mined[s] \in sent /\ mined[s].slot = s
        /\ mined[u] \in sent /\ mined[u].slot = u
    BY <2>1 DEF SetupInv, TypeInv, SentOK
  <2>3. OneNonce(p)
    BY DEF SetupInv, PaidInv
  <2> QED
    BY <2>1, <2>2, <2>3 DEF OneNonce
<1> QED
  BY <1>1, SetupInvHolds, PTL

(* A relay never runs a request of a plan that another replaced (PlanBundle
   waits for the final block of every network). *)
THEOREM OldPlansAreLate == Spec => OldPlansNeverRun
<1>1. SetupInv /\ [Next]_vars =>
        [\A c \in Chains : done'[c] # done[c] => done'[c].price = Plan.price /\ c \in Plan.chains]_vars
  <2> SUFFICES ASSUME SetupInv, [Next]_vars, NEW c \in Chains, done'[c] # done[c]
               PROVE  done'[c].price = Plan.price /\ c \in Plan.chains
    OBVIOUS
  <2>1. TypeInv /\ LateInv
    BY DEF SetupInv
  <2>2. PICK d \in Chains, p \in PlanIds : Run(d, p)
    BY <2>1, WhatChanges
  <2>3. p = bundle.plan
    BY <2>1, <2>2, RunsThePlan
  <2>4. done \in [Chains -> [price : Prices \cup {None}, nonce : 0..MaxPlans]]
    BY <2>1 DEF TypeInv, TypeOK
  <2>5. c = d /\ done'[c].price = plans[p].price /\ c \in plans[p].chains
    BY <2>2, <2>4 DEF Run
  <2> QED
    BY <2>3, <2>5 DEF Plan, b
<1> QED
  BY <1>1, SetupInvHolds, PTL DEF Spec, OldPlansNeverRun
=============================================================================
