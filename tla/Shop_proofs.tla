----------------------------- MODULE Shop_proofs -----------------------------
(***************************************************************************)
(* Proofs about ShopDeploy, for any number of pages, slots, plans and      *)
(* attempts: at most one deployment succeeds, whatever was broadcast can   *)
(* be found again, and the address that is recorded is the planned one's.  *)
(* And about ShopConnect, which MCShop has beside it as C, for any number  *)
(* of pages, slots, prices and changes elsewhere: a transaction can be     *)
(* found again and keeps what it is not about, and a connected shop stays  *)
(* connected.                                                              *)
(***************************************************************************)
EXTENDS MCShop, TLAPS


(* An attempt in such a state was given up: another may follow it. *)
Ended == {"reverted", "replaced"}

(* The page has handed a slot to the wallet. *)
InHand == {"wallet", "broadcast"}

InJournal(s) == \E i \in 1..Len(attempts) : attempts[i].slot = s

(* Slot s can be found again, and is the last one while it may be mined. *)
Kept(s) == InJournal(s) /\ (s \notin final => s = Last.slot)

(* Transaction x deployed, or still may. *)
MayDeploy(x) == x.slot \notin final \/ (mined[x.slot].tx = x /\ mined[x.slot].ok)

(* Slot s is that of the attempt which is going on. *)
Current(s) == s = Last.slot /\ Last.state \notin Ended

TypeInv == TypeOK /\ \A t \in Pages : page[t].pc \in InHand => page[t].slot \in Slots

(* Whatever was signed, or is being signed, is kept.  An attempt is given up
   only when another transaction took its slot for good. *)
FoundInv ==
  /\ \A s \in Slots : mined[s].tx # None => mined[s].tx \in sent /\ mined[s].tx.slot = s
  /\ \A s \in final : mined[s].tx # None
  /\ Last.state \in Ended => Last.slot \in final
  /\ \A x \in sent : x.plan # None => Kept(x.slot)
  /\ \A t \in Pages, s \in Slots : page[t].pc = "wallet" /\ page[t].slot = s => Kept(s)

(* The attempt whose slot deployed is going on for ever: to be given up, what
   was signed in it would have to differ from the plan. *)
OnceInv ==
  ~crossed =>
    /\ \A s \in Deployments : Current(s)
    /\ \A x \in sent : x.plan # None /\ MayDeploy(x) /\ Current(x.slot) => x.plan = plan
    /\ \A t \in Pages, s \in Slots :
         page[t].pc = "wallet" /\ page[t].slot = s /\ s \notin final /\ Current(s)
           => page[t].plan = plan

(* The plan of a session that has attempts stays, and the address is only
   known of such a session. *)
RecordedInv ==
  /\ attempts # <<>> => plan # None
  /\ address => attempts # <<>> /\ \E s \in final : mined[s].ok /\ mined[s].tx.plan = plan

-----------------------------------------------------------------------------
LEMMA LastOfType ==
  ASSUME attempts \in Seq(Attempt)
  PROVE  /\ attempts = <<>> => Last = NoAttempt
         /\ attempts # <<>> => Last \in Attempt /\ Len(attempts) \in 1..Len(attempts)
                               /\ InJournal(Last.slot)
         /\ Last.state # "none" => attempts # <<>>
  <1>1. CASE attempts = <<>>
    BY <1>1 DEF Last, NoAttempt
  <1>2. CASE attempts # <<>>
    BY <1>2 DEF Last, InJournal
  <1> QED
    BY <1>1, <1>2 DEF NoAttempt

(* The last attempt goes on, in the same slot. *)
LEMMA AttemptGoesOn ==
  ASSUME attempts \in Seq(Attempt), attempts # <<>>, NEW a \in Attempt, Now(a), a.slot = Last.slot
  PROVE  /\ attempts' \in Seq(Attempt) /\ attempts' # <<>> /\ Last' = a
         /\ \A s : InJournal(s)' <=> InJournal(s)
  <1>1. Len(attempts) \in 1..Len(attempts)
    BY LastOfType
  <1>2. attempts' \in Seq(Attempt) /\ Len(attempts') = Len(attempts)
    BY <1>1 DEF Now
  <1>3. \A i \in 1..Len(attempts) : attempts'[i] = IF i = Len(attempts) THEN a ELSE attempts[i]
    BY <1>1 DEF Now
  <1>4. Last = attempts[Len(attempts)] /\ Last' = attempts'[Len(attempts')]
    BY <1>1, <1>2 DEF Last
  <1>5. \A i \in 1..Len(attempts) : attempts'[i].slot = attempts[i].slot
    BY <1>3, <1>4
  <1> QED
    BY <1>1, <1>2, <1>3, <1>4, <1>5 DEF InJournal

(* Another attempt follows. *)
LEMMA AttemptFollows ==
  ASSUME attempts \in Seq(Attempt), NEW a \in Attempt, attempts' = Append(attempts, a)
  PROVE  /\ attempts' \in Seq(Attempt) /\ attempts' # <<>> /\ Last' = a
         /\ \A s : InJournal(s)' <=> InJournal(s) \/ s = a.slot
  <1>1. /\ attempts' \in Seq(Attempt) /\ Len(attempts') = Len(attempts) + 1
        /\ Len(attempts) \in Nat
        /\ \A i \in 1..Len(attempts) : attempts'[i] = attempts[i]
        /\ attempts'[Len(attempts) + 1] = a
    OBVIOUS
  <1>2. 1..Len(attempts') = (1..Len(attempts)) \cup {Len(attempts) + 1}
    BY <1>1
  <1> QED
    BY <1>1, <1>2 DEF InJournal, Last

LEMMA AttemptsStay ==
  ASSUME attempts' = attempts
  PROVE  Last' = Last /\ \A s : InJournal(s)' <=> InJournal(s)
  BY DEF Last, InJournal

(* What a page is answered: only what it knows of the session changes. *)
LEMMA PageAnswered ==
  ASSUME TypeOK, NEW t \in Pages, NEW q \in Page, Answered(t, q),
         plan' \in Plan \cup {None}, attempts' \in Seq(Attempt), address' \in BOOLEAN
  PROVE  /\ page' \in [Pages -> Page]
         /\ page'[t].pc = q.pc /\ page'[t].slot = q.slot /\ page'[t].plan = q.plan
         /\ \A u \in Pages \ {t} : page'[u] = page[u]
<1>1. Last'.slot \in Slots \cup {None} /\ Last'.state \in States \cup {"none"}
  <2>1. CASE attempts' = <<>>
    BY <2>1 DEF Last, NoAttempt
  <2>2. CASE attempts' # <<>>
    <3>1. Last' \in Attempt
      BY <2>2 DEF Last
    <3> QED
      BY <3>1 DEF Attempt
  <2> QED
    BY <2>1, <2>2
<1>2. Saved' \in Session
  BY <1>1 DEF Saved, Session
<1>3. page' = [page EXCEPT ![t] = [q EXCEPT !.seen = Saved']]
  BY DEF Answered
<1>4. [q EXCEPT !.seen = Saved'] \in Page
  BY <1>2 DEF Page
<1> QED
  BY <1>3, <1>4 DEF TypeOK, Page

LEMMA PageRefused ==
  ASSUME TypeOK, NEW t \in Pages, Refused(t)
  PROVE  /\ page' \in [Pages -> Page] /\ page'[t].pc = "idle"
         /\ \A u \in Pages \ {t} : page'[u] = page[u]
         /\ UNCHANGED server
<1>1. Rest(page[t]) \in Page /\ Rest(page[t]).pc = "idle"
  BY DEF TypeOK, Rest, Page
<1> QED
  BY <1>1 DEF Refused, TypeOK

(* What the server, the network and the pages do in a step leaves every page
   but one as it is. *)
LEMMA TypeInvOfPage ==
  ASSUME TypeInv, NEW t \in Pages, page' \in [Pages -> Page],
         \A u \in Pages \ {t} : page'[u] = page[u],
         page'[t].pc \in InHand => page'[t].slot \in Slots
  PROVE  \A u \in Pages : page'[u].pc \in InHand => page'[u].slot \in Slots
<1>1. SUFFICES ASSUME NEW u \in Pages, page'[u].pc \in InHand
               PROVE  page'[u].slot \in Slots
  OBVIOUS
<1>2. CASE u = t
  BY <1>1, <1>2
<1>3. CASE u # t
  BY <1>1, <1>3 DEF TypeInv
<1> QED
  BY <1>2, <1>3

LEMMA TypeInvInit == Init => TypeInv
<1>1. SUFFICES ASSUME Init PROVE TypeInv
  OBVIOUS
<1>2. Closed \in Page /\ Closed.pc \notin InHand
  BY DEF Closed, Page, Session, InHand
<1>3. attempts \in Seq(Attempt) /\ mined \in [Slots -> [tx : Transaction \cup {None}, ok : BOOLEAN]]
  BY <1>1 DEF Init
<1>4. page \in [Pages -> Page] /\ \A t \in Pages : page[t].pc \notin InHand
  BY <1>1, <1>2 DEF Init
<1> QED
  BY <1>1, <1>3, <1>4 DEF Init, TypeInv, TypeOK

LEMMA TypeInvStep == TypeInv /\ [Next]_vars => TypeInv'
<1> SUFFICES ASSUME TypeInv, [Next]_vars PROVE TypeInv'
  OBVIOUS
<1>t. TypeOK
  BY DEF TypeInv
<1> DEFINE Shapes == /\ plan' \in Plan \cup {None} /\ attempts' \in Seq(Attempt) /\ address' \in BOOLEAN
<1>r. ASSUME NEW t \in Pages, Refused(t), UNCHANGED network, crossed' \in BOOLEAN
      PROVE  TypeInv'
  <2>1. /\ page' \in [Pages -> Page] /\ page'[t].pc \notin InHand
        /\ \A u \in Pages \ {t} : page'[u] = page[u] /\ UNCHANGED server
    BY <1>r, <1>t, PageRefused DEF InHand
  <2>2. UNCHANGED server
    BY <1>r DEF Refused
  <2> QED
    BY <2>1, <2>2, <1>r, <1>t, TypeInvOfPage DEF TypeInv, TypeOK, server, network
<1>a. ASSUME NEW t \in Pages, NEW q \in Page, Answered(t, q), Shapes, UNCHANGED network,
             crossed' \in BOOLEAN, q.pc \in InHand => q.slot \in Slots
      PROVE  TypeInv'
  <2>1. /\ page' \in [Pages -> Page] /\ page'[t].pc = q.pc /\ page'[t].slot = q.slot
        /\ \A u \in Pages \ {t} : page'[u] = page[u]
    BY <1>a, <1>t, PageAnswered
  <2> QED
    BY <2>1, <1>a, <1>t, TypeInvOfPage DEF TypeInv, TypeOK, network
<1>p. \A t \in Pages : page[t] \in Page
  BY <1>t DEF TypeOK
<1>s. /\ plan \in Plan \cup {None} /\ attempts \in Seq(Attempt) /\ address \in BOOLEAN
      /\ crossed \in BOOLEAN /\ fee \in Fees /\ sent \subseteq Transaction
  BY <1>t DEF TypeOK
<1>1. ASSUME NEW t \in Pages, Load(t) PROVE TypeInv'
  <2>1. [Closed EXCEPT !.pc = "idle"] \in Page /\ [Closed EXCEPT !.pc = "idle"].pc \notin InHand
    BY DEF Closed, Page, Session, InHand
  <2> QED
    BY <1>1, <1>a, <1>s, <2>1 DEF Load, server
<1>2. ASSUME NEW t \in Pages, NEW c \in Configs, PlanShop(t, c) PROVE TypeInv'
  <2>1. page[t] \in Page /\ page[t].pc \notin InHand
    BY <1>2, <1>p DEF PlanShop, At, InHand
  <2>2. [config |-> c, fee |-> fee] \in Plan
    BY <1>s DEF Plan
  <2> QED
    BY <1>2, <1>a, <1>r, <1>s, <2>1, <2>2 DEF PlanShop
<1>3. ASSUME NEW t \in Pages, Edit(t) PROVE TypeInv'
  <2>1. [page[t] EXCEPT !.reviewed = FALSE] \in Page
    BY <1>p DEF Page
  <2>2. [page[t] EXCEPT !.reviewed = FALSE].pc \notin InHand
    BY <1>3, <1>p DEF Edit, At, InHand, Page
  <2> QED
    BY <1>3, <1>a, <1>r, <1>s, <2>1, <2>2 DEF Edit
<1>4. ASSUME NEW t \in Pages, Reprice(t) PROVE TypeInv'
  <2>1. page[t] \in Page /\ page[t].pc \notin InHand
    BY <1>4, <1>p DEF Reprice, At, InHand
  <2>2. plan # None => [plan EXCEPT !.fee = fee] \in Plan
    BY <1>s DEF Plan
  <2> QED
    BY <1>4, <1>a, <1>r, <1>s, <2>1, <2>2 DEF Reprice
<1>5. ASSUME NEW t \in Pages, Review(t) PROVE TypeInv'
  <2>1. [page[t] EXCEPT !.reviewed = TRUE] \in Page /\ page[t].pc \notin InHand
    BY <1>5, <1>p DEF Page, Review, At, InHand
  <2>2. page' \in [Pages -> Page] /\ page'[t].pc = page[t].pc /\ \A u \in Pages \ {t} : page'[u] = page[u]
    BY <1>5, <2>1, <1>t DEF Review, TypeOK, Page
  <2> QED
    BY <2>1, <2>2, <1>5, <1>t, TypeInvOfPage DEF TypeInv, TypeOK, Review, server, network
<1>6. ASSUME NEW t \in Pages, NEW s \in Slots, Send(t, s) PROVE TypeInv'
  <2>1. CASE plan = None \/ ~MaySign(s)
    BY <1>6, <1>r, <1>s, <2>1 DEF Send
  <2>2. CASE ~(plan = None \/ ~MaySign(s))
    <3> DEFINE q == [page[t] EXCEPT !.pc = "wallet", !.slot = s, !.plan = page[t].seen.plan]
    <3>1. q \in Page /\ q.slot = s
      <4>1. page[t] \in Page /\ page[t].seen.plan \in Plan \cup {None}
        BY <1>p DEF Page, Session
      <4> QED
        BY <4>1 DEF Page
    <3>2. attempts' \in Seq(Attempt)
      <4>1. CASE Last.state \in {"signing", "cancelled"}
        <5>1. attempts # <<>> /\ Last \in Attempt
          BY <4>1, <1>s, LastOfType
        <5>2. [Last EXCEPT !.state = "signing"] \in Attempt
              /\ [Last EXCEPT !.state = "signing"].slot = Last.slot
          BY <5>1 DEF Attempt, States
        <5>3. Now([Last EXCEPT !.state = "signing"])
          BY <1>6, <2>2, <4>1 DEF Send
        <5> QED
          BY <5>1, <5>2, <5>3, <1>s, AttemptGoesOn
      <4>2. CASE Last.state \notin {"signing", "cancelled"}
        <5>1. [slot |-> s, hash |-> None, state |-> "signing"] \in Attempt
          BY DEF Attempt, States
        <5>2. attempts' = Append(attempts, [slot |-> s, hash |-> None, state |-> "signing"])
          BY <1>6, <2>2, <4>2 DEF Send
        <5> QED
          BY <5>1, <5>2, <1>s, AttemptFollows
      <4> QED
        BY <4>1, <4>2
    <3>3. UNCHANGED <<plan, address, network>> /\ crossed' = (crossed \/ page[t].seen.plan # plan)
      BY <1>6, <2>2 DEF Send
    <3>4. Answered(t, q)
      BY <1>6, <2>2 DEF Send
    <3>5. crossed' \in BOOLEAN
      BY <3>3
    <3> HIDE DEF q
    <3> QED
      BY <1>a, <1>s, <3>1, <3>2, <3>3, <3>4, <3>5
  <2> QED
    BY <2>1, <2>2
<1>7. ASSUME NEW t \in Pages, Broadcast(t) PROVE TypeInv'
  <2>1. page[t] \in Page /\ page[t].slot \in Slots /\ TxOf(page[t]) \in Transaction
    BY <1>7, <1>p DEF Broadcast, At, TypeInv, InHand, TxOf, Transaction, Page
  <2>2. page' \in [Pages -> Page] /\ page'[t].slot = page[t].slot /\ \A u \in Pages \ {t} : page'[u] = page[u]
    BY <1>7, <2>1, <1>t DEF Broadcast, TypeOK, Page
  <2> QED
    BY <2>1, <2>2, <1>7, <1>t, TypeInvOfPage DEF TypeInv, TypeOK, Broadcast, server
<1>8. ASSUME NEW t \in Pages, Uncertain(t) PROVE TypeInv'
  <2>1. page[t] \in Page /\ page[t].slot \in Slots /\ TxOf(page[t]) \in Transaction
    BY <1>8, <1>p DEF Uncertain, At, TypeInv, InHand, TxOf, Transaction, Page
  <2>2. page' \in [Pages -> Page] /\ page'[t].pc = "idle" /\ \A u \in Pages \ {t} : page'[u] = page[u]
    BY <1>8, <2>1, <1>t DEF Uncertain, TypeOK, Page, Rest
  <2>3. sent' \subseteq Transaction
    BY <1>8, <2>1, <1>s DEF Uncertain
  <2>4. page'[t].pc \notin InHand
    BY <2>2 DEF InHand
  <2> QED
    BY <2>2, <2>3, <2>4, <1>8, <1>t, TypeInvOfPage DEF TypeInv, TypeOK, Uncertain, server
<1>9. ASSUME NEW t \in Pages, Reject(t) PROVE TypeInv'
  <2>1. page' \in [Pages -> Page] /\ page'[t].pc = "rejected" /\ \A u \in Pages \ {t} : page'[u] = page[u]
    <3> DEFINE q == [Rest(page[t]) EXCEPT !.pc = "rejected"]
    <3>1. q \in Page /\ q.pc = "rejected"
      BY <1>p DEF Page, Rest
    <3>2. page' = [page EXCEPT ![t] = q]
      BY <1>9 DEF Reject
    <3> HIDE DEF q
    <3> QED
      BY <3>1, <3>2, <1>t DEF TypeOK
  <2>2. page'[t].pc \notin InHand
    BY <2>1 DEF InHand
  <2> QED
    BY <2>1, <2>2, <1>9, <1>t, TypeInvOfPage DEF TypeInv, TypeOK, Reject, server, network
<1>10. ASSUME NEW t \in Pages, Submitted(t) PROVE TypeInv'
  <2> DEFINE x == TxOf(page[t])
             a == [Last EXCEPT !.hash = x, !.state = "pending"]
             q == [Rest(page[t]) EXCEPT !.reviewed = FALSE]
  <2>1. page[t] \in Page /\ x \in Transaction
    BY <1>10, <1>p DEF Submitted, At, TypeInv, InHand, TxOf, Transaction, Page
  <2>2. q \in Page /\ q.pc \notin InHand
    BY <2>1 DEF Rest, Page, InHand
  <2>3. CASE Last.state \notin {"signing", "pending"} \/ Last.hash \notin {None, x}
    BY <1>10, <1>r, <1>s, <2>3 DEF Submitted
  <2>4. CASE ~(Last.state \notin {"signing", "pending"} \/ Last.hash \notin {None, x})
    <3>1. attempts # <<>> /\ Last \in Attempt
      BY <2>4, <1>s, LastOfType
    <3>2. a \in Attempt /\ a.slot = Last.slot
      BY <3>1, <2>1 DEF Attempt, States
    <3>3. Now(a) /\ UNCHANGED <<plan, address, network, crossed>> /\ Answered(t, q)
      BY <1>10, <2>4 DEF Submitted
    <3>4. attempts' \in Seq(Attempt)
      BY <3>1, <3>2, <3>3, <1>s, AttemptGoesOn
    <3> HIDE DEF q, a, x
    <3> QED
      BY <1>a, <1>s, <2>2, <3>3, <3>4
  <2> QED
    BY <2>3, <2>4
<1>11. ASSUME NEW t \in Pages, Cancelled(t) PROVE TypeInv'
  <2> DEFINE a == [Last EXCEPT !.state = "cancelled"]
             q == Rest(page[t])
  <2>2. q \in Page /\ q.pc \notin InHand
    BY <1>p DEF Rest, Page, InHand
  <2>3. CASE Last.state # "signing" \/ Last.hash # None
    BY <1>11, <1>r, <1>s, <2>3 DEF Cancelled
  <2>4. CASE ~(Last.state # "signing" \/ Last.hash # None)
    <3>1. attempts # <<>> /\ Last \in Attempt
      BY <2>4, <1>s, LastOfType
    <3>2. a \in Attempt /\ a.slot = Last.slot
      BY <3>1 DEF Attempt, States
    <3>3. Now(a) /\ UNCHANGED <<plan, address, network, crossed>> /\ Answered(t, q)
      BY <1>11, <2>4 DEF Cancelled
    <3>4. attempts' \in Seq(Attempt)
      BY <3>1, <3>2, <3>3, <1>s, AttemptGoesOn
    <3> HIDE DEF q, a
    <3> QED
      BY <1>a, <1>s, <2>2, <3>3, <3>4
  <2> QED
    BY <2>3, <2>4
<1>12. ASSUME NEW t \in Pages, NEW x \in sent, Verify(t, x) PROVE TypeInv'
  <2> DEFINE a == [Last EXCEPT !.hash = x, !.state = Verdict(x)]
  <2>1. page[t] \in Page /\ page[t].pc \notin InHand /\ x \in Transaction
    BY <1>12, <1>p, <1>s DEF Verify, At, InHand
  <2>3. CASE Last.state \in {"none", "reverted", "replaced"} \/ x.slot # Last.slot
    BY <1>12, <1>r, <1>s, <2>3 DEF Verify
  <2>4. CASE ~(Last.state \in {"none", "reverted", "replaced"} \/ x.slot # Last.slot)
    <3>0. Last.state # "none"
      BY <2>4
    <3>1. attempts # <<>> /\ Last \in Attempt
      BY <3>0, <1>s, LastOfType
    <3>2. a \in Attempt /\ a.slot = Last.slot
      BY <3>1, <2>1 DEF Attempt, States, Verdict
    <3>3. Now(a) /\ UNCHANGED <<plan, network, crossed>> /\ Answered(t, page[t])
          /\ address' \in BOOLEAN
      BY <1>12, <2>4, <1>s DEF Verify
    <3>4. attempts' \in Seq(Attempt)
      BY <3>1, <3>2, <3>3, <1>s, AttemptGoesOn
    <3> HIDE DEF a
    <3> QED
      BY <1>a, <1>s, <2>1, <3>3, <3>4
  <2> QED
    BY <2>3, <2>4
<1>13. ASSUME NEW x \in sent, Mine(x) PROVE TypeInv'
  <2>1. x \in Transaction /\ x.slot \in Slots
    BY <1>s DEF Transaction
  <2>2. mined' \in [Slots -> [tx : Transaction \cup {None}, ok : BOOLEAN]]
    BY <1>13, <2>1, <1>t DEF Mine, Take, TypeOK
  <2> QED
    BY <1>13, <2>2, <1>t DEF TypeInv, TypeOK, Mine, server
<1>14. ASSUME NEW s \in Slots, MineOther(s) PROVE TypeInv'
  <2>1. [slot |-> s, plan |-> None] \in Transaction
    BY DEF Transaction
  <2>2. mined' \in [Slots -> [tx : Transaction \cup {None}, ok : BOOLEAN]]
    BY <1>14, <2>1, <1>t DEF MineOther, Take, TypeOK
  <2> QED
    BY <1>14, <2>1, <2>2, <1>t DEF TypeInv, TypeOK, MineOther, server
<1>15. ASSUME NEW s \in Slots, Reorganise(s) PROVE TypeInv'
  BY <1>15, <1>t DEF TypeInv, TypeOK, Reorganise, server
<1>16. ASSUME NEW s \in Slots, Finalise(s) PROVE TypeInv'
  BY <1>16, <1>t DEF TypeInv, TypeOK, Finalise, server
<1>17. CASE FeeChanges
  BY <1>17, <1>t DEF TypeInv, TypeOK, FeeChanges, server
<1>18. CASE UNCHANGED vars
  BY <1>18, <1>t DEF TypeInv, TypeOK, vars, Last
<1> QED
  BY <1>1, <1>2, <1>3, <1>4, <1>5, <1>6, <1>7, <1>8, <1>9, <1>10, <1>11, <1>12, <1>13, <1>14,
     <1>15, <1>16, <1>17, <1>18 DEF Next

-----------------------------------------------------------------------------
(* What the invariants see of a step. *)

(* Nobody is handed a slot. *)
PagesQuiet ==
  \A u \in Pages : page'[u].pc = "wallet" =>
    page[u].pc = "wallet" /\ page'[u].slot = page[u].slot /\ page'[u].plan = page[u].plan

SameJournal == \A s : InJournal(s)' <=> InJournal(s)

Quiet == PagesQuiet /\ UNCHANGED <<server, sent, mined, final, crossed>>

(* The plan changes: there is none, nothing was signed, or what was is over. *)
PlanMoves ==
  /\ PagesQuiet /\ UNCHANGED <<attempts, address, sent, mined, final, crossed>>
  /\ \/ plan = None \/ attempts = <<>>
     \/ plan' # None /\ ~address /\ Last.state \in Ended

(* The last attempt moves on, as the network says of a transaction of its slot
   or short of its end. *)
AttemptMoves ==
  /\ PagesQuiet /\ SameJournal /\ UNCHANGED <<plan, sent, mined, final, crossed>>
  /\ attempts # <<>> /\ attempts' # <<>>
  /\ Last.state \notin Ended /\ Last'.slot = Last.slot
  /\ \/ Last'.state \notin Ended /\ address' = address
     \/ \E x \in sent : /\ x.slot = Last.slot /\ Last'.state = Verdict(x)
                        /\ address' = (address \/ Verdict(x) = "confirmed")

(* Page t is handed slot s, of the last attempt or of one that follows. *)
SlotMoves(t, s) ==
  /\ page'[t].slot = s /\ page'[t].plan = page[t].seen.plan
  /\ \A u \in Pages \ {t} : page'[u] = page[u]
  /\ UNCHANGED <<plan, address, sent, mined, final>>
  /\ crossed' = (crossed \/ page[t].seen.plan # plan)
  /\ plan # None /\ ~address
  /\ attempts' # <<>> /\ Last'.slot = s /\ Last'.state \notin Ended
  /\ \/ Last.state \notin Ended /\ s = Last.slot /\ attempts # <<>> /\ SameJournal
     \/ /\ attempts = <<>> \/ Last.state \in Ended
        /\ \A u : InJournal(u)' <=> InJournal(u) \/ u = s

(* The wallet may broadcast what page t handed it. *)
WalletMoves(t) ==
  /\ PagesQuiet /\ UNCHANGED <<server, mined, final, crossed>>
  /\ page[t].pc = "wallet"
  /\ \/ sent' = sent
     \/ mined[page[t].slot].tx = None /\ sent' = sent \cup {TxOf(page[t])}

MinedNow(x, ok) ==
  /\ mined[x.slot].tx = None /\ mined' = [mined EXCEPT ![x.slot] = [tx |-> x, ok |-> ok]]
  /\ x \in sent \/ x.plan = None
  /\ sent' = sent \cup {x}
  /\ UNCHANGED <<server, page, final, crossed>>

LEMMA QuietPage ==
  ASSUME NEW t \in Pages, \A u \in Pages \ {t} : page'[u] = page[u],
         \/ page'[t].pc # "wallet"
         \/ page'[t].pc = page[t].pc /\ page'[t].slot = page[t].slot /\ page'[t].plan = page[t].plan
  PROVE  PagesQuiet
  BY DEF PagesQuiet

LEMMA StepKinds ==
  ASSUME TypeInv, [Next]_vars
  PROVE  \/ Quiet \/ PlanMoves \/ AttemptMoves
         \/ \E t \in Pages : WalletMoves(t) \/ \E s \in Slots : SlotMoves(t, s)
         \/ \E x, ok : x \in Transaction /\ ok \in BOOLEAN /\ MinedNow(x, ok)
         \/ \E s \in Slots : Reorganise(s) \/ Finalise(s)
<1> DEFINE Goal == \/ Quiet \/ PlanMoves \/ AttemptMoves
                   \/ \E t \in Pages : WalletMoves(t) \/ \E s \in Slots : SlotMoves(t, s)
                   \/ \E x, ok : x \in Transaction /\ ok \in BOOLEAN /\ MinedNow(x, ok)
                   \/ \E s \in Slots : Reorganise(s) \/ Finalise(s)
<1>t. TypeOK /\ TypeInv'
  BY TypeInvStep DEF TypeInv
<1>s. /\ plan \in Plan \cup {None} /\ attempts \in Seq(Attempt) /\ address \in BOOLEAN
      /\ attempts' \in Seq(Attempt) /\ plan' \in Plan \cup {None} /\ address' \in BOOLEAN
      /\ sent \subseteq Transaction
      /\ \A t \in Pages : page[t] \in Page
  BY <1>t DEF TypeInv, TypeOK
<1>r. ASSUME NEW t \in Pages, Refused(t), UNCHANGED <<sent, mined, final, crossed>> PROVE Quiet
  <2>1. page'[t].pc = "idle" /\ (\A u \in Pages \ {t} : page'[u] = page[u]) /\ UNCHANGED server
    BY <1>r, <1>t, PageRefused
  <2> QED
    BY <2>1, <1>r, QuietPage DEF Quiet
<1>a. ASSUME NEW t \in Pages, NEW q \in Page, Answered(t, q), q.pc # "wallet" PROVE PagesQuiet
  <2>1. page'[t].pc = q.pc /\ \A u \in Pages \ {t} : page'[u] = page[u]
    BY <1>a, <1>t, <1>s, PageAnswered
  <2> QED
    BY <2>1, <1>a, QuietPage
<1>i. \A t \in Pages : page[t].pc = "idle" => page[t].pc # "wallet"
  OBVIOUS
<1>1. ASSUME NEW t \in Pages, Load(t) PROVE Goal
  <2>1. [Closed EXCEPT !.pc = "idle"] \in Page /\ [Closed EXCEPT !.pc = "idle"].pc # "wallet"
    BY DEF Closed, Page, Session
  <2>2. PagesQuiet
    BY <1>1, <1>a, <2>1 DEF Load
  <2> QED
    BY <1>1, <2>2 DEF Load, Quiet, network
<1>2. ASSUME NEW t \in Pages, NEW c \in Configs, PlanShop(t, c) PROVE Goal
  <2>1. page[t] \in Page /\ page[t].pc # "wallet"
    BY <1>2, <1>s DEF PlanShop, At
  <2>2. CASE plan # None
    BY <1>2, <2>2, <1>r DEF PlanShop, network
  <2>3. CASE plan = None
    <3>1. Answered(t, page[t]) /\ UNCHANGED <<attempts, address, sent, mined, final, crossed>>
      BY <1>2, <2>3 DEF PlanShop, network
    <3> QED
      BY <3>1, <2>1, <2>3, <1>a DEF PlanMoves
  <2> QED
    BY <2>2, <2>3
<1>3. ASSUME NEW t \in Pages, Edit(t) PROVE Goal
  <2>1. [page[t] EXCEPT !.reviewed = FALSE] \in Page /\ [page[t] EXCEPT !.reviewed = FALSE].pc # "wallet"
    BY <1>3, <1>s DEF Edit, At, Page
  <2>2. CASE attempts # <<>>
    BY <1>3, <2>2, <1>r DEF Edit, network
  <2>3. CASE attempts = <<>>
    <3>1. /\ Answered(t, [page[t] EXCEPT !.reviewed = FALSE])
          /\ UNCHANGED <<attempts, address, sent, mined, final, crossed>>
      BY <1>3, <2>3 DEF Edit, network
    <3> QED
      BY <3>1, <2>1, <2>3, <1>a DEF PlanMoves
  <2> QED
    BY <2>2, <2>3
<1>4. ASSUME NEW t \in Pages, Reprice(t) PROVE Goal
  <2> DEFINE No == plan = None \/ address \/ Last.state \notin {"none", "reverted", "replaced"}
  <2>1. page[t] \in Page /\ page[t].pc # "wallet"
    BY <1>4, <1>s DEF Reprice, At
  <2>2. CASE No
    BY <1>4, <2>2, <1>r DEF Reprice, network
  <2>3. CASE ~No
    <3>1. /\ Answered(t, page[t]) /\ plan' = [plan EXCEPT !.fee = fee]
          /\ UNCHANGED <<attempts, address, sent, mined, final, crossed>>
      BY <1>4, <2>3 DEF Reprice, network
    <3>2. plan' # None
      <4>1. plan \in Plan /\ fee \in Fees
        BY <2>3, <1>s, <1>t DEF TypeOK
      <4>2. [plan EXCEPT !.fee = fee] \in Plan
        BY <4>1 DEF Plan
      <4> QED
        BY <3>1, <4>2, ConstantsAssumption
    <3>3. attempts = <<>> \/ Last.state \in Ended
      <4>1. attempts # <<>> => Last.state \in States
        BY <1>s, LastOfType DEF Attempt
      <4> QED
        BY <4>1, <2>3 DEF Ended, States
    <3> QED
      BY <3>1, <3>2, <3>3, <2>1, <2>3, <1>a DEF PlanMoves
  <2> QED
    BY <2>2, <2>3
<1>5. ASSUME NEW t \in Pages, Review(t) PROVE Goal
  <2>1. page'[t].pc = page[t].pc /\ page'[t].slot = page[t].slot /\ page'[t].plan = page[t].plan
        /\ \A u \in Pages \ {t} : page'[u] = page[u]
    BY <1>5, <1>s, <1>t DEF Review, TypeOK, Page
  <2> QED
    BY <2>1, <1>5, QuietPage DEF Review, Quiet, network
<1>6. ASSUME NEW t \in Pages, NEW s \in Slots, Send(t, s) PROVE Goal
  <2>1. CASE plan = None \/ ~MaySign(s)
    BY <1>6, <2>1, <1>r DEF Send, network
  <2>2. CASE ~(plan = None \/ ~MaySign(s))
    <3> DEFINE q == [page[t] EXCEPT !.pc = "wallet", !.slot = s, !.plan = page[t].seen.plan]
    <3>1. q \in Page /\ q.slot = s /\ q.plan = page[t].seen.plan
      <4>1. page[t] \in Page /\ page[t].seen.plan \in Plan \cup {None}
        BY <1>s DEF Page, Session
      <4> QED
        BY <4>1 DEF Page
    <3>2. /\ Answered(t, q) /\ UNCHANGED <<plan, address, sent, mined, final>>
          /\ crossed' = (crossed \/ page[t].seen.plan # plan)
          /\ plan # None /\ ~address
          /\ Last.state \notin {"pending", "confirmed"}
          /\ Last.state \in {"signing", "cancelled"} => s = Last.slot
      BY <1>6, <2>2 DEF Send, network, MaySign
    <3>3. page'[t].slot = s /\ page'[t].plan = page[t].seen.plan /\ \A u \in Pages \ {t} : page'[u] = page[u]
      <4> HIDE DEF q
      <4> QED
        BY <3>1, <3>2, <1>s, <1>t, PageAnswered
    <3>4. CASE Last.state \in {"signing", "cancelled"}
      <4>1. attempts # <<>> /\ Last \in Attempt
        BY <3>4, <1>s, LastOfType
      <4>2. /\ [Last EXCEPT !.state = "signing"] \in Attempt
            /\ [Last EXCEPT !.state = "signing"].slot = Last.slot
            /\ [Last EXCEPT !.state = "signing"].state = "signing"
        BY <4>1 DEF Attempt, States
      <4>3. Now([Last EXCEPT !.state = "signing"])
        BY <1>6, <2>2, <3>4 DEF Send
      <4>4. /\ attempts' # <<>> /\ Last'.slot = Last.slot /\ Last'.state = "signing" /\ SameJournal
        BY <4>1, <4>2, <4>3, <1>s, AttemptGoesOn DEF SameJournal
      <4> QED
        BY <3>2, <3>3, <3>4, <4>1, <4>4 DEF SlotMoves, Ended
    <3>5. CASE Last.state \notin {"signing", "cancelled"}
      <4> DEFINE a == [slot |-> s, hash |-> None, state |-> "signing"]
      <4>1. a \in Attempt /\ a.slot = s /\ a.state = "signing"
        BY DEF Attempt, States
      <4>2. attempts' = Append(attempts, a)
        BY <1>6, <2>2, <3>5 DEF Send
      <4>3. attempts = <<>> \/ Last.state \in Ended
        <5>1. attempts # <<>> => Last.state \in States
          BY <1>s, LastOfType DEF Attempt
        <5> QED
          BY <5>1, <3>2, <3>5 DEF Ended, States
      <4> HIDE DEF a
      <4>4. /\ attempts' # <<>> /\ Last' = a /\ \A u : InJournal(u)' <=> InJournal(u) \/ u = s
        BY <4>1, <4>2, <1>s, AttemptFollows
      <4> QED
        BY <3>2, <3>3, <4>1, <4>3, <4>4 DEF SlotMoves, Ended
    <3> QED
      BY <3>4, <3>5
  <2> QED
    BY <2>1, <2>2
<1>7. ASSUME NEW t \in Pages, Broadcast(t) PROVE Goal
  <2>1. page[t].slot \in Slots
    BY <1>7 DEF Broadcast, At, TypeInv, InHand
  <2>2. page'[t].pc # "wallet" /\ \A u \in Pages \ {t} : page'[u] = page[u]
    BY <1>7, <1>s, <1>t DEF Broadcast, TypeOK, Page
  <2>3. PagesQuiet
    BY <2>2, QuietPage
  <2> QED
    BY <1>7, <2>1, <2>3 DEF Broadcast, WalletMoves, At
<1>8. ASSUME NEW t \in Pages, Uncertain(t) PROVE Goal
  <2>2. page'[t].pc # "wallet" /\ \A u \in Pages \ {t} : page'[u] = page[u]
    BY <1>8, <1>s, <1>t DEF Uncertain, TypeOK, Page, Rest
  <2>3. PagesQuiet
    BY <2>2, QuietPage
  <2>4. sent' = sent \/ (mined[page[t].slot].tx = None /\ sent' = sent \cup {TxOf(page[t])})
    <3>1. TxOf(page[t]).slot = page[t].slot
      BY DEF TxOf
    <3>2. CASE mined[page[t].slot].tx = None
      <4>1. {x \in {TxOf(page[t])} : mined[x.slot].tx = None} = {TxOf(page[t])}
        BY <3>1, <3>2
      <4> QED
        BY <4>1, <3>2, <1>8 DEF Uncertain
    <3>3. CASE mined[page[t].slot].tx # None
      <4>1. {x \in {TxOf(page[t])} : mined[x.slot].tx = None} = {}
        BY <3>1, <3>3
      <4> QED
        BY <4>1, <1>8 DEF Uncertain
    <3> QED
      BY <3>2, <3>3
  <2> QED
    BY <1>8, <2>3, <2>4 DEF Uncertain, WalletMoves, At
<1>9. ASSUME NEW t \in Pages, Reject(t) PROVE Goal
  <2>1. page'[t].pc # "wallet" /\ \A u \in Pages \ {t} : page'[u] = page[u]
    BY <1>9, <1>s, <1>t DEF Reject, TypeOK, Page, Rest
  <2> QED
    BY <2>1, <1>9, QuietPage DEF Reject, Quiet, network
<1>10. ASSUME NEW t \in Pages, Submitted(t) PROVE Goal
  <2> DEFINE x == TxOf(page[t])
             a == [Last EXCEPT !.hash = x, !.state = "pending"]
             q == [Rest(page[t]) EXCEPT !.reviewed = FALSE]
  <2>1. page[t] \in Page /\ x \in Transaction
    BY <1>10, <1>s DEF Submitted, At, TypeInv, InHand, TxOf, Transaction, Page
  <2>2. q \in Page /\ q.pc # "wallet"
    BY <2>1 DEF Rest, Page
  <2>3. CASE Last.state \notin {"signing", "pending"} \/ Last.hash \notin {None, x}
    BY <1>10, <1>r, <2>3 DEF Submitted, network
  <2>4. CASE ~(Last.state \notin {"signing", "pending"} \/ Last.hash \notin {None, x})
    <3>1. attempts # <<>> /\ Last \in Attempt /\ Last.state \notin Ended
      BY <2>4, <1>s, LastOfType DEF Ended
    <3>2. a \in Attempt /\ a.slot = Last.slot /\ a.state = "pending"
      BY <3>1, <2>1 DEF Attempt, States
    <3>3. Now(a) /\ UNCHANGED <<plan, address, sent, mined, final, crossed>> /\ Answered(t, q)
      BY <1>10, <2>4 DEF Submitted, network
    <3> HIDE DEF q, a, x
    <3>4. attempts' # <<>> /\ Last' = a /\ SameJournal
      BY <3>1, <3>2, <3>3, <1>s, AttemptGoesOn DEF SameJournal
    <3> QED
      BY <1>a, <2>2, <3>1, <3>2, <3>3, <3>4 DEF AttemptMoves, Ended
  <2> QED
    BY <2>3, <2>4
<1>11. ASSUME NEW t \in Pages, Cancelled(t) PROVE Goal
  <2> DEFINE a == [Last EXCEPT !.state = "cancelled"]
             q == Rest(page[t])
  <2>2. q \in Page /\ q.pc # "wallet"
    BY <1>s DEF Rest, Page
  <2>3. CASE Last.state # "signing" \/ Last.hash # None
    BY <1>11, <1>r, <2>3 DEF Cancelled, network
  <2>4. CASE ~(Last.state # "signing" \/ Last.hash # None)
    <3>1. attempts # <<>> /\ Last \in Attempt /\ Last.state \notin Ended
      BY <2>4, <1>s, LastOfType DEF Ended
    <3>2. a \in Attempt /\ a.slot = Last.slot /\ a.state = "cancelled"
      BY <3>1 DEF Attempt, States
    <3>3. Now(a) /\ UNCHANGED <<plan, address, sent, mined, final, crossed>> /\ Answered(t, q)
      BY <1>11, <2>4 DEF Cancelled, network
    <3> HIDE DEF q, a
    <3>4. attempts' # <<>> /\ Last' = a /\ SameJournal
      BY <3>1, <3>2, <3>3, <1>s, AttemptGoesOn DEF SameJournal
    <3> QED
      BY <1>a, <2>2, <3>1, <3>2, <3>3, <3>4 DEF AttemptMoves, Ended
  <2> QED
    BY <2>3, <2>4
<1>12. ASSUME NEW t \in Pages, NEW x \in sent, Verify(t, x) PROVE Goal
  <2> DEFINE a == [Last EXCEPT !.hash = x, !.state = Verdict(x)]
  <2>1. page[t] \in Page /\ page[t].pc # "wallet" /\ x \in Transaction
    BY <1>12, <1>s DEF Verify, At
  <2>3. CASE Last.state \in {"none", "reverted", "replaced"} \/ x.slot # Last.slot
    BY <1>12, <1>r, <2>3 DEF Verify, network
  <2>4. CASE ~(Last.state \in {"none", "reverted", "replaced"} \/ x.slot # Last.slot)
    <3>0. Last.state # "none" /\ Last.state \notin Ended /\ x.slot = Last.slot
      BY <2>4 DEF Ended
    <3>1. attempts # <<>> /\ Last \in Attempt
      BY <3>0, <1>s, LastOfType
    <3>2. a \in Attempt /\ a.slot = Last.slot /\ a.state = Verdict(x)
      BY <3>1, <2>1 DEF Attempt, States, Verdict
    <3>3. /\ Now(a) /\ UNCHANGED <<plan, sent, mined, final, crossed>> /\ Answered(t, page[t])
          /\ address' = (address \/ Verdict(x) = "confirmed")
      BY <1>12, <2>4 DEF Verify, network
    <3> HIDE DEF a
    <3>4. attempts' # <<>> /\ Last' = a /\ SameJournal
      BY <3>1, <3>2, <3>3, <1>s, AttemptGoesOn DEF SameJournal
    <3> QED
      BY <1>a, <2>1, <3>0, <3>1, <3>2, <3>3, <3>4 DEF AttemptMoves
  <2> QED
    BY <2>3, <2>4
<1>13. ASSUME NEW x \in sent, Mine(x) PROVE Goal
  <2>1. PICK ok \in BOOLEAN : Take(x.slot, x, ok \/ x.plan = None)
    BY <1>13 DEF Mine
  <2>2. (ok \/ x.plan = None) \in BOOLEAN
    OBVIOUS
  <2>3. MinedNow(x, ok \/ x.plan = None)
    BY <1>13, <2>1 DEF Mine, Take, MinedNow
  <2> QED
    BY <2>2, <2>3, <1>s
<1>14. ASSUME NEW s \in Slots, MineOther(s) PROVE Goal
  <2> DEFINE x == [slot |-> s, plan |-> None]
  <2>1. x \in Transaction /\ x.plan = None /\ x.slot = s
    BY DEF Transaction
  <2>2. MinedNow(x, TRUE)
    BY <1>14 DEF MineOther, Take, MinedNow
  <2> HIDE DEF x
  <2> QED
    BY <2>1, <2>2
<1>15. ASSUME FeeChanges \/ UNCHANGED vars PROVE Quiet
  BY <1>15 DEF FeeChanges, vars, server, Quiet, PagesQuiet
<1> QED
  BY <1>1, <1>2, <1>3, <1>4, <1>5, <1>6, <1>7, <1>8, <1>9, <1>10, <1>11, <1>12, <1>13, <1>14, <1>15
     DEF Next

-----------------------------------------------------------------------------
(* What is kept stays so: the journal grows, and another slot is the last only
   when the one before it is final. *)
LEMMA KeptStays ==
  ASSUME SameJournal \/ (\A s : InJournal(s) => InJournal(s)'),
         final \subseteq final', Last'.slot = Last.slot \/ Last.slot \in final'
  PROVE  \A s : Kept(s) => Kept(s)'
<1>1. SUFFICES ASSUME NEW s, Kept(s) PROVE Kept(s)'
  OBVIOUS
<1>2. InJournal(s)'
  BY <1>1 DEF Kept, SameJournal
<1>3. s \notin final' => s = Last'.slot
  BY <1>1 DEF Kept
<1> QED
  BY <1>2, <1>3 DEF Kept

LEMMA FoundInvInit == Init => FoundInv
<1>1. SUFFICES ASSUME Init PROVE FoundInv
  OBVIOUS
<1>2. Last.state = "none"
  BY <1>1 DEF Init, Last, NoAttempt
<1>3. \A t \in Pages : page[t].pc # "wallet"
  BY <1>1 DEF Init, Closed
<1>4. \A s \in Slots : mined[s].tx = None
  BY <1>1 DEF Init
<1> QED
  BY <1>1, <1>2, <1>3, <1>4 DEF Init, FoundInv, Ended

(* A step that hands nobody a slot and broadcasts and mines nothing. *)
LEMMA FoundInvQuiet ==
  ASSUME TypeInv, FoundInv, PagesQuiet, UNCHANGED <<sent, mined, final>>, SameJournal,
         Last'.slot = Last.slot, Last'.state \in Ended => Last'.slot \in final
  PROVE  FoundInv'
<1>1. \A s : Kept(s) => Kept(s)'
  BY KeptStays
<1>2. ASSUME NEW t \in Pages, NEW s \in Slots, page'[t].pc = "wallet", page'[t].slot = s
      PROVE  Kept(s)'
  <2>1. page[t].pc = "wallet" /\ page[t].slot = s
    BY <1>2 DEF PagesQuiet
  <2> QED
    BY <2>1, <1>1 DEF FoundInv
<1>3. \A x \in sent' : x.plan # None => Kept(x.slot)'
  BY <1>1 DEF FoundInv
<1> QED
  BY <1>2, <1>3 DEF FoundInv

LEMMA SameLast == attempts' = attempts => Last' = Last /\ SameJournal
  BY DEF Last, SameJournal, InJournal

LEMMA FoundInvStep == TypeInv /\ FoundInv /\ [Next]_vars => FoundInv'
<1> SUFFICES ASSUME TypeInv, FoundInv, [Next]_vars PROVE FoundInv'
  OBVIOUS
<1>t. /\ \A t \in Pages : page[t].pc = "wallet" => page[t].slot \in Slots
      /\ sent \subseteq Transaction /\ mined \in [Slots -> [tx : Transaction \cup {None}, ok : BOOLEAN]]
      /\ final \subseteq Slots /\ TypeInv'
  BY TypeInvStep DEF TypeInv, TypeOK, InHand
<1>1. CASE Quiet
  BY <1>1, SameLast, FoundInvQuiet DEF Quiet, server, FoundInv
<1>2. CASE PlanMoves
  BY <1>2, SameLast, FoundInvQuiet DEF PlanMoves, FoundInv
<1>3. CASE AttemptMoves
  <2>1. Last'.state \in Ended => Last'.slot \in final
    <3>1. SUFFICES ASSUME Last'.state \in Ended PROVE Last.slot \in final
      BY <1>3 DEF AttemptMoves
    <3>2. PICK x \in sent : x.slot = Last.slot /\ Last'.state = Verdict(x)
      BY <1>3, <3>1 DEF AttemptMoves
    <3> QED
      BY <3>1, <3>2 DEF Verdict, Ended
  <2> QED
    BY <1>3, <2>1, FoundInvQuiet DEF AttemptMoves
<1>4. ASSUME NEW t \in Pages, WalletMoves(t) PROVE FoundInv'
  <2>0. Last' = Last /\ SameJournal /\ UNCHANGED <<mined, final>> /\ PagesQuiet
    BY <1>4, SameLast DEF WalletMoves, server
  <2>1. \A s : Kept(s) => Kept(s)'
    BY <2>0, KeptStays
  <2>2. ASSUME NEW x \in sent', x.plan # None PROVE Kept(x.slot)'
    <3>1. CASE x \in sent
      BY <2>2, <3>1, <2>1 DEF FoundInv
    <3>2. CASE x = TxOf(page[t])
      <4>1. page[t].slot \in Slots /\ page[t].pc = "wallet" /\ x.slot = page[t].slot
        BY <3>2, <1>4, <1>t DEF WalletMoves, TxOf
      <4>2. Kept(x.slot)
        BY <4>1 DEF FoundInv
      <4> QED
        BY <4>2, <2>1
    <3> QED
      BY <2>2, <3>1, <3>2, <1>4 DEF WalletMoves
  <2>3. ASSUME NEW u \in Pages, NEW s \in Slots, page'[u].pc = "wallet", page'[u].slot = s
        PROVE  Kept(s)'
    BY <2>0, <2>1, <2>3 DEF PagesQuiet, FoundInv
  <2>4. sent \subseteq sent'
    BY <1>4 DEF WalletMoves
  <2> QED
    BY <2>0, <2>2, <2>3, <2>4 DEF FoundInv
<1>5. ASSUME NEW t \in Pages, NEW s \in Slots, SlotMoves(t, s) PROVE FoundInv'
  <2>1. \A u : Kept(u) => Kept(u)'
    <3>1. CASE Last.state \notin Ended /\ s = Last.slot /\ SameJournal
      BY <1>5, <3>1, KeptStays DEF SlotMoves
    <3>2. CASE attempts = <<>>
      <4>1. \A u : ~InJournal(u)
        BY <3>2 DEF InJournal
      <4> QED
        BY <4>1 DEF Kept
    <3>3. CASE /\ Last.state \in Ended
               /\ \A u : InJournal(u)' <=> InJournal(u) \/ u = s
      <4>1. Last.slot \in final /\ final' = final
        BY <1>5, <3>3 DEF FoundInv, SlotMoves
      <4> QED
        BY <3>3, <4>1, KeptStays
    <3> QED
      BY <1>5, <3>1, <3>2, <3>3 DEF SlotMoves
  <2>2. Kept(s)'
    <3>1. InJournal(s)'
      <4>1. attempts' \in Seq(Attempt) /\ attempts' # <<>>
        BY <1>5, <1>t DEF SlotMoves, TypeInv, TypeOK
      <4>2. Len(attempts') \in 1..Len(attempts') /\ Last' = attempts'[Len(attempts')]
        BY <4>1 DEF Last
      <4>3. attempts'[Len(attempts')].slot = s
        BY <4>2, <1>5 DEF SlotMoves
      <4> QED
        BY <4>2, <4>3 DEF InJournal
    <3> QED
      BY <3>1, <1>5 DEF SlotMoves, Kept
  <2>3. ASSUME NEW u \in Pages, NEW v \in Slots, page'[u].pc = "wallet", page'[u].slot = v
        PROVE  Kept(v)'
    <3>1. CASE u = t
      BY <3>1, <2>2, <2>3, <1>5 DEF SlotMoves
    <3>2. CASE u # t
      BY <3>2, <2>1, <2>3, <1>5 DEF SlotMoves, FoundInv
    <3> QED
      BY <3>1, <3>2
  <2>4. \A x \in sent' : x.plan # None => Kept(x.slot)'
    BY <2>1, <1>5 DEF SlotMoves, FoundInv
  <2> QED
    BY <2>3, <2>4, <1>5 DEF SlotMoves, FoundInv
<1>6. ASSUME NEW x \in Transaction, NEW ok \in BOOLEAN, MinedNow(x, ok) PROVE FoundInv'
  <2>0. Last' = Last /\ SameJournal /\ UNCHANGED <<page, final>>
    BY <1>6, SameLast DEF MinedNow, server
  <2>1. \A s : Kept(s) => Kept(s)'
    BY <2>0, KeptStays
  <2>2. \A y \in sent' : y.plan # None => Kept(y.slot)'
    BY <1>6, <2>1 DEF MinedNow, FoundInv
  <2>3. x.slot \in Slots /\ sent' = sent \cup {x}
    BY <1>6 DEF Transaction, MinedNow
  <2>4. /\ mined'[x.slot] = [tx |-> x, ok |-> ok]
        /\ \A s \in Slots \ {x.slot} : mined'[s] = mined[s]
    BY <1>6, <1>t, <2>3 DEF MinedNow
  <2>5. \A s \in Slots : mined'[s].tx # None => mined'[s].tx \in sent' /\ mined'[s].tx.slot = s
    BY <2>3, <2>4 DEF FoundInv
  <2>6. \A s \in final' : mined'[s].tx # None
    <3>1. x.slot \notin final
      BY <1>6 DEF MinedNow, FoundInv
    <3> QED
      BY <3>1, <2>0, <2>4, <1>t DEF FoundInv
  <2> QED
    BY <2>0, <2>1, <2>2, <2>5, <2>6 DEF FoundInv
<1>7. ASSUME NEW s \in Slots, Reorganise(s) PROVE FoundInv'
  <2>0. Last' = Last /\ SameJournal /\ UNCHANGED <<page, final, sent>>
    BY <1>7, SameLast DEF Reorganise, server
  <2>1. \A u : Kept(u) => Kept(u)'
    BY <2>0, KeptStays
  <2>2. mined'[s].tx = None /\ \A u \in Slots \ {s} : mined'[u] = mined[u]
    BY <1>7, <1>t DEF Reorganise
  <2>3. \A u \in final : u \in Slots /\ u # s
    BY <1>7, <1>t DEF Reorganise
  <2>4. \A u \in final' : mined'[u].tx # None
    BY <2>0, <2>2, <2>3 DEF FoundInv
  <2>5. \A u \in Slots : mined'[u].tx # None => mined'[u].tx \in sent' /\ mined'[u].tx.slot = u
    BY <2>0, <2>2 DEF FoundInv
  <2> QED
    BY <2>0, <2>1, <2>4, <2>5 DEF FoundInv
<1>8. ASSUME NEW s \in Slots, Finalise(s) PROVE FoundInv'
  <2>0. Last' = Last /\ SameJournal /\ UNCHANGED <<page, mined, sent>> /\ final' = final \cup {s}
    BY <1>8, SameLast DEF Finalise, server
  <2>1. \A u : Kept(u) => Kept(u)'
    BY <2>0, KeptStays
  <2>2. \A u \in final' : mined'[u].tx # None
    BY <2>0, <1>8 DEF Finalise, FoundInv
  <2> QED
    BY <2>0, <2>1, <2>2 DEF FoundInv
<1> QED
  BY <1>1, <1>2, <1>3, <1>4, <1>5, <1>6, <1>7, <1>8, StepKinds

LEMMA RecordedInvStep == TypeInv /\ FoundInv /\ RecordedInv /\ [Next]_vars => RecordedInv'
<1> SUFFICES ASSUME TypeInv, FoundInv, RecordedInv, [Next]_vars PROVE RecordedInv'
  OBVIOUS
<1>t. /\ final \subseteq Slots /\ mined \in [Slots -> [tx : Transaction \cup {None}, ok : BOOLEAN]]
      /\ attempts \in Seq(Attempt) /\ address \in BOOLEAN
  BY DEF TypeInv, TypeOK
<1>1. CASE Quiet
  BY <1>1 DEF Quiet, server, RecordedInv
<1>2. CASE PlanMoves
  <2>1. ~address \/ attempts = <<>>
    BY <1>2 DEF PlanMoves, RecordedInv
  <2> QED
    BY <2>1, <1>2 DEF PlanMoves, RecordedInv
<1>3. CASE AttemptMoves
  <2>1. plan # None /\ attempts' # <<>> /\ plan' = plan
    BY <1>3 DEF AttemptMoves, RecordedInv
  <2>2. CASE address' = address
    BY <2>1, <2>2, <1>3 DEF AttemptMoves, RecordedInv
  <2>3. CASE \E x \in sent : address' = (address \/ Verdict(x) = "confirmed")
    <3>1. PICK x \in sent : address' = (address \/ Verdict(x) = "confirmed")
      BY <2>3
    <3>2. CASE Verdict(x) = "confirmed"
      <4>1. x.slot \in final /\ mined[x.slot].ok /\ mined[x.slot].tx = x /\ x.plan = plan
        BY <3>2 DEF Verdict
      <4> QED
        BY <4>1, <2>1, <1>3 DEF AttemptMoves, RecordedInv
    <3>3. CASE Verdict(x) # "confirmed"
      BY <3>1, <3>3, <2>1, <1>3 DEF AttemptMoves, RecordedInv
    <3> QED
      BY <3>2, <3>3
  <2> QED
    BY <2>2, <2>3, <1>3 DEF AttemptMoves
<1>4. ASSUME NEW t \in Pages, WalletMoves(t) PROVE RecordedInv'
  BY <1>4 DEF WalletMoves, server, RecordedInv
<1>5. ASSUME NEW t \in Pages, NEW s \in Slots, SlotMoves(t, s) PROVE RecordedInv'
  BY <1>5 DEF SlotMoves, RecordedInv
<1>6. ASSUME NEW x \in Transaction, NEW ok \in BOOLEAN, MinedNow(x, ok) PROVE RecordedInv'
  <2>1. x.slot \notin final
    BY <1>6 DEF MinedNow, FoundInv
  <2>2. \A s \in final : mined'[s] = mined[s]
    BY <2>1, <1>6, <1>t DEF MinedNow
  <2> QED
    BY <2>2, <1>6 DEF MinedNow, server, RecordedInv
<1>7. ASSUME NEW s \in Slots, Reorganise(s) PROVE RecordedInv'
  <2>2. \A u \in final : mined'[u] = mined[u]
    BY <1>7, <1>t DEF Reorganise
  <2> QED
    BY <2>2, <1>7 DEF Reorganise, server, RecordedInv
<1>8. ASSUME NEW s \in Slots, Finalise(s) PROVE RecordedInv'
  BY <1>8 DEF Finalise, server, RecordedInv
<1> QED
  BY <1>1, <1>2, <1>3, <1>4, <1>5, <1>6, <1>7, <1>8, StepKinds

LEMMA OnceInvStep == TypeInv /\ FoundInv /\ RecordedInv /\ OnceInv /\ [Next]_vars => OnceInv'
<1> SUFFICES ASSUME TypeInv, FoundInv, RecordedInv, OnceInv, [Next]_vars PROVE OnceInv'
  OBVIOUS
<1>t. /\ sent \subseteq Transaction /\ mined \in [Slots -> [tx : Transaction \cup {None}, ok : BOOLEAN]]
      /\ \A t \in Pages : page[t].pc = "wallet" => page[t].slot \in Slots
      /\ final \subseteq Slots
  BY DEF TypeInv, TypeOK, InHand
<1>c. crossed => crossed'
  BY StepKinds DEF Quiet, PlanMoves, AttemptMoves, WalletMoves, SlotMoves, MinedNow, Reorganise, Finalise
<1> SUFFICES ASSUME ~crossed' PROVE OnceInv'
  BY DEF OnceInv
<1>o. /\ \A s \in Deployments : Current(s)
      /\ \A x \in sent : x.plan # None /\ MayDeploy(x) /\ Current(x.slot) => x.plan = plan
      /\ \A t \in Pages, s \in Slots :
           page[t].pc = "wallet" /\ page[t].slot = s /\ s \notin final /\ Current(s)
             => page[t].plan = plan
  BY <1>c DEF OnceInv
<1>d. ASSUME NEW s \in Deployments
      PROVE  /\ s \in Slots /\ mined[s].tx \in sent /\ mined[s].tx.slot = s /\ mined[s].tx.plan # None
             /\ mined[s].ok /\ Kept(s)
  BY DEF Deployments, FoundInv
<1>e. ASSUME attempts = <<>>
      PROVE  /\ \A s : ~Kept(s) /\ Deployments = {}
             /\ \A x \in sent : x.plan = None
             /\ \A t \in Pages : page[t].pc # "wallet"
  <2>1. \A s : ~Kept(s)
    BY <1>e DEF Kept, InJournal
  <2> QED
    BY <2>1, <1>d, <1>t DEF FoundInv
<1>f. ASSUME Last.state \in Ended
      PROVE  /\ Last.slot \in final /\ Deployments = {}
             /\ \A x \in sent : x.plan # None => ~MayDeploy(x)
             /\ \A t \in Pages : page[t].pc = "wallet" => page[t].slot \in final
  <2>1. Deployments = {}
    BY <1>f, <1>o DEF Current
  <2>2. Last.slot \in final /\ \A s : Kept(s) => s \in final
    BY <1>f DEF FoundInv, Kept
  <2>3. ASSUME NEW x \in sent, x.plan # None, MayDeploy(x) PROVE FALSE
    <3>1. x.slot \in final /\ x.slot \in Slots
      BY <2>2, <2>3, <1>t DEF FoundInv
    <3>2. mined[x.slot].tx = x /\ mined[x.slot].ok
      BY <3>1, <2>3 DEF MayDeploy
    <3>3. mined[x.slot].tx # None
      BY <3>1 DEF FoundInv
    <3> QED
      BY <3>1, <3>2, <3>3, <2>1, <2>3 DEF Deployments
  <2> QED
    BY <2>1, <2>2, <2>3, <1>t DEF FoundInv
<1>1. CASE Quiet
  <2>1. Last' = Last
    BY <1>1, SameLast DEF Quiet, server
  <2>2. \A s : (Current(s)' <=> Current(s)) /\ \A x : (MayDeploy(x)' <=> MayDeploy(x))
    BY <1>1, <2>1 DEF Quiet, Current, MayDeploy
  <2>3. Deployments' = Deployments /\ plan' = plan /\ sent' = sent /\ final' = final
    BY <1>1 DEF Quiet, Deployments, server
  <2>4. ASSUME NEW t \in Pages, NEW s \in Slots, page'[t].pc = "wallet", page'[t].slot = s,
               s \notin final', Current(s)'
        PROVE  page'[t].plan = plan'
    BY <1>1, <1>o, <2>2, <2>3, <2>4 DEF Quiet, PagesQuiet
  <2> QED
    BY <1>o, <2>2, <2>3, <2>4 DEF OnceInv
<1>2. CASE PlanMoves
  <2>1. Last' = Last /\ Deployments' = Deployments /\ sent' = sent
    BY <1>2, SameLast DEF PlanMoves, Deployments
  <2>2. CASE attempts = <<>>
    BY <1>e, <2>1, <2>2, <1>2 DEF PlanMoves, PagesQuiet, OnceInv
  <2>3. CASE Last.state \in Ended
    <3>1. \A s : ~Current(s)'
      BY <2>1, <2>3 DEF Current
    <3> QED
      BY <3>1, <1>f, <2>1, <2>3 DEF OnceInv
  <2> QED
    BY <2>2, <2>3, <1>2 DEF PlanMoves, RecordedInv
<1>3. CASE AttemptMoves
  <2>0. Deployments' = Deployments /\ plan' = plan /\ sent' = sent /\ final' = final /\ mined' = mined
    BY <1>3 DEF AttemptMoves, Deployments
  <2>1. CASE Last'.state \notin Ended
    <3>1. \A s : (Current(s)' <=> Current(s)) /\ \A x : (MayDeploy(x)' <=> MayDeploy(x))
      BY <1>3, <2>0, <2>1 DEF AttemptMoves, Current, MayDeploy
    <3>2. ASSUME NEW t \in Pages, NEW s \in Slots, page'[t].pc = "wallet", page'[t].slot = s,
                 s \notin final', Current(s)'
          PROVE  page'[t].plan = plan'
      BY <1>3, <1>o, <2>0, <3>1, <3>2 DEF AttemptMoves, PagesQuiet
    <3> QED
      BY <1>o, <2>0, <3>1, <3>2 DEF OnceInv
  <2>2. CASE Last'.state \in Ended
    <3>1. PICK x \in sent : x.slot = Last.slot /\ Last'.state = Verdict(x)
      BY <1>3, <2>2 DEF AttemptMoves
    <3>2. mined[x.slot].tx = x /\ (x.plan # plan \/ ~mined[x.slot].ok)
      BY <3>1, <2>2 DEF Verdict, Ended
    <3>3. ASSUME NEW s \in Deployments PROVE FALSE
      <4>1. Current(s) /\ s = x.slot
        BY <1>o, <3>1 DEF Current
      <4>2. mined[s].tx = x /\ x.plan # None /\ mined[s].ok
        BY <4>1, <3>2, <1>d
      <4>3. MayDeploy(x)
        BY <4>1, <4>2 DEF MayDeploy
      <4>4. x.plan = plan
        BY <4>1, <4>2, <4>3, <1>o
      <4> QED
        BY <4>1, <4>2, <4>4, <3>2
    <3>4. \A s : ~Current(s)'
      BY <2>2 DEF Current
    <3> QED
      BY <3>3, <3>4, <2>0 DEF OnceInv
  <2> QED
    BY <2>1, <2>2
<1>4. ASSUME NEW t \in Pages, WalletMoves(t) PROVE OnceInv'
  <2>0. Last' = Last /\ plan' = plan /\ final' = final /\ mined' = mined /\ Deployments' = Deployments
    BY <1>4, SameLast DEF WalletMoves, server, Deployments
  <2>1. \A s : (Current(s)' <=> Current(s)) /\ \A x : (MayDeploy(x)' <=> MayDeploy(x))
    BY <2>0 DEF Current, MayDeploy
  <2>2. ASSUME NEW u \in Pages, NEW s \in Slots, page'[u].pc = "wallet", page'[u].slot = s,
               s \notin final', Current(s)'
        PROVE  page'[u].plan = plan'
    BY <1>4, <1>o, <2>0, <2>1, <2>2 DEF WalletMoves, PagesQuiet
  <2>3. ASSUME NEW x \in sent', x.plan # None, MayDeploy(x)', Current(x.slot)' PROVE x.plan = plan'
    <3>1. CASE x \in sent
      BY <3>1, <2>0, <2>1, <2>3, <1>o
    <3>2. CASE x \notin sent
      <4>1. x = TxOf(page[t]) /\ mined[page[t].slot].tx = None /\ page[t].pc = "wallet"
        BY <3>2, <2>3, <1>4 DEF WalletMoves
      <4>2. x.slot = page[t].slot /\ x.plan = page[t].plan /\ x.slot \in Slots
        BY <4>1, <1>t DEF TxOf
      <4>3. x.slot \notin final
        BY <4>1, <4>2 DEF FoundInv
      <4> QED
        BY <4>1, <4>2, <4>3, <2>0, <2>1, <2>3, <1>o
    <3> QED
      BY <3>1, <3>2
  <2> QED
    BY <2>0, <2>1, <2>2, <2>3, <1>o DEF OnceInv
<1>5. ASSUME NEW t \in Pages, NEW s \in Slots, SlotMoves(t, s) PROVE OnceInv'
  <2>0. /\ plan' = plan /\ final' = final /\ mined' = mined /\ sent' = sent /\ Deployments' = Deployments
        /\ page'[t].slot = s /\ page'[t].plan = plan
        /\ \A u \in Pages \ {t} : page'[u] = page[u]
    BY <1>5 DEF SlotMoves, Deployments
  <2>1. CASE Last.state \notin Ended /\ s = Last.slot
    <3>1. \A u : (Current(u)' <=> Current(u)) /\ \A x : (MayDeploy(x)' <=> MayDeploy(x))
      BY <1>5, <2>0, <2>1 DEF SlotMoves, Current, MayDeploy
    <3>2. ASSUME NEW u \in Pages, NEW v \in Slots, page'[u].pc = "wallet", page'[u].slot = v,
                 v \notin final', Current(v)'
          PROVE  page'[u].plan = plan'
      <4>1. CASE u = t
        BY <4>1, <2>0
      <4>2. CASE u # t
        BY <4>2, <2>0, <3>1, <3>2, <1>o
      <4> QED
        BY <4>1, <4>2
    <3> QED
      BY <1>o, <2>0, <3>1, <3>2 DEF OnceInv
  <2>2. CASE attempts = <<>> \/ Last.state \in Ended
    <3>1. Deployments = {} /\ \A x \in sent : x.plan # None => ~MayDeploy(x)
      BY <1>e, <1>f, <2>2
    <3>2. \A x : MayDeploy(x)' <=> MayDeploy(x)
      BY <2>0 DEF MayDeploy
    <3>3. ASSUME NEW u \in Pages, NEW v \in Slots, page'[u].pc = "wallet", page'[u].slot = v,
                 v \notin final'
          PROVE  page'[u].plan = plan'
      <4>1. CASE u = t
        BY <4>1, <2>0
      <4>2. CASE u # t
        BY <4>2, <2>0, <2>2, <3>3, <1>e, <1>f
      <4> QED
        BY <4>1, <4>2
    <3> QED
      BY <2>0, <3>1, <3>2, <3>3 DEF OnceInv
  <2> QED
    BY <1>5, <2>1, <2>2 DEF SlotMoves
<1>6. ASSUME NEW x \in Transaction, NEW ok \in BOOLEAN, MinedNow(x, ok) PROVE OnceInv'
  <2>0. Last' = Last /\ plan' = plan /\ final' = final /\ page' = page /\ sent' = sent \cup {x}
    BY <1>6, SameLast DEF MinedNow, server
  <2>1. x.slot \in Slots /\ x.slot \notin final
    BY <1>6 DEF MinedNow, FoundInv, Transaction
  <2>2. /\ mined'[x.slot] = [tx |-> x, ok |-> ok]
        /\ \A s \in Slots \ {x.slot} : mined'[s] = mined[s]
    BY <1>6, <1>t, <2>1 DEF MinedNow
  <2>3. \A s : Current(s)' <=> Current(s)
    BY <2>0 DEF Current
  <2>4. x.plan # None => Current(x.slot)
    <3>1. SUFFICES ASSUME x.plan # None PROVE Current(x.slot)
      OBVIOUS
    <3>2. Kept(x.slot)
      BY <3>1, <1>6 DEF MinedNow, FoundInv
    <3>3. x.slot = Last.slot
      BY <3>2, <2>1 DEF Kept
    <3> QED
      BY <3>3, <2>1 DEF Current, FoundInv
  <2>5. ASSUME NEW s \in Deployments' PROVE Current(s)'
    <3>1. s \in Slots /\ mined'[s].tx # None /\ mined'[s].tx.plan # None /\ mined'[s].ok
      BY DEF Deployments
    <3>2. CASE s = x.slot
      BY <3>1, <3>2, <2>2, <2>3, <2>4
    <3>3. CASE s # x.slot
      BY <3>1, <3>3, <2>2, <2>3, <1>o DEF Deployments
    <3> QED
      BY <3>2, <3>3
  <2>6. ASSUME NEW y \in sent', y.plan # None, MayDeploy(y)', Current(y.slot)' PROVE y.plan = plan'
    <3>1. y \in sent
      BY <1>6, <2>0, <2>6 DEF MinedNow
    <3>2. MayDeploy(y)
      <4>1. CASE y.slot = x.slot
        BY <4>1, <2>1 DEF MayDeploy
      <4>2. CASE y.slot # x.slot
        <5>1. y.slot \in Slots
          BY <3>1, <1>t DEF Transaction
        <5> QED
          BY <4>2, <5>1, <2>0, <2>2, <2>6 DEF MayDeploy
      <4> QED
        BY <4>1, <4>2
    <3> QED
      BY <3>1, <3>2, <2>0, <2>3, <2>6, <1>o
  <2> QED
    BY <2>0, <2>3, <2>5, <2>6, <1>o DEF OnceInv
<1>7. ASSUME NEW s \in Slots, Reorganise(s) PROVE OnceInv'
  <2>0. Last' = Last /\ plan' = plan /\ final' = final /\ page' = page /\ sent' = sent
    BY <1>7, SameLast DEF Reorganise, server
  <2>1. s \notin final /\ mined'[s].tx = None /\ \A u \in Slots \ {s} : mined'[u] = mined[u]
    BY <1>7, <1>t DEF Reorganise
  <2>2. \A u : Current(u)' <=> Current(u)
    BY <2>0 DEF Current
  <2>3. Deployments' \subseteq Deployments
    BY <2>1 DEF Deployments
  <2>4. ASSUME NEW y \in sent, MayDeploy(y)' PROVE MayDeploy(y)
    <3>1. y.slot \in Slots
      BY <1>t DEF Transaction
    <3>2. CASE y.slot = s
      BY <3>2, <2>1 DEF MayDeploy
    <3>3. CASE y.slot # s
      BY <3>1, <3>3, <2>0, <2>1, <2>4 DEF MayDeploy
    <3> QED
      BY <3>2, <3>3
  <2> QED
    BY <2>0, <2>2, <2>3, <2>4, <1>o DEF OnceInv
<1>8. ASSUME NEW s \in Slots, Finalise(s) PROVE OnceInv'
  <2>0. /\ Last' = Last /\ plan' = plan /\ final' = final \cup {s} /\ page' = page /\ sent' = sent
        /\ mined' = mined
    BY <1>8, SameLast DEF Finalise, server
  <2>1. /\ \A u : Current(u)' <=> Current(u)
        /\ \A x : MayDeploy(x)' => MayDeploy(x)
        /\ Deployments' = Deployments
    BY <2>0 DEF Current, MayDeploy, Deployments
  <2> QED
    BY <2>0, <2>1, <1>o DEF OnceInv
<1> QED
  BY <1>1, <1>2, <1>3, <1>4, <1>5, <1>6, <1>7, <1>8, StepKinds

-----------------------------------------------------------------------------
DeployInv == TypeInv /\ FoundInv /\ RecordedInv /\ OnceInv

LEMMA DeployInvHolds == Spec => []DeployInv
<1>1. Init => DeployInv
  <2> SUFFICES ASSUME Init PROVE DeployInv
    OBVIOUS
  <2>1. TypeInv /\ FoundInv
    BY TypeInvInit, FoundInvInit
  <2>2. RecordedInv
    BY DEF Init, RecordedInv
  <2>3. OnceInv
    BY DEF Init, OnceInv, Deployments, Closed
  <2> QED
    BY <2>1, <2>2, <2>3 DEF DeployInv
<1>2. DeployInv /\ [Next]_vars => DeployInv'
  BY TypeInvStep, FoundInvStep, RecordedInvStep, OnceInvStep DEF DeployInv
<1> QED
  BY <1>1, <1>2, PTL DEF Spec

(* The address that is recorded is that of a deployment which is final and
   was the one planned (verify): what TypeOK says of the session holds too. *)
THEOREM Recorded == Spec => []RecordedIsDeployed
<1>1. DeployInv => RecordedIsDeployed
  BY DEF DeployInv, TypeInv, RecordedInv, RecordedIsDeployed
<1> QED
  BY <1>1, DeployInvHolds, PTL

(* Whatever a page had broadcast can be found again (signing, verify). *)
THEOREM Found == Spec => []NothingLost
<1>1. DeployInv => NothingLost
  BY DEF DeployInv, FoundInv, Kept, InJournal, NothingLost
<1> QED
  BY <1>1, DeployInvHolds, PTL

(* At most one deployment succeeds, unless a page had a plan signed that
   another page had replaced (send, signing, verify). *)
THEOREM DeployedOnce == Spec => []DeployedOnceUnlessCrossed
<1>1. DeployInv => DeployedOnceUnlessCrossed
  BY DEF DeployInv, OnceInv, Current, DeployedOnceUnlessCrossed
<1> QED
  BY <1>1, DeployInvHolds, PTL

-----------------------------------------------------------------------------
(* Connecting a shop. *)
(* x was, or may still be, broadcast, and the network may still take it. *)
Asked(x) ==
  \/ x \in connectSent
  \/ \E t \in Pages : connectPage[t].pc \in {"wallet", "broadcast"} /\ connectPage[t].asked = x

Open(x) == Asked(x) /\ x.tx # None /\ finalState.mined[x.slot] = C!NotMined

ConnectTypeInv ==
  /\ C!TypeOK
  /\ \A t \in Pages : connectPage[t].pc \in {"wallet", "broadcast"} => connectPage[t].asked \in C!Transaction

(* What is final stays taken in every newer state. *)
MinedInv == \A s \in Slots : finalState.mined[s] # C!NotMined => latest.mined[s] # C!NotMined

(* What may still be mined is the saved transaction in the slot of its
   attempt, and an attempt is confirmed once its slot is final. *)
ConnectFoundInv ==
  /\ \A x \in C!Transaction : Open(x) => session.attempt.slot = x.slot /\ session.tx = x.tx
  /\ session.attempt.state = "confirmed" => finalState.mined[session.attempt.slot] # C!NotMined

(* The saved transaction is for the rules that were planned. *)
Wanted(tx, rules) ==
  /\ tx.kind = "permission" => "adjust" \in tx.perms
  /\ tx.kind = "criteria" => tx.rules = rules

PlanInv ==
  /\ session.tx # None => session.expected # None /\ Wanted(session.tx, session.expected)
  /\ session.expected # None =>
       /\ session.plan \in C!Rules
       /\ session.plan # C!Unset => session.expected.rest = session.plan.rest

(* Nothing that may still be mined leads away from the rules the shop was
   connected with. *)
AgreedInv ==
  agreed # None =>
    /\ \A n \in {finalState, latest} : "adjust" \in n.perms /\ n.rules = agreed
    /\ \A x \in C!Transaction : Open(x) => session.expected = agreed

(* tx would keep what it is not about, if it were mined now. *)
Fits(tx) ==
  /\ tx.kind = "permission" => latest.perms \subseteq tx.perms
  /\ tx.kind = "criteria" => latest.rules = C!Unset \/ tx.rules.rest = latest.rules.rest

FitsInv ==
  ~moved => \A x \in C!Transaction : Open(x) /\ latest.mined[x.slot] = C!NotMined => Fits(x.tx)

ConnectInv == ConnectTypeInv /\ MinedInv /\ ConnectFoundInv /\ PlanInv /\ AgreedInv /\ FitsInv

-----------------------------------------------------------------------------
(* Types. *)
LEMMA ConnectNone ==
  /\ MaxChanges \in Nat
  /\ None \notin Slots /\ None \notin Prices /\ None \notin C!Rules /\ None \notin C!Setup
  /\ None \notin C!Transaction
  BY ConnectConstants DEF C!ConnectAssumption

LEMMA RulesAre ==
  /\ C!Unset \in C!Rules /\ C!Unset.price = None
  /\ \A r \in C!Rules : r # C!Unset => r.price \in Prices /\ r.rest \in {"default", "theirs"}
  /\ \A p \in Prices, rest \in {"default", "theirs"} :
       [price |-> p, rest |-> rest] \in C!Rules
  BY DEF C!Rules, C!Unset

LEMMA SetupIs ==
  /\ \A perms \in C!Permissions : /\ C!Grant(perms) \in C!Setup /\ C!Grant(perms).kind = "permission"
                                  /\ C!Grant(perms).perms = perms
  /\ \A rules \in C!Rules : /\ C!Configure(rules) \in C!Setup /\ C!Configure(rules).kind = "criteria"
                            /\ C!Configure(rules).rules = rules
  /\ \A tx \in C!Setup : /\ tx.perms \in C!Permissions /\ tx.rules \in C!Rules
                         /\ tx.kind \in {"permission", "criteria"}
<1>1. {} \in C!Permissions /\ C!Unset \in C!Rules
  BY RulesAre DEF C!Permissions
<1>2. \A perms \in C!Permissions : /\ C!Grant(perms) \in C!Setup /\ C!Grant(perms).kind = "permission"
                                   /\ C!Grant(perms).perms = perms
                                   /\ C!Grant(perms).rules = C!Unset
  BY DEF C!Setup, C!Grant
<1>3. \A rules \in C!Rules : /\ C!Configure(rules) \in C!Setup /\ C!Configure(rules).kind = "criteria"
                             /\ C!Configure(rules).rules = rules
                             /\ C!Configure(rules).perms = {}
  BY DEF C!Setup, C!Configure
<1>4. ASSUME NEW tx \in C!Setup
      PROVE  \/ \E perms \in C!Permissions : tx = C!Grant(perms)
             \/ \E rules \in C!Rules : tx = C!Configure(rules)
  BY DEF C!Setup
<1>5. ASSUME NEW tx \in C!Setup
      PROVE  tx.perms \in C!Permissions /\ tx.rules \in C!Rules /\ tx.kind \in {"permission", "criteria"}
  <2>1. CASE \E perms \in C!Permissions : tx = C!Grant(perms)
    BY <2>1, <1>1, <1>2
  <2>2. CASE \E rules \in C!Rules : tx = C!Configure(rules)
    BY <2>2, <1>1, <1>3
  <2> QED
    BY <1>4, <2>1, <2>2
<1> QED
  BY <1>2, <1>3, <1>5

LEMMA TransactionIs ==
  \A x \in C!Transaction : x.slot \in Slots /\ x.tx \in C!Setup \cup {None}
  BY DEF C!Transaction

LEMMA AttemptIs ==
  /\ C!NoAttempt.slot = None /\ C!NoAttempt.state = "none"
  /\ \A a \in C!Attempt : /\ a.slot \in Slots /\ a.hash \in C!Transaction \cup {None} /\ a # C!NoAttempt
                          /\ a.state \in {"signing", "cancelled", "pending", "confirmed"}
  BY ConnectNone DEF C!Attempt, C!NoAttempt

LEMMA SessionIs ==
  ASSUME NEW s \in C!Session
  PROVE  /\ s.expected \in C!Rules \cup {None} /\ s.plan \in C!Rules \cup {None}
         /\ s.tx \in C!Setup \cup {None} /\ s.completed \in BOOLEAN
         /\ s.attempt \in C!Attempt \cup {C!NoAttempt}
         /\ s.attempt.slot \in Slots \cup {None}
         /\ s.attempt.state \in {"none", "signing", "cancelled", "pending", "confirmed"}
         /\ s.attempt.state = "none" <=> s.attempt = C!NoAttempt
<1>1. /\ s.expected \in C!Rules \cup {None} /\ s.plan \in C!Rules \cup {None}
      /\ s.tx \in C!Setup \cup {None} /\ s.completed \in BOOLEAN
      /\ s.attempt \in C!Attempt \cup {C!NoAttempt}
  BY DEF C!Session
<1> QED
  BY <1>1, AttemptIs

LEMMA ConnectTypedNow ==
  ASSUME ConnectTypeInv
  PROVE  /\ session \in C!Session /\ connectPage \in [Pages -> C!Page]
         /\ latest \in C!Network /\ finalState \in C!Network
         /\ connectSent \subseteq C!Transaction
         /\ changes \in 0..MaxChanges /\ moved \in BOOLEAN /\ agreed \in C!Rules \cup {None}
         /\ \A t \in Pages : connectPage[t].pc \in {"wallet", "broadcast"} => connectPage[t].asked \in C!Transaction
  BY DEF ConnectTypeInv, C!TypeOK

LEMMA ConnectTyped ==
  ASSUME session' \in C!Session, connectPage' \in [Pages -> C!Page],
         latest' \in C!Network, finalState' \in C!Network, connectSent' \subseteq C!Transaction,
         changes' \in 0..MaxChanges, moved' \in BOOLEAN, agreed' \in C!Rules \cup {None},
         \A t \in Pages : connectPage'[t].pc \in {"wallet", "broadcast"} => connectPage'[t].asked \in C!Transaction
  PROVE  ConnectTypeInv'
  BY DEF ConnectTypeInv, C!TypeOK

LEMMA NetworkIs ==
  ASSUME NEW n \in C!Network
  PROVE  /\ n.perms \in C!Permissions /\ n.rules \in C!Rules
         /\ \A s \in Slots : n.mined[s] \in {C!NotMined} \cup [x : C!Transaction, ok : BOOLEAN]
         /\ n.mined \in [Slots -> {C!NotMined} \cup [x : C!Transaction, ok : BOOLEAN]]
  BY DEF C!Network

(* A transaction that was taken for a slot marks it. *)
LEMMA MinedMarks ==
  ASSUME NEW x \in C!Transaction, NEW ok
  PROVE  [x |-> x, ok |-> ok] # C!NotMined
  BY ConnectNone DEF C!NotMined

LEMMA MinedIs ==
  ASSUME NEW n, NEW s, NEW x \in C!Transaction, n.mined[s].x = x
  PROVE  n.mined[s] # C!NotMined
  BY ConnectNone DEF C!NotMined

-----------------------------------------------------------------------------
(* The pages.  Only signing makes a page ask, and it asks for the saved
   transaction in the slot of the attempt. *)
LEMMA PageIs ==
  ASSUME NEW q \in C!Page
  PROVE  /\ C!Rest(q) \in C!Page /\ C!Rest(q).pc = "idle"
         /\ [C!Rest(q) EXCEPT !.reviewed = FALSE] \in C!Page
         /\ [C!Rest(q) EXCEPT !.reviewed = FALSE].pc = "idle"
         /\ [C!Rest(q) EXCEPT !.pc = "rejected"] \in C!Page
         /\ [C!Rest(q) EXCEPT !.pc = "rejected"].pc = "rejected"
         /\ \A b \in BOOLEAN : /\ [q EXCEPT !.reviewed = b] \in C!Page
                               /\ [q EXCEPT !.reviewed = b].pc = q.pc
                               /\ [q EXCEPT !.reviewed = b].asked = q.asked
         /\ [q EXCEPT !.pc = "broadcast"] \in C!Page
         /\ [q EXCEPT !.pc = "broadcast"].pc = "broadcast"
         /\ [q EXCEPT !.pc = "broadcast"].asked = q.asked
         /\ \A x \in C!Transaction : /\ [q EXCEPT !.pc = "wallet", !.asked = x] \in C!Page
                                     /\ [q EXCEPT !.pc = "wallet", !.asked = x].pc = "wallet"
                                     /\ [q EXCEPT !.pc = "wallet", !.asked = x].asked = x
  BY DEF C!Page, C!Rest

LEMMA ReviewedIs ==
  ASSUME NEW q \in C!Page, NEW b \in BOOLEAN
  PROVE  /\ [q EXCEPT !.reviewed = b] \in C!Page
         /\ [q EXCEPT !.reviewed = b].pc = q.pc
  BY DEF C!Page

LEMMA OpenedPage ==
  [C!Closed EXCEPT !.pc = "idle"] \in C!Page /\ [C!Closed EXCEPT !.pc = "idle"].pc = "idle" /\ C!Closed \in C!Page
  BY DEF C!Closed, C!Page

(* What page t does next. *)
Turns(t, q) ==
  /\ connectPage' \in [Pages -> C!Page]
  /\ connectPage'[t].pc = q.pc /\ connectPage'[t].asked = q.asked
  /\ \A u \in Pages : u # t => connectPage'[u] = connectPage[u]

LEMMA TurnsIs ==
  ASSUME ConnectTypeInv, NEW t \in Pages, NEW q \in C!Page, connectPage' = [connectPage EXCEPT ![t] = q]
  PROVE  Turns(t, q)
  BY ConnectTypedNow DEF Turns

LEMMA AnsweredIs ==
  ASSUME ConnectTypeInv, session' \in C!Session, NEW t \in Pages, NEW q \in C!Page, C!Answered(t, q)
  PROVE  Turns(t, q)
<1> DEFINE r == [q EXCEPT !.planned = session'.expected # None, !.tx = session'.tx,
                   !.slot = session'.attempt.slot, !.state = session'.attempt.state,
                   !.completed = session'.completed]
<1>1. /\ (session'.expected # None) \in BOOLEAN /\ session'.tx \in C!Setup \cup {None}
      /\ session'.attempt.slot \in Slots \cup {None} /\ session'.completed \in BOOLEAN
      /\ session'.attempt.state \in {"none", "signing", "cancelled", "pending", "confirmed"}
  BY SessionIs
<1>2. r \in C!Page /\ r.pc = q.pc /\ r.asked = q.asked
  BY <1>1, ZenonT(30) DEF C!Page
<1>3. connectPage' = [connectPage EXCEPT ![t] = r]
  BY DEF C!Answered
<1> HIDE DEF r
<1>4. Turns(t, r)
  BY <1>2, <1>3, TurnsIs
<1> QED
  BY <1>2, <1>4 DEF Turns

LEMMA RefusedIs ==
  ASSUME ConnectTypeInv, NEW t \in Pages, C!Refused(t)
  PROVE  /\ session' = session
         /\ \E q \in C!Page : q.pc = "idle" /\ Turns(t, q)
<1> DEFINE q == [C!Rest(connectPage[t]) EXCEPT !.reviewed = FALSE]
<1>1. q \in C!Page /\ q.pc = "idle"
  BY ConnectTypedNow, PageIs
<1>2. connectPage' = [connectPage EXCEPT ![t] = q] /\ session' = session
  BY ConnectTypedNow DEF C!Refused
<1> HIDE DEF q
<1> QED
  BY <1>1, <1>2, TurnsIs

(* Page t asks for nothing it did not ask for already. *)
Asks(t) == /\ connectPage' \in [Pages -> C!Page]
           /\ \A u \in Pages : u # t => connectPage'[u] = connectPage[u]
           /\ \/ connectPage'[t].pc \notin {"wallet", "broadcast"}
              \/ connectPage[t].pc \in {"wallet", "broadcast"} /\ connectPage'[t].asked = connectPage[t].asked

LEMMA AsksIs ==
  ASSUME ConnectTypeInv, NEW t \in Pages, NEW q \in C!Page, Turns(t, q),
         \/ q.pc \notin {"wallet", "broadcast"}
         \/ connectPage[t].pc \in {"wallet", "broadcast"} /\ q.asked = connectPage[t].asked
  PROVE  Asks(t)
  BY DEF Turns, Asks

LEMMA AsksTypes ==
  ASSUME ConnectTypeInv, NEW t \in Pages, Asks(t)
  PROVE  \A u \in Pages : connectPage'[u].pc \in {"wallet", "broadcast"} => connectPage'[u].asked \in C!Transaction
  BY ConnectTypedNow DEF Asks

LEMMA AskedStays ==
  ASSUME NEW t \in Pages, Asks(t), connectSent' = connectSent, NEW x, Asked(x)'
  PROVE  Asked(x)
  BY DEF Asks, Asked

(* What the server saves of the session. *)
LEMMA AttemptCancelled ==
  ASSUME NEW s \in C!Session, s.attempt # C!NoAttempt,
         NEW r, r = [s EXCEPT !.attempt.state = "cancelled"]
  PROVE  /\ r \in C!Session /\ r.expected = s.expected /\ r.plan = s.plan
         /\ r.tx = s.tx /\ r.attempt.slot = s.attempt.slot /\ r.attempt.state = "cancelled"
  BY DEF C!Session, C!Attempt

LEMMA AttemptBegun ==
  ASSUME NEW s \in C!Session, NEW sl \in Slots,
         NEW r, r = [s EXCEPT !.attempt = [slot |-> sl, hash |-> None, state |-> "signing"]]
  PROVE  /\ r \in C!Session /\ r.expected = s.expected /\ r.plan = s.plan
         /\ r.tx = s.tx /\ r.attempt.slot = sl /\ r.attempt.state = "signing"
  BY DEF C!Session, C!Attempt

LEMMA AttemptEnded ==
  ASSUME NEW s \in C!Session, NEW r, r = [s EXCEPT !.tx = None, !.attempt = C!NoAttempt]
  PROVE  /\ r \in C!Session /\ r.expected = s.expected /\ r.plan = s.plan
         /\ r.tx = None /\ r.attempt = C!NoAttempt
  BY DEF C!Session, C!Attempt

LEMMA SessionCompleted ==
  ASSUME NEW s \in C!Session, NEW r, r = [s EXCEPT !.completed = TRUE]
  PROVE  /\ r \in C!Session /\ r.expected = s.expected /\ r.plan = s.plan
         /\ r.tx = s.tx /\ r.attempt = s.attempt
  BY DEF C!Session, C!Attempt

(* What NextSetup plans is for the rules it is given, and keeps the rest of
   the network it is planned on. *)
LEMMA NextSetupIs ==
  ASSUME NEW n \in C!Network, NEW e \in C!Rules
  PROVE  LET tx == C!NextSetup(n, e)
         IN  /\ tx \in C!Setup \cup {None}
             /\ tx # None => Wanted(tx, e)
             /\ tx # None /\ tx.kind = "permission" => n.perms \subseteq tx.perms
<1>1. n.perms \cup {"adjust"} \in C!Permissions
  BY NetworkIs DEF C!Permissions
<1>2. CASE "adjust" \notin n.perms
  BY <1>1, <1>2, SetupIs DEF C!NextSetup, Wanted
<1>3. CASE "adjust" \in n.perms /\ n.rules # e
  BY <1>3, SetupIs DEF C!NextSetup, Wanted
<1>4. CASE "adjust" \in n.perms /\ n.rules = e
  BY <1>4 DEF C!NextSetup
<1> QED
  BY <1>2, <1>3, <1>4

LEMMA ExpectedIs ==
  ASSUME ConnectTypeInv, NEW price \in Prices
  PROVE  /\ C!Expected(price) \in C!Rules
         /\ latest.rules # C!Unset => C!Expected(price).rest = latest.rules.rest
<1>1. latest.rules \in C!Rules
  BY ConnectTypedNow, NetworkIs
<1> QED
  BY <1>1, RulesAre DEF C!Expected

-----------------------------------------------------------------------------
(* The invariant, kept by what steps have in common. *)
Same == UNCHANGED <<latest, finalState, connectSent, changes>>

(* The session keeps what may be mined. *)
LEMMA FrameKeeps ==
  ASSUME ConnectInv, NEW t \in Pages, Asks(t), Same, UNCHANGED <<moved, agreed>>,
         session' \in C!Session, session'.tx = session.tx, session'.expected = session.expected,
         session'.plan = session.plan, session'.attempt.slot = session.attempt.slot,
         session'.attempt.state = "confirmed" => finalState.mined[session'.attempt.slot] # C!NotMined
  PROVE  ConnectInv'
<1> USE DEF ConnectInv
<1>1. ConnectTypeInv'
  BY AsksTypes, ConnectTypedNow, ConnectTyped DEF Same, Asks
<1>2. \A x \in C!Transaction : Open(x)' => Open(x)
  BY AskedStays DEF Open, Same
<1>3. MinedInv' /\ ConnectFoundInv'
  BY <1>2 DEF MinedInv, ConnectFoundInv, Same
<1>4. PlanInv'
  BY DEF PlanInv, Wanted
<1>5. AgreedInv'
  BY <1>2 DEF AgreedInv, Same
<1>6. FitsInv'
  BY <1>2 DEF FitsInv, Fits, Same
<1> QED
  BY <1>1, <1>3, <1>4, <1>5, <1>6

(* Nothing may be mined, and the session has no attempt any more. *)
LEMMA ClearedKeeps ==
  ASSUME ConnectInv, NEW t \in Pages, Asks(t), Same, UNCHANGED <<moved, agreed>>,
         session' \in C!Session, session'.attempt = C!NoAttempt, PlanInv',
         \A x \in C!Transaction : ~Open(x)
  PROVE  ConnectInv'
<1> USE DEF ConnectInv
<1>1. ConnectTypeInv'
  BY AsksTypes, ConnectTypedNow, ConnectTyped DEF Same, Asks
<1>2. \A x \in C!Transaction : ~Open(x)'
  BY AskedStays DEF Open, Same
<1>3. MinedInv' /\ ConnectFoundInv'
  BY <1>2, AttemptIs DEF MinedInv, ConnectFoundInv, Same
<1>4. AgreedInv'
  BY <1>2 DEF AgreedInv, Same
<1>5. FitsInv'
  BY <1>2 DEF FitsInv
<1> QED
  BY <1>1, <1>3, <1>4, <1>5

LEMMA NothingOpen ==
  ASSUME ConnectInv,
         \/ session.tx = None
         \/ session.attempt.state = "none"
         \/ session.attempt # C!NoAttempt /\ finalState.mined[session.attempt.slot] # C!NotMined
  PROVE  \A x \in C!Transaction : ~Open(x)
<1> SUFFICES ASSUME NEW x \in C!Transaction, Open(x) PROVE FALSE
  OBVIOUS
<1>1. session.attempt.slot = x.slot /\ session.tx = x.tx
  BY DEF ConnectInv, ConnectFoundInv
<1>2. x.slot \in Slots /\ x.tx # None /\ finalState.mined[x.slot] = C!NotMined
  BY TransactionIs DEF Open
<1>3. session.attempt.state = "none" => session.attempt.slot = None
  BY ConnectTypedNow, SessionIs, AttemptIs DEF ConnectInv
<1> QED
  BY <1>1, <1>2, <1>3, ConnectNone

LEMMA RefusedKeeps ==
  ASSUME ConnectInv, NEW t \in Pages, C!Refused(t), Same, UNCHANGED <<moved, agreed>>
  PROVE  ConnectInv'
<1>1. session' = session /\ Asks(t)
  BY RefusedIs, AsksIs DEF ConnectInv
<1> QED
  BY <1>1, FrameKeeps, ConnectTypedNow DEF ConnectInv, ConnectFoundInv

(* Steps that leave the session alone. *)
LEMMA PageKeeps ==
  ASSUME ConnectInv, NEW t \in Pages, C!Load(t) \/ C!EditPrice(t) \/ C!ReviewSaved(t) \/ C!Reject(t)
  PROVE  ConnectInv'
<1>1. session' = session /\ Same /\ UNCHANGED <<moved, agreed>>
  BY DEF C!Load, C!EditPrice, C!ReviewSaved, C!Reject, Same, C!network
<1>2. ConnectTypeInv /\ session' \in C!Session /\ connectPage[t] \in C!Page
  BY <1>1, ConnectTypedNow DEF ConnectInv
<1>3. Asks(t)
  <2>1. CASE C!Load(t)
    BY <1>2, <2>1, OpenedPage, AnsweredIs, AsksIs DEF C!Load
  <2>2. CASE C!EditPrice(t)
    <3>1. connectPage' = [connectPage EXCEPT ![t] = [connectPage[t] EXCEPT !.reviewed = FALSE]] /\ connectPage[t].pc = "idle"
      BY <1>2, <2>2, ConnectTypedNow DEF C!EditPrice, C!At
    <3> QED
      BY <1>2, <3>1, PageIs, TurnsIs, AsksIs
  <2>3. CASE C!ReviewSaved(t)
    <3>1. connectPage' = [connectPage EXCEPT ![t] = [connectPage[t] EXCEPT !.reviewed = TRUE]] /\ connectPage[t].pc = "idle"
      BY <1>2, <2>3, ConnectTypedNow DEF C!ReviewSaved, C!At
    <3> QED
      BY <1>2, <3>1, PageIs, TurnsIs, AsksIs
  <2>4. CASE C!Reject(t)
    <3>1. connectPage' = [connectPage EXCEPT ![t] = [C!Rest(connectPage[t]) EXCEPT !.pc = "rejected"]]
      BY <1>2, <2>4, ConnectTypedNow DEF C!Reject
    <3> QED
      BY <1>2, <3>1, PageIs, TurnsIs, AsksIs
  <2> QED
    BY <2>1, <2>2, <2>3, <2>4
<1> QED
  BY <1>1, <1>2, <1>3, FrameKeeps DEF ConnectInv, ConnectFoundInv

LEMMA PlanKeeps ==
  ASSUME ConnectInv, NEW t \in Pages, NEW price \in Prices, C!PlanConnection(t, price)
  PROVE  ConnectInv'
<1>1. Same /\ UNCHANGED <<moved, agreed>> /\ C!At(t, "idle")
  BY DEF C!PlanConnection, Same, C!network
<1>2. CASE session.tx # None /\ session.attempt.state \notin {"none", "confirmed"}
  BY <1>1, <1>2, RefusedKeeps DEF C!PlanConnection
<1>3. CASE ~(session.tx # None /\ session.attempt.state \notin {"none", "confirmed"})
  <2> DEFINE e == C!Expected(price)
             s == [session EXCEPT !.expected = e, !.plan = latest.rules,
                                  !.tx = C!NextSetup(latest, e), !.attempt = C!NoAttempt]
  <2>1. /\ session' = s
        /\ \E estimated \in BOOLEAN :
             C!Answered(t, [connectPage[t] EXCEPT !.reviewed = estimated /\ session'.tx # None])
    BY <1>3 DEF C!PlanConnection
  <2>2. /\ e \in C!Rules /\ latest \in C!Network /\ latest.rules \in C!Rules /\ session \in C!Session
        /\ latest.rules # C!Unset => e.rest = latest.rules.rest
    BY ConnectTypedNow, NetworkIs, ExpectedIs DEF ConnectInv
  <2> HIDE DEF e
  <2>3. C!NextSetup(latest, e) \in C!Setup \cup {None} /\ (C!NextSetup(latest, e) # None => Wanted(C!NextSetup(latest, e), e))
    BY <2>2, NextSetupIs
  <2>4. /\ s \in C!Session /\ s.expected = e /\ s.plan = latest.rules
        /\ s.tx = C!NextSetup(latest, e) /\ s.attempt = C!NoAttempt
    BY <2>2, <2>3 DEF C!Session
  <2> HIDE DEF s
  <2>5. PlanInv'
    BY <2>1, <2>2, <2>3, <2>4, ConnectNone DEF PlanInv, Wanted
  <2>6. Asks(t)
    <3>1. PICK b \in BOOLEAN : C!Answered(t, [connectPage[t] EXCEPT !.reviewed = b])
      BY <2>1
    <3>2. connectPage[t] \in C!Page /\ connectPage[t].pc = "idle"
      BY <1>1, ConnectTypedNow DEF ConnectInv, C!At
    <3>3. /\ [connectPage[t] EXCEPT !.reviewed = b] \in C!Page
          /\ [connectPage[t] EXCEPT !.reviewed = b].pc = "idle"
      BY <3>2, ReviewedIs
    <3> QED
      BY <2>1, <2>4, <3>1, <3>3, AnsweredIs, AsksIs DEF ConnectInv
  <2>7. \A x \in C!Transaction : ~Open(x)
    <3>1. session.attempt.state = "confirmed" =>
            session.attempt # C!NoAttempt /\ finalState.mined[session.attempt.slot] # C!NotMined
      BY AttemptIs DEF ConnectInv, ConnectFoundInv
    <3> QED
      BY <1>3, <3>1, NothingOpen
  <2> QED
    BY <1>1, <2>1, <2>4, <2>5, <2>6, <2>7, ClearedKeeps
<1> QED
  BY <1>2, <1>3

LEMMA AnswerKeeps ==
  ASSUME ConnectInv, NEW t \in Pages, C!Submitted(t) \/ C!Cancelled(t)
  PROVE  ConnectInv'
<1>1. Same /\ UNCHANGED <<moved, agreed>> /\ ConnectTypeInv /\ session \in C!Session
  BY ConnectTypedNow DEF C!Submitted, C!Cancelled, Same, C!network, ConnectInv
<1> DEFINE q == [C!Rest(connectPage[t]) EXCEPT !.reviewed = FALSE]
<1>2. q \in C!Page /\ q.pc = "idle"
  BY <1>1, ConnectTypedNow, PageIs
<1> HIDE DEF q
<1>3. CASE C!Refused(t)
  BY <1>1, <1>3, RefusedKeeps
<1>4. CASE C!Submitted(t) /\ ~C!Refused(t)
  <2>1. /\ session.attempt.state \in {"signing", "pending"}
        /\ session' = [session EXCEPT !.attempt.hash = connectPage[t].asked, !.attempt.state = "pending"]
        /\ C!Answered(t, q) /\ connectPage[t].asked \in C!Transaction
    BY <1>1, <1>4, ConnectTypedNow DEF C!Submitted, C!At, q
  <2>2. session.attempt # C!NoAttempt
    BY <2>1, AttemptIs
  <2>3. /\ session' \in C!Session /\ session'.tx = session.tx /\ session'.expected = session.expected
        /\ session'.plan = session.plan /\ session'.attempt.slot = session.attempt.slot
        /\ session'.attempt.state = "pending"
    <3> DEFINE x == connectPage[t].asked
    <3>1. x \in C!Transaction /\ session' = [session EXCEPT !.attempt.hash = x, !.attempt.state = "pending"]
      BY <2>1
    <3> HIDE DEF x
    <3> QED
      BY <1>1, <2>2, <3>1, SessionIs DEF C!Session, C!Attempt
  <2>4. Asks(t)
    BY <1>1, <1>2, <2>1, <2>3, AnsweredIs, AsksIs
  <2> QED
    BY <1>1, <2>3, <2>4, FrameKeeps
<1>5. CASE C!Cancelled(t) /\ ~C!Refused(t)
  <2>1. /\ session.attempt.state = "signing"
        /\ session' = [session EXCEPT !.attempt.state = "cancelled"]
        /\ C!Answered(t, q)
    BY <1>5 DEF C!Cancelled, q
  <2>2. session.attempt # C!NoAttempt
    BY <2>1, AttemptIs
  <2>3. /\ session' \in C!Session /\ session'.tx = session.tx /\ session'.expected = session.expected
        /\ session'.plan = session.plan /\ session'.attempt.slot = session.attempt.slot
        /\ session'.attempt.state = "cancelled"
    BY <1>1, <2>1, <2>2, AttemptCancelled
  <2>4. Asks(t)
    BY <1>1, <1>2, <2>1, <2>3, AnsweredIs, AsksIs
  <2> QED
    BY <1>1, <2>3, <2>4, FrameKeeps
<1> QED
  BY <1>3, <1>4, <1>5

(* A verdict other than "pending" is about a slot that is final. *)
LEMMA VerdictIs ==
  ASSUME NEW x \in C!Transaction
  PROVE  /\ C!Verdict(x) \in {"pending", "replaced", "confirmed", "reverted"}
         /\ C!Verdict(x) # "pending" => finalState.mined[x.slot] # C!NotMined
  BY MinedIs DEF C!Verdict

LEMMA VerifyKeeps ==
  ASSUME ConnectInv, NEW t \in Pages, NEW x \in connectSent, C!Verify(t, x)
  PROVE  ConnectInv'
<1>1. /\ Same /\ UNCHANGED <<moved, agreed>> /\ ConnectTypeInv /\ session \in C!Session /\ x \in C!Transaction
      /\ connectPage[t] \in C!Page /\ connectPage[t].pc = "idle"
  BY ConnectTypedNow DEF C!Verify, Same, C!network, ConnectInv, C!At
<1>2. CASE session.attempt = C!NoAttempt \/ x.slot # session.attempt.slot
  BY <1>1, <1>2, RefusedKeeps DEF C!Verify
<1>3. CASE session.attempt # C!NoAttempt /\ x.slot = session.attempt.slot
  <2>1. C!Answered(t, connectPage[t])
    BY <1>3 DEF C!Verify
  <2>2. CASE C!Verdict(x) \in {"reverted", "replaced"}
    <3>1. session' = [session EXCEPT !.tx = None, !.attempt = C!NoAttempt]
      BY <1>3, <2>2 DEF C!Verify
    <3>2. /\ session' \in C!Session /\ session'.tx = None /\ session'.expected = session.expected
          /\ session'.plan = session.plan /\ session'.attempt = C!NoAttempt
      BY <1>1, <3>1, AttemptEnded
    <3>3. Asks(t)
      BY <1>1, <2>1, <3>2, AnsweredIs, AsksIs
    <3>4. \A y \in C!Transaction : ~Open(y)
      BY <1>1, <1>3, <2>2, VerdictIs, NothingOpen
    <3>5. PlanInv'
      BY <3>2 DEF PlanInv, ConnectInv
    <3> QED
      BY <1>1, <3>2, <3>3, <3>4, <3>5, ClearedKeeps
  <2>3. CASE C!Verdict(x) \notin {"reverted", "replaced"}
    <3>1. /\ session' = [session EXCEPT !.attempt.hash = x, !.attempt.state = C!Verdict(x)]
          /\ C!Verdict(x) \in {"pending", "confirmed"}
      BY <1>1, <1>3, <2>3, VerdictIs DEF C!Verify
    <3>2. /\ session' \in C!Session /\ session'.tx = session.tx /\ session'.expected = session.expected
          /\ session'.plan = session.plan /\ session'.attempt.slot = session.attempt.slot
          /\ session'.attempt.state = C!Verdict(x)
      <4> DEFINE v == C!Verdict(x)
      <4>1. v \in {"pending", "confirmed"} /\ session' = [session EXCEPT !.attempt.hash = x, !.attempt.state = v]
        BY <3>1
      <4> HIDE DEF v
      <4> DEFINE a == [session.attempt EXCEPT !.hash = x, !.state = v]
      <4>2. session.attempt \in C!Attempt
        BY <1>1, <1>3, SessionIs
      <4>3. a \in C!Attempt /\ a.slot = session.attempt.slot /\ a.state = v
        BY <1>1, <4>1, <4>2 DEF C!Attempt
      <4>4. session' = [session EXCEPT !.attempt = a]
        BY <4>1
      <4> HIDE DEF a
      <4>5. /\ session' \in C!Session /\ session'.tx = session.tx /\ session'.expected = session.expected
            /\ session'.plan = session.plan /\ session'.attempt.slot = session.attempt.slot
            /\ session'.attempt.state = v
        BY <1>1, <4>3, <4>4 DEF C!Session
      <4> QED
        BY <4>5 DEF v
    <3>3. Asks(t)
      BY <1>1, <2>1, <3>2, AnsweredIs, AsksIs
    <3>4. session'.attempt.state = "confirmed" => finalState.mined[session'.attempt.slot] # C!NotMined
      BY <1>1, <1>3, <3>2, VerdictIs
    <3> QED
      BY <1>1, <3>2, <3>3, <3>4, FrameKeeps
  <2> QED
    BY <2>2, <2>3
<1> QED
  BY <1>2, <1>3

LEMMA FinishKeeps ==
  ASSUME ConnectInv, NEW t \in Pages, C!Finish(t)
  PROVE  ConnectInv'
<1>1. Same /\ UNCHANGED moved /\ ConnectTypeInv /\ session \in C!Session /\ connectPage[t] \in C!Page /\ connectPage[t].pc = "idle"
  BY ConnectTypedNow DEF C!Finish, Same, C!network, ConnectInv, C!At
<1>2. CASE C!Refused(t) /\ UNCHANGED agreed
  BY <1>1, <1>2, RefusedKeeps
<1>3. CASE /\ session.expected # None /\ C!Connected
           /\ agreed' = session.expected
           /\ \/ session' = [session EXCEPT !.completed = TRUE] /\ C!Answered(t, connectPage[t])
              \/ C!Refused(t)
  <2>1. /\ session' \in C!Session /\ session'.tx = session.tx /\ session'.expected = session.expected
        /\ session'.plan = session.plan /\ session'.attempt = session.attempt
    <3>1. CASE session' = [session EXCEPT !.completed = TRUE]
      BY <1>1, <3>1, SessionCompleted
    <3>2. CASE C!Refused(t)
      BY <1>1, <3>2, RefusedIs
    <3> QED
      BY <1>3, <3>1, <3>2
  <2>2. Asks(t)
    BY <1>1, <1>3, <2>1, AnsweredIs, RefusedIs, AsksIs
  <2>3. agreed' \in C!Rules
    BY <1>1, <1>3, SessionIs
  <2>4. ConnectTypeInv'
    BY <1>1, <2>1, <2>2, <2>3, AsksTypes, ConnectTypedNow, ConnectTyped DEF Same, Asks
  <2>5. \A x \in C!Transaction : Open(x)' => Open(x)
    BY <1>1, <2>2, AskedStays DEF Open, Same
  <2>6. MinedInv' /\ ConnectFoundInv'
    BY <1>1, <2>1, <2>5 DEF ConnectInv, MinedInv, ConnectFoundInv, Same
  <2>7. PlanInv'
    BY <2>1 DEF ConnectInv, PlanInv, Wanted
  <2>8. AgreedInv'
    BY <1>1, <1>3, <2>1 DEF AgreedInv, C!Connected, Same
  <2>9. FitsInv'
    BY <1>1, <2>5 DEF ConnectInv, FitsInv, Fits, Same
  <2> QED
    BY <2>4, <2>6, <2>7, <2>8, <2>9 DEF ConnectInv
<1> QED
  BY <1>2, <1>3 DEF C!Finish

(* Signing.  It is compared with the network first, and what is asked for is
   what is saved. *)
LEMMA ApproveKeeps ==
  ASSUME ConnectInv, NEW t \in Pages, NEW s \in Slots, C!Approve(t, s)
  PROVE  ConnectInv'
<1>1. Same /\ ConnectTypeInv /\ session \in C!Session /\ connectPage[t] \in C!Page /\ latest \in C!Network
  BY ConnectTypedNow DEF C!Approve, Same, C!network, ConnectInv
<1>2. CASE session.tx = None \/ ~C!MaySign(s) \/ ~C!SameShop
  BY <1>1, <1>2, RefusedKeeps DEF C!Approve
<1>3. CASE session.tx # None /\ C!MaySign(s) /\ C!SameShop
  <2> DEFINE x == [slot |-> s, tx |-> session.tx]
             q == [connectPage[t] EXCEPT !.pc = "wallet", !.asked = x]
  <2>1. /\ session' = [session EXCEPT !.attempt = [slot |-> s, hash |-> None, state |-> "signing"]]
        /\ C!Answered(t, q) /\ moved' = FALSE /\ agreed' = None
    BY <1>3 DEF C!Approve
  <2>2. session.tx \in C!Setup
    BY <1>1, <1>3, SessionIs
  <2>3. x \in C!Transaction /\ x.slot = s /\ x.tx = session.tx
    BY <2>2 DEF C!Transaction
  <2> HIDE DEF x
  <2>4. q \in C!Page /\ q.pc = "wallet" /\ q.asked = x
    BY <1>1, <2>3 DEF C!Page
  <2> HIDE DEF q
  <2>5. /\ session' \in C!Session /\ session'.tx = session.tx /\ session'.expected = session.expected
        /\ session'.plan = session.plan /\ session'.attempt.slot = s
        /\ session'.attempt.state = "signing"
    BY <1>1, <2>1, AttemptBegun
  <2>6. Turns(t, q)
    BY <1>1, <2>1, <2>4, <2>5, AnsweredIs
  <2>7. /\ connectPage' \in [Pages -> C!Page] /\ connectPage'[t].asked = x
        /\ \A u \in Pages : u # t => connectPage'[u] = connectPage[u]
    BY <2>4, <2>6 DEF Turns
  <2>8. ConnectTypeInv'
    <3>1. \A u \in Pages : connectPage'[u].pc \in {"wallet", "broadcast"} => connectPage'[u].asked \in C!Transaction
      BY <1>1, <2>3, <2>7, ConnectTypedNow
    <3> QED
      BY <1>1, <2>1, <2>5, <2>7, <3>1, ConnectTypedNow, ConnectTyped DEF Same
  <2>9. \A y \in C!Transaction : Open(y)' => y = x \/ Open(y)
    BY <1>1, <2>7 DEF Open, Asked, Same
  <2>10. \A y \in C!Transaction : Open(y)' => s = y.slot /\ session.tx = y.tx
    <3> SUFFICES ASSUME NEW y \in C!Transaction, Open(y)' PROVE s = y.slot /\ session.tx = y.tx
      OBVIOUS
    <3>1. CASE y = x
      BY <2>3, <3>1
    <3>2. CASE Open(y)
      <4>1. session.attempt.slot = y.slot /\ session.tx = y.tx
        BY <3>2 DEF ConnectInv, ConnectFoundInv
      <4>2. session.attempt # C!NoAttempt
        BY <4>1, TransactionIs, AttemptIs, ConnectNone
      <4> QED
        BY <1>3, <4>1, <4>2 DEF C!MaySign
    <3> QED
      BY <2>9, <3>1, <3>2
  <2>11. MinedInv' /\ ConnectFoundInv'
    BY <1>1, <2>5, <2>10 DEF ConnectInv, MinedInv, ConnectFoundInv, Same
  <2>12. PlanInv'
    BY <2>5 DEF ConnectInv, PlanInv, Wanted
  <2>13. AgreedInv'
    BY <2>1 DEF AgreedInv
  <2>14. Fits(session.tx)
    <3>1. /\ session.expected \in C!Rules /\ Wanted(session.tx, session.expected)
          /\ session.plan # C!Unset => session.expected.rest = session.plan.rest
      BY <1>1, <1>3, SessionIs DEF ConnectInv, PlanInv
    <3>2. session.tx = C!NextSetup(latest, session.expected)
      BY <1>3 DEF C!SameShop
    <3>3. session.tx.kind = "permission" => latest.perms \subseteq session.tx.perms
      BY <1>1, <1>3, <3>1, <3>2, NextSetupIs
    <3>4. session.tx.kind = "criteria" => latest.rules = session.plan /\ session.tx.rules = session.expected
      BY <1>3, <3>1 DEF C!SameShop, Wanted
    <3> QED
      BY <3>1, <3>3, <3>4 DEF Fits
  <2>15. FitsInv'
    BY <1>1, <2>10, <2>14 DEF FitsInv, Fits, Same
  <2> QED
    BY <2>8, <2>11, <2>12, <2>13, <2>15 DEF ConnectInv
<1> QED
  BY <1>2, <1>3

LEMMA BroadcastKeeps ==
  ASSUME ConnectInv, NEW t \in Pages, C!Broadcast(t)
  PROVE  ConnectInv'
<1>1. /\ session' = session /\ UNCHANGED <<latest, finalState, changes, moved, agreed>>
      /\ connectSent' = connectSent \cup {connectPage[t].asked} /\ connectPage[t] \in C!Page
      /\ connectPage[t].pc = "wallet" /\ ConnectTypeInv
  BY ConnectTypedNow DEF C!Broadcast, ConnectInv, C!At
<1>2. connectPage[t].asked \in C!Transaction
  BY <1>1, ConnectTypedNow
<1>3. Asks(t)
  <2>1. \E q \in {[connectPage[t] EXCEPT !.pc = "broadcast"], [C!Rest(connectPage[t]) EXCEPT !.reviewed = FALSE]} :
          connectPage' = [connectPage EXCEPT ![t] = q]
    BY DEF C!Broadcast
  <2>2. CASE connectPage' = [connectPage EXCEPT ![t] = [connectPage[t] EXCEPT !.pc = "broadcast"]]
    <3>1. /\ [connectPage[t] EXCEPT !.pc = "broadcast"] \in C!Page
          /\ [connectPage[t] EXCEPT !.pc = "broadcast"].asked = connectPage[t].asked
      BY <1>1, PageIs
    <3> QED
      BY <1>1, <2>2, <3>1, TurnsIs, AsksIs
  <2>3. CASE connectPage' = [connectPage EXCEPT ![t] = [C!Rest(connectPage[t]) EXCEPT !.reviewed = FALSE]]
    <3>1. /\ [C!Rest(connectPage[t]) EXCEPT !.reviewed = FALSE] \in C!Page
          /\ [C!Rest(connectPage[t]) EXCEPT !.reviewed = FALSE].pc = "idle"
      BY <1>1, PageIs
    <3> QED
      BY <1>1, <2>3, <3>1, TurnsIs, AsksIs
  <2> QED
    BY <2>1, <2>2, <2>3
<1>4. ConnectTypeInv'
  BY <1>1, <1>2, <1>3, AsksTypes, ConnectTypedNow, ConnectTyped DEF Asks
<1>5. \A x \in C!Transaction : Open(x)' => Open(x)
  BY <1>1, <1>3 DEF Open, Asked, Asks
<1>6. MinedInv' /\ ConnectFoundInv' /\ PlanInv'
  BY <1>1, <1>5 DEF ConnectInv, MinedInv, ConnectFoundInv, PlanInv, Wanted
<1>7. AgreedInv' /\ FitsInv'
  BY <1>1, <1>5 DEF ConnectInv, AgreedInv, FitsInv, Fits
<1> QED
  BY <1>4, <1>6, <1>7 DEF ConnectInv

-----------------------------------------------------------------------------
(* The network. *)
LEMMA NetworkTypes ==
  ASSUME ConnectTypeInv, UNCHANGED <<session, connectPage>>, latest' \in C!Network, finalState' \in C!Network,
         connectSent' \subseteq C!Transaction, changes' \in 0..MaxChanges, moved' \in BOOLEAN,
         agreed' \in C!Rules \cup {None}
  PROVE  ConnectTypeInv'
  BY ConnectTypedNow, ConnectTyped

(* What mining x writes. *)
MinedTo(x, ok) ==
  [perms |-> IF ok /\ x.tx # None /\ x.tx.kind = "permission" THEN x.tx.perms ELSE latest.perms,
   rules |-> IF ok /\ x.tx # None /\ x.tx.kind = "criteria" THEN x.tx.rules ELSE latest.rules,
   mined |-> [latest.mined EXCEPT ![x.slot] = [x |-> x, ok |-> ok]]]

LEMMA MineIs ==
  ASSUME ConnectTypeInv, NEW x \in connectSent, C!Mine(x)
  PROVE  /\ x \in C!Transaction /\ latest.mined[x.slot] = C!NotMined
         /\ UNCHANGED <<session, connectPage, finalState, connectSent, changes, moved, agreed>>
         /\ latest' \in C!Network /\ latest'.mined[x.slot] # C!NotMined
         /\ \A s \in Slots : s # x.slot => latest'.mined[s] = latest.mined[s]
         /\ \/ latest'.perms = latest.perms /\ latest'.rules = latest.rules
            \/ /\ x.tx # None /\ x.tx.kind = "permission"
               /\ latest'.perms = x.tx.perms /\ latest'.rules = latest.rules
            \/ /\ x.tx # None /\ x.tx.kind = "criteria"
               /\ latest'.rules = x.tx.rules /\ latest'.perms = latest.perms
<1>1. /\ x \in C!Transaction /\ latest \in C!Network /\ x.slot \in Slots
      /\ x.tx # None => x.tx.perms \in C!Permissions /\ x.tx.rules \in C!Rules
                        /\ x.tx.kind \in {"permission", "criteria"}
  BY ConnectTypedNow, TransactionIs, SetupIs
<1>2. /\ latest.mined[x.slot] = C!NotMined
      /\ UNCHANGED <<session, connectPage, finalState, connectSent, changes, moved, agreed>>
  BY DEF C!Mine
<1>3. PICK ok \in BOOLEAN : latest' = MinedTo(x, ok)
  BY Zenon DEF C!Mine, MinedTo
<1>4. /\ latest.perms \in C!Permissions /\ latest.rules \in C!Rules
      /\ latest.mined \in [Slots -> {C!NotMined} \cup [x : C!Transaction, ok : BOOLEAN]]
  BY <1>1, NetworkIs
<1>5. /\ latest'.perms = IF ok /\ x.tx # None /\ x.tx.kind = "permission" THEN x.tx.perms ELSE latest.perms
      /\ latest'.rules = IF ok /\ x.tx # None /\ x.tx.kind = "criteria" THEN x.tx.rules ELSE latest.rules
      /\ latest'.mined = [latest.mined EXCEPT ![x.slot] = [x |-> x, ok |-> ok]]
  BY <1>3 DEF MinedTo
<1>6. [x |-> x, ok |-> ok] \in [x : C!Transaction, ok : BOOLEAN] /\ [x |-> x, ok |-> ok] # C!NotMined
  BY <1>1, MinedMarks
<1>7. /\ latest'.mined \in [Slots -> {C!NotMined} \cup [x : C!Transaction, ok : BOOLEAN]]
      /\ latest'.mined[x.slot] # C!NotMined
      /\ \A s \in Slots : s # x.slot => latest'.mined[s] = latest.mined[s]
  BY <1>1, <1>4, <1>5, <1>6
<1>8. latest'.perms \in C!Permissions /\ latest'.rules \in C!Rules
  BY <1>1, <1>4, <1>5
<1>9. latest' \in C!Network
  <2> DEFINE P == latest'.perms
             R == latest'.rules
             M == latest'.mined
  <2>1. latest' = [perms |-> P, rules |-> R, mined |-> M]
    BY <1>3 DEF MinedTo
  <2>2. P \in C!Permissions /\ R \in C!Rules /\ M \in [Slots -> {C!NotMined} \cup [x : C!Transaction, ok : BOOLEAN]]
    BY <1>7, <1>8
  <2> HIDE DEF P, R, M
  <2> QED
    BY <2>1, <2>2 DEF C!Network
<1> QED
  BY <1>1, <1>2, <1>5, <1>7, <1>9

LEMMA MineKeeps ==
  ASSUME ConnectInv, NEW x \in connectSent, C!Mine(x)
  PROVE  ConnectInv'
<1>1. /\ x \in C!Transaction /\ x.slot \in Slots /\ latest.mined[x.slot] = C!NotMined
      /\ UNCHANGED <<session, connectPage, finalState, connectSent, changes, moved, agreed>>
      /\ latest' \in C!Network /\ latest'.mined[x.slot] # C!NotMined
      /\ \A s \in Slots : s # x.slot => latest'.mined[s] = latest.mined[s]
  BY MineIs, TransactionIs DEF ConnectInv
<1>2. ConnectTypeInv'
  BY <1>1, ConnectTypedNow, NetworkTypes DEF ConnectInv
<1>3. \A y : Open(y)' <=> Open(y)
  BY <1>1 DEF Open, Asked
<1>4. MinedInv'
  BY <1>1 DEF ConnectInv, MinedInv
<1>5. ConnectFoundInv' /\ PlanInv'
  BY <1>1, <1>3 DEF ConnectInv, ConnectFoundInv, PlanInv, Wanted
<1>6. x.tx # None => Open(x)
  BY <1>1 DEF ConnectInv, MinedInv, Open, Asked
<1>7. x.tx # None => session.tx = x.tx /\ session.attempt.slot = x.slot /\ Wanted(x.tx, session.expected)
  BY <1>1, <1>6 DEF ConnectInv, ConnectFoundInv, PlanInv
<1>8. AgreedInv'
  <2> SUFFICES ASSUME agreed # None
               PROVE  /\ "adjust" \in latest'.perms /\ latest'.rules = agreed
                      /\ "adjust" \in finalState.perms /\ finalState.rules = agreed
                      /\ \A y \in C!Transaction : Open(y) => session.expected = agreed
    BY <1>1, <1>3 DEF AgreedInv
  <2>1. /\ "adjust" \in latest.perms /\ latest.rules = agreed
        /\ "adjust" \in finalState.perms /\ finalState.rules = agreed
        /\ \A y \in C!Transaction : Open(y) => session.expected = agreed
    BY DEF ConnectInv, AgreedInv
  <2>2. x.tx # None => session.expected = agreed
    BY <1>1, <1>6, <2>1
  <2>3. CASE latest'.perms = latest.perms /\ latest'.rules = latest.rules
    BY <2>1, <2>3
  <2>4. CASE /\ x.tx # None /\ x.tx.kind = "permission"
             /\ latest'.perms = x.tx.perms /\ latest'.rules = latest.rules
    BY <1>7, <2>1, <2>4 DEF Wanted
  <2>5. CASE /\ x.tx # None /\ x.tx.kind = "criteria"
             /\ latest'.rules = x.tx.rules /\ latest'.perms = latest.perms
    BY <1>7, <2>1, <2>2, <2>5 DEF Wanted
  <2> QED
    BY <2>3, <2>4, <2>5, MineIs DEF ConnectInv
<1>9. FitsInv'
  <2> SUFFICES ASSUME ~moved, NEW y \in C!Transaction, Open(y), latest'.mined[y.slot] = C!NotMined
               PROVE  Fits(y.tx)'
    BY <1>1, <1>3 DEF FitsInv
  <2>1. y.slot # x.slot /\ session.attempt.slot = y.slot /\ latest.mined[y.slot] = C!NotMined
    BY <1>1, TransactionIs DEF ConnectInv, ConnectFoundInv
  <2>2. x.tx = None
    BY <1>7, <2>1
  <2>3. latest'.perms = latest.perms /\ latest'.rules = latest.rules
    BY <2>2, MineIs DEF ConnectInv
  <2>4. Fits(y.tx)
    BY <2>1 DEF ConnectInv, FitsInv
  <2> QED
    BY <2>3, <2>4 DEF Fits
<1> QED
  BY <1>2, <1>4, <1>5, <1>8, <1>9 DEF ConnectInv

LEMMA MineOtherIs ==
  ASSUME ConnectTypeInv, NEW s \in Slots, C!MineOther(s)
  PROVE  /\ latest.mined[s] = C!NotMined /\ changes' \in 0..MaxChanges
         /\ UNCHANGED <<session, connectPage, finalState, moved, agreed>>
         /\ latest' \in C!Network /\ latest'.mined[s] # C!NotMined
         /\ \A z \in Slots : z # s => latest'.mined[z] = latest.mined[z]
         /\ latest'.perms = latest.perms /\ latest'.rules = latest.rules
         /\ connectSent' = connectSent \cup {[slot |-> s, tx |-> None]}
         /\ [slot |-> s, tx |-> None] \in C!Transaction
<1>1. latest \in C!Network /\ changes \in 0..MaxChanges
  BY ConnectTypedNow
<1>2. /\ latest.mined[s] = C!NotMined /\ UNCHANGED <<session, connectPage, finalState, moved, agreed>>
      /\ connectSent' = connectSent \cup {[slot |-> s, tx |-> None]} /\ changes' = changes + 1
      /\ changes < MaxChanges
  BY DEF C!MineOther
<1>3. [slot |-> s, tx |-> None] \in C!Transaction
  BY DEF C!Transaction
<1> DEFINE x == [slot |-> s, tx |-> None]
           m == [x |-> x, ok |-> TRUE]
<1>4. m \in [x : C!Transaction, ok : BOOLEAN] /\ m # C!NotMined
  BY <1>3, MinedMarks
<1>5. latest' = [latest EXCEPT !.mined[s] = m]
  BY DEF C!MineOther
<1> HIDE DEF m
<1>6. /\ latest' \in C!Network /\ latest'.mined[s] # C!NotMined
      /\ \A z \in Slots : z # s => latest'.mined[z] = latest.mined[z]
      /\ latest'.perms = latest.perms /\ latest'.rules = latest.rules
  BY <1>1, <1>4, <1>5 DEF C!Network
<1>7. changes' \in 0..MaxChanges
  BY <1>1, <1>2, ConnectNone
<1> QED
  BY <1>2, <1>3, <1>6, <1>7

LEMMA MineOtherKeeps ==
  ASSUME ConnectInv, NEW s \in Slots, C!MineOther(s)
  PROVE  ConnectInv'
<1>1. /\ UNCHANGED <<session, connectPage, finalState, moved, agreed>> /\ changes' \in 0..MaxChanges
      /\ latest' \in C!Network /\ latest'.mined[s] # C!NotMined
      /\ \A z \in Slots : z # s => latest'.mined[z] = latest.mined[z]
      /\ latest'.perms = latest.perms /\ latest'.rules = latest.rules
      /\ connectSent' = connectSent \cup {[slot |-> s, tx |-> None]}
      /\ [slot |-> s, tx |-> None] \in C!Transaction
  BY MineOtherIs DEF ConnectInv
<1>2. ConnectTypeInv'
  BY <1>1, ConnectTypedNow, NetworkTypes DEF ConnectInv
<1>3. \A y : Open(y)' => Open(y)
  BY <1>1 DEF Open, Asked
<1>4. MinedInv' /\ ConnectFoundInv' /\ PlanInv'
  BY <1>1, <1>3 DEF ConnectInv, MinedInv, ConnectFoundInv, PlanInv, Wanted
<1>5. AgreedInv'
  BY <1>1, <1>3 DEF ConnectInv, AgreedInv
<1>6. FitsInv'
  BY <1>1, <1>3, TransactionIs DEF ConnectInv, FitsInv, Fits
<1> QED
  BY <1>2, <1>4, <1>5, <1>6 DEF ConnectInv

LEMMA ChangeKeeps ==
  ASSUME ConnectInv, C!ChangeElsewhere
  PROVE  ConnectInv'
<1>1. /\ UNCHANGED <<session, connectPage, finalState, connectSent>> /\ moved' = TRUE /\ agreed' = None
      /\ changes' = changes + 1 /\ changes < MaxChanges
  BY DEF C!ChangeElsewhere
<1>2. latest \in C!Network /\ changes \in 0..MaxChanges
  BY ConnectTypedNow DEF ConnectInv
<1>3. latest' \in C!Network /\ latest'.mined = latest.mined
  <2>1. CASE \E perms \in C!Permissions : latest' = [latest EXCEPT !.perms = perms]
    BY <1>2, <2>1 DEF C!Network
  <2>2. CASE \E price \in Prices : latest' = [latest EXCEPT !.rules = [price |-> price, rest |-> "theirs"]]
    <3>1. PICK price \in Prices : latest' = [latest EXCEPT !.rules = [price |-> price, rest |-> "theirs"]]
      BY <2>2
    <3> DEFINE r == [price |-> price, rest |-> "theirs"]
    <3>2. r \in C!Rules /\ latest' = [latest EXCEPT !.rules = r]
      BY <3>1, RulesAre
    <3> HIDE DEF r
    <3> QED
      BY <1>2, <3>2 DEF C!Network
  <2> QED
    BY <2>1, <2>2 DEF C!ChangeElsewhere
<1>4. changes' \in 0..MaxChanges
  BY <1>1, <1>2, ConnectNone
<1>5. ConnectTypeInv'
  BY <1>1, <1>3, <1>4, ConnectTypedNow, NetworkTypes DEF ConnectInv
<1>6. \A y : Open(y)' => Open(y)
  BY <1>1 DEF Open, Asked
<1>7. MinedInv' /\ ConnectFoundInv' /\ PlanInv'
  BY <1>1, <1>3, <1>6 DEF ConnectInv, MinedInv, ConnectFoundInv, PlanInv, Wanted
<1> QED
  BY <1>1, <1>5, <1>7 DEF ConnectInv, AgreedInv, FitsInv

(* The newest state falls back to the final one, or becomes final. *)
LEMMA ChainKeeps ==
  ASSUME ConnectInv, C!Reorganise \/ C!Finalise
  PROVE  ConnectInv'
<1>1. UNCHANGED <<session, connectPage, connectSent, agreed>> /\ latest \in C!Network /\ finalState \in C!Network /\ changes \in 0..MaxChanges
  BY ConnectTypedNow DEF C!Reorganise, C!Finalise, ConnectInv
<1>2. CASE C!Reorganise
  <2>1. latest' = finalState /\ finalState' = finalState /\ moved' = TRUE /\ changes' \in 0..MaxChanges
    BY <1>1, <1>2, ConnectNone DEF C!Reorganise
  <2>2. ConnectTypeInv'
    BY <1>1, <2>1, ConnectTypedNow, NetworkTypes DEF ConnectInv
  <2>3. \A y : Open(y)' => Open(y)
    BY <1>1, <2>1 DEF Open, Asked
  <2>4. MinedInv' /\ ConnectFoundInv' /\ PlanInv'
    BY <1>1, <2>1, <2>3 DEF ConnectInv, MinedInv, ConnectFoundInv, PlanInv, Wanted
  <2>5. AgreedInv' /\ FitsInv'
    BY <1>1, <2>1, <2>3 DEF ConnectInv, AgreedInv, FitsInv
  <2> QED
    BY <2>2, <2>4, <2>5 DEF ConnectInv
<1>3. CASE C!Finalise
  <2>1. latest' = latest /\ finalState' = latest /\ UNCHANGED <<moved, changes>>
    BY <1>3 DEF C!Finalise
  <2>2. ConnectTypeInv'
    BY <1>1, <2>1, ConnectTypedNow, NetworkTypes DEF ConnectInv
  <2>3. \A y \in C!Transaction : Open(y)' => Open(y)
    BY <1>1, <2>1, TransactionIs DEF ConnectInv, MinedInv, Open, Asked
  <2>4. ConnectFoundInv'
    <3>1. session.attempt.state = "confirmed" => session.attempt.slot \in Slots
      BY ConnectTypedNow, SessionIs, AttemptIs DEF ConnectInv
    <3> QED
      BY <1>1, <2>1, <2>3, <3>1 DEF ConnectInv, MinedInv, ConnectFoundInv
  <2>5. MinedInv' /\ PlanInv'
    BY <1>1, <2>1 DEF ConnectInv, MinedInv, PlanInv, Wanted
  <2>6. AgreedInv' /\ FitsInv'
    BY <1>1, <2>1, <2>3 DEF ConnectInv, AgreedInv, FitsInv, Fits
  <2> QED
    BY <2>2, <2>4, <2>5, <2>6 DEF ConnectInv
<1> QED
  BY <1>2, <1>3

-----------------------------------------------------------------------------
LEMMA ConnectInit == C!Init => ConnectInv
<1> SUFFICES ASSUME C!Init PROVE ConnectInv
  OBVIOUS
<1>1. PICK perms \in {{"other"}, {"other", "adjust"}}, rules \in {C!Unset} \cup [price : Prices, rest : {"theirs"}] :
        latest = [perms |-> perms, rules |-> rules, mined |-> [s \in Slots |-> C!NotMined]]
  BY Zenon DEF C!Init
<1>2. perms \in C!Permissions /\ rules \in C!Rules
  BY DEF C!Permissions, C!Rules
<1>3. latest \in C!Network /\ finalState = latest /\ \A s \in Slots : latest.mined[s] = C!NotMined
  BY <1>1, <1>2 DEF C!Network, C!Init
<1>4. session \in C!Session /\ session.tx = None /\ session.expected = None /\ session.attempt = C!NoAttempt
  BY DEF C!Init, C!Opened, C!Session
<1>5. connectPage \in [Pages -> C!Page] /\ \A t \in Pages : connectPage[t].pc = "closed"
  BY OpenedPage DEF C!Init, C!Closed
<1>6. ConnectTypeInv
  <2>1. changes \in 0..MaxChanges /\ moved \in BOOLEAN /\ agreed \in C!Rules \cup {None} /\ connectSent \subseteq C!Transaction
    <3>1. changes = 0 /\ connectSent = {} /\ moved = FALSE /\ agreed = None
      BY Zenon DEF C!Init
    <3>2. 0 \in 0..MaxChanges
      BY ConnectNone
    <3> QED
      BY <3>1, <3>2
  <2> QED
    BY <1>3, <1>4, <1>5, <2>1 DEF ConnectTypeInv, C!TypeOK
<1>7. \A x \in C!Transaction : ~Open(x)
  BY <1>5 DEF C!Init, Open, Asked
<1> QED
  BY <1>3, <1>4, <1>6, <1>7, AttemptIs
  DEF ConnectInv, MinedInv, ConnectFoundInv, PlanInv, AgreedInv, FitsInv, C!Init

LEMMA ConnectStep == ASSUME ConnectInv, [C!Next]_(C!vars) PROVE ConnectInv'
<1>1. ASSUME NEW t \in Pages, \/ C!Load(t) \/ C!EditPrice(t) \/ C!ReviewSaved(t)
                              \/ \E price \in Prices : C!PlanConnection(t, price)
                              \/ \E s \in Slots : C!Approve(t, s)
                              \/ C!Broadcast(t) \/ C!Reject(t) \/ C!Submitted(t) \/ C!Cancelled(t) \/ C!Finish(t)
                              \/ \E x \in connectSent : C!Verify(t, x)
      PROVE  ConnectInv'
  BY <1>1, PageKeeps, PlanKeeps, ApproveKeeps, BroadcastKeeps, AnswerKeeps, FinishKeeps,
     VerifyKeeps
<1>2. CASE UNCHANGED C!vars
  <2>1. UNCHANGED <<session, connectPage, latest, finalState, connectSent, changes, moved, agreed>>
    BY <1>2 DEF C!vars
  <2>2. ConnectTypeInv'
    BY <2>1, ConnectTypedNow, ConnectTyped DEF ConnectInv
  <2>3. \A x : Open(x)' <=> Open(x)
    BY <2>1 DEF Open, Asked
  <2> QED
    BY <2>1, <2>2, <2>3
    DEF ConnectInv, MinedInv, ConnectFoundInv, PlanInv, Wanted, AgreedInv, FitsInv, Fits
<1> QED
  BY <1>1, <1>2, MineKeeps, MineOtherKeeps, ChangeKeeps, ChainKeeps DEF C!Next

LEMMA ConnectKept == C!Spec => []ConnectInv
  BY ConnectInit, ConnectStep, PTL DEF C!Spec

(* A transaction to connect a shop that may still be mined is the saved one,
   whatever pages plan, sign and check in turn (signing, verify,
   PlanConnection). *)
THEOREM ConnectionsFound == C!Spec => []ConnectionFound
<1>1. ConnectInv => ConnectionFound
  <2> SUFFICES ASSUME ConnectInv PROVE ConnectionFound
    OBVIOUS
  <2>1. C!TypeOK /\ connectSent \subseteq C!Transaction
    BY ConnectTypedNow DEF ConnectInv, ConnectTypeInv
  <2> QED
    BY <2>1 DEF ConnectInv, ConnectFoundInv, ConnectionFound, C!NothingLost, Open, Asked
<1> QED
  BY <1>1, ConnectKept, PTL

(* A shop that was connected stays connected until another transaction is
   signed or the owner changes the shop: what may still be mined by then
   leads to the same rules (finish). *)
THEOREM ConnectionStays == C!Spec => []ConnectedStays
<1>1. ConnectInv => ConnectedStays
  BY DEF ConnectInv, AgreedInv, C!ConnectedStays, ConnectedStays
<1> QED
  BY <1>1, ConnectKept, PTL

(* A transaction of ours keeps the permissions and rules it is not about,
   although it writes them all, unless the network changed the shop since it
   was last compared (signing, NextSetup). *)
THEOREM ConnectingKeepsTheRest == C!Spec => KeepsTheRest
<1> DEFINE Step == \A s \in Slots :
                     ~moved /\ latest.mined[s] = C!NotMined /\ latest'.mined[s] # C!NotMined =>
                       /\ latest.perms \subseteq latest'.perms
                       /\ latest.rules = C!Unset \/ latest'.rules.rest = latest.rules.rest
<1>1. ASSUME ConnectInv, [C!Next]_(C!vars)
      PROVE  Step
  <2> SUFFICES ASSUME NEW s \in Slots, ~moved, latest.mined[s] = C!NotMined, latest'.mined[s] # C!NotMined
               PROVE  /\ latest.perms \subseteq latest'.perms
                      /\ latest.rules = C!Unset \/ latest'.rules.rest = latest.rules.rest
    OBVIOUS
  <2>1. latest' # latest /\ ConnectTypeInv
    BY <1>1 DEF ConnectInv
  <2>2. CASE \E x \in connectSent : C!Mine(x)
    <3>1. PICK x \in connectSent : C!Mine(x)
      BY <2>2
    <3>2. x \in C!Transaction /\ x.slot = s
      BY <2>1, <3>1, MineIs
    <3>3. CASE x.tx = None
      BY <2>1, <3>1, <3>3, MineIs
    <3>4. CASE x.tx # None
      <4>1. Open(x)
        BY <1>1, <3>2, <3>4 DEF ConnectInv, MinedInv, Open, Asked
      <4>2. Fits(x.tx)
        BY <1>1, <3>2, <4>1 DEF ConnectInv, FitsInv
      <4> QED
        BY <2>1, <3>1, <4>2, MineIs DEF Fits
    <3> QED
      BY <3>3, <3>4
  <2>3. CASE \E z \in Slots : C!MineOther(z)
    BY <2>1, <2>3, MineOtherIs
  <2>4. CASE C!ChangeElsewhere
    <3>1. latest'.mined = latest.mined
      BY <2>1, <2>4, ConnectTypedNow DEF C!ChangeElsewhere, C!Network
    <3> QED
      BY <3>1
  <2>5. CASE C!Reorganise
    BY <1>1, <2>5 DEF ConnectInv, MinedInv, C!Reorganise
  <2>6. ASSUME NEW t \in Pages, \/ C!Load(t) \/ C!EditPrice(t) \/ C!ReviewSaved(t)
                                \/ \E price \in Prices : C!PlanConnection(t, price)
                                \/ \E sl \in Slots : C!Approve(t, sl)
                                \/ C!Broadcast(t) \/ C!Reject(t) \/ C!Submitted(t) \/ C!Cancelled(t) \/ C!Finish(t)
                                \/ \E x \in connectSent : C!Verify(t, x)
        PROVE  latest' = latest
    BY <2>6 DEF C!Load, C!EditPrice, C!ReviewSaved, C!PlanConnection, C!Approve, C!Broadcast,
       C!Reject,
                C!Submitted, C!Cancelled, C!Finish, C!Verify, C!network
  <2>7. CASE C!Finalise \/ UNCHANGED C!vars
    BY <2>7 DEF C!Finalise, C!vars
  <2> QED
    BY <1>1, <2>1, <2>2, <2>3, <2>4, <2>5, <2>6, <2>7 DEF C!Next
<1>2. ASSUME ConnectInv, [C!Next]_(C!vars)
      PROVE  [Step]_(C!vars)
  BY <1>1, <1>2
<1> QED
  BY <1>2, ConnectKept, PTL DEF C!Spec, C!KeepsTheRest, KeepsTheRest
=============================================================================
