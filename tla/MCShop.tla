------------------------------- MODULE MCShop -------------------------------
(***************************************************************************)
(* Instances of ShopDeploy and ShopConnect: the person creates a shop on a *)
(* network, or connects one that exists there.  The two have nothing in    *)
(* common but the wallet, and each is explored alone.  A shop that is      *)
(* connected lets Croptop add posts but has no rules yet, or has its rules *)
(* but not the permission.                                                 *)
(***************************************************************************)
EXTENDS ShopDeploy, TLC

CONSTANTS Prices, MaxChanges

VARIABLES
  connects,   \* whether a shop is connected, and not created
  session, connectPage, latest, finalState, connectSent, changes, moved, agreed

C == INSTANCE ShopConnect
  WITH page <- connectPage, final <- finalState, sent <- connectSent

ASSUME ConnectConstants == C!ConnectAssumption

connectVars == <<session, connectPage, latest, finalState, connectSent, changes, moved, agreed>>

EitherInit ==
  /\ Init /\ C!Init
  /\ connects \in BOOLEAN
  /\ connects => fee = CHOOSE f \in Fees : TRUE
  /\ (latest.rules = C!Unset) <=> ("adjust" \in latest.perms)
  /\ ~connects => latest.rules = C!Unset

EitherNext ==
  /\ UNCHANGED connects
  /\ \/ ~connects /\ Next /\ UNCHANGED connectVars
     \/ connects /\ C!Next /\ UNCHANGED vars

EitherSpec == EitherInit /\ [][EitherNext]_<<vars, connectVars, connects>>

-----------------------------------------------------------------------------
(* A transaction to connect a shop that is mined keeps the rules and the
   permissions it is not about (NextSetup, signing in shop_connect.go). *)
KeepsTheRest == C!KeepsTheRest

(* A transaction to connect a shop that may still be mined can be found again
   (signing and verify in shop_connect.go). *)
ConnectionFound == C!TypeOK /\ C!NothingLost

(* A shop that was connected stays connected (finish in shop_connect.go). *)
ConnectedStays == C!ConnectedStays

ShopSymmetry ==
  Permutations(Pages) \cup Permutations(Slots) \cup Permutations(Prices) \cup Permutations(Fees)
=============================================================================
