--------------------------- MODULE Worker_proofs ----------------------------
(***************************************************************************)
(* Proofs about the Worker.  The host is sound for any number of keys,     *)
(* names, files, versions, requests and pushes, however their calls        *)
(* interleave; an answer is fresh for any number of readers, sources and   *)
(* versions, any RESOLVE_TTL and any time a request may take.              *)
(***************************************************************************)
EXTENDS Worker, Integers, TLAPS

PushPcs == {"head", "owner", "own", "files", "carry", "move", "check", "moveAgain",
            "save", "mark", "notify"}
ClaimPcs == {"readEntry", "free", "name", "saveName"}

-----------------------------------------------------------------------------
(* A push in Pushes has every field of its type. *)
LEMMA PushFields ==
  ASSUME NEW p \in Pushes
  PROVE  /\ p.key \in Keys /\ p.cid \in Versions /\ p.seq \in Seqs
         /\ p.parent \in Versions \cup {NoVersion}
         /\ p.own \in SUBSET Files /\ p.manifest \in BOOLEAN
         /\ p.carry \in SUBSET PathsIn(Files)
         /\ p.own \subseteq p.cid /\ p.cid \subseteq Files
  BY ConstantsAssumption DEF PushType

(* A request at a step of a push is a push, one at a step of a claim a
   claim. *)
LEMMA PushRequest ==
  ASSUME TypeOK, NEW r \in Requests, req[r].pc \in PushPcs
  PROVE  req[r] \in Pushing /\ req[r].push \in Pushes
<1>1. req[r] \in Pushing \cup Claiming \cup {Idle}
  BY DEF TypeOK
<1> QED
  BY <1>1 DEF PushPcs, Pushing, Claiming, Idle

LEMMA ClaimRequest ==
  ASSUME TypeOK, NEW r \in Requests, req[r].pc \in ClaimPcs
  PROVE  req[r] \in Claiming
<1>1. req[r] \in Pushing \cup Claiming \cup {Idle}
  BY DEF TypeOK
<1> QED
  BY <1>1 DEF ClaimPcs, Pushing, Idle

(* What a step does to the requests: one of them moves on or ends. *)
LEMMA Advanced ==
  ASSUME TypeOK, NEW r \in Requests, NEW pc, Advance(r, pc),
         \/ req[r].pc \in PushPcs /\ pc \in PushPcs
         \/ req[r].pc \in ClaimPcs /\ pc \in ClaimPcs
  PROVE  /\ req' \in [Requests -> Pushing \cup Claiming \cup {Idle}]
         /\ req'[r].pc = pc
         /\ \A q \in Requests \ {r} : req'[q] = req[q]
         /\ req[r].pc \in PushPcs =>
              /\ req[r] \in Pushing /\ req'[r] \in Pushing
              /\ req'[r].push = req[r].push /\ req'[r].left = req[r].left
              /\ req'[r].existing = req[r].existing
              /\ req'[r].cur = req[r].cur /\ req'[r].etag = req[r].etag
         /\ req[r].pc \in ClaimPcs =>
              /\ req[r] \in Claiming /\ req'[r] \in Claiming
              /\ req'[r].key = req[r].key /\ req'[r].name = req[r].name
              /\ req'[r].seen = req[r].seen /\ req'[r].existing = req[r].existing
<1>1. req' = [req EXCEPT ![r].pc = pc] /\ req \in [Requests -> Pushing \cup Claiming \cup {Idle}]
  BY DEF Advance, TypeOK
<1>2. CASE req[r].pc \in PushPcs /\ pc \in PushPcs
  BY <1>1, <1>2, PushRequest DEF Pushing, PushPcs, ClaimPcs
<1>3. CASE req[r].pc \in ClaimPcs /\ pc \in ClaimPcs
  BY <1>1, <1>3, ClaimRequest DEF Claiming, PushPcs, ClaimPcs
<1> QED
  BY <1>2, <1>3

LEMMA Finished ==
  ASSUME TypeOK, NEW r \in Requests, Finish(r)
  PROVE  /\ req' \in [Requests -> Pushing \cup Claiming \cup {Idle}]
         /\ req'[r] = Idle /\ req'[r].pc = "idle"
         /\ \A q \in Requests \ {r} : req'[q] = req[q]
  BY DEF Finish, TypeOK, Idle

(* The head of a key, or what its entry says, is a head. *)
LEMMA HeadOfType ==
  ASSUME TypeOK, NEW k \in Keys, NEW e \in Entry
  PROVE  headOf(k, e) \in HeadType /\ HeadIn(e) \in HeadType /\ heads[k] \in HeadType /\ NoHead \in HeadType
  BY ConstantsAssumption DEF TypeOK, headOf, HeadIn, Entry, HeadType, NoHead

(* Where a push says its files are, once its parent's map is m. *)
LEMMA MapAfterType ==
  ASSUME TypeOK, NEW p \in Pushes, p.parent # NoVersion, NEW m \in carryOf(p.parent)
  PROVE  MapAfter(p, m) \in Maps
<1>1. p.parent \in Versions /\ stored[p.parent] \subseteq Files
  BY PushFields DEF TypeOK
<1>2. m \subseteq PathsIn(Files) \X Versions
  BY <1>1 DEF carryOf, TypeOK, Maps
<1>3. {<<PathOf[f], p.parent>> : f \in stored[p.parent]} \subseteq PathsIn(Files) \X Versions
  BY <1>1 DEF PathsIn
<1>4. MapAfter(p, m) \subseteq {<<PathOf[f], p.parent>> : f \in stored[p.parent]} \cup m
  BY DEF MapAfter
<1> QED
  BY <1>2, <1>3, <1>4 DEF Maps

-----------------------------------------------------------------------------
(* Every store and every request keep their shape. *)
THEOREM TypeCorrect == Spec => []TypeOK
<1> DEFINE Reqs == [Requests -> Pushing \cup Claiming \cup {Idle}]
<1>1. Init => TypeOK
  <2> SUFFICES ASSUME Init PROVE TypeOK
    OBVIOUS
  <2>1. entry \in [Keys -> Entry]
    BY ConstantsAssumption, PushFields DEF Init, NoEntry, Entry
  <2>2. \A k \in Keys : entry[k].cid \in Versions \cup {NoVersion}
    BY <2>1 DEF Entry
  <2>3. /\ stored = [c \in Versions |-> IF \E k \in Keys : entry[k].cid = c THEN c ELSE {}]
        /\ pushed = [c \in Versions |-> IF \E k \in Keys : entry[k].cid = c THEN "1" ELSE "no"]
    BY DEF Init
  <2>4. stored \in [Versions -> SUBSET Files] /\ pushed \in [Versions -> {"no", "1", "manifest"}]
    BY <2>3, ConstantsAssumption
  <2>5. heads \in [Keys -> HeadType]
    BY ConstantsAssumption DEF Init, NoHead, HeadType
  <2> QED
    BY <2>1, <2>4, <2>5 DEF Init, TypeOK
<1>2. TypeOK /\ [Next]_vars => TypeOK'
  <2> SUFFICES ASSUME TypeOK, [Next]_vars PROVE TypeOK'
    OBVIOUS
  <2>1. ASSUME NEW r \in Requests, NEW p \in Pushes, NEW part \in SUBSET p.own, BeginPush(r, p, part)
        PROVE  TypeOK'
    <3> DEFINE q == [pc |-> "head", push |-> p, left |-> part,
                     last |-> p.own \ part \subseteq stored[p.cid],
                     existing |-> entry[p.key], cur |-> NoHead, etag |-> NoHead]
    <3>1. entry[p.key] \in Entry /\ NoHead \in HeadType /\ part \in SUBSET Files
      BY PushFields, ConstantsAssumption DEF TypeOK, NoHead, HeadType
    <3>2. q \in Pushing
      BY <3>1 DEF Pushing
    <3>3. req' \in Reqs
      BY <2>1, <3>2 DEF BeginPush, TypeOK
    <3> QED
      BY <2>1, <3>3 DEF BeginPush, TypeOK
  <2>2. ASSUME NEW r \in Requests, ReadHead(r) PROVE TypeOK'
    <3> DEFINE cur == headOf(req[r].push.key, req[r].existing)
    <3>1. req[r] \in Pushing /\ req[r].push \in Pushes
      BY <2>2, PushRequest DEF ReadHead, At, PushPcs
    <3>2. req[r].existing \in Entry /\ req[r].push.key \in Keys
      BY <3>1, PushFields DEF Pushing
    <3>3. cur \in HeadType /\ heads[req[r].push.key] \in HeadType
      BY <3>2, HeadOfType
    <3>4. [req[r] EXCEPT !.pc = "owner", !.cur = cur, !.etag = heads[req[r].push.key]] \in Pushing
      BY <3>1, <3>3 DEF Pushing
    <3>5. req' \in Reqs
      BY <2>2, <3>4, Finished DEF ReadHead, TypeOK
    <3> QED
      BY <2>2, <3>5 DEF ReadHead, TypeOK
  <2>3. ASSUME NEW r \in Requests, NEW pc \in PushPcs, req[r].pc \in PushPcs, Advance(r, pc)
        PROVE  req' \in Reqs
    BY <2>3, Advanced
  <2>4. ASSUME NEW r \in Requests, Finish(r) PROVE req' \in Reqs
    BY <2>4, Finished
  <2>5. ASSUME NEW r \in Requests, ReadOwner(r) \/ FilesStored(r) \/ NotifyNode(r) PROVE TypeOK'
    <3>1. req' \in Reqs
      BY <2>3, <2>4, <2>5 DEF ReadOwner, FilesStored, NotifyNode, At, PushPcs
    <3> QED
      BY <2>5, <3>1 DEF ReadOwner, FilesStored, NotifyNode, TypeOK
  <2>6. ASSUME NEW r \in Requests, PutOwner(r) \/ MarkPushed(r) PROVE TypeOK'
    <3>1. req[r].pc \in PushPcs
      BY <2>6 DEF PutOwner, MarkPushed, At, PushPcs
    <3>2. req[r].push.cid \in Versions /\ req[r].push.key \in Keys
      BY <3>1, PushRequest, PushFields
    <3>3. req' \in Reqs
      BY <2>3, <2>6, <3>1 DEF PutOwner, MarkPushed, PushPcs
    <3> QED
      BY <2>6, <3>2, <3>3 DEF PutOwner, MarkPushed, TypeOK
  <2>7. ASSUME NEW r \in Requests, NEW f \in Files, StoreFile(r, f) PROVE TypeOK'
    <3>1. req[r] \in Pushing /\ req[r].push.cid \in Versions
      BY <2>7, PushRequest, PushFields DEF StoreFile, At, PushPcs
    <3>2. [req[r] EXCEPT !.left = @ \ {f}] \in Pushing
      BY <3>1 DEF Pushing
    <3>3. req' \in Reqs
      BY <2>7, <3>2 DEF StoreFile, TypeOK
    <3> QED
      BY <2>7, <3>1, <3>3 DEF StoreFile, TypeOK
  <2>8. ASSUME NEW r \in Requests, SaveCarry(r) PROVE TypeOK'
    <3> DEFINE p == req[r].push
    <3>1. req[r].pc \in PushPcs /\ p \in Pushes /\ p.cid \in Versions
      BY <2>8, PushRequest, PushFields DEF SaveCarry, At, PushPcs
    <3>2. req' \in Reqs
      BY <2>3, <2>4, <2>8, <3>1 DEF SaveCarry, PushPcs
    <3>3. \/ UNCHANGED maps
          \/ \E m \in carryOf(p.parent) :
               p.parent # NoVersion /\ maps' = [maps EXCEPT ![p.cid] = @ \cup {MapAfter(p, m)}]
      BY <2>8 DEF SaveCarry
    <3> DEFINE MapsOK == DOMAIN maps' = Versions /\ \A c \in Versions : \A m \in maps'[c] : m \in Maps
    <3>4. MapsOK
      <4>1. CASE UNCHANGED maps
        BY <4>1 DEF TypeOK
      <4>2. ASSUME NEW m \in carryOf(p.parent), p.parent # NoVersion,
                   maps' = [maps EXCEPT ![p.cid] = @ \cup {MapAfter(p, m)}]
            PROVE  MapsOK
        BY <3>1, <4>2, MapAfterType DEF TypeOK
      <4> QED
        BY <3>3, <4>1, <4>2
    <3> QED
      BY <2>8, <3>2, <3>4 DEF SaveCarry, TypeOK
  <2>9. ASSUME NEW r \in Requests, MoveHead(r) PROVE TypeOK'
    <3> DEFINE p == req[r].push
    <3>1. req[r].pc \in PushPcs
      BY <2>9 DEF MoveHead, PushPcs
    <3>2. p.key \in Keys /\ [cid |-> p.cid, seq |-> p.seq] \in HeadType
      BY <3>1, PushRequest, PushFields DEF HeadType
    <3>3. req' \in Reqs
      BY <2>3, <2>4, <2>9, <3>1 DEF MoveHead, PushPcs
    <3> QED
      BY <2>9, <3>2, <3>3 DEF MoveHead, TypeOK
  <2>10. ASSUME NEW r \in Requests, CheckAgain(r) PROVE TypeOK'
    <3> DEFINE k == req[r].push.key
               now == headOf(k, entry[k])
    <3>1. req[r] \in Pushing /\ k \in Keys
      BY <2>10, PushRequest, PushFields DEF CheckAgain, At, PushPcs
    <3>2. now \in HeadType /\ heads[k] \in HeadType
      BY <3>1, HeadOfType DEF TypeOK
    <3>3. [req[r] EXCEPT !.pc = "moveAgain", !.cur = now, !.etag = heads[k]] \in Pushing
      BY <3>1, <3>2 DEF Pushing
    <3>4. req' \in Reqs
      BY <2>10, <3>3, Finished DEF CheckAgain, TypeOK
    <3> QED
      BY <2>10, <3>4 DEF CheckAgain, TypeOK
  <2>11. ASSUME NEW r \in Requests, SaveEntry(r) PROVE TypeOK'
    <3> DEFINE p == req[r].push
    <3>1. req[r] \in Pushing /\ req[r].pc \in PushPcs /\ p \in Pushes
      BY <2>11, PushRequest DEF SaveEntry, At, PushPcs
    <3>2. p.key \in Keys /\ EntryAfter(req[r].existing, p) \in Entry
      BY <3>1, PushFields DEF Pushing, Entry, EntryAfter
    <3>3. req' \in Reqs
      BY <2>3, <2>11, <3>1 DEF SaveEntry, PushPcs
    <3> QED
      BY <2>11, <3>2, <3>3 DEF SaveEntry, TypeOK
  <2>12. ASSUME NEW r \in Requests, NEW k \in Keys, NEW n \in Names, BeginClaim(r, k, n) PROVE TypeOK'
    <3>1. [pc |-> "readEntry", key |-> k, name |-> n, seen |-> names[n], existing |-> NoEntry] \in Claiming
      BY ConstantsAssumption DEF TypeOK, Claiming, NoEntry, Entry
    <3>2. req' \in Reqs
      BY <2>12, <3>1 DEF BeginClaim, TypeOK
    <3> QED
      BY <2>12, <3>2 DEF BeginClaim, TypeOK
  <2>13. ASSUME NEW r \in Requests, ReadEntry(r) PROVE TypeOK'
    <3> DEFINE e == entry[req[r].key]
    <3>1. req[r] \in Claiming /\ e \in Entry
      BY <2>13, ClaimRequest DEF ReadEntry, At, ClaimPcs, Claiming, TypeOK
    <3>2. \A pc \in {"free", "name"} : [req[r] EXCEPT !.existing = e, !.pc = pc] \in Claiming
      BY <3>1 DEF Claiming
    <3>3. req' \in Reqs
      BY <2>13, <3>2 DEF ReadEntry, TypeOK
    <3> QED
      BY <2>13, <3>3 DEF ReadEntry, TypeOK
  <2>14. ASSUME NEW r \in Requests, FreeName(r) \/ PutName(r) PROVE TypeOK'
    <3>1. req[r].pc \in ClaimPcs /\ req[r] \in Claiming
      BY <2>14, ClaimRequest DEF FreeName, PutName, At, ClaimPcs
    <3>2. req' \in Reqs
      BY <2>14, <3>1, Advanced DEF FreeName, PutName, ClaimPcs
    <3>3. names' \in [Names -> Keys \cup {NoKey}]
      BY <2>14, <3>1 DEF FreeName, PutName, TypeOK, Claiming
    <3>4. loose' \subseteq Keys
      BY <2>14, <3>1 DEF FreeName, PutName, TypeOK, Claiming
    <3> QED
      BY <2>14, <3>2, <3>3, <3>4 DEF FreeName, PutName, TypeOK
  <2>15. ASSUME NEW r \in Requests, SaveName(r) PROVE TypeOK'
    <3>1. req[r] \in Claiming
      BY <2>15, ClaimRequest DEF SaveName, At, ClaimPcs
    <3>2. req[r].key \in Keys /\ Named(req[r].existing, req[r].name) \in Entry
      BY <3>1 DEF Claiming, Entry, Named
    <3> QED
      BY <2>4, <2>15, <3>2 DEF SaveName, TypeOK
  <2>16. ASSUME NEW r \in Requests, Fails(r) PROVE TypeOK'
    <3>1. At(r, "save") => req[r].push.key \in Keys
      BY PushRequest, PushFields DEF At, PushPcs
    <3>2. req[r].pc \in {"name", "saveName"} => req[r].key \in Keys
      BY ClaimRequest DEF ClaimPcs, Claiming
    <3> QED
      BY <2>4, <2>16, <3>1, <3>2 DEF Fails, TypeOK
  <2>17. CASE UNCHANGED vars
    BY <2>17 DEF vars, TypeOK
  <2> QED
    BY <2>1, <2>2, <2>5, <2>6, <2>7, <2>8, <2>9, <2>10, <2>11, <2>12, <2>13, <2>14, <2>15, <2>16, <2>17 DEF Next
<1> QED
  BY <1>1, <1>2, PTL DEF Spec

-----------------------------------------------------------------------------
(* No call but the two that put an entry changes one, and no call but the
   conditional put changes a head. *)
QuietPush(r) ==
  \/ \E p \in Pushes : \E part \in SUBSET p.own : BeginPush(r, p, part)
  \/ ReadHead(r) \/ ReadOwner(r) \/ PutOwner(r)
  \/ \E f \in Files : StoreFile(r, f)
  \/ FilesStored(r) \/ SaveCarry(r) \/ CheckAgain(r) \/ MarkPushed(r) \/ NotifyNode(r)

QuietClaim(r) ==
  \/ \E k \in Keys, n \in Names : BeginClaim(r, k, n)
  \/ ReadEntry(r)

LEMMA QuietPushStep ==
  ASSUME TypeOK, NEW r \in Requests, QuietPush(r)
  PROVE  /\ UNCHANGED <<entry, names, heads, behind, loose>>
         /\ \A q \in Requests \ {r} : req'[q] = req[q]
         /\ req[r].pc \notin ClaimPcs \cup {"save"}
         /\ req'[r].pc \notin ClaimPcs \cup {"save"}
<1>1. UNCHANGED <<entry, names, heads, behind, loose>>
  BY DEF QuietPush, BeginPush, ReadHead, ReadOwner, PutOwner, StoreFile, FilesStored,
         SaveCarry, CheckAgain, MarkPushed, NotifyNode
<1>2. req[r].pc \in (PushPcs \cup {"idle"}) \ {"save"}
  BY DEF QuietPush, BeginPush, ReadHead, ReadOwner, PutOwner, StoreFile, FilesStored,
         SaveCarry, CheckAgain, MarkPushed, NotifyNode, At, PushPcs
<1> DEFINE Moved == /\ \A q \in Requests \ {r} : req'[q] = req[q]
                    /\ req'[r].pc \in (PushPcs \cup {"idle"}) \ {"save"}
<1>3. Moved
  <2>1. CASE \E p \in Pushes : \E part \in SUBSET p.own : BeginPush(r, p, part)
    BY <2>1 DEF BeginPush, TypeOK, PushPcs
  <2>2. ASSUME NEW pc \in PushPcs \ {"save"}, Advance(r, pc) \/ Finish(r), req[r].pc \in PushPcs
        PROVE  Moved
    BY <2>2, Advanced, Finished
  <2>3. CASE ReadHead(r) \/ CheckAgain(r)
    <3>1. req[r] \in Pushing
      BY <2>3, PushRequest DEF ReadHead, CheckAgain, At, PushPcs
    <3> QED
      BY <2>3, <3>1, Finished DEF ReadHead, CheckAgain, TypeOK, Pushing, PushPcs
  <2>4. CASE \E f \in Files : StoreFile(r, f)
    <3>1. req[r] \in Pushing
      BY <2>4, PushRequest DEF StoreFile, At, PushPcs
    <3> QED
      BY <2>4, <3>1 DEF StoreFile, At, TypeOK, Pushing, PushPcs
  <2>5. CASE ReadOwner(r) \/ PutOwner(r) \/ FilesStored(r) \/ SaveCarry(r) \/ MarkPushed(r) \/ NotifyNode(r)
    <3>1. req[r].pc \in PushPcs
      BY <2>5 DEF ReadOwner, PutOwner, FilesStored, SaveCarry, MarkPushed, NotifyNode, At, PushPcs
    <3>2. \E pc \in PushPcs \ {"save"} : Advance(r, pc) \/ Finish(r)
      BY <2>5 DEF ReadOwner, PutOwner, FilesStored, SaveCarry, MarkPushed, NotifyNode, PushPcs
    <3> QED
      BY <2>2, <3>1, <3>2
  <2> QED
    BY <2>1, <2>3, <2>4, <2>5 DEF QuietPush
<1> QED
  BY <1>1, <1>2, <1>3 DEF PushPcs, ClaimPcs

LEMMA QuietClaimStep ==
  ASSUME TypeOK, NEW r \in Requests, QuietClaim(r)
  PROVE  /\ UNCHANGED <<entry, names, heads, owners, stored, maps, pushed, behind, loose>>
         /\ \A q \in Requests \ {r} : req'[q] = req[q]
         /\ req[r].pc \notin PushPcs /\ req'[r].pc \notin PushPcs
<1>1. CASE \E k \in Keys, n \in Names : BeginClaim(r, k, n)
  BY <1>1 DEF BeginClaim, At, TypeOK, PushPcs
<1>2. CASE ReadEntry(r)
  <2>1. req[r] \in Claiming
    BY <1>2, ClaimRequest DEF ReadEntry, At, ClaimPcs
  <2> QED
    BY <1>2, <2>1 DEF ReadEntry, At, TypeOK, Claiming, PushPcs
<1> QED
  BY <1>1, <1>2 DEF QuietClaim

(* The disjuncts of Next by what they may change. *)
LEMMA NextCases ==
  ASSUME [Next]_vars
  PROVE  \/ \E r \in Requests :
              \/ QuietPush(r) \/ QuietClaim(r) \/ MoveHead(r) \/ SaveEntry(r)
              \/ FreeName(r) \/ PutName(r) \/ SaveName(r) \/ Fails(r)
         \/ UNCHANGED vars
  BY DEF Next, QuietPush, QuietClaim

(* A push that puts the entry and marks what it finds there. *)
LEMMA SaveEntryStep ==
  ASSUME TypeOK, NEW r \in Requests, SaveEntry(r)
  PROVE  /\ req[r] \in Pushing /\ req[r].push \in Pushes /\ req[r].push.key \in Keys
         /\ req'[r].pc = "mark" /\ \A q \in Requests \ {r} : req'[q] = req[q]
         /\ \A k \in Keys \ {req[r].push.key} : entry'[k] = entry[k]
         /\ entry'[req[r].push.key] = EntryAfter(req[r].existing, req[r].push)
         /\ entry'[req[r].push.key].name = req[r].existing.name
         /\ HeadIn(entry'[req[r].push.key]) = [cid |-> req[r].push.cid, seq |-> req[r].push.seq]
         /\ UNCHANGED <<names, heads, owners, stored, maps, pushed>>
<1>1. req[r].pc \in PushPcs
  BY DEF SaveEntry, At, PushPcs
<1>2. req[r] \in Pushing /\ req[r].push \in Pushes /\ req[r].push.key \in Keys
  BY <1>1, PushRequest, PushFields
<1>3. req'[r].pc = "mark" /\ \A q \in Requests \ {r} : req'[q] = req[q]
  BY <1>1, Advanced DEF SaveEntry, PushPcs
<1> QED
  BY <1>2, <1>3 DEF SaveEntry, TypeOK, Pushing, Entry, EntryAfter, HeadIn

(* A claim that puts the entry: under the name it leaves it as it was read. *)
LEMMA SaveNameStep ==
  ASSUME TypeOK, NEW r \in Requests, SaveName(r)
  PROVE  /\ req[r] \in Claiming /\ req[r].key \in Keys /\ req[r].name \in Names
         /\ req'[r] = Idle /\ req'[r].pc = "idle"
         /\ \A q \in Requests \ {r} : req'[q] = req[q]
         /\ \A k \in Keys \ {req[r].key} : entry'[k] = entry[k]
         /\ entry'[req[r].key] = Named(req[r].existing, req[r].name)
         /\ entry'[req[r].key].name = req[r].name
         /\ HeadIn(entry'[req[r].key]) = HeadIn(req[r].existing)
         /\ UNCHANGED <<names, heads, owners, stored, maps, pushed>>
<1>1. req[r] \in Claiming
  BY ClaimRequest DEF SaveName, At, ClaimPcs
<1>2. Finish(r)
  BY DEF SaveName
<1> QED
  BY <1>1, <1>2, Finished DEF SaveName, TypeOK, Claiming, Entry, Named, HeadIn

(* The entry names the head, except while a push is between the two puts, and
   unless a request put back an entry that had changed, or stopped between the
   puts (push, SaveEntry and SaveName over the entry that was read). *)
THEOREM ServesHead == Spec => []ServesHeadUnlessCrossed
<1>1. Init => ServesHeadUnlessCrossed
  BY DEF Init, ServesHeadUnlessCrossed
<1>2. TypeOK /\ ServesHeadUnlessCrossed /\ [Next]_vars => ServesHeadUnlessCrossed'
  <2> SUFFICES ASSUME TypeOK, ServesHeadUnlessCrossed, [Next]_vars,
                      NEW k \in Keys, heads'[k] # NoHead, k \notin behind', ~MovingOn(k)'
               PROVE  HeadIn(entry'[k]) = heads'[k]
    BY DEF ServesHeadUnlessCrossed
  <2> DEFINE Saves(r) == req[r].pc = "save" /\ req[r].push.key = k
  <2>0. ASSUME heads'[k] = heads[k], HeadIn(entry'[k]) = HeadIn(entry[k]), k \notin behind,
               \A r \in Requests : ~Saves(r)
        PROVE  HeadIn(entry'[k]) = heads'[k]
    BY <2>0 DEF ServesHeadUnlessCrossed, MovingOn, At
  <2>1. \A r \in Requests : ~(req'[r].pc = "save" /\ req'[r].push.key = k)
    BY DEF MovingOn, At
  <2>2. ASSUME NEW r \in Requests, QuietPush(r) \/ QuietClaim(r) PROVE HeadIn(entry'[k]) = heads'[k]
    <3>1. /\ UNCHANGED <<entry, heads, behind>> /\ req[r].pc # "save"
          /\ \A q \in Requests \ {r} : req'[q] = req[q]
      BY <2>2, QuietPushStep, QuietClaimStep DEF PushPcs
    <3>2. \A q \in Requests : ~Saves(q)
      BY <2>1, <3>1
    <3> QED
      BY <2>0, <3>1, <3>2
  <2>3. ASSUME NEW r \in Requests, MoveHead(r) PROVE HeadIn(entry'[k]) = heads'[k]
    <3> DEFINE p == req[r].push
    <3>1. req[r].pc \in PushPcs /\ req[r].pc # "save" /\ p.key \in Keys
      BY <2>3, PushRequest, PushFields DEF MoveHead, PushPcs
    <3>2. \A q \in Requests \ {r} : req'[q] = req[q]
      BY <2>3, <3>1, Advanced, Finished DEF MoveHead, PushPcs
    <3>3. \A q \in Requests : ~Saves(q)
      BY <2>1, <3>1, <3>2
    <3>4. heads'[k] = heads[k]
      <4>1. CASE UNCHANGED heads
        BY <4>1
      <4>2. CASE Advance(r, "save") /\ heads' = [heads EXCEPT ![p.key] = [cid |-> p.cid, seq |-> p.seq]]
        <5>1. req'[r].pc = "save" /\ req'[r].push = p
          BY <3>1, <4>2, Advanced DEF PushPcs
        <5>2. p.key # k
          BY <2>1, <5>1
        <5> QED
          BY <4>2, <5>2 DEF TypeOK
      <4> QED
        BY <2>3, <4>1, <4>2 DEF MoveHead
    <3> QED
      BY <2>0, <2>3, <3>3, <3>4 DEF MoveHead
  <2>4. ASSUME NEW r \in Requests, SaveEntry(r) PROVE HeadIn(entry'[k]) = heads'[k]
    <3> DEFINE p == req[r].push
    <3>1. CASE p.key = k
      <4>1. heads[k] = [cid |-> p.cid, seq |-> p.seq]
        BY <2>4, <3>1 DEF SaveEntry
      <4> QED
        BY <2>4, <3>1, <4>1, SaveEntryStep
    <3>2. CASE p.key # k
      <4>1. k \notin behind
        BY <2>4, <3>2 DEF SaveEntry
      <4>2. \A q \in Requests : ~Saves(q)
        <5>1. \A q \in Requests \ {r} : req'[q] = req[q]
          BY <2>4, SaveEntryStep
        <5>2. \A q \in Requests \ {r} : ~Saves(q)
          BY <2>1, <5>1
        <5> QED
          BY <3>2, <5>2
      <4> QED
        BY <2>0, <2>4, <3>2, <4>1, <4>2, SaveEntryStep
    <3> QED
      BY <3>1, <3>2
  <2>5. ASSUME NEW r \in Requests, FreeName(r) \/ PutName(r) PROVE HeadIn(entry'[k]) = heads'[k]
    <3>1. req[r].pc \in ClaimPcs /\ UNCHANGED <<entry, heads, behind>>
      BY <2>5 DEF FreeName, PutName, At, ClaimPcs
    <3>2. \A q \in Requests \ {r} : req'[q] = req[q]
      BY <2>5, <3>1, Advanced DEF FreeName, PutName, ClaimPcs
    <3>3. \A q \in Requests : ~Saves(q)
      BY <2>1, <3>1, <3>2 DEF ClaimPcs
    <3> QED
      BY <2>0, <3>1, <3>3
  <2>6. ASSUME NEW r \in Requests, SaveName(r) PROVE HeadIn(entry'[k]) = heads'[k]
    <3>1. k \notin behind /\ HeadIn(entry'[k]) = HeadIn(entry[k])
      BY <2>6, SaveNameStep DEF SaveName
    <3>2. \A q \in Requests : ~Saves(q)
      BY <2>1, <2>6, SaveNameStep DEF SaveName, At
    <3> QED
      BY <2>0, <2>6, <3>1, <3>2, SaveNameStep
  <2>7. ASSUME NEW r \in Requests, Fails(r) PROVE HeadIn(entry'[k]) = heads'[k]
    <3>1. k \notin behind /\ ~Saves(r) /\ UNCHANGED <<entry, heads>>
      BY <2>7 DEF Fails, At
    <3>2. \A q \in Requests : ~Saves(q)
      BY <2>1, <2>7, <3>1, Finished DEF Fails
    <3> QED
      BY <2>0, <3>1, <3>2
  <2>8. CASE UNCHANGED vars
    BY <2>0, <2>1, <2>8 DEF vars
  <2> QED
    BY <2>2, <2>3, <2>4, <2>5, <2>6, <2>7, <2>8, NextCases
<1> QED
  BY <1>1, <1>2, TypeCorrect, PTL DEF Spec

-----------------------------------------------------------------------------
(* A push that has an offer under way. *)
OfferPcs == {"owner", "own", "files", "carry", "move", "check", "moveAgain"}

(* While a key has no head its entry stands for it: no request that read the
   entry then holds another version of it. *)
ReadIsCurrent(r) ==
  /\ req[r].pc = "head" /\ heads[req[r].push.key] = NoHead =>
       HeadIn(req[r].existing) = HeadIn(entry[req[r].push.key])
  /\ req[r].pc \in ClaimPcs \ {"readEntry"} /\ heads[req[r].key] = NoHead =>
       HeadIn(req[r].existing) = HeadIn(entry[req[r].key])

(* What a push was checked against is the head, if the put finds the etag. *)
CheckedAgainstEtag(r) ==
  req[r].pc \in OfferPcs =>
    /\ ~pushConflict(req[r].cur, req[r].push)
    /\ req[r].etag # NoHead => req[r].cur = req[r].etag
    /\ req[r].etag = NoHead /\ heads[req[r].push.key] = NoHead =>
         req[r].cur = HeadIn(entry[req[r].push.key])

SavesAfterMove(r) == req[r].pc = "save" => heads[req[r].push.key] # NoHead

EtagInv == \A r \in Requests : ReadIsCurrent(r) /\ CheckedAgainstEtag(r) /\ SavesAfterMove(r)

(* Where heads and entries stay, or only keys that have a head change, what a
   request that stays knows stays true. *)
LEMMA EtagStable ==
  ASSUME TypeOK, NEW r \in Requests, req'[r] = req[r],
         ReadIsCurrent(r), CheckedAgainstEtag(r), SavesAfterMove(r),
         \A k \in Keys : heads'[k] = NoHead => heads[k] = NoHead /\ HeadIn(entry'[k]) = HeadIn(entry[k])
  PROVE  ReadIsCurrent(r)' /\ CheckedAgainstEtag(r)' /\ SavesAfterMove(r)'
<1>1. req[r].pc \in PushPcs => req[r].push.key \in Keys
  BY PushRequest, PushFields
<1>2. req[r].pc \in ClaimPcs => req[r].key \in Keys
  BY ClaimRequest DEF Claiming
<1>3. OfferPcs \subseteq PushPcs /\ {"save", "head"} \subseteq PushPcs
  BY DEF OfferPcs, PushPcs
<1>4. ReadIsCurrent(r)'
  BY <1>1, <1>2, <1>3 DEF ReadIsCurrent
<1>5. CheckedAgainstEtag(r)' /\ SavesAfterMove(r)'
  BY <1>1, <1>3 DEF CheckedAgainstEtag, SavesAfterMove, pushConflict
<1> QED
  BY <1>4, <1>5

LEMMA CheckedAgainstEtagHolds == Spec => []EtagInv
<1> DEFINE Known(r) == ReadIsCurrent(r) /\ CheckedAgainstEtag(r) /\ SavesAfterMove(r)
           Later == \A k \in Keys : heads'[k] = NoHead =>
                      heads[k] = NoHead /\ HeadIn(entry'[k]) = HeadIn(entry[k])
<1>1. Init => EtagInv
  BY DEF Init, Idle, EtagInv, ReadIsCurrent, CheckedAgainstEtag, SavesAfterMove, OfferPcs, ClaimPcs
<1>2. TypeOK /\ EtagInv /\ [Next]_vars => EtagInv'
  <2> SUFFICES ASSUME TypeOK, EtagInv, [Next]_vars PROVE EtagInv'
    OBVIOUS
  <2>0. ASSUME NEW r \in Requests, Later, \A q \in Requests \ {r} : req'[q] = req[q], Known(r)'
        PROVE  EtagInv'
    BY <2>0, EtagStable DEF EtagInv
  <2>00. ASSUME NEW r \in Requests,
                req'[r].pc \in {"idle", "readEntry", "mark", "notify"}
         PROVE  Known(r)'
    BY <2>00 DEF ReadIsCurrent, CheckedAgainstEtag, SavesAfterMove, OfferPcs, ClaimPcs
  <2>000. ASSUME NEW r \in Requests, Finish(r) PROVE req'[r].pc = "idle"
    BY <2>000, Finished
  <2>1. ASSUME NEW r \in Requests, QuietPush(r) PROVE EtagInv'
    <3>1. Later /\ UNCHANGED <<heads, entry>>
      BY <2>1, QuietPushStep
    <3>2. Known(r)'
      <4>1. ASSUME NEW p \in Pushes, NEW part \in SUBSET p.own, BeginPush(r, p, part) PROVE Known(r)'
        BY <4>1 DEF BeginPush, TypeOK, ReadIsCurrent, CheckedAgainstEtag, SavesAfterMove, OfferPcs, ClaimPcs
      <4>2. CASE ReadHead(r)
        <5> DEFINE p == req[r].push
                   cur == headOf(p.key, req[r].existing)
        <5>1. req[r] \in Pushing /\ p.key \in Keys
          BY <4>2, PushRequest, PushFields DEF ReadHead, At, PushPcs
        <5>2. CASE ~pushConflict(cur, p)
          <6>1. /\ req'[r].pc = "owner" /\ req'[r].push = p
                /\ req'[r].cur = cur /\ req'[r].etag = heads[p.key]
            BY <4>2, <5>1, <5>2 DEF ReadHead, TypeOK, Pushing
          <6>2. heads[p.key] # NoHead => cur = heads[p.key]
            BY DEF headOf
          <6>3. heads[p.key] = NoHead => cur = HeadIn(entry[p.key])
            BY <4>2 DEF headOf, EtagInv, ReadIsCurrent, ReadHead, At
          <6>4. CheckedAgainstEtag(r)'
            BY <3>1, <5>2, <6>1, <6>2, <6>3 DEF CheckedAgainstEtag, pushConflict
          <6> QED
            BY <6>1, <6>4 DEF ReadIsCurrent, SavesAfterMove, ClaimPcs
        <5>3. CASE pushConflict(cur, p)
          BY <2>00, <2>000, <4>2, <5>3 DEF ReadHead
        <5> QED
          BY <5>2, <5>3
      <4>3. CASE CheckAgain(r)
        <5> DEFINE p == req[r].push
                   now == headOf(p.key, entry[p.key])
        <5>1. req[r] \in Pushing /\ p.key \in Keys
          BY <4>3, PushRequest, PushFields DEF CheckAgain, At, PushPcs
        <5>2. CASE ~pushConflict(now, p)
          <6>1. /\ req'[r].pc = "moveAgain" /\ req'[r].push = p
                /\ req'[r].cur = now /\ req'[r].etag = heads[p.key]
            BY <4>3, <5>1, <5>2 DEF CheckAgain, TypeOK, Pushing
          <6>2. CheckedAgainstEtag(r)'
            BY <3>1, <5>2, <6>1 DEF CheckedAgainstEtag, pushConflict, headOf
          <6> QED
            BY <6>1, <6>2 DEF ReadIsCurrent, SavesAfterMove, ClaimPcs
        <5>3. CASE pushConflict(now, p)
          BY <2>00, <2>000, <4>3, <5>3 DEF CheckAgain
        <5> QED
          BY <5>2, <5>3
      <4>4. ASSUME NEW f \in Files, StoreFile(r, f) PROVE Known(r)'
        <5>1. req[r] \in Pushing /\ req[r].pc = "files"
          BY <4>4, PushRequest DEF StoreFile, At, PushPcs
        <5>2. /\ req'[r].pc = "files" /\ req'[r].push = req[r].push
              /\ req'[r].cur = req[r].cur /\ req'[r].etag = req[r].etag
          BY <4>4, <5>1 DEF StoreFile, TypeOK, Pushing
        <5>3. CheckedAgainstEtag(r)
          BY DEF EtagInv
        <5>4. CheckedAgainstEtag(r)'
          BY <3>1, <5>1, <5>2, <5>3 DEF CheckedAgainstEtag, pushConflict, OfferPcs
        <5> QED
          BY <5>2, <5>4 DEF ReadIsCurrent, SavesAfterMove, ClaimPcs
      <4>5. ASSUME NEW pc \in OfferPcs, Advance(r, pc), req[r].pc \in OfferPcs PROVE Known(r)'
        <5>1. /\ req'[r].pc = pc /\ req'[r].push = req[r].push
              /\ req'[r].cur = req[r].cur /\ req'[r].etag = req[r].etag
          BY <4>5, Advanced DEF OfferPcs, PushPcs
        <5>2. CheckedAgainstEtag(r)
          BY DEF EtagInv
        <5>3. CheckedAgainstEtag(r)'
          BY <3>1, <4>5, <5>1, <5>2 DEF CheckedAgainstEtag, pushConflict
        <5> QED
          BY <5>1, <5>3 DEF ReadIsCurrent, SavesAfterMove, OfferPcs, ClaimPcs
      <4>6. CASE ReadOwner(r) \/ PutOwner(r) \/ FilesStored(r) \/ SaveCarry(r)
        BY <2>00, <2>000, <4>5, <4>6 DEF ReadOwner, PutOwner, FilesStored, SaveCarry, At, OfferPcs
      <4>7. CASE MarkPushed(r) \/ NotifyNode(r)
        <5>1. CASE Finish(r)
          BY <2>00, <2>000, <5>1
        <5>2. CASE Advance(r, "notify") /\ req[r].pc = "mark"
          BY <2>00, <5>2, Advanced DEF PushPcs
        <5> QED
          BY <4>7, <5>1, <5>2 DEF MarkPushed, NotifyNode, At
      <4> QED
        BY <2>1, <4>1, <4>2, <4>3, <4>4, <4>6, <4>7 DEF QuietPush
    <3> QED
      BY <2>0, <2>1, <3>1, <3>2, QuietPushStep
  <2>2. ASSUME NEW r \in Requests, QuietClaim(r) PROVE EtagInv'
    <3>1. Later /\ UNCHANGED <<heads, entry>>
      BY <2>2, QuietClaimStep
    <3>2. Known(r)'
      <4>1. ASSUME NEW k \in Keys, NEW n \in Names, BeginClaim(r, k, n) PROVE Known(r)'
        <5>1. req'[r].pc = "readEntry"
          BY <4>1 DEF BeginClaim, TypeOK
        <5> QED
          BY <2>00, <5>1
      <4>2. CASE ReadEntry(r)
        <5>1. req[r] \in Claiming
          BY <4>2, ClaimRequest DEF ReadEntry, At, ClaimPcs
        <5>2. req'[r].pc \in {"free", "name"} /\ req'[r].key = req[r].key
              /\ req'[r].existing = entry[req[r].key]
          BY <4>2, <5>1 DEF ReadEntry, TypeOK, Claiming
        <5> QED
          BY <3>1, <5>2 DEF ReadIsCurrent, CheckedAgainstEtag, SavesAfterMove, OfferPcs
      <4> QED
        BY <2>2, <4>1, <4>2 DEF QuietClaim
    <3> QED
      BY <2>0, <2>2, <3>1, <3>2, QuietClaimStep
  <2>3. ASSUME NEW r \in Requests, MoveHead(r) PROVE EtagInv'
    <3> DEFINE p == req[r].push
    <3>1. /\ req[r].pc \in PushPcs /\ req[r].pc \in OfferPcs
          /\ p.key \in Keys /\ p.cid # NoVersion
      BY <2>3, PushRequest, PushFields, ConstantsAssumption DEF MoveHead, PushPcs, OfferPcs
    <3>2. CASE Advance(r, "save") /\ heads' = [heads EXCEPT ![p.key] = [cid |-> p.cid, seq |-> p.seq]]
      <4>1. [cid |-> p.cid, seq |-> p.seq] # NoHead
        BY <3>1 DEF NoHead
      <4>2. heads'[p.key] # NoHead /\ Later
        BY <2>3, <3>1, <3>2, <4>1 DEF MoveHead, TypeOK
      <4>3. /\ req'[r].pc = "save" /\ req'[r].push = p
            /\ \A q \in Requests \ {r} : req'[q] = req[q]
        BY <3>1, <3>2, Advanced DEF PushPcs
      <4>4. Known(r)'
        BY <4>2, <4>3 DEF ReadIsCurrent, CheckedAgainstEtag, SavesAfterMove, OfferPcs, ClaimPcs
      <4> QED
        BY <2>0, <4>2, <4>3, <4>4
    <3>3. CASE UNCHANGED heads /\ Finish(r)
      <4>1. Later
        BY <2>3, <3>3 DEF MoveHead
      <4> QED
        BY <2>0, <2>00, <3>3, <4>1, Finished
    <3>4. CASE UNCHANGED heads /\ Advance(r, "check")
      <4>1. /\ req'[r].pc = "check" /\ req'[r].push = p
            /\ req'[r].cur = req[r].cur /\ req'[r].etag = req[r].etag
            /\ \A q \in Requests \ {r} : req'[q] = req[q]
        BY <3>1, <3>4, Advanced DEF PushPcs
      <4>2. Later /\ UNCHANGED <<entry, heads>>
        BY <2>3, <3>4 DEF MoveHead
      <4>3. CheckedAgainstEtag(r)
        BY DEF EtagInv
      <4>4. CheckedAgainstEtag(r)'
        BY <3>1, <4>1, <4>2, <4>3 DEF CheckedAgainstEtag, pushConflict
      <4>5. Known(r)'
        BY <4>1, <4>4 DEF ReadIsCurrent, SavesAfterMove, ClaimPcs
      <4> QED
        BY <2>0, <4>1, <4>2, <4>5
    <3> QED
      BY <2>3, <3>2, <3>3, <3>4 DEF MoveHead
  <2>4. ASSUME NEW r \in Requests, SaveEntry(r) PROVE EtagInv'
    <3>1. heads[req[r].push.key] # NoHead
      BY <2>4 DEF SaveEntry, At, EtagInv, SavesAfterMove
    <3>2. Later
      BY <2>4, <3>1, SaveEntryStep
    <3> QED
      BY <2>0, <2>00, <2>4, <3>2, SaveEntryStep
  <2>5. ASSUME NEW r \in Requests, FreeName(r) \/ PutName(r) PROVE EtagInv'
    <3>1. req[r].pc \in ClaimPcs \ {"readEntry"} /\ Later /\ UNCHANGED <<entry, heads>>
      BY <2>5 DEF FreeName, PutName, At, ClaimPcs
    <3>2. /\ req'[r].pc \in {"name", "saveName"} /\ req'[r].key = req[r].key
          /\ req'[r].existing = req[r].existing
          /\ \A q \in Requests \ {r} : req'[q] = req[q]
      BY <2>5, <3>1, Advanced DEF FreeName, PutName, ClaimPcs
    <3>3. ReadIsCurrent(r)
      BY DEF EtagInv
    <3>4. ReadIsCurrent(r)'
      BY <3>1, <3>2, <3>3 DEF ReadIsCurrent
    <3>5. Known(r)'
      BY <3>2, <3>4 DEF CheckedAgainstEtag, SavesAfterMove, OfferPcs
    <3> QED
      BY <2>0, <3>1, <3>2, <3>5
  <2>6. ASSUME NEW r \in Requests, SaveName(r) PROVE EtagInv'
    <3>1. heads[req[r].key] = NoHead => HeadIn(req[r].existing) = HeadIn(entry[req[r].key])
      BY <2>6 DEF SaveName, At, EtagInv, ReadIsCurrent, ClaimPcs
    <3>2. Later
      BY <2>6, <3>1, SaveNameStep
    <3> QED
      BY <2>0, <2>00, <2>6, <3>2, SaveNameStep
  <2>7. ASSUME NEW r \in Requests, Fails(r) PROVE EtagInv'
    <3>1. Later /\ Finish(r)
      BY <2>7 DEF Fails
    <3> QED
      BY <2>0, <2>00, <3>1, Finished
  <2>8. CASE UNCHANGED vars
    BY <2>8 DEF vars, EtagInv, ReadIsCurrent, CheckedAgainstEtag, SavesAfterMove, pushConflict
  <2> QED
    BY <2>1, <2>2, <2>3, <2>4, <2>5, <2>6, <2>7, <2>8, NextCases
<1> QED
  BY <1>1, <1>2, TypeCorrect, PTL DEF Spec

-----------------------------------------------------------------------------
HeadsNow == [k \in Keys |-> headOf(k, entry[k])]
OffersNow == [r \in Requests |-> OfferOf(r)]

(* A push that does not conflict with a head may take its place. *)
LEMMA NoConflictSupersedes ==
  ASSUME NEW p \in Pushes, NEW h \in HeadType, ~pushConflict(h, p), NEW o,
         o.mirror = FALSE, o.parent = p.parent, o.seq = p.seq, o.cid = p.cid
  PROVE  Promise!Supersedes(o, h)
<1>1. p.seq \in Nat /\ h.seq \in Nat /\ ~(p.seq < h.seq)
  BY PushFields, ConstantsAssumption DEF HeadType, pushConflict
<1> QED
  BY <1>1 DEF pushConflict, Promise!Supersedes

(* An offer is no idle request, and a request has the offer of its push. *)
LEMMA OfferIsThePush ==
  ASSUME NEW r \in Requests, req[r].pc \in OfferPcs
  PROVE  /\ OfferOf(r).key = req[r].push.key /\ OfferOf(r).cid = req[r].push.cid
         /\ OfferOf(r).seq = req[r].push.seq /\ OfferOf(r).parent = req[r].push.parent
         /\ OfferOf(r).mirror = FALSE /\ OfferOf(r) # Idle
  BY DEF OfferOf, OfferPcs, Idle

(* Pushes keep the promise of a host (SiteHead): the conditional put takes an
   offer in one step that looks at the head it replaces, for all that was
   read before it and however the requests cross. *)
THEOREM WorkerKeepsPromise == Spec => KeepsPromise
<1> DEFINE Write(w) == Promise!MakeOffer(w) \/ Promise!DropOffer(w) \/ Promise!TakeOffer(w)
           Step == [\E w \in Requests : Write(w)]_(Promise!headVars)
<1>1. TypeOK /\ TypeOK' /\ EtagInv /\ [Next]_vars => Step
  <2> SUFFICES ASSUME TypeOK, TypeOK', EtagInv, [Next]_vars PROVE Step
    OBVIOUS
  <2>0. ASSUME HeadsNow' = HeadsNow, OffersNow' = OffersNow PROVE Step
    BY <2>0 DEF HeadsNow, OffersNow, Promise!headVars
  <2>00. ASSUME NEW r \in Requests, HeadsNow' = HeadsNow,
                \A q \in Requests \ {r} : req'[q] = req[q],
                OfferOf(r)' \in {OfferOf(r), Idle}
         PROVE  Step
    <3>1. CASE OfferOf(r)' = OfferOf(r)
      <4>1. OffersNow' = OffersNow
        BY <2>00, <3>1 DEF OffersNow, OfferOf
      <4> QED
        BY <2>0, <2>00, <4>1
    <3>2. CASE OfferOf(r)' = Idle
      <4>1. OffersNow' = [OffersNow EXCEPT ![r] = Idle]
        BY <2>00, <3>2 DEF OffersNow, OfferOf
      <4>2. Promise!DropOffer(r)
        BY <2>00, <4>1 DEF HeadsNow, OffersNow, Promise!DropOffer
      <4> QED
        BY <4>2
    <3> QED
      BY <2>00, <3>1, <3>2
  <2>000. ASSUME NEW r \in Requests, HeadsNow' = HeadsNow,
                 \A q \in Requests \ {r} : req'[q] = req[q],
                 \/ req'[r].pc \notin OfferPcs
                 \/ req[r].pc \in OfferPcs /\ req'[r].pc \in OfferPcs /\ req'[r].push = req[r].push
          PROVE  Step
    <3>1. OfferOf(r)' \in {OfferOf(r), Idle}
      BY <2>000 DEF OfferOf, OfferPcs
    <3> QED
      BY <2>00, <2>000, <3>1
  <2>1. ASSUME NEW r \in Requests, QuietPush(r) PROVE Step
    <3>1. HeadsNow' = HeadsNow /\ \A q \in Requests \ {r} : req'[q] = req[q]
      BY <2>1, QuietPushStep DEF HeadsNow, headOf
    <3>2. ASSUME NEW p \in Pushes, NEW part \in SUBSET p.own, BeginPush(r, p, part) PROVE Step
      <4>1. req'[r].pc \notin OfferPcs
        BY <3>2 DEF BeginPush, TypeOK, OfferPcs
      <4> QED
        BY <2>000, <3>1, <4>1
    <3>3. CASE ReadHead(r)
      <4> DEFINE p == req[r].push
                 cur == headOf(p.key, req[r].existing)
      <4>1. req[r] \in Pushing /\ p \in Pushes /\ req[r].pc \notin OfferPcs
        BY <3>3, PushRequest DEF ReadHead, At, PushPcs, OfferPcs
      <4>2. CASE ~pushConflict(cur, p)
        <5> DEFINE o == [key |-> p.key, cid |-> p.cid, seq |-> p.seq, parent |-> p.parent, mirror |-> FALSE]
        <5>1. req'[r].pc = "owner" /\ req'[r].push = p
          BY <3>3, <4>1, <4>2 DEF ReadHead, TypeOK, Pushing
        <5>2. OfferOf(r) = Idle /\ OfferOf(r)' = o
          BY <4>1, <5>1 DEF OfferOf, OfferPcs
        <5>3. OffersNow' = [OffersNow EXCEPT ![r] = o] /\ OffersNow[r] = Idle /\ OffersNow'[r] = o
          BY <3>1, <5>2 DEF OffersNow, OfferOf
        <5>4. o \in Promise!Offers
          BY <4>1, PushFields DEF Promise!Offers
        <5>5. Promise!MakeOffer(r)
          BY <3>1, <5>3, <5>4 DEF HeadsNow, OffersNow, Promise!MakeOffer
        <5> QED
          BY <5>5
      <4>3. CASE pushConflict(cur, p)
        <5>1. req'[r].pc \notin OfferPcs
          BY <3>3, <4>3, Finished DEF ReadHead, OfferPcs
        <5> QED
          BY <2>000, <3>1, <5>1
      <4> QED
        BY <4>2, <4>3
    <3>4. ASSUME NEW f \in Files, StoreFile(r, f) PROVE Step
      <4>1. req[r] \in Pushing /\ req[r].pc = "files"
        BY <3>4, PushRequest DEF StoreFile, At, PushPcs
      <4>2. req'[r].pc = "files" /\ req'[r].push = req[r].push
        BY <3>4, <4>1 DEF StoreFile, TypeOK, Pushing
      <4> QED
        BY <2>000, <3>1, <4>1, <4>2 DEF OfferPcs
    <3>5. ASSUME NEW pc \in OfferPcs, Advance(r, pc), req[r].pc \in OfferPcs PROVE Step
      <4>1. req'[r].pc = pc /\ req'[r].push = req[r].push
        BY <3>5, Advanced DEF OfferPcs, PushPcs
      <4> QED
        BY <2>000, <3>1, <3>5, <4>1
    <3>6. CASE Finish(r)
      <4>1. req'[r].pc \notin OfferPcs
        BY <3>6, Finished DEF OfferPcs
      <4> QED
        BY <2>000, <3>1, <4>1
    <3>7. CASE ReadOwner(r) \/ PutOwner(r) \/ FilesStored(r) \/ SaveCarry(r)
      BY <3>5, <3>6, <3>7 DEF ReadOwner, PutOwner, FilesStored, SaveCarry, At, OfferPcs
    <3>8. CASE CheckAgain(r)
      <4>1. req[r] \in Pushing /\ req[r].pc = "check"
        BY <3>8, PushRequest DEF CheckAgain, At, PushPcs
      <4>2. \/ req'[r].pc = "idle"
            \/ req'[r].pc = "moveAgain" /\ req'[r].push = req[r].push
        BY <3>8, <4>1, Finished DEF CheckAgain, TypeOK, Pushing
      <4> QED
        BY <2>000, <3>1, <4>1, <4>2 DEF OfferPcs
    <3>9. CASE MarkPushed(r) \/ NotifyNode(r)
      <4>1. req'[r].pc \notin OfferPcs
        BY <3>9, Advanced, Finished DEF MarkPushed, NotifyNode, At, PushPcs, OfferPcs
      <4> QED
        BY <2>000, <3>1, <4>1
    <3> QED
      BY <2>1, <3>2, <3>3, <3>4, <3>7, <3>8, <3>9 DEF QuietPush
  <2>2. ASSUME NEW r \in Requests, QuietClaim(r) PROVE Step
    <3>1. HeadsNow' = HeadsNow
      BY <2>2, QuietClaimStep DEF HeadsNow, headOf
    <3>2. req'[r].pc \notin OfferPcs
      BY <2>2, QuietClaimStep DEF OfferPcs, PushPcs
    <3> QED
      BY <2>2, <2>000, <3>1, <3>2, QuietClaimStep
  <2>3. ASSUME NEW r \in Requests, MoveHead(r) PROVE Step
    <3> DEFINE p == req[r].push
               o == OffersNow[r]
    <3>1. /\ req[r].pc \in PushPcs /\ req[r].pc \in OfferPcs /\ req[r] \in Pushing
          /\ p \in Pushes /\ p.key \in Keys /\ p.cid # NoVersion
      BY <2>3, PushRequest, PushFields, ConstantsAssumption DEF MoveHead, PushPcs, OfferPcs
    <3>2. CASE /\ MayMove(p.key, req[r].etag) /\ Advance(r, "save")
               /\ heads' = [heads EXCEPT ![p.key] = [cid |-> p.cid, seq |-> p.seq]]
      <4>1. HeadsNow[p.key] = req[r].cur
        <5>1. CheckedAgainstEtag(r)
          BY DEF EtagInv
        <5> QED
          BY <3>1, <3>2, <5>1 DEF CheckedAgainstEtag, MayMove, HeadsNow, headOf
      <4>2. /\ o.key = p.key /\ o.cid = p.cid /\ o.seq = p.seq
            /\ o.parent = p.parent /\ o.mirror = FALSE /\ o # Idle
        BY <3>1, OfferIsThePush DEF OffersNow
      <4>3. Promise!Supersedes(o, HeadsNow[p.key])
        <5>1. ~pushConflict(req[r].cur, p) /\ req[r].cur \in HeadType
          BY <3>1 DEF EtagInv, CheckedAgainstEtag, Pushing
        <5> QED
          BY <3>1, <4>1, <4>2, <5>1, NoConflictSupersedes
      <4>4. HeadsNow' = [HeadsNow EXCEPT ![p.key] = [cid |-> p.cid, seq |-> p.seq]]
        BY <2>3, <3>1, <3>2 DEF MoveHead, HeadsNow, headOf, NoHead, TypeOK
      <4>5. OffersNow' = [OffersNow EXCEPT ![r] = Idle]
        <5>1. req'[r].pc = "save" /\ \A q \in Requests \ {r} : req'[q] = req[q]
          BY <3>1, <3>2, Advanced DEF PushPcs
        <5>2. OfferOf(r)' = Idle /\ \A q \in Requests \ {r} : OfferOf(q)' = OfferOf(q)
          BY <5>1 DEF OfferOf
        <5> QED
          BY <5>2 DEF OffersNow
      <4>6. Promise!TakeOffer(r)
        BY <4>2, <4>3, <4>4, <4>5 DEF Promise!TakeOffer, HeadsNow, OffersNow
      <4> QED
        BY <4>6
    <3>3. CASE UNCHANGED heads
      <4>1. HeadsNow' = HeadsNow
        BY <2>3, <3>3 DEF MoveHead, HeadsNow, headOf
      <4>2. CASE Finish(r)
        <5>1. req'[r].pc \notin OfferPcs /\ \A q \in Requests \ {r} : req'[q] = req[q]
          BY <4>2, Finished DEF OfferPcs
        <5> QED
          BY <2>000, <4>1, <5>1
      <4>3. ASSUME NEW pc \in {"check", "save"}, Advance(r, pc) PROVE Step
        <5>1. /\ req'[r].pc = pc /\ req'[r].push = p
              /\ \A q \in Requests \ {r} : req'[q] = req[q]
          BY <3>1, <4>3, Advanced DEF PushPcs
        <5> QED
          BY <2>000, <3>1, <4>1, <5>1 DEF OfferPcs
      <4> QED
        BY <2>3, <4>2, <4>3 DEF MoveHead
    <3>4. \/ /\ MayMove(p.key, req[r].etag) /\ Advance(r, "save")
             /\ heads' = [heads EXCEPT ![p.key] = [cid |-> p.cid, seq |-> p.seq]]
          \/ UNCHANGED heads
      BY <2>3 DEF MoveHead
    <3> QED
      BY <3>2, <3>3, <3>4
  <2>4. ASSUME NEW r \in Requests, SaveEntry(r) PROVE Step
    <3>1. heads[req[r].push.key] # NoHead
      BY <2>4 DEF SaveEntry, At, EtagInv, SavesAfterMove
    <3>2. HeadsNow' = HeadsNow
      <4> DEFINE k == req[r].push.key
      <4>1. UNCHANGED heads /\ \A j \in Keys \ {k} : entry'[j] = entry[j]
        BY <2>4, SaveEntryStep
      <4>2. heads[k] # NoHead
        BY <3>1
      <4> HIDE DEF k
      <4>3. \A j \in Keys : headOf(j, entry[j])' = headOf(j, entry[j])
        BY <4>1, <4>2 DEF headOf
      <4> QED
        BY <4>3 DEF HeadsNow
    <3>3. req'[r].pc \notin OfferPcs
      BY <2>4, SaveEntryStep DEF OfferPcs
    <3> QED
      BY <2>4, <2>000, <3>2, <3>3, SaveEntryStep
  <2>5. ASSUME NEW r \in Requests, FreeName(r) \/ PutName(r) PROVE Step
    <3>1. req[r].pc \in ClaimPcs /\ HeadsNow' = HeadsNow
      BY <2>5 DEF FreeName, PutName, At, ClaimPcs, HeadsNow, headOf
    <3>2. req'[r].pc \notin OfferPcs /\ \A q \in Requests \ {r} : req'[q] = req[q]
      BY <2>5, <3>1, Advanced DEF FreeName, PutName, ClaimPcs, OfferPcs
    <3> QED
      BY <2>000, <3>1, <3>2
  <2>6. ASSUME NEW r \in Requests, SaveName(r) PROVE Step
    <3>1. heads[req[r].key] = NoHead => HeadIn(req[r].existing) = HeadIn(entry[req[r].key])
      BY <2>6 DEF SaveName, At, EtagInv, ReadIsCurrent, ClaimPcs
    <3>2. HeadsNow' = HeadsNow
      BY <2>6, <3>1, SaveNameStep DEF HeadsNow, headOf
    <3> QED
      BY <2>6, <2>000, <3>2, SaveNameStep DEF OfferPcs
  <2>7. ASSUME NEW r \in Requests, Fails(r) PROVE Step
    <3>1. HeadsNow' = HeadsNow /\ Finish(r)
      BY <2>7 DEF Fails, HeadsNow, headOf
    <3>2. req'[r].pc \notin OfferPcs /\ \A q \in Requests \ {r} : req'[q] = req[q]
      BY <3>1, Finished DEF OfferPcs
    <3> QED
      BY <2>000, <3>1, <3>2
  <2>8. CASE UNCHANGED vars
    <3>1. HeadsNow' = HeadsNow /\ OffersNow' = OffersNow
      BY <2>8 DEF vars, HeadsNow, headOf, OffersNow, OfferOf
    <3> QED
      BY <2>0, <3>1
  <2> QED
    BY <2>1, <2>2, <2>3, <2>4, <2>5, <2>6, <2>7, <2>8, NextCases
<1> QED
  BY <1>1, TypeCorrect, CheckedAgainstEtagHolds, PTL DEF Spec, KeepsPromise, Promise!HWrites

-----------------------------------------------------------------------------
ClaimAt(r, k, pc) == req[r].pc = pc /\ req[r].key = k

(* What a claim knows: whom the name it asks for led to, and that it gives up
   a name only for another one. *)
ClaimKnows(r) ==
  /\ req[r].pc \in ClaimPcs => req[r].seen \in {NoKey, req[r].key}
  /\ req[r].pc = "free" => HasOther(req[r].existing, req[r].name)

(* No name leads to the key but the one its entry has, until a claim has put
   the name and is about to put the entry. *)
OnlyItsName(k) ==
  (\A t \in Requests : ~ClaimAt(t, k, "saveName")) =>
    \A m \in Names : names[m] = k => entry[k].name = m

(* That claim puts an entry with the only name that leads to the key, if the
   entry is still as it was read. *)
OnlyNewName(k) ==
  \A r \in Requests : ClaimAt(r, k, "saveName") /\ entry[k].name = req[r].existing.name =>
    \A m \in Names : names[m] = k => m = req[r].name

OneSaver(k) ==
  \A r, t \in Requests : ClaimAt(r, k, "saveName") /\ ClaimAt(t, k, "saveName") => r = t

(* The old name is freed before the new one is put. *)
OldNameFreed(k) ==
  \A r \in Requests : ClaimAt(r, k, "name") /\ HasOther(req[r].existing, req[r].name) =>
    names[req[r].existing.name] # k

(* The name in the entry leads to the key, unless a claim is moving it. *)
EntryNameLeads(k) ==
  (\A t \in Requests : ~ClaimAt(t, k, "name") /\ ~ClaimAt(t, k, "saveName")) =>
    \A m \in Names : entry[k].name = m => names[m] = k

NewNameLeads(k) ==
  \A r \in Requests : ClaimAt(r, k, "saveName") =>
    \/ names[req[r].name] = k
    \/ \E t \in Requests : ClaimAt(t, k, "name")

KeyKeepsName(k) ==
  /\ OnlyItsName(k) /\ OnlyNewName(k) /\ OneSaver(k)
  /\ OldNameFreed(k) /\ EntryNameLeads(k) /\ NewNameLeads(k)

NamesInv ==
  /\ \A r \in Requests : ClaimKnows(r)
  /\ \A k \in Keys : k \notin loose => KeyKeepsName(k)

(* A step that changes nothing of a key's names, nor of the claims that are
   moving one, keeps what holds of the key. *)
LEMMA KeyUntouched ==
  ASSUME TypeOK, NEW k \in Keys, KeyKeepsName(k),
         entry'[k].name = entry[k].name,
         \A m \in Names : names'[m] = k <=> names[m] = k,
         \A t \in Requests : \A pc \in {"name", "saveName"} : ClaimAt(t, k, pc)' <=> ClaimAt(t, k, pc),
         \A t \in Requests : ClaimAt(t, k, "name") \/ ClaimAt(t, k, "saveName") => req'[t] = req[t]
  PROVE  KeyKeepsName(k)'
<1>0. \A t \in Requests : ClaimAt(t, k, "name") \/ ClaimAt(t, k, "saveName") =>
        req[t].name \in Names /\ (HasOther(req[t].existing, req[t].name) => req[t].existing.name \in Names)
  BY ClaimRequest DEF ClaimAt, ClaimPcs, Claiming, Entry, HasOther
<1>1. OnlyItsName(k)'
  BY DEF KeyKeepsName, OnlyItsName
<1>2. OnlyNewName(k)'
  BY DEF KeyKeepsName, OnlyNewName
<1>3. OneSaver(k)'
  BY DEF KeyKeepsName, OneSaver
<1>4. OldNameFreed(k)'
  <2> SUFFICES ASSUME NEW r \in Requests, ClaimAt(r, k, "name")', HasOther(req'[r].existing, req'[r].name)
               PROVE  names'[req'[r].existing.name] # k
    BY DEF OldNameFreed, HasOther
  <2>1. ClaimAt(r, k, "name") /\ req'[r] = req[r]
    OBVIOUS
  <2> QED
    BY <1>0, <2>1 DEF KeyKeepsName, OldNameFreed
<1>5. EntryNameLeads(k)'
  BY DEF KeyKeepsName, EntryNameLeads
<1>6. NewNameLeads(k)'
  BY <1>0 DEF KeyKeepsName, NewNameLeads
<1> QED
  BY <1>1, <1>2, <1>3, <1>4, <1>5, <1>6 DEF KeyKeepsName

LEMMA FreeNameStep ==
  ASSUME TypeOK, NEW r \in Requests, FreeName(r)
  PROVE  /\ req[r] \in Claiming /\ req[r].pc = "free" /\ req[r].key \in Keys
         /\ req'[r].pc = "name" /\ req'[r].key = req[r].key /\ req'[r].name = req[r].name
         /\ req'[r].seen = req[r].seen /\ req'[r].existing = req[r].existing
         /\ \A q \in Requests \ {r} : req'[q] = req[q]
         /\ names' = [names EXCEPT ![req[r].existing.name] = NoKey]
         /\ loose \subseteq loose'
         /\ UNCHANGED entry
<1>1. req[r] \in Claiming /\ req[r].pc = "free" /\ req[r].pc \in ClaimPcs
  BY ClaimRequest DEF FreeName, At, ClaimPcs
<1>2. Advance(r, "name")
  BY DEF FreeName
<1>3. loose \subseteq loose' /\ UNCHANGED entry /\ names' = [names EXCEPT ![req[r].existing.name] = NoKey]
  BY DEF FreeName
<1> QED
  BY <1>1, <1>2, <1>3, Advanced DEF ClaimPcs, Claiming

LEMMA PutNameStep ==
  ASSUME TypeOK, NEW r \in Requests, PutName(r)
  PROVE  /\ req[r] \in Claiming /\ req[r].pc = "name" /\ req[r].key \in Keys /\ req[r].name \in Names
         /\ req'[r].pc = "saveName" /\ req'[r].key = req[r].key /\ req'[r].name = req[r].name
         /\ req'[r].seen = req[r].seen /\ req'[r].existing = req[r].existing
         /\ \A q \in Requests \ {r} : req'[q] = req[q]
         /\ names' = [names EXCEPT ![req[r].name] = req[r].key]
         /\ loose \subseteq loose'
         /\ UNCHANGED entry
<1>1. req[r] \in Claiming /\ req[r].pc = "name" /\ req[r].pc \in ClaimPcs
  BY ClaimRequest DEF PutName, At, ClaimPcs
<1>2. Advance(r, "saveName")
  BY DEF PutName
<1>3. loose \subseteq loose' /\ UNCHANGED entry /\ names' = [names EXCEPT ![req[r].name] = req[r].key]
  BY DEF PutName
<1> QED
  BY <1>1, <1>2, <1>3, Advanced DEF ClaimPcs, Claiming

(* A key and its name lead to one another, unless requests crossed in the
   entry or in the name, or a claim stopped half way (claim is five calls,
   without a lock). *)
THEOREM NamesMatch == Spec => []NamesMatchUnlessCrossed
<1>1. Init => NamesInv
  <2> SUFFICES ASSUME Init PROVE NamesInv
    OBVIOUS
  <2>1. \A r \in Requests : req[r].pc = "idle"
    BY DEF Init, Idle
  <2>2. \A k \in Keys : entry[k].name = NoName
    <3> DEFINE Old(o, c) == [k \in Keys |-> IF k = o THEN [cid |-> c, seq |-> 1, name |-> NoName] ELSE NoEntry]
    <3>1. entry \in {[k \in Keys |-> NoEntry]}
                  \cup {Old(o, c) : o \in {p.key : p \in Pushes},
                                   c \in {p.cid : p \in {q \in Pushes : q.parent = NoVersion}}}
      BY DEF Init
    <3> HIDE DEF Old
    <3>2. entry = [k \in Keys |-> NoEntry] \/ \E o, c : entry = Old(o, c)
      BY <3>1
    <3>3. ASSUME NEW o, NEW c, NEW k \in Keys PROVE Old(o, c)[k].name = NoName
      BY DEF NoEntry, Old
    <3>4. CASE entry = [k \in Keys |-> NoEntry]
      BY <3>4 DEF NoEntry
    <3>5. CASE \E o, c : entry = Old(o, c)
      BY <3>3, <3>5, Zenon
    <3> QED
      BY <3>2, <3>4, <3>5
  <2>3. \A k \in Keys, m \in Names : names[m] # k /\ entry[k].name # m
    BY <2>2, ConstantsAssumption DEF Init
  <2> QED
    BY <2>1, <2>3 DEF NamesInv, ClaimKnows, KeyKeepsName, OnlyItsName, OnlyNewName, OneSaver,
                      OldNameFreed, EntryNameLeads, NewNameLeads, ClaimAt, ClaimPcs
<1>2. TypeOK /\ NamesInv /\ [Next]_vars => NamesInv'
  <2> SUFFICES ASSUME TypeOK, NamesInv, [Next]_vars PROVE NamesInv'
    OBVIOUS
  <2> DEFINE Kept == \A k \in Keys : k \notin loose' => KeyKeepsName(k)'
  <2>0. ASSUME NEW r \in Requests, \A q \in Requests \ {r} : req'[q] = req[q], ClaimKnows(r)', Kept
        PROVE  NamesInv'
    BY <2>0 DEF NamesInv, ClaimKnows, HasOther
  <2>00. ASSUME NEW r \in Requests, req'[r].pc \notin ClaimPcs PROVE ClaimKnows(r)'
    BY <2>00 DEF ClaimKnows, ClaimPcs
  <2>1. ASSUME NEW r \in Requests, QuietPush(r) \/ QuietClaim(r) PROVE NamesInv'
    <3>1. /\ UNCHANGED <<entry, names, heads, behind, loose>>
          /\ \A q \in Requests \ {r} : req'[q] = req[q]
      BY <2>1, QuietPushStep, QuietClaimStep
    <3>2. CASE QuietPush(r)
      <4>1. req[r].pc \notin ClaimPcs /\ req'[r].pc \notin ClaimPcs
        BY <3>2, QuietPushStep
      <4>2. Kept
        BY <3>1, <4>1, KeyUntouched DEF NamesInv, ClaimAt, ClaimPcs
      <4> QED
        BY <2>0, <2>00, <3>1, <4>1, <4>2
    <3>3. ASSUME NEW k \in Keys, NEW n \in Names, BeginClaim(r, k, n) PROVE NamesInv'
      <4>1. /\ req[r].pc = "idle" /\ req'[r].pc = "readEntry"
            /\ req'[r].key = k /\ req'[r].seen \in {NoKey, k}
        BY <3>3 DEF BeginClaim, At, TypeOK
      <4>2. Kept
        BY <3>1, <4>1, KeyUntouched DEF NamesInv, ClaimAt
      <4>3. ClaimKnows(r)'
        BY <4>1 DEF ClaimKnows
      <4> QED
        BY <2>0, <3>1, <4>2, <4>3
    <3>4. CASE ReadEntry(r)
      <4> DEFINE e == entry[req[r].key]
      <4>1. req[r] \in Claiming /\ req[r].pc = "readEntry" /\ req[r].pc \in ClaimPcs /\ req[r].key \in Keys
        BY <3>4, ClaimRequest DEF ReadEntry, At, ClaimPcs, Claiming
      <4>2. /\ req'[r].pc = IF HasOther(e, req[r].name) THEN "free" ELSE "name"
            /\ req'[r].key = req[r].key /\ req'[r].name = req[r].name
            /\ req'[r].seen = req[r].seen /\ req'[r].existing = e
        BY <3>4, <4>1 DEF ReadEntry, TypeOK, Claiming
      <4>3. ClaimKnows(r)'
        <5>1. ClaimKnows(r)
          BY DEF NamesInv
        <5> QED
          BY <4>1, <4>2, <5>1 DEF ClaimKnows, HasOther
      <4>4. ASSUME NEW k \in Keys, k \notin loose' PROVE KeyKeepsName(k)'
        <5>1. KeyKeepsName(k)
          BY <3>1, <4>4 DEF NamesInv
        <5>2. CASE k # req[r].key
          BY <3>1, <4>1, <4>2, <5>1, <5>2, KeyUntouched DEF ClaimAt
        <5>3. CASE k = req[r].key
          <6>1. \A t \in Requests : ClaimAt(t, k, "saveName")' <=> ClaimAt(t, k, "saveName")
            BY <3>1, <4>1, <4>2 DEF ClaimAt
          <6>2. \A t \in Requests : ClaimAt(t, k, "name") => ClaimAt(t, k, "name")' /\ t # r
            BY <3>1, <4>1 DEF ClaimAt
          <6>3. \A t \in Requests : ClaimAt(t, k, "saveName") => t # r /\ req'[t] = req[t]
            BY <3>1, <4>1 DEF ClaimAt
          <6>4. OnlyItsName(k)' /\ OnlyNewName(k)' /\ OneSaver(k)'
            BY <3>1, <5>1, <6>1, <6>3 DEF KeyKeepsName, OnlyItsName, OnlyNewName, OneSaver
          <6>5. EntryNameLeads(k)' /\ NewNameLeads(k)'
            BY <3>1, <5>1, <6>1, <6>2, <6>3 DEF KeyKeepsName, EntryNameLeads, NewNameLeads
          <6>6. OldNameFreed(k)'
            <7> SUFFICES ASSUME NEW t \in Requests, ClaimAt(t, k, "name")', HasOther(req'[t].existing, req'[t].name)
                         PROVE  names'[req'[t].existing.name] # k
              BY DEF OldNameFreed, HasOther
            <7>1. t # r
              BY <4>2 DEF ClaimAt
            <7> QED
              BY <3>1, <5>1, <7>1 DEF KeyKeepsName, OldNameFreed, ClaimAt
          <6> QED
            BY <6>4, <6>5, <6>6 DEF KeyKeepsName
        <5> QED
          BY <5>2, <5>3
      <4> QED
        BY <2>0, <3>1, <4>3, <4>4
    <3> QED
      BY <2>1, <3>2, <3>3, <3>4 DEF QuietClaim
  <2>2. ASSUME NEW r \in Requests, MoveHead(r) PROVE NamesInv'
    <3>1. req[r].pc \in PushPcs /\ UNCHANGED <<entry, names, loose>>
      BY <2>2 DEF MoveHead, PushPcs
    <3>2. req'[r].pc \notin ClaimPcs /\ \A q \in Requests \ {r} : req'[q] = req[q]
      BY <2>2, <3>1, Advanced, Finished DEF MoveHead, PushPcs, ClaimPcs
    <3>3. Kept
      BY <3>1, <3>2, KeyUntouched DEF NamesInv, ClaimAt, ClaimPcs, PushPcs
    <3> QED
      BY <2>0, <2>00, <3>2, <3>3
  <2>3. ASSUME NEW r \in Requests, SaveEntry(r) PROVE NamesInv'
    <3>1. /\ req[r].pc = "save" /\ req'[r].pc = "mark" /\ UNCHANGED names
          /\ \A q \in Requests \ {r} : req'[q] = req[q]
      BY <2>3, SaveEntryStep DEF SaveEntry, At
    <3>2. ASSUME NEW k \in Keys, k \notin loose' PROVE k \notin loose /\ entry'[k].name = entry[k].name
      <4>1. CASE k = req[r].push.key
        BY <2>3, <3>2, <4>1, SaveEntryStep DEF SaveEntry
      <4>2. CASE k # req[r].push.key
        BY <2>3, <3>2, <4>2, SaveEntryStep DEF SaveEntry
      <4> QED
        BY <4>1, <4>2
    <3>3. Kept
      BY <3>1, <3>2, KeyUntouched DEF NamesInv, ClaimAt
    <3> QED
      BY <2>0, <2>00, <3>1, <3>3 DEF ClaimPcs
  <2>4. ASSUME NEW r \in Requests, FreeName(r) PROVE NamesInv'
    <3> DEFINE old == req[r].existing.name
    <3>1. ClaimKnows(r)'
      <4>1. ClaimKnows(r)
        BY DEF NamesInv
      <4> QED
        BY <2>4, <4>1, FreeNameStep DEF ClaimKnows, ClaimPcs
    <3>2. old \in Names
      BY <2>4, FreeNameStep DEF NamesInv, ClaimKnows, HasOther, Claiming, Entry
    <3>3. ASSUME NEW k \in Keys, k \notin loose' PROVE KeyKeepsName(k)'
      <4>1. KeyKeepsName(k)
        BY <2>4, <3>3, FreeNameStep DEF NamesInv
      <4>2. CASE k # req[r].key
        <5>1. names[old] # k
          BY <2>4, <3>3, <4>2 DEF FreeName
        <5>2. \A m \in Names : names'[m] = k <=> names[m] = k
          BY <2>4, <5>1, FreeNameStep, ConstantsAssumption DEF TypeOK
        <5> QED
          BY <2>4, <4>1, <4>2, <5>2, FreeNameStep, KeyUntouched DEF ClaimAt
      <4>3. CASE k = req[r].key
        <5>1. \A m \in Names : names'[m] = k => names[m] = k
          BY <2>4, FreeNameStep, ConstantsAssumption DEF TypeOK
        <5>2. names'[old] # k
          BY <2>4, <3>2, FreeNameStep, ConstantsAssumption DEF TypeOK
        <5>3. ClaimAt(r, k, "name")' /\ req'[r].existing = req[r].existing
          BY <2>4, <4>3, FreeNameStep DEF ClaimAt
        <5>4. \A t \in Requests : ClaimAt(t, k, "saveName")' <=> ClaimAt(t, k, "saveName")
          BY <2>4, FreeNameStep DEF ClaimAt
        <5>5. \A t \in Requests : ClaimAt(t, k, "saveName") => t # r /\ req'[t] = req[t]
          BY <2>4, FreeNameStep DEF ClaimAt
        <5>6. OnlyItsName(k)' /\ OnlyNewName(k)' /\ OneSaver(k)'
          BY <2>4, <4>1, <5>1, <5>4, <5>5, FreeNameStep DEF KeyKeepsName, OnlyItsName, OnlyNewName, OneSaver
        <5>7. EntryNameLeads(k)' /\ NewNameLeads(k)'
          BY <5>3 DEF EntryNameLeads, NewNameLeads
        <5>8. OldNameFreed(k)'
          <6> SUFFICES ASSUME NEW t \in Requests, ClaimAt(t, k, "name")', HasOther(req'[t].existing, req'[t].name)
                       PROVE  names'[req'[t].existing.name] # k
            BY DEF OldNameFreed, HasOther
          <6>1. CASE t = r
            BY <5>2, <5>3, <6>1
          <6>2. CASE t # r
            <7>1. ClaimAt(t, k, "name") /\ req'[t] = req[t] /\ HasOther(req[t].existing, req[t].name)
              BY <2>4, <6>2, FreeNameStep DEF ClaimAt
            <7>2. names[req[t].existing.name] # k
              BY <4>1, <7>1 DEF KeyKeepsName, OldNameFreed
            <7>3. req[t].existing.name \in Names
              BY <7>1, ClaimRequest DEF ClaimAt, ClaimPcs, Claiming, Entry, HasOther
            <7> QED
              BY <5>1, <7>1, <7>2, <7>3
          <6> QED
            BY <6>1, <6>2
        <5> QED
          BY <5>6, <5>7, <5>8 DEF KeyKeepsName
      <4> QED
        BY <4>2, <4>3
    <3> QED
      BY <2>0, <2>4, <3>1, <3>3, FreeNameStep
  <2>5. ASSUME NEW r \in Requests, PutName(r) PROVE NamesInv'
    <3> DEFINE n == req[r].name
    <3>0. ClaimKnows(r)
      BY DEF NamesInv
    <3>1. ClaimKnows(r)' /\ req[r].seen \in {NoKey, req[r].key}
      BY <2>5, <3>0, PutNameStep DEF ClaimKnows, ClaimPcs
    <3>2. ASSUME NEW k \in Keys, k \notin loose' PROVE KeyKeepsName(k)'
      <4>1. KeyKeepsName(k)
        BY <2>5, <3>2, PutNameStep DEF NamesInv
      <4>2. CASE k # req[r].key
        <5>1. names[n] # k
          BY <2>5, <3>1, <3>2, <4>2, ConstantsAssumption DEF PutName
        <5>2. \A m \in Names : names'[m] = k <=> names[m] = k
          BY <2>5, <4>2, <5>1, PutNameStep DEF TypeOK
        <5> QED
          BY <2>5, <4>1, <4>2, <5>2, PutNameStep, KeyUntouched DEF ClaimAt
      <4>3. CASE k = req[r].key
        <5>1. \A t \in Requests \ {r} : ~Claims(t, k)
          BY <2>5, <3>2, <4>3 DEF PutName
        <5>2. \A t \in Requests \ {r} : ~ClaimAt(t, k, "name") /\ ~ClaimAt(t, k, "saveName")
          BY <5>1 DEF Claims, ClaimAt
        <5>3. ClaimAt(r, k, "name") /\ ClaimAt(r, k, "saveName")' /\ ~ClaimAt(r, k, "saveName")
          BY <2>5, <4>3, PutNameStep DEF ClaimAt
        <5>4. \A t \in Requests \ {r} : ~ClaimAt(t, k, "name")' /\ ~ClaimAt(t, k, "saveName")'
          BY <2>5, <5>2, PutNameStep DEF ClaimAt
        <5>5. names'[n] = k /\ \A m \in Names \ {n} : names'[m] = names[m]
          BY <2>5, <4>3, PutNameStep DEF TypeOK
        <5>6. \A m \in Names : names[m] = k => entry[k].name = m
          BY <4>1, <5>2, <5>3 DEF KeyKeepsName, OnlyItsName
        <5>7. OnlyNewName(k)'
          <6> SUFFICES ASSUME entry[k].name = req[r].existing.name, NEW m \in Names, names'[m] = k, m # n
                       PROVE  FALSE
            BY <2>5, <5>4, PutNameStep DEF OnlyNewName
          <6>1. names[m] = k /\ m = req[r].existing.name
            BY <5>5, <5>6
          <6>2. HasOther(req[r].existing, n)
            BY <6>1, ConstantsAssumption DEF HasOther
          <6> QED
            BY <4>1, <5>3, <6>1, <6>2 DEF KeyKeepsName, OldNameFreed
        <5>8. OnlyItsName(k)' /\ EntryNameLeads(k)' /\ OneSaver(k)'
          BY <5>3, <5>4 DEF OnlyItsName, EntryNameLeads, OneSaver
        <5>9. ~ClaimAt(r, k, "name")'
          BY <2>5, PutNameStep DEF ClaimAt
        <5>10. OldNameFreed(k)'
          BY <5>4, <5>9 DEF OldNameFreed
        <5>11. NewNameLeads(k)'
          BY <2>5, <5>4, <5>5, PutNameStep DEF NewNameLeads
        <5> QED
          BY <5>7, <5>8, <5>10, <5>11 DEF KeyKeepsName
      <4> QED
        BY <4>2, <4>3
    <3> QED
      BY <2>0, <2>5, <3>1, <3>2, PutNameStep
  <2>6. ASSUME NEW r \in Requests, SaveName(r) PROVE NamesInv'
    <3> DEFINE n == req[r].name
    <3>1. req[r].pc = "saveName"
      BY <2>6 DEF SaveName, At
    <3>2. ASSUME NEW k \in Keys, k \notin loose' PROVE KeyKeepsName(k)'
      <4>1. k \notin loose /\ KeyKeepsName(k)
        BY <2>6, <3>2 DEF SaveName, NamesInv
      <4>2. CASE k # req[r].key
        BY <2>6, <4>1, <4>2, SaveNameStep, KeyUntouched DEF ClaimAt
      <4>3. CASE k = req[r].key
        <5>1. ClaimAt(r, k, "saveName") /\ entry[k] = req[r].existing
          BY <2>6, <3>1, <3>2, <4>3 DEF SaveName, ClaimAt
        <5>2. \A t \in Requests : ~ClaimAt(t, k, "saveName")'
          BY <2>6, <4>1, <5>1, SaveNameStep DEF KeyKeepsName, OneSaver, ClaimAt
        <5>3. \A t \in Requests : ClaimAt(t, k, "name")' <=> ClaimAt(t, k, "name")
          BY <2>6, <3>1, SaveNameStep DEF ClaimAt
        <5>4. \A t \in Requests : ClaimAt(t, k, "name") => req'[t] = req[t]
          BY <2>6, <3>1, SaveNameStep DEF ClaimAt
        <5>5. names' = names /\ entry'[k].name = n
          BY <2>6, <4>3, SaveNameStep
        <5>6. OnlyItsName(k)'
          BY <4>1, <5>1, <5>5 DEF KeyKeepsName, OnlyNewName, OnlyItsName
        <5>7. EntryNameLeads(k)'
          BY <4>1, <5>1, <5>3, <5>5 DEF KeyKeepsName, NewNameLeads, EntryNameLeads
        <5>8. OnlyNewName(k)' /\ OneSaver(k)' /\ NewNameLeads(k)'
          BY <5>2 DEF OnlyNewName, OneSaver, NewNameLeads
        <5>9. OldNameFreed(k)'
          BY <4>1, <5>3, <5>4, <5>5 DEF KeyKeepsName, OldNameFreed, HasOther
        <5> QED
          BY <5>6, <5>7, <5>8, <5>9 DEF KeyKeepsName
      <4> QED
        BY <4>2, <4>3
    <3> QED
      BY <2>0, <2>00, <2>6, <3>2, SaveNameStep DEF ClaimPcs
  <2>7. ASSUME NEW r \in Requests, Fails(r) PROVE NamesInv'
    <3>1. /\ req'[r].pc = "idle" /\ \A q \in Requests \ {r} : req'[q] = req[q]
          /\ UNCHANGED <<entry, names>> /\ loose \subseteq loose'
      BY <2>7, Finished DEF Fails
    <3>2. ASSUME NEW k \in Keys, k \notin loose' PROVE KeyKeepsName(k)'
      <4>1. ~ClaimAt(r, k, "name") /\ ~ClaimAt(r, k, "saveName")
        BY <2>7, <3>2 DEF Fails, ClaimAt
      <4> QED
        BY <3>1, <3>2, <4>1, KeyUntouched DEF NamesInv, ClaimAt
    <3> QED
      BY <2>0, <2>00, <3>1, <3>2 DEF ClaimPcs
  <2>8. CASE UNCHANGED vars
    <3>1. Kept
      BY <2>8, KeyUntouched DEF vars, NamesInv, ClaimAt
    <3>2. \A r \in Requests : ClaimKnows(r)'
      BY <2>8 DEF vars, NamesInv, ClaimKnows, HasOther
    <3> QED
      BY <3>1, <3>2 DEF NamesInv
  <2> QED
    BY <2>1, <2>2, <2>3, <2>4, <2>5, <2>6, <2>7, <2>8, NextCases
<1>3. NamesInv => NamesMatchUnlessCrossed
  <2> SUFFICES ASSUME NamesInv, NEW k \in Keys, k \notin loose, ~RenamingNow(k), NEW m \in Names
               PROVE  names[m] = k <=> entry[k].name = m
    BY DEF NamesMatchUnlessCrossed
  <2>1. \A t \in Requests : ~ClaimAt(t, k, "name") /\ ~ClaimAt(t, k, "saveName")
    BY DEF RenamingNow, ClaimAt
  <2> QED
    BY <2>1 DEF NamesInv, KeyKeepsName, OnlyItsName, EntryNameLeads
<1> QED
  BY <1>1, <1>2, <1>3, TypeCorrect, PTL DEF Spec

-----------------------------------------------------------------------------
(* Map m leads to files of version c only, and to each one that is not stored
   with it. *)
Sound(c, m) == \A x \in m : \E f \in stored[x[2]] : PathOf[f] = x[1] /\ f \in c
Complete(c, m) ==
  \A f \in c \ stored[c] : \E v \in Versions : <<PathOf[f], v>> \in m /\ f \in stored[v]

(* A version has a map, or every file is stored with it. *)
Whole(c) == maps[c] # {} \/ c \subseteq stored[c]
WholeIfAny(c) == c # NoVersion => c \in Versions /\ Whole(c)

StoresAreWhole ==
  /\ \A c \in Versions : stored[c] \subseteq c
  /\ \A c \in Versions : \A m \in maps[c] : Sound(c, m) /\ Complete(c, m)

HeadsLeadToWhole ==
  \A k \in Keys : /\ WholeIfAny(heads[k].cid) /\ WholeIfAny(entry[k].cid)
                  /\ heads[k] # NoHead => heads[k].cid # NoVersion

(* The files of a push that is received in parts, the parent it was accepted
   on, and its version once its files and its map are there. *)
PartHeld(r) ==
  /\ req[r].pc \in {"head", "owner", "own", "files"} =>
       /\ req[r].left \subseteq req[r].push.own
       /\ req[r].last => req[r].push.own \ req[r].left \subseteq stored[req[r].push.cid]
  /\ req[r].pc = "carry" => req[r].push.own \subseteq stored[req[r].push.cid]

RequestLeadsToWhole(r) ==
  /\ req[r].pc \in PushPcs \cup {"free", "name", "saveName"} => WholeIfAny(req[r].existing.cid)
  /\ req[r].pc \in {"owner", "own", "files", "carry"} => WholeIfAny(req[r].push.parent)
  /\ req[r].pc \in {"move", "check", "moveAgain", "save", "mark", "notify"} => Whole(req[r].push.cid)

WholeInv ==
  /\ StoresAreWhole /\ HeadsLeadToWhole
  /\ \A r \in Requests : PartHeld(r) /\ RequestLeadsToWhole(r)

-----------------------------------------------------------------------------
(* A version has one file at a path. *)
LEMMA OneFileAtAPath ==
  ASSUME NEW c \in Versions, NEW f \in c, NEW g \in c, PathOf[f] = PathOf[g]
  PROVE  f = g
  BY PushesAssumption

LEMMA StoredPath ==
  ASSUME NEW c \in Versions, stored[c] \subseteq c, NEW f \in c, f \notin stored[c]
  PROVE  PathOf[f] \notin PathsIn(stored[c])
  BY OneFileAtAPath DEF PathsIn

(* Every map that an isolate may use of a whole version is sound and
   complete. *)
LEMMA AnyMapWillDo ==
  ASSUME StoresAreWhole, NEW c \in Versions, Whole(c), NEW m \in carryOf(c)
  PROVE  Sound(c, m) /\ Complete(c, m)
<1>1. CASE maps[c] = {}
  BY <1>1 DEF Whole, carryOf, Sound, Complete
<1>2. CASE maps[c] # {}
  BY <1>2 DEF StoresAreWhole, carryOf
<1> QED
  BY <1>1, <1>2

(* Through a sound and complete map the host finds exactly the version. *)
LEMMA FoundIsTheVersion ==
  ASSUME TypeOK, StoresAreWhole, NEW c \in Versions, NEW m, Sound(c, m), Complete(c, m), m \in Maps
  PROVE  Found(c, m) = c /\ Listed(c, m) = PathsIn(c)
<1>1. stored[c] \subseteq c /\ c \subseteq Files
  BY ConstantsAssumption DEF StoresAreWhole
<1>2. ASSUME NEW f \in c PROVE f \in Found(c, m)
  <2>1. CASE f \in stored[c]
    BY <2>1 DEF Found
  <2>2. CASE f \notin stored[c]
    BY <1>1, <2>2, StoredPath DEF Found, Complete
  <2> QED
    BY <2>1, <2>2
<1>3. ASSUME NEW f \in Found(c, m) PROVE f \in c
  <2>1. CASE f \in stored[c]
    BY <1>1, <2>1
  <2>2. CASE f \notin stored[c]
    <3>1. PICK v \in Versions : <<PathOf[f], v>> \in m /\ f \in stored[v]
      BY <2>2 DEF Found
    <3>2. PICK g \in stored[v] : PathOf[g] = PathOf[f] /\ g \in c
      BY <3>1 DEF Sound
    <3>3. f = g
      BY <3>1, <3>2, OneFileAtAPath DEF StoresAreWhole
    <3> QED
      BY <3>2, <3>3
  <2> QED
    BY <2>1, <2>2
<1>4. PathsIn(c) \subseteq Listed(c, m)
  <2> SUFFICES ASSUME NEW f \in c PROVE PathOf[f] \in Listed(c, m)
    BY DEF PathsIn
  <2>1. CASE f \in stored[c]
    BY <2>1 DEF Listed, PathsIn
  <2>2. CASE f \notin stored[c]
    <3>1. PICK v \in Versions : <<PathOf[f], v>> \in m
      BY <2>2 DEF Complete
    <3>2. <<PathOf[f], v>>[1] = PathOf[f]
      OBVIOUS
    <3> QED
      BY <3>1, <3>2 DEF Listed
  <2> QED
    BY <2>1, <2>2
<1>5. Listed(c, m) \subseteq PathsIn(c)
  BY <1>1 DEF Listed, PathsIn, Sound
<1> QED
  BY <1>2, <1>3, <1>4, <1>5

(* What a push carries from a whole parent leads to exactly what it did not
   upload, whichever map of the parent was used (saveCarry,
   saveManifestCarry). *)
LEMMA CarriedIsTheRest ==
  ASSUME TypeOK, StoresAreWhole, NEW p \in Pushes, p.parent # NoVersion, Whole(p.parent),
         NEW m \in carryOf(p.parent), p.own \subseteq stored[p.cid],
         ~(p.manifest /\ BadManifest(p, m))
  PROVE  Sound(p.cid, MapAfter(p, m)) /\ Complete(p.cid, MapAfter(p, m))
<1> DEFINE par  == p.parent
           from == {<<PathOf[f], par>> : f \in stored[par]} \cup {x \in m : x[1] \notin PathsIn(stored[par])}
           kept == IF p.manifest THEN p.carry ELSE PathsIn(par) \ PathsIn(p.own)
<1>1. /\ par \in Versions /\ p.cid \in Versions
      /\ stored[par] \subseteq par /\ stored[p.cid] \subseteq p.cid
      /\ Sound(par, m) /\ Complete(par, m)
  BY PushFields, AnyMapWillDo DEF StoresAreWhole
<1>2. ASSUME NEW x \in from PROVE \E f \in stored[x[2]] : PathOf[f] = x[1] /\ f \in par
  <2>1. CASE x \in m
    BY <1>1, <2>1 DEF Sound
  <2>2. ASSUME NEW f \in stored[par], x = <<PathOf[f], par>>
        PROVE  \E g \in stored[x[2]] : PathOf[g] = x[1] /\ g \in par
    BY <1>1, <2>2
  <2> QED
    BY <2>1, <2>2
<1>3. ASSUME NEW f \in par PROVE \E v \in Versions : <<PathOf[f], v>> \in from /\ f \in stored[v]
  <2>1. CASE f \in stored[par]
    BY <1>1, <2>1
  <2>2. CASE f \notin stored[par]
    <3>1. PICK v \in Versions : <<PathOf[f], v>> \in m /\ f \in stored[v]
      BY <1>1, <2>2 DEF Complete
    <3>2. PathOf[f] \notin PathsIn(stored[par])
      BY <1>1, <2>2, StoredPath
    <3>3. <<PathOf[f], v>>[1] = PathOf[f]
      OBVIOUS
    <3> QED
      BY <3>1, <3>2, <3>3
  <2> QED
    BY <2>1, <2>2
<1>4. PathsIn(p.own) \subseteq PathsIn(stored[p.cid])
  BY DEF PathsIn
<1>5. p.cid = p.own \cup {f \in par : PathOf[f] \in kept}
  <2>1. CASE p.manifest
    <3>1. /\ p.carry \cap PathsIn(stored[p.cid]) = {}
          /\ p.carry \subseteq PathsIn(stored[par]) \cup {x[1] : x \in m}
      BY <2>1 DEF BadManifest
    <3>2. PathsIn(stored[par]) \cup {x[1] : x \in m} \subseteq PathsIn(par)
      BY <1>1 DEF PathsIn, Sound
    <3>3. p.carry \subseteq PathsIn(par) \ PathsIn(p.own)
      BY <1>4, <3>1, <3>2
    <3> QED
      BY <2>1, <3>3, PushesAssumption
  <2>2. CASE ~p.manifest
    BY <2>2, PushesAssumption
  <2> QED
    BY <2>1, <2>2
<1>6. \A x : x \in MapAfter(p, m) <=>
        x \in from /\ IF p.manifest THEN x[1] \in p.carry ELSE x[1] \notin PathsIn(stored[p.cid])
  BY DEF MapAfter
<1>7. Sound(p.cid, MapAfter(p, m))
  <2> SUFFICES ASSUME NEW x \in MapAfter(p, m)
               PROVE  \E f \in stored[x[2]] : PathOf[f] = x[1] /\ f \in p.cid
    BY DEF Sound
  <2>1. PICK f \in stored[x[2]] : PathOf[f] = x[1] /\ f \in par
    BY <1>2, <1>6
  <2>2. PathOf[f] \in kept
    BY <1>4, <1>6, <2>1 DEF PathsIn
  <2> QED
    BY <1>5, <2>1, <2>2
<1>8. Complete(p.cid, MapAfter(p, m))
  <2> SUFFICES ASSUME NEW f \in p.cid \ stored[p.cid]
               PROVE  \E v \in Versions : <<PathOf[f], v>> \in MapAfter(p, m) /\ f \in stored[v]
    BY DEF Complete
  <2>1. f \in par /\ PathOf[f] \in kept
    BY <1>5
  <2>2. PathOf[f] \notin PathsIn(stored[p.cid])
    BY <1>1, StoredPath
  <2>3. PICK v \in Versions : <<PathOf[f], v>> \in from /\ f \in stored[v]
    BY <1>3, <2>1
  <2>4. <<PathOf[f], v>>[1] = PathOf[f]
    OBVIOUS
  <2>5. <<PathOf[f], v>> \in MapAfter(p, m)
    BY <1>6, <2>1, <2>2, <2>3, <2>4
  <2> QED
    BY <2>3, <2>5
<1> QED
  BY <1>7, <1>8

(* Stores and maps only grow, so what was whole stays whole. *)
Grows == /\ \A c \in Versions : stored[c] \subseteq stored'[c]
         /\ \A c \in Versions : maps[c] \subseteq maps'[c]

LEMMA WholeStays ==
  ASSUME Grows, NEW c
  PROVE  /\ c \in Versions /\ Whole(c) => Whole(c)'
         /\ WholeIfAny(c) => WholeIfAny(c)'
<1>1. c \in Versions /\ Whole(c) => Whole(c)'
  BY DEF Grows, Whole
<1> QED
  BY <1>1 DEF WholeIfAny

LEMMA SameRequestStays ==
  ASSUME TypeOK, Grows, NEW r \in Requests, req'[r] = req[r], PartHeld(r), RequestLeadsToWhole(r)
  PROVE  PartHeld(r)' /\ RequestLeadsToWhole(r)'
<1>1. req[r].pc \in PushPcs => req[r].push.cid \in Versions
  BY PushRequest, PushFields
<1>2. PartHeld(r)'
  BY <1>1 DEF PartHeld, Grows, PushPcs
<1>3. \A c : /\ WholeIfAny(c) => WholeIfAny(c)'
             /\ c \in Versions /\ Whole(c) => Whole(c)'
  BY WholeStays
<1>4. RequestLeadsToWhole(r)'
  <2>1. req[r].pc \in PushPcs \cup {"free", "name", "saveName"} => WholeIfAny(req[r].existing.cid)'
    BY <1>3 DEF RequestLeadsToWhole
  <2>2. req[r].pc \in {"owner", "own", "files", "carry"} => WholeIfAny(req[r].push.parent)'
    BY <1>3 DEF RequestLeadsToWhole
  <2>3. req[r].pc \in {"move", "check", "moveAgain", "save", "mark", "notify"} => Whole(req[r].push.cid)'
    BY <1>1, <1>3 DEF RequestLeadsToWhole, PushPcs
  <2> QED
    BY <2>1, <2>2, <2>3 DEF RequestLeadsToWhole, WholeIfAny, Whole
<1> QED
  BY <1>2, <1>4

(* A store that gains a file of the version, or none, stays whole. *)
LEMMA StoresStayWhole ==
  ASSUME TypeOK, StoresAreWhole, Grows, UNCHANGED maps,
         \A c \in Versions : stored'[c] \subseteq c
  PROVE  StoresAreWhole'
<1>1. ASSUME NEW c \in Versions, NEW m \in maps[c] PROVE Sound(c, m)' /\ Complete(c, m)'
  <2>1. Sound(c, m) /\ Complete(c, m) /\ m \in Maps
    BY DEF StoresAreWhole, TypeOK
  <2>2. \A x \in m : x[2] \in Versions
    BY <2>1 DEF Maps
  <2> QED
    BY <2>1, <2>2 DEF Sound, Complete, Grows
<1> QED
  BY <1>1 DEF StoresAreWhole, Sound, Complete

(* What a request reads of a key's entry or head leads to a whole version. *)
LEMMA HeadReadIsWhole ==
  ASSUME HeadsLeadToWhole, NEW k \in Keys, NEW e, WholeIfAny(e.cid)
  PROVE  WholeIfAny(headOf(k, e).cid)
  BY DEF HeadsLeadToWhole, headOf, HeadIn

(* Whatever map an isolate has cached, the host finds every file of a head,
   and nothing that is not in it, and the node is told exactly the paths of
   the version (r2, carryOf, saveCarry, saveManifestCarry, notifyNode). *)
THEOREM HeadsWhole == Spec => []HeadsAreWhole
<1>1. Init => WholeInv
  <2> SUFFICES ASSUME Init PROVE WholeInv
    OBVIOUS
  <2>1. entry \in [Keys -> Entry] /\ \A k \in Keys : entry[k].cid \in Versions \cup {NoVersion}
    <3>1. entry \in [Keys -> Entry]
      BY ConstantsAssumption, PushFields DEF Init, NoEntry, Entry
    <3> QED
      BY <3>1 DEF Entry
  <2>2. /\ stored = [c \in Versions |-> IF \E k \in Keys : entry[k].cid = c THEN c ELSE {}]
        /\ maps = [c \in Versions |-> {}] /\ heads = [k \in Keys |-> NoHead]
        /\ req = [r \in Requests |-> Idle]
    BY DEF Init
  <2>3. StoresAreWhole
    BY <2>2 DEF StoresAreWhole
  <2>4. HeadsLeadToWhole
    BY <2>1, <2>2 DEF HeadsLeadToWhole, WholeIfAny, Whole, NoHead
  <2>5. \A r \in Requests : PartHeld(r) /\ RequestLeadsToWhole(r)
    BY <2>2 DEF PartHeld, RequestLeadsToWhole, Idle, PushPcs
  <2> QED
    BY <2>3, <2>4, <2>5 DEF WholeInv
<1>2. TypeOK /\ WholeInv /\ [Next]_vars => WholeInv'
  <2> SUFFICES ASSUME TypeOK, WholeInv, [Next]_vars PROVE WholeInv'
    OBVIOUS
  <2> DEFINE Known(r) == PartHeld(r) /\ RequestLeadsToWhole(r)
             Others(r) == \A q \in Requests \ {r} : req'[q] = req[q]
  <2>0. ASSUME NEW r \in Requests, Others(r), Grows, StoresAreWhole', HeadsLeadToWhole', Known(r)'
        PROVE  WholeInv'
    <3>1. \A q \in Requests \ {r} : PartHeld(q)' /\ RequestLeadsToWhole(q)'
      BY <2>0, SameRequestStays DEF WholeInv
    <3> QED
      BY <2>0, <3>1 DEF WholeInv
  <2>s. ASSUME UNCHANGED <<stored, maps>> PROVE Grows /\ StoresAreWhole'
    BY <2>s DEF Grows, WholeInv, StoresAreWhole, Sound, Complete
  <2>h. ASSUME Grows, UNCHANGED <<heads, entry>> PROVE HeadsLeadToWhole'
    <3>1. \A c : WholeIfAny(c) => WholeIfAny(c)'
      BY <2>h, WholeStays
    <3> QED
      BY <2>h, <3>1 DEF WholeInv, HeadsLeadToWhole
  <2>i. ASSUME NEW r \in Requests, req'[r].pc \in {"idle", "readEntry"} PROVE Known(r)'
    BY <2>i DEF PartHeld, RequestLeadsToWhole, PushPcs
  <2>r. ASSUME NEW r \in Requests PROVE PartHeld(r) /\ RequestLeadsToWhole(r)
    BY DEF WholeInv
  <2>1. ASSUME NEW r \in Requests, NEW p \in Pushes, NEW part \in SUBSET p.own, BeginPush(r, p, part)
        PROVE  WholeInv'
    <3>1. UNCHANGED <<entry, heads, stored, maps>> /\ Others(r)
      BY <2>1 DEF BeginPush, TypeOK
    <3>2. /\ req'[r].pc = "head" /\ req'[r].push = p /\ req'[r].left = part
          /\ req'[r].last = (p.own \ part \subseteq stored[p.cid])
          /\ req'[r].existing = entry[p.key]
      BY <2>1 DEF BeginPush, TypeOK
    <3>3. PartHeld(r)'
      BY <3>1, <3>2 DEF PartHeld
    <3>4. RequestLeadsToWhole(r)'
      BY <3>1, <3>2, PushFields DEF RequestLeadsToWhole, WholeInv, HeadsLeadToWhole, WholeIfAny, Whole, PushPcs
    <3> QED
      BY <2>0, <2>s, <2>h, <3>1, <3>3, <3>4
  <2>2. ASSUME NEW r \in Requests, ReadHead(r) PROVE WholeInv'
    <3> DEFINE p == req[r].push
               cur == headOf(p.key, req[r].existing)
    <3>1. UNCHANGED <<entry, heads, stored, maps>>
      BY <2>2 DEF ReadHead
    <3>2. req[r] \in Pushing /\ req[r].pc = "head" /\ p \in Pushes
      BY <2>2, PushRequest DEF ReadHead, At, PushPcs
    <3>3. CASE pushConflict(cur, p)
      <4>1. Finish(r)
        BY <2>2, <3>3 DEF ReadHead
      <4> QED
        BY <2>0, <2>s, <2>h, <2>i, <3>1, <4>1, Finished
    <3>4. CASE ~pushConflict(cur, p)
      <4>1. /\ req'[r].pc = "owner" /\ req'[r].push = p /\ req'[r].left = req[r].left
            /\ req'[r].last = req[r].last /\ req'[r].existing = req[r].existing /\ Others(r)
        BY <2>2, <3>2, <3>4 DEF ReadHead, TypeOK, Pushing
      <4>2. WholeIfAny(req[r].existing.cid)
        BY <2>r, <3>2 DEF RequestLeadsToWhole, PushPcs
      <4>3. WholeIfAny(cur.cid)
        BY <3>2, <4>2, PushFields, HeadReadIsWhole DEF WholeInv
      <4>4. p.parent # NoVersion => cur.cid = p.parent
        BY <3>4 DEF pushConflict
      <4>5. WholeIfAny(p.parent)
        BY <4>3, <4>4 DEF WholeIfAny
      <4>6. PartHeld(r)
        BY <2>r
      <4>7. PartHeld(r)'
        BY <3>1, <3>2, <4>1, <4>6 DEF PartHeld
      <4>8. RequestLeadsToWhole(r)'
        BY <3>1, <4>1, <4>2, <4>5 DEF RequestLeadsToWhole, WholeIfAny, Whole
      <4> QED
        BY <2>0, <2>s, <2>h, <3>1, <4>1, <4>7, <4>8
    <3> QED
      BY <3>3, <3>4
  <2>3. ASSUME NEW r \in Requests, Finish(r), UNCHANGED <<entry, heads, stored, maps>> PROVE WholeInv'
    BY <2>0, <2>s, <2>h, <2>i, <2>3, Finished
  <2>4. ASSUME NEW r \in Requests, NEW pc \in {"own", "files"}, Advance(r, pc),
               req[r].pc \in {"owner", "own"}, UNCHANGED <<entry, heads, stored, maps>>
        PROVE  WholeInv'
    <3>1. /\ req'[r].pc = pc /\ req'[r].push = req[r].push /\ req'[r].left = req[r].left
          /\ req'[r].existing = req[r].existing /\ Others(r)
      BY <2>4, Advanced DEF PushPcs
    <3>2. req[r] \in Pushing /\ req'[r] \in Pushing /\ req'[r].last = req[r].last
      BY <2>4, PushRequest DEF Advance, TypeOK, PushPcs, Pushing
    <3>3. PartHeld(r) /\ RequestLeadsToWhole(r)
      BY <2>r
    <3>4. PartHeld(r)'
      BY <2>4, <3>1, <3>2, <3>3 DEF PartHeld
    <3>5. RequestLeadsToWhole(r)'
      BY <2>4, <3>1, <3>3 DEF RequestLeadsToWhole, WholeIfAny, Whole, PushPcs
    <3> QED
      BY <2>0, <2>s, <2>h, <2>4, <3>1, <3>4, <3>5
  <2>5. ASSUME NEW r \in Requests, ReadOwner(r) \/ PutOwner(r) PROVE WholeInv'
    BY <2>3, <2>4, <2>5 DEF ReadOwner, PutOwner, At
  <2>6. ASSUME NEW r \in Requests, NEW f \in Files, StoreFile(r, f) PROVE WholeInv'
    <3> DEFINE p == req[r].push
    <3>1. req[r] \in Pushing /\ req[r].pc = "files" /\ p \in Pushes /\ p.cid \in Versions /\ p.own \subseteq p.cid
      BY <2>6, PushRequest, PushFields DEF StoreFile, At, PushPcs
    <3>2. /\ req'[r].pc = "files" /\ req'[r].push = p /\ req'[r].left = req[r].left \ {f}
          /\ req'[r].last = req[r].last /\ req'[r].existing = req[r].existing /\ Others(r)
      BY <2>6, <3>1 DEF StoreFile, TypeOK, Pushing
    <3>3. f \in p.own /\ PartHeld(r) /\ RequestLeadsToWhole(r)
      BY <2>6, <2>r, <3>1 DEF StoreFile, PartHeld
    <3>4. UNCHANGED <<entry, heads, maps>> /\ stored' = [stored EXCEPT ![p.cid] = @ \cup {f}]
      BY <2>6 DEF StoreFile
    <3>5. Grows
      BY <3>4 DEF Grows, TypeOK
    <3>6. StoresAreWhole'
      <4>1. \A c \in Versions : stored'[c] \subseteq c
        BY <3>1, <3>3, <3>4 DEF WholeInv, StoresAreWhole, TypeOK
      <4> QED
        BY <3>4, <3>5, <4>1, StoresStayWhole DEF WholeInv
    <3>7. PartHeld(r)'
      BY <3>1, <3>2, <3>3, <3>4 DEF PartHeld, TypeOK
    <3>8. RequestLeadsToWhole(r)'
      <4>1. WholeIfAny(req[r].existing.cid) /\ WholeIfAny(p.parent)
        BY <3>1, <3>3 DEF RequestLeadsToWhole, PushPcs
      <4>2. \A c : WholeIfAny(c) => WholeIfAny(c)'
        BY <3>5, WholeStays
      <4>3. WholeIfAny(req[r].existing.cid)' /\ WholeIfAny(req[r].push.parent)'
        BY <3>2, <4>1, <4>2
      <4> QED
        BY <3>2, <4>3 DEF RequestLeadsToWhole
    <3> QED
      BY <2>0, <2>h, <3>2, <3>4, <3>5, <3>6, <3>7, <3>8
  <2>7. ASSUME NEW r \in Requests, FilesStored(r) PROVE WholeInv'
    <3>1. UNCHANGED <<entry, heads, stored, maps>> /\ req[r].pc = "files" /\ req[r].left = {}
      BY <2>7 DEF FilesStored, At
    <3>2. CASE Advance(r, "carry") /\ req[r].last
      <4>1. /\ req'[r].pc = "carry" /\ req'[r].push = req[r].push
            /\ req'[r].existing = req[r].existing /\ Others(r)
        BY <3>1, <3>2, Advanced DEF PushPcs
      <4>2. PartHeld(r) /\ RequestLeadsToWhole(r)
        BY <2>r
      <4>3. PartHeld(r)'
        BY <3>1, <3>2, <4>1, <4>2 DEF PartHeld
      <4>4. RequestLeadsToWhole(r)'
        BY <3>1, <4>1, <4>2 DEF RequestLeadsToWhole, WholeIfAny, Whole, PushPcs
      <4> QED
        BY <2>0, <2>s, <2>h, <3>1, <4>1, <4>3, <4>4
    <3> QED
      BY <2>3, <2>7, <3>1, <3>2 DEF FilesStored
  <2>8. ASSUME NEW r \in Requests, SaveCarry(r) PROVE WholeInv'
    <3> DEFINE p == req[r].push
    <3>1. /\ req[r].pc = "carry" /\ req[r] \in Pushing /\ p \in Pushes /\ p.cid \in Versions
          /\ UNCHANGED <<entry, heads, stored>>
      BY <2>8, PushRequest, PushFields DEF SaveCarry, At, PushPcs
    <3>2. /\ p.own \subseteq stored[p.cid] /\ WholeIfAny(p.parent) /\ WholeIfAny(req[r].existing.cid)
      BY <2>r, <3>1 DEF PartHeld, RequestLeadsToWhole, PushPcs
    <3> DEFINE NowWhole == maps'[p.cid] # {} \/ p.cid \subseteq stored'[p.cid]
    <3>3. ASSUME Advance(r, "move"), Grows, NowWhole PROVE Known(r)' /\ Others(r)
      <4>1. /\ req'[r].pc = "move" /\ req'[r].push = p
            /\ req'[r].existing = req[r].existing /\ Others(r)
        BY <3>1, <3>3, Advanced DEF PushPcs
      <4>2. \A c : WholeIfAny(c) => WholeIfAny(c)'
        BY <3>3, WholeStays
      <4>3. WholeIfAny(req[r].existing.cid)'
        BY <3>2, <4>1, <4>2
      <4>4. Whole(req[r].push.cid)'
        BY <3>3, <4>1 DEF Whole
      <4> QED
        BY <4>1, <4>3, <4>4 DEF PartHeld, RequestLeadsToWhole
    <3>4. CASE p.parent = NoVersion /\ Advance(r, "move") /\ UNCHANGED maps
      <4>1. Grows /\ StoresAreWhole' /\ HeadsLeadToWhole'
        BY <2>s, <2>h, <3>1, <3>4
      <4>2. NowWhole
        BY <3>1, <3>2, <3>4, PushesAssumption
      <4> QED
        BY <2>0, <3>3, <3>4, <4>1, <4>2
    <3>5. CASE Finish(r) /\ UNCHANGED maps
      BY <2>3, <3>1, <3>5
    <3>6. ASSUME NEW m \in carryOf(p.parent), p.parent # NoVersion, ~(p.manifest /\ BadManifest(p, m)),
                 maps' = [maps EXCEPT ![p.cid] = @ \cup {MapAfter(p, m)}], Advance(r, "move")
          PROVE  WholeInv'
      <4>1. Sound(p.cid, MapAfter(p, m)) /\ Complete(p.cid, MapAfter(p, m))
        BY <3>1, <3>2, <3>6, CarriedIsTheRest DEF WholeInv, WholeIfAny
      <4>2. maps'[p.cid] = maps[p.cid] \cup {MapAfter(p, m)} /\ \A c \in Versions \ {p.cid} : maps'[c] = maps[c]
        BY <3>1, <3>6 DEF TypeOK
      <4>3. Grows /\ NowWhole
        BY <3>1, <4>2 DEF Grows
      <4>4. StoresAreWhole'
        BY <3>1, <4>1, <4>2 DEF WholeInv, StoresAreWhole, Sound, Complete
      <4> QED
        BY <2>0, <2>h, <3>1, <3>3, <3>6, <4>3, <4>4
    <3> QED
      BY <2>8, <3>4, <3>5, <3>6 DEF SaveCarry
  <2>9. ASSUME NEW r \in Requests, NEW pc \in {"move", "check", "moveAgain", "save", "mark", "notify"},
               req'[r].pc = pc, req'[r].push = req[r].push, req'[r].existing = req[r].existing,
               req[r].pc \in {"move", "check", "moveAgain", "save", "mark"},
               UNCHANGED <<stored, maps>>
        PROVE  Known(r)'
    <3>1. RequestLeadsToWhole(r)
      BY <2>r
    <3> QED
      BY <2>9, <3>1 DEF PartHeld, RequestLeadsToWhole, WholeIfAny, Whole, PushPcs
  <2>10. ASSUME NEW r \in Requests, MoveHead(r) PROVE WholeInv'
    <3> DEFINE p == req[r].push
    <3>1. /\ req[r].pc \in {"move", "moveAgain"} /\ req[r].pc \in PushPcs
          /\ p.key \in Keys /\ p.cid \in Versions /\ UNCHANGED <<entry, stored, maps>>
      BY <2>10, PushRequest, PushFields DEF MoveHead, PushPcs
    <3>2. CASE Finish(r) /\ UNCHANGED heads
      BY <2>3, <3>1, <3>2
    <3>3. ASSUME NEW pc \in {"check", "save"}, Advance(r, pc) PROVE Known(r)' /\ Others(r)
      <4>1. /\ req'[r].pc = pc /\ req'[r].push = p /\ req'[r].existing = req[r].existing /\ Others(r)
        BY <3>1, <3>3, Advanced DEF PushPcs
      <4> QED
        BY <2>9, <3>1, <4>1
    <3>4. CASE UNCHANGED heads /\ Advance(r, "check")
      BY <2>0, <2>s, <2>h, <3>1, <3>3, <3>4
    <3>5. CASE heads' = [heads EXCEPT ![p.key] = [cid |-> p.cid, seq |-> p.seq]] /\ Advance(r, "save")
      <4>1. Whole(p.cid) /\ p.cid # NoVersion
        BY <2>r, <3>1, ConstantsAssumption DEF RequestLeadsToWhole
      <4>2. HeadsLeadToWhole'
        BY <3>1, <3>5, <4>1 DEF WholeInv, HeadsLeadToWhole, WholeIfAny, Whole, TypeOK
      <4> QED
        BY <2>0, <2>s, <3>1, <3>3, <3>5, <4>2
    <3> QED
      BY <2>10, <3>2, <3>4, <3>5 DEF MoveHead
  <2>11. ASSUME NEW r \in Requests, CheckAgain(r) PROVE WholeInv'
    <3>1. /\ req[r].pc = "check" /\ req[r] \in Pushing /\ UNCHANGED <<entry, heads, stored, maps>>
      BY <2>11, PushRequest DEF CheckAgain, At, PushPcs
    <3>2. CASE Finish(r)
      BY <2>3, <3>1, <3>2
    <3>3. CASE ~Finish(r)
      <4>1. /\ req'[r].pc = "moveAgain" /\ req'[r].push = req[r].push
            /\ req'[r].existing = req[r].existing /\ Others(r)
        BY <2>11, <3>1, <3>3 DEF CheckAgain, TypeOK, Pushing
      <4> QED
        BY <2>0, <2>s, <2>h, <2>9, <3>1, <4>1
    <3> QED
      BY <3>2, <3>3
  <2>12. ASSUME NEW r \in Requests, SaveEntry(r) PROVE WholeInv'
    <3> DEFINE p == req[r].push
    <3>1. req[r].pc = "save" /\ p.cid \in Versions
      BY <2>12, SaveEntryStep, PushFields DEF SaveEntry, At
    <3>2. req'[r].pc = "mark" /\ req'[r].push = p /\ req'[r].existing = req[r].existing /\ Others(r)
      BY <2>12, <3>1, Advanced DEF SaveEntry, PushPcs
    <3>3. entry'[p.key].cid = p.cid
      BY <2>12, SaveEntryStep DEF HeadIn
    <3>4. Whole(p.cid)
      BY <2>r, <3>1 DEF RequestLeadsToWhole
    <3>5. HeadsLeadToWhole'
      <4>1. /\ \A k \in Keys \ {p.key} : entry'[k] = entry[k]
            /\ UNCHANGED <<heads, stored, maps>>
        BY <2>12, SaveEntryStep
      <4>2. \A c : WholeIfAny(c) => WholeIfAny(c)'
        BY <2>s, <4>1, WholeStays
      <4>3. WholeIfAny(entry'[p.key].cid)
        BY <3>1, <3>3, <3>4 DEF WholeIfAny
      <4>4. \A k \in Keys : WholeIfAny(entry'[k].cid)
        BY <4>1, <4>3 DEF WholeInv, HeadsLeadToWhole
      <4> QED
        BY <4>1, <4>2, <4>4 DEF WholeInv, HeadsLeadToWhole
    <3> QED
      BY <2>0, <2>s, <2>9, <2>12, <3>1, <3>2, <3>5, SaveEntryStep
  <2>13. ASSUME NEW r \in Requests, MarkPushed(r) PROVE WholeInv'
    <3>1. /\ req'[r].pc = "notify" /\ req'[r].push = req[r].push /\ req'[r].existing = req[r].existing
          /\ Others(r) /\ req[r].pc = "mark" /\ UNCHANGED <<entry, heads, stored, maps>>
      BY <2>13, Advanced DEF MarkPushed, At, PushPcs
    <3> QED
      BY <2>0, <2>s, <2>h, <2>9, <3>1
  <2>14. ASSUME NEW r \in Requests, NotifyNode(r) \/ Fails(r) PROVE WholeInv'
    BY <2>3, <2>14 DEF NotifyNode, Fails
  <2>15. ASSUME NEW r \in Requests, NEW k \in Keys, NEW n \in Names, BeginClaim(r, k, n) PROVE WholeInv'
    <3>1. req'[r].pc = "readEntry" /\ Others(r) /\ UNCHANGED <<entry, heads, stored, maps>>
      BY <2>15 DEF BeginClaim, TypeOK
    <3> QED
      BY <2>0, <2>s, <2>h, <2>i, <3>1
  <2>16. ASSUME NEW r \in Requests, NEW pc \in {"free", "name", "saveName"},
                req'[r].pc = pc, WholeIfAny(req'[r].existing.cid), UNCHANGED <<stored, maps>>
         PROVE  Known(r)'
    BY <2>16 DEF PartHeld, RequestLeadsToWhole, WholeIfAny, Whole, PushPcs
  <2>17. ASSUME NEW r \in Requests, ReadEntry(r) PROVE WholeInv'
    <3>1. req[r] \in Claiming /\ UNCHANGED <<entry, heads, stored, maps>>
      BY <2>17, ClaimRequest DEF ReadEntry, At, ClaimPcs
    <3>2. req'[r].pc \in {"free", "name"} /\ req'[r].existing = entry[req[r].key] /\ Others(r)
      BY <2>17, <3>1 DEF ReadEntry, TypeOK, Claiming
    <3>3. WholeIfAny(entry[req[r].key].cid)
      BY <3>1 DEF WholeInv, HeadsLeadToWhole, Claiming
    <3> QED
      BY <2>0, <2>s, <2>h, <2>16, <3>1, <3>2, <3>3
  <2>18. ASSUME NEW r \in Requests, FreeName(r) \/ PutName(r) PROVE WholeInv'
    <3>1. req[r].pc \in {"free", "name"} /\ UNCHANGED <<entry, heads, stored, maps>>
      BY <2>18 DEF FreeName, PutName, At
    <3>2. req'[r].pc \in {"name", "saveName"} /\ req'[r].existing = req[r].existing /\ Others(r)
      BY <2>18, FreeNameStep, PutNameStep
    <3>3. WholeIfAny(req[r].existing.cid)
      BY <2>r, <3>1 DEF RequestLeadsToWhole
    <3> QED
      BY <2>0, <2>s, <2>h, <2>16, <3>1, <3>2, <3>3
  <2>19. ASSUME NEW r \in Requests, SaveName(r) PROVE WholeInv'
    <3>1. WholeIfAny(req[r].existing.cid)
      BY <2>r, <2>19 DEF SaveName, At, RequestLeadsToWhole
    <3>2. entry'[req[r].key].cid = req[r].existing.cid
      BY <2>19, SaveNameStep DEF HeadIn
    <3>3. HeadsLeadToWhole'
      BY <2>19, <3>1, <3>2, SaveNameStep DEF WholeInv, HeadsLeadToWhole, WholeIfAny, Whole
    <3> QED
      BY <2>0, <2>s, <2>i, <2>19, <3>3, SaveNameStep
  <2>20. CASE UNCHANGED vars
    <3>1. Grows /\ StoresAreWhole' /\ HeadsLeadToWhole'
      BY <2>s, <2>h, <2>20 DEF vars
    <3>2. \A r \in Requests : Known(r)'
      BY <2>r, <2>20, <3>1, SameRequestStays DEF vars
    <3> QED
      BY <3>1, <3>2 DEF WholeInv
  <2> QED
    BY <2>1, <2>2, <2>5, <2>6, <2>7, <2>8, <2>10, <2>11, <2>12, <2>13, <2>14, <2>15, <2>17, <2>18,
       <2>19, <2>20 DEF Next
<1>3. TypeOK /\ WholeInv => HeadsAreWhole
  <2> SUFFICES ASSUME TypeOK, WholeInv PROVE HeadsAreWhole
    OBVIOUS
  <2>1. ASSUME NEW c \in Versions, Whole(c), NEW m \in carryOf(c)
        PROVE  Found(c, m) = c /\ Listed(c, m) = PathsIn(c)
    <3>1. m \in Maps
      BY DEF carryOf, TypeOK, Maps
    <3> QED
      BY <2>1, <3>1, AnyMapWillDo, FoundIsTheVersion DEF WholeInv
  <2>2. ASSUME NEW k \in Keys, heads[k] # NoHead PROVE heads[k].cid \in Versions /\ Whole(heads[k].cid)
    BY <2>2 DEF WholeInv, HeadsLeadToWhole, WholeIfAny
  <2>3. ASSUME NEW r \in Requests, At(r, "notify") PROVE req[r].push.cid \in Versions /\ Whole(req[r].push.cid)
    BY <2>3, PushRequest, PushFields DEF At, PushPcs, WholeInv, RequestLeadsToWhole
  <2> QED
    BY <2>1, <2>2, <2>3 DEF HeadsAreWhole
<1> QED
  BY <1>1, <1>2, <1>3, TypeCorrect, PTL DEF Spec

-----------------------------------------------------------------------------
(* How readers resolve a name. *)

(* Somebody stands for v, or did so n ticks ago at most. *)
Within(v, n) == R!Current(v) \/ since[v] <= n

(* What a request carries and what the cache keeps was current within the
   time that it took to get there: a request has it from a source for as long
   as it lives, the cache from such a request for the part of its time to live
   that is over, and the one who passes it on from the cache. *)
FreshInv ==
  /\ \A q \in Readers : lookup[q].pc = "keep" /\ lookup[q].val \in R!VersionNumbers
                           => Within(lookup[q].val, lookup[q].age)
  /\ \A q \in Readers : lookup[q].pc = "done" /\ lookup[q].val # R!None
                           => /\ lookup[q].val \in R!VersionNumbers
                              /\ Within(lookup[q].val, MaxWait + Ttl - 1 + lookup[q].age)
  /\ \A k \in R!Steps : cache[k].left > 0 /\ cache[k].val \in R!VersionNumbers
                        => Within(cache[k].val, MaxWait + Ttl - cache[k].left)

(* Only the step that reads the DNSLink finds the site's key. *)
LinkInv ==
  /\ \A q \in Readers : lookup[q].step # "dnslink" =>
       /\ lookup[q].pc = "keep" => lookup[q].val # R!Key
       /\ lookup[q].pc = "fetch" => lookup[q].left \in Seq(R!Sources)
  /\ \A k \in R!Steps : k # "dnslink" => cache[k].val # R!Key

-----------------------------------------------------------------------------
LEMMA Bounds ==
  /\ MaxWait \in Nat /\ Ttl \in Nat /\ Ttl > 0 /\ MaxVersion \in Nat /\ MaxVersion > 0
  /\ R!Bound \in Nat /\ R!Key \in Nat /\ R!Key > MaxVersion /\ R!VersionNumbers = 1..MaxVersion
  /\ "dns" \notin R!Sources
  BY ResolveConstants DEF R!WorkerResolveAssumption, R!Bound, R!Key, R!VersionNumbers, R!Sources

(* What a tick does to the age of an answer, with a reader and in the cache. *)
LEMMA TickAtReader ==
  ASSUME NEW age \in Nat, age + 1 <= MaxWait
  PROVE  /\ MaxWait + Ttl - 1 + age \in Nat
         /\ MaxWait + Ttl - 1 + age + 1 <= R!Bound
         /\ MaxWait + Ttl - 1 + age + 1 = MaxWait + Ttl - 1 + (age + 1)
  BY Bounds DEF R!Bound

LEMMA TickInCache ==
  ASSUME NEW left \in Nat, left > 1, left <= Ttl
  PROVE  /\ MaxWait + Ttl - left \in Nat
         /\ MaxWait + Ttl - left + 1 <= R!Bound
         /\ MaxWait + Ttl - left + 1 = MaxWait + Ttl - (left - 1)
  BY Bounds DEF R!Bound

(* An answer from the cache is as old as what is left of its time there says. *)
LEMMA WithinLonger ==
  ASSUME NEW v, since[v] \in Nat, NEW m \in Int, NEW n \in Int, m <= n, Within(v, m)
  PROVE  Within(v, n)
<1>1. CASE R!Current(v)
  BY <1>1 DEF Within
<1>2. CASE since[v] <= m
  <2>1. since[v] <= n
    BY <1>2
  <2> QED
    BY <2>1 DEF Within
<1> QED
  BY <1>1, <1>2 DEF Within

LEMMA WithinFromCache ==
  ASSUME NEW v, since[v] \in Nat, NEW left \in Nat, left > 0, NEW age \in Nat,
         Within(v, MaxWait + Ttl - left)
  PROVE  Within(v, MaxWait + Ttl - 1 + age)
<1> DEFINE m == MaxWait + Ttl - left
           n == MaxWait + Ttl - 1 + age
<1>1. m \in Int /\ n \in Int /\ m <= n
  BY Bounds
<1>2. Within(v, m)
  OBVIOUS
<1> HIDE DEF m, n
<1>3. Within(v, n)
  BY <1>1, <1>2, WithinLonger
<1> QED
  BY <1>3 DEF n

LEMMA ChainOfSources ==
  ASSUME NEW k \in R!Steps
  PROVE  /\ R!Chain(k) \in Seq(R!Sources \cup {"dns"})
         /\ k # "dnslink" => R!Chain(k) \in Seq(R!Sources)
<1>1. Routers \in Seq(R!Sources) /\ Gateways \in Seq(R!Sources)
  <2>1. Routers \in Seq(R!Range(Routers)) /\ Gateways \in Seq(R!Range(Gateways))
    BY ResolveConstants DEF R!WorkerResolveAssumption
  <2>2. R!Range(Routers) \subseteq R!Sources /\ R!Range(Gateways) \subseteq R!Sources
    BY DEF R!Sources
  <2> QED
    BY <2>1, <2>2
<1>2. Routers \o Gateways \in Seq(R!Sources)
  BY <1>1
<1>3. \A s \in Seq(R!Sources) : s \in Seq(R!Sources \cup {"dns"})
  OBVIOUS
<1>4. <<"dns">> \in Seq(R!Sources \cup {"dns"})
  OBVIOUS
<1> QED
  BY <1>1, <1>2, <1>3, <1>4 DEF R!Chain, R!Steps

(* A version that was current lately still is, or was a little longer ago. *)
LEMMA WithinNoted ==
  ASSUME R!TypeOK, NEW d \in {0, 1}, R!Noted(d), NEW v \in R!VersionNumbers, NEW n \in Nat, n + d <= R!Bound,
         Within(v, n)
  PROVE  Within(v, n + d)'
<1>1. since[v] \in Nat
  BY Bounds DEF R!TypeOK
<1>2. since'[v] = IF R!Current(v) THEN 0 ELSE IF since[v] + d > R!Bound THEN R!Bound + 1 ELSE since[v] + d
  BY DEF R!Noted
<1>3. since'[v] <= n + d
  <2>1. CASE R!Current(v)
    BY <2>1, <1>2
  <2>2. CASE ~R!Current(v)
    BY <2>2, <1>1, <1>2, Bounds DEF Within
  <2> QED
    BY <2>1, <2>2
<1> QED
  BY <1>3 DEF Within

LEMMA WithinSame ==
  ASSUME UNCHANGED <<known, at, link, since>>
  PROVE  \A v, n : Within(v, n)' <=> Within(v, n)
  BY DEF Within, R!Current

(* What a step found leads to the next step, or to the answer. *)
LEMMA AfterIs ==
  ASSUME NEW r \in R!Request, NEW v \in 0..R!Key, r.step # "dnslink" => v # R!Key
  PROVE  /\ R!After(r, v) \in R!Request /\ R!After(r, v).age = r.age
         /\ R!After(r, v).pc \in {"entry", "look", "done"}
         /\ R!After(r, v).pc = "done" => R!After(r, v).val = v /\ v # R!Key
<1>1. 0 \in 0..R!Key /\ <<>> \in Seq(R!Sources \cup {"dns"})
  BY Bounds
<1>2. /\ R!LookFor(r, "ens") \in R!Request
      /\ R!LookFor(r, "ens").age = r.age /\ R!LookFor(r, "ens").pc = "look"
  BY <1>1 DEF R!LookFor, R!Request, R!Steps, R!None
<1>3. /\ [r EXCEPT !.pc = "entry", !.val = R!None, !.left = <<>>] \in R!Request
      /\ [r EXCEPT !.pc = "entry", !.val = R!None, !.left = <<>>].age = r.age
      /\ [r EXCEPT !.pc = "entry", !.val = R!None, !.left = <<>>].pc = "entry"
  BY <1>1 DEF R!Request, R!None
<1>4. /\ R!Done(r, v) \in R!Request /\ R!Done(r, v).age = r.age
      /\ R!Done(r, v).pc = "done" /\ R!Done(r, v).val = v
  BY <1>1 DEF R!Done, R!Request
<1> QED
  BY <1>2, <1>3, <1>4 DEF R!After

(* The inductive invariant and the requests it is about: all but q stay. *)
FreshOf(r) ==
  /\ r.pc = "keep" /\ r.val \in R!VersionNumbers => Within(r.val, r.age)
  /\ r.pc = "done" /\ r.val # R!None => r.val \in R!VersionNumbers /\ Within(r.val, MaxWait + Ttl - 1 + r.age)

LinkOf(r) ==
  r.step # "dnslink" => /\ r.pc = "keep" => r.val # R!Key
                        /\ r.pc = "fetch" => r.left \in Seq(R!Sources)

ResolveInv == R!TypeOK /\ FreshInv /\ LinkInv

(* A step of one request that moves no source and no clock. *)
LEMMA RequestMoves ==
  ASSUME ResolveInv, NEW q \in Readers, NEW r \in R!Request, lookup' = [lookup EXCEPT ![q] = r],
         UNCHANGED <<published, known, at, link, cache, since>>,
         r.pc = "keep" /\ r.val \in R!VersionNumbers => Within(r.val, r.age),
         r.pc = "done" /\ r.val # R!None
           => r.val \in R!VersionNumbers /\ Within(r.val, MaxWait + Ttl - 1 + r.age),
         LinkOf(r)
  PROVE  ResolveInv'
<1>1. lookup' \in [Readers -> R!Request] /\ lookup'[q] = r /\ \A u \in Readers \ {q} : lookup'[u] = lookup[u]
  BY DEF ResolveInv, R!TypeOK
<1>2. R!TypeOK'
  BY <1>1 DEF ResolveInv, R!TypeOK
<1>3. \A v, n : Within(v, n)' <=> Within(v, n)
  BY WithinSame
<1>4. FreshInv'
  BY <1>1, <1>3 DEF ResolveInv, FreshInv
<1>5. LinkInv'
  BY <1>1 DEF ResolveInv, LinkInv, LinkOf
<1> QED
  BY <1>2, <1>4, <1>5 DEF ResolveInv

(* A step of a source or of the owner. *)
LEMMA SourceMoves ==
  ASSUME ResolveInv, UNCHANGED <<cache, lookup>>, R!Noted(0), R!TypeOK'
  PROVE  ResolveInv'
<1>1. \A v \in R!VersionNumbers : \A n \in Nat : n <= R!Bound /\ Within(v, n) => Within(v, n)'
  <2>1. SUFFICES ASSUME NEW v \in R!VersionNumbers, NEW n \in Nat, n <= R!Bound, Within(v, n)
                 PROVE  Within(v, n)'
    OBVIOUS
  <2>2. n + 0 = n
    OBVIOUS
  <2> QED
    BY <2>1, <2>2, WithinNoted DEF ResolveInv
<1>2. \A q \in Readers : lookup[q].age \in Nat /\ lookup[q].age <= MaxWait
  BY Bounds DEF ResolveInv, R!TypeOK, R!Request
<1>3. \A k \in R!Steps : cache[k].left \in Nat /\ cache[k].left <= Ttl
  BY Bounds DEF ResolveInv, R!TypeOK
<1>4. ASSUME NEW q \in Readers, lookup[q].pc = "keep", lookup[q].val \in R!VersionNumbers
      PROVE  Within(lookup[q].val, lookup[q].age)'
  BY <1>1, <1>2, <1>4, Bounds DEF ResolveInv, FreshInv, R!Bound
<1>5. ASSUME NEW q \in Readers, lookup[q].pc = "done", lookup[q].val # R!None
      PROVE  lookup[q].val \in R!VersionNumbers /\ Within(lookup[q].val, MaxWait + Ttl - 1 + lookup[q].age)'
  BY <1>1, <1>2, <1>5, Bounds DEF ResolveInv, FreshInv, R!Bound
<1>6. ASSUME NEW k \in R!Steps, cache[k].left > 0, cache[k].val \in R!VersionNumbers
      PROVE  Within(cache[k].val, MaxWait + Ttl - cache[k].left)'
  BY <1>1, <1>3, <1>6, Bounds DEF ResolveInv, FreshInv, R!Bound
<1>7. FreshInv'
  BY <1>4, <1>5, <1>6 DEF FreshInv
<1> QED
  BY <1>7 DEF ResolveInv, LinkInv

(* The clock ticks: what is kept has less of its time left, a request lives
   longer, and what they carry was current one tick more ago. *)
LEMMA TickMoves ==
  ASSUME ResolveInv, R!Tick
  PROVE  ResolveInv'
<1> DEFINE r(q) == IF lookup[q].pc = "idle" THEN R!Idle ELSE [lookup[q] EXCEPT !.age = @ + 1]
<1>0. /\ lookup \in [Readers -> R!Request] /\ cache \in [R!Steps -> [val : 0..R!Key, left : 0..Ttl]]
      /\ since \in [R!VersionNumbers -> 0..(R!Bound + 1)]
      /\ lookup' = [q \in Readers |-> r(q)] /\ cache' = [k \in R!Steps |-> R!Aged(cache[k])]
      /\ UNCHANGED <<published, known, at, link>> /\ R!Noted(1)
  BY DEF ResolveInv, R!TypeOK, R!Tick
<1>1. ASSUME NEW q \in Readers
      PROVE  /\ r(q) \in R!Request
             /\ r(q).pc # "idle" => /\ lookup[q].pc = r(q).pc /\ r(q).val = lookup[q].val
                                    /\ r(q).step = lookup[q].step /\ r(q).left = lookup[q].left
                                    /\ r(q).age = lookup[q].age + 1 /\ r(q).age <= MaxWait
                                    /\ lookup[q].age \in Nat
  <2>1. lookup[q] \in R!Request /\ lookup[q].age < MaxWait /\ lookup[q].age \in Nat
    BY <1>0, Bounds DEF R!Tick, R!Request
  <2>2. CASE lookup[q].pc = "idle"
    <3>1. R!Idle \in R!Request
      BY Bounds DEF R!Idle, R!Request, R!Steps, R!None
    <3> QED
      BY <2>2, <3>1 DEF R!Idle
  <2>3. CASE lookup[q].pc # "idle"
    <3>1. lookup[q].age + 1 \in 0..MaxWait
      BY <2>1, Bounds
    <3> QED
      BY <2>1, <2>3, <3>1 DEF R!Request
  <2> QED
    BY <2>2, <2>3
<1>2. ASSUME NEW k \in R!Steps
      PROVE  /\ R!Aged(cache[k]) \in [val : 0..R!Key, left : 0..Ttl]
             /\ R!Aged(cache[k]).left > 0 => /\ R!Aged(cache[k]).val = cache[k].val
                                             /\ cache[k].left \in Nat /\ cache[k].left <= Ttl
                                             /\ cache[k].left > 1
                                             /\ R!Aged(cache[k]).left = cache[k].left - 1
             /\ R!Aged(cache[k]).val \in {cache[k].val, R!None}
  <2> DEFINE e == cache[k]
  <2>1. /\ e \in [val : 0..R!Key, left : 0..Ttl] /\ e.left \in Nat /\ e.left <= Ttl
        /\ e.val \in 0..R!Key /\ 0 \in 0..R!Key /\ 0 \in 0..Ttl
    BY <1>0, Bounds
  <2> HIDE DEF e
  <2>2. CASE e.left > 1
    <3>1. R!Aged(e) = [e EXCEPT !.left = @ - 1] /\ e.left - 1 \in 0..Ttl
      BY <2>1, <2>2, Bounds DEF R!Aged
    <3> QED
      BY <2>1, <2>2, <3>1 DEF e
  <2>3. CASE ~(e.left > 1)
    <3>1. R!Aged(e) = [val |-> R!None, left |-> 0] /\ R!None = 0
      BY <2>3 DEF R!Aged, R!None
    <3> QED
      BY <2>1, <3>1 DEF e
  <2> QED
    BY <2>2, <2>3
<1>3. since' \in [R!VersionNumbers -> 0..(R!Bound + 1)]
  <2>1. since' = [v \in R!VersionNumbers |-> IF R!Current(v) THEN 0
                                       ELSE IF since[v] + 1 > R!Bound THEN R!Bound + 1 ELSE since[v] + 1]
    BY <1>0 DEF R!Noted
  <2> QED
    BY <1>0, <2>1, Bounds
<1> HIDE DEF r
<1>4. lookup' \in [Readers -> R!Request] /\ cache' \in [R!Steps -> [val : 0..R!Key, left : 0..Ttl]]
  BY <1>0, <1>1, <1>2
<1>5. R!TypeOK'
  BY <1>0, <1>3, <1>4 DEF ResolveInv, R!TypeOK
<1>6. \A v \in R!VersionNumbers : \A n \in Nat : n + 1 <= R!Bound /\ Within(v, n) => Within(v, n + 1)'
  BY <1>0, WithinNoted DEF ResolveInv
<1>7. ASSUME NEW q \in Readers, lookup'[q].pc = "keep", lookup'[q].val \in R!VersionNumbers
      PROVE  \A v, n : v = lookup'[q].val /\ n = lookup'[q].age => Within(v, n)'
  <2>1. /\ lookup[q].pc = "keep" /\ lookup'[q].val = lookup[q].val /\ lookup'[q].age = lookup[q].age + 1
        /\ lookup[q].age \in Nat /\ lookup[q].age + 1 <= MaxWait
    BY <1>0, <1>1, <1>7
  <2>2. Within(lookup[q].val, lookup[q].age) /\ lookup[q].val \in R!VersionNumbers
    BY <1>7, <2>1 DEF ResolveInv, FreshInv
  <2> DEFINE v == lookup[q].val
             n == lookup[q].age
  <2>3. Within(v, n) /\ v \in R!VersionNumbers /\ n \in Nat /\ n + 1 <= R!Bound
    BY <2>1, <2>2, Bounds DEF R!Bound
  <2> QED
    BY <1>6, <2>1, <2>3
<1>8. ASSUME NEW q \in Readers, lookup'[q].pc = "done", lookup'[q].val # R!None
      PROVE  /\ lookup'[q].val \in R!VersionNumbers
             /\ \A v, n : v = lookup'[q].val /\ n = MaxWait + Ttl - 1 + lookup'[q].age => Within(v, n)'
  <2>1. /\ lookup[q].pc = "done" /\ lookup'[q].val = lookup[q].val /\ lookup'[q].age = lookup[q].age + 1
        /\ lookup[q].age \in Nat /\ lookup[q].age + 1 <= MaxWait
    BY <1>0, <1>1, <1>8
  <2>2. Within(lookup[q].val, MaxWait + Ttl - 1 + lookup[q].age) /\ lookup[q].val \in R!VersionNumbers
    BY <1>8, <2>1 DEF ResolveInv, FreshInv
  <2> DEFINE v == lookup[q].val
             n == MaxWait + Ttl - 1 + lookup[q].age
  <2>3. n \in Nat /\ n + 1 <= R!Bound /\ n + 1 = MaxWait + Ttl - 1 + (lookup[q].age + 1)
    BY <2>1, TickAtReader
  <2>4. Within(v, n) /\ v \in R!VersionNumbers
    BY <2>2
  <2> HIDE DEF v, n
  <2> QED
    BY <1>6, <2>1, <2>3, <2>4 DEF v
<1>9. ASSUME NEW k \in R!Steps, cache'[k].left > 0, cache'[k].val \in R!VersionNumbers
      PROVE  \A v, n : v = cache'[k].val /\ n = MaxWait + Ttl - cache'[k].left => Within(v, n)'
  <2>1. /\ cache'[k].val = cache[k].val /\ cache[k].left \in Nat /\ cache[k].left <= Ttl
        /\ cache[k].left > 1 /\ cache'[k].left = cache[k].left - 1
    BY <1>0, <1>2, <1>9
  <2>2. Within(cache[k].val, MaxWait + Ttl - cache[k].left) /\ cache[k].val \in R!VersionNumbers
    BY <1>9, <2>1 DEF ResolveInv, FreshInv
  <2> DEFINE v == cache[k].val
             n == MaxWait + Ttl - cache[k].left
  <2>3. n \in Nat /\ n + 1 <= R!Bound /\ n + 1 = MaxWait + Ttl - (cache[k].left - 1)
    BY <2>1, TickInCache
  <2>4. Within(v, n) /\ v \in R!VersionNumbers
    BY <2>2
  <2> HIDE DEF v, n
  <2> QED
    BY <1>6, <2>1, <2>3, <2>4 DEF v
<1>10. FreshInv'
  BY <1>7, <1>8, <1>9 DEF FreshInv
<1>11. LinkInv'
  <2>1. ASSUME NEW q \in Readers, lookup'[q].step # "dnslink"
        PROVE  /\ lookup'[q].pc = "keep" => lookup'[q].val # R!Key
               /\ lookup'[q].pc = "fetch" => lookup'[q].left \in Seq(R!Sources)
    <3>1. lookup'[q].pc = "idle" \/ (/\ lookup[q].pc = lookup'[q].pc /\ lookup'[q].val = lookup[q].val
                                     /\ lookup'[q].step = lookup[q].step /\ lookup'[q].left = lookup[q].left)
      BY <1>0, <1>1
    <3> QED
      BY <2>1, <3>1 DEF ResolveInv, LinkInv
  <2>2. \A k \in R!Steps : cache'[k].val \in {cache[k].val, R!None}
    BY <1>0, <1>2
  <2>3. R!Key # R!None
    BY Bounds DEF R!None
  <2> QED
    BY <2>1, <2>2, <2>3 DEF ResolveInv, LinkInv
<1> QED
  BY <1>5, <1>10, <1>11 DEF ResolveInv

LEMMA ResolveInit == R!Init => ResolveInv
<1> SUFFICES ASSUME R!Init PROVE ResolveInv
  OBVIOUS
<1>1. R!Idle \in R!Request /\ R!Idle.pc = "idle"
  BY Bounds DEF R!Idle, R!Request, R!Steps, R!None
<1>2. R!TypeOK
  BY <1>1, Bounds DEF R!Init, R!TypeOK, R!None
<1>3. FreshInv
  BY <1>1 DEF R!Init, FreshInv
<1>4. LinkInv
  BY <1>1, Bounds DEF R!Init, LinkInv, R!None
<1> QED
  BY <1>2, <1>3, <1>4 DEF ResolveInv

LEMMA ResolveStep == ResolveInv /\ [R!Next]_(R!vars) => ResolveInv'
<1> SUFFICES ASSUME ResolveInv, [R!Next]_(R!vars) PROVE ResolveInv'
  OBVIOUS
<1>t. /\ published \in 0..MaxVersion /\ known \in 0..published /\ link \in 0..R!Key
      /\ at \in [R!Sources -> 0..MaxVersion]
      /\ cache \in [R!Steps -> [val : 0..R!Key, left : 0..Ttl]]
      /\ since \in [R!VersionNumbers -> 0..(R!Bound + 1)]
      /\ \A q \in Readers : lookup[q] \in R!Request
      /\ 0..MaxVersion \subseteq 0..R!Key /\ published \in Nat /\ known \in Nat
  BY Bounds DEF ResolveInv, R!TypeOK
<1>n. R!Noted(0) => since' \in [R!VersionNumbers -> 0..(R!Bound + 1)]
  <2>1. SUFFICES ASSUME R!Noted(0) PROVE since' \in [R!VersionNumbers -> 0..(R!Bound + 1)]
    OBVIOUS
  <2>2. since' = [v \in R!VersionNumbers |-> IF R!Current(v) THEN 0
                                       ELSE IF since[v] + 0 > R!Bound THEN R!Bound + 1 ELSE since[v] + 0]
    BY <2>1 DEF R!Noted
  <2> QED
    BY <1>t, <2>2, Bounds
<1>1. CASE R!Publish
  <2>1. R!TypeOK'
    BY <1>1, <1>t, Bounds DEF ResolveInv, R!TypeOK, R!Publish
  <2>2. \A v, n : Within(v, n)' <=> Within(v, n)
    BY <1>1, WithinSame DEF R!Publish
  <2> QED
    BY <1>1, <2>1, <2>2 DEF ResolveInv, FreshInv, LinkInv, R!Publish
<1>2. CASE R!Push
  <2>1. R!TypeOK'
    BY <1>2, <1>t, <1>n, Bounds DEF ResolveInv, R!TypeOK, R!Push
  <2> QED
    BY <1>2, <2>1, SourceMoves DEF R!Push
<1>3. CASE R!MoveLink
  <2>1. link' \in 0..R!Key
    BY <1>3, <1>t, Bounds DEF R!MoveLink
  <2>2. R!TypeOK'
    BY <1>3, <2>1, <1>n DEF ResolveInv, R!TypeOK, R!MoveLink
  <2> QED
    BY <1>3, <2>2, SourceMoves DEF R!MoveLink
<1>4. CASE R!Tick
  BY <1>4, TickMoves
<1>5. ASSUME NEW s \in R!Sources, R!Hears(s) PROVE ResolveInv'
  <2>1. PICK v \in (at[s] + 1)..published : at' = [at EXCEPT ![s] = v]
    BY <1>5 DEF R!Hears
  <2>2. v \in 0..MaxVersion
    BY <1>t, Bounds
  <2>3. R!TypeOK'
    BY <1>5, <2>1, <2>2, <1>t, <1>n DEF ResolveInv, R!TypeOK, R!Hears
  <2> QED
    BY <1>5, <2>3, SourceMoves DEF R!Hears
<1>6. ASSUME NEW s \in R!Sources, R!Republish(s) PROVE ResolveInv'
  <2>2. known \in 0..MaxVersion
    BY <1>t, Bounds
  <2>3. R!TypeOK'
    BY <1>6, <2>2, <1>t, <1>n DEF ResolveInv, R!TypeOK, R!Republish
  <2> QED
    BY <1>6, <2>3, SourceMoves DEF R!Republish
<1>7. ASSUME NEW q \in Readers, NEW what \in {"key", "ens"}, R!Ask(q, what) PROVE ResolveInv'
  <2> DEFINE r == IF what = "key" THEN [R!Idle EXCEPT !.pc = "entry"]
                  ELSE [R!Idle EXCEPT !.pc = "look", !.what = "ens", !.step = "dnslink"]
  <2>1. r \in R!Request /\ r.pc \in {"entry", "look"}
    <3>1. R!Idle \in R!Request
      BY Bounds DEF R!Idle, R!Request, R!Steps, R!None
    <3> QED
      BY <3>1 DEF R!Request, R!Steps
  <2>2. lookup' = [lookup EXCEPT ![q] = r] /\ UNCHANGED <<published, known, at, link, cache, since>>
    BY <1>7 DEF R!Ask
  <2> HIDE DEF r
  <2> QED
    BY <2>1, <2>2, RequestMoves DEF LinkOf
<1>8. ASSUME NEW q \in Readers, R!ReadEntry(q) PROVE ResolveInv'
  <2> DEFINE r == IF known # 0 THEN R!Done(lookup[q], known) ELSE R!LookFor(lookup[q], "ipns")
  <2>1. /\ r \in R!Request /\ r.pc \in {"done", "look"}
        /\ r.pc = "done" => r.val = known /\ known # 0
    <3>1. <<>> \in Seq(R!Sources \cup {"dns"}) /\ 0 \in 0..R!Key /\ known \in 0..R!Key
      BY <1>t, Bounds
    <3> QED
      BY <1>t, <3>1 DEF R!Done, R!LookFor, R!Request, R!Steps, R!None
  <2>2. lookup' = [lookup EXCEPT ![q] = r] /\ UNCHANGED <<published, known, at, link, cache, since>>
    BY <1>8 DEF R!ReadEntry
  <2> HIDE DEF r
  <2>3. r.pc = "done" => r.val \in R!VersionNumbers /\ R!Current(r.val)
    BY <2>1, <1>t, Bounds DEF R!Current
  <2> QED
    BY <2>1, <2>2, <2>3, RequestMoves DEF LinkOf, Within
<1>9. ASSUME NEW q \in Readers, R!LookUp(q) PROVE ResolveInv'
  <2> DEFINE k == lookup[q].step
  <2>0. k \in R!Steps
    BY <1>t DEF R!Request
  <2>1. CASE cache[k].left > 0
    <3> DEFINE v == cache[k].val
               r == R!After(lookup[q], v)
    <3>1. v \in 0..R!Key /\ (k # "dnslink" => v # R!Key) /\ cache[k].left \in Nat /\ cache[k].left <= Ttl
      BY <1>t, <2>0, Bounds DEF ResolveInv, LinkInv
    <3>2. /\ r \in R!Request /\ r.age = lookup[q].age /\ r.pc \in {"entry", "look", "done"}
          /\ r.pc = "done" => r.val = v /\ v # R!Key
      BY <1>t, <3>1, AfterIs
    <3>3. lookup' = [lookup EXCEPT ![q] = r] /\ UNCHANGED <<published, known, at, link, cache, since>>
      BY <1>9, <2>1 DEF R!LookUp
    <3> HIDE DEF r
    <3>4. ASSUME r.pc = "done", r.val # R!None
          PROVE  r.val \in R!VersionNumbers /\ Within(r.val, MaxWait + Ttl - 1 + r.age)
      <4>1. v \in R!VersionNumbers /\ r.val = v
        BY <3>1, <3>2, <3>4, Bounds DEF R!None, R!Key
      <4>2. Within(v, MaxWait + Ttl - cache[k].left)
        BY <2>0, <2>1, <4>1 DEF ResolveInv, FreshInv
      <4>3. r.age \in Nat /\ since[v] \in Nat
        <5>1. r.age \in Nat
          BY <3>2, Bounds DEF R!Request
        <5>2. since[v] \in Nat
          BY <1>t, <4>1
        <5> QED
          BY <5>1, <5>2
      <4>4. cache[k].left \in Nat /\ cache[k].left > 0
        BY <2>1, <3>1
      <4>5. Within(v, MaxWait + Ttl - 1 + r.age)
        BY <4>2, <4>3, <4>4, WithinFromCache
      <4> QED
        BY <4>1, <4>5
    <3> QED
      BY <3>2, <3>3, <3>4, RequestMoves DEF LinkOf
  <2>2. CASE ~(cache[k].left > 0)
    <3> DEFINE r == [lookup[q] EXCEPT !.pc = "fetch", !.left = R!Chain(k)]
    <3>1. r \in R!Request /\ r.pc = "fetch" /\ r.step = k /\ r.left = R!Chain(k)
      BY <1>t, <2>0, ChainOfSources DEF R!Request
    <3>2. lookup' = [lookup EXCEPT ![q] = r] /\ UNCHANGED <<published, known, at, link, cache, since>>
      BY <1>9, <2>2 DEF R!LookUp
    <3> HIDE DEF r
    <3> QED
      BY <2>0, <3>1, <3>2, RequestMoves, ChainOfSources DEF LinkOf
  <2> QED
    BY <2>1, <2>2
<1>10. ASSUME NEW q \in Readers, R!Fetched(q) PROVE ResolveInv'
  <2> DEFINE s == Head(lookup[q].left)
             r == [lookup[q] EXCEPT !.pc = "keep", !.left = <<>>, !.val = R!Answer(s)]
  <2>1. s \in R!Sources \cup {"dns"} /\ (lookup[q].step # "dnslink" => s \in R!Sources)
    <3>1. lookup[q].left \in Seq(R!Sources \cup {"dns"}) /\ lookup[q].left # <<>>
      BY <1>10, <1>t DEF R!Fetched, R!Request
    <3>2. lookup[q].step # "dnslink" => lookup[q].left \in Seq(R!Sources)
      BY <1>10 DEF R!Fetched, ResolveInv, LinkInv
    <3> QED
      BY <3>1, <3>2
  <2>2. R!Answer(s) \in 0..R!Key /\ (s \in R!Sources => R!Answer(s) # R!Key)
        /\ (R!Answer(s) \in R!VersionNumbers => R!Current(R!Answer(s)))
    <3>1. CASE s = "dns"
      BY <3>1, <1>t, Bounds DEF R!Answer, R!Current
    <3>2. CASE s \in R!Sources
      BY <3>2, <1>t, Bounds DEF R!Answer, R!Current
    <3> QED
      BY <3>1, <3>2, <2>1
  <2>3. r \in R!Request /\ r.pc = "keep" /\ r.step = lookup[q].step /\ r.val = R!Answer(s)
    <3>1. <<>> \in Seq(R!Sources \cup {"dns"})
      OBVIOUS
    <3> QED
      BY <1>t, <2>2, <3>1 DEF R!Request
  <2>4. lookup' = [lookup EXCEPT ![q] = r] /\ UNCHANGED <<published, known, at, link, cache, since>>
    BY <1>10 DEF R!Fetched
  <2> HIDE DEF r, s
  <2> QED
    BY <2>1, <2>2, <2>3, <2>4, RequestMoves DEF LinkOf, Within
<1>11. ASSUME NEW q \in Readers, R!NotFetched(q) PROVE ResolveInv'
  <2> DEFINE r == [lookup[q] EXCEPT !.left = Tail(@)]
  <2>1. Tail(lookup[q].left) \in Seq(R!Sources \cup {"dns"})
        /\ (lookup[q].step # "dnslink" => Tail(lookup[q].left) \in Seq(R!Sources))
    <3>1. lookup[q].left \in Seq(R!Sources \cup {"dns"}) /\ lookup[q].left # <<>>
      BY <1>11, <1>t DEF R!NotFetched, R!Request
    <3>2. lookup[q].step # "dnslink" => lookup[q].left \in Seq(R!Sources)
      BY <1>11 DEF R!NotFetched, ResolveInv, LinkInv
    <3> QED
      BY <3>1, <3>2
  <2>2. r \in R!Request /\ r.pc = "fetch" /\ r.step = lookup[q].step /\ r.left = Tail(lookup[q].left)
    BY <1>11, <1>t, <2>1 DEF R!NotFetched, R!Request
  <2>3. lookup' = [lookup EXCEPT ![q] = r] /\ UNCHANGED <<published, known, at, link, cache, since>>
    BY <1>11 DEF R!NotFetched
  <2> HIDE DEF r
  <2> QED
    BY <2>1, <2>2, <2>3, RequestMoves DEF LinkOf
<1>12. ASSUME NEW q \in Readers, R!NoneLeft(q) PROVE ResolveInv'
  <2> DEFINE r == R!After(lookup[q], R!None)
  <2>1. /\ r \in R!Request /\ r.pc \in {"entry", "look", "done"}
        /\ r.pc = "done" => r.val = R!None
    BY <1>t, Bounds, AfterIs DEF R!None
  <2>2. lookup' = [lookup EXCEPT ![q] = r] /\ UNCHANGED <<published, known, at, link, cache, since>>
    BY <1>12 DEF R!NoneLeft
  <2> HIDE DEF r
  <2> QED
    BY <2>1, <2>2, RequestMoves DEF LinkOf
<1>13. ASSUME NEW q \in Readers, R!Answered(q) PROVE ResolveInv'
  <2>1. R!Idle \in R!Request /\ R!Idle.pc = "idle"
    BY Bounds DEF R!Idle, R!Request, R!Steps, R!None
  <2> QED
    BY <1>13, <2>1, RequestMoves DEF R!Answered, LinkOf
<1>14. ASSUME NEW q \in Readers, R!Keep(q) PROVE ResolveInv'
  <2> DEFINE k == lookup[q].step
             v == lookup[q].val
             r == R!After(lookup[q], v)
  <2>0. k \in R!Steps /\ v \in 0..R!Key /\ (k # "dnslink" => v # R!Key) /\ lookup[q].pc = "keep"
        /\ lookup[q].age \in Nat /\ lookup[q].age <= MaxWait
    BY <1>14, <1>t, Bounds DEF R!Request, ResolveInv, LinkInv, R!Keep
  <2>1. /\ r \in R!Request /\ r.age = lookup[q].age /\ r.pc \in {"entry", "look", "done"}
        /\ r.pc = "done" => r.val = v /\ v # R!Key
    BY <1>t, <2>0, AfterIs
  <2>2. /\ lookup' = [lookup EXCEPT ![q] = r] /\ cache' = [cache EXCEPT ![k] = R!Kept(v)]
        /\ UNCHANGED <<published, known, at, link, since>>
    BY <1>14 DEF R!Keep
  <2>3. v \in R!VersionNumbers => Within(v, lookup[q].age) /\ since[v] \in Nat
    BY <1>t, <2>0, Bounds DEF ResolveInv, FreshInv
  <2>4. v \in R!VersionNumbers => Within(v, MaxWait) /\ Within(v, MaxWait + Ttl - 1 + lookup[q].age)
    BY <2>0, <2>3, Bounds DEF Within
  <2>5. R!Kept(v) \in [val : 0..R!Key, left : 0..Ttl] /\ R!Kept(v).left = Ttl /\ R!Kept(v).val = v
    BY <2>0, Bounds DEF R!Kept
  <2>6. v # R!None /\ v # R!Key => v \in R!VersionNumbers
    BY <2>0, Bounds DEF R!None, R!Key
  <2> HIDE DEF r, v, k
  <2>7. lookup' \in [Readers -> R!Request] /\ lookup'[q] = r /\ \A u \in Readers \ {q} : lookup'[u] = lookup[u]
    BY <2>1, <2>2 DEF ResolveInv, R!TypeOK
  <2>8. cache' \in [R!Steps -> [val : 0..R!Key, left : 0..Ttl]] /\ cache'[k] = R!Kept(v)
        /\ \A j \in R!Steps \ {k} : cache'[j] = cache[j]
    BY <1>t, <2>0, <2>2, <2>5
  <2>9. R!TypeOK'
    BY <2>2, <2>7, <2>8 DEF ResolveInv, R!TypeOK
  <2>10. \A u, n : Within(u, n)' <=> Within(u, n)
    BY <2>2, WithinSame
  <2>11. MaxWait + Ttl - Ttl = MaxWait
    BY Bounds
  <2>12. ASSUME NEW j \in R!Steps, cache'[j].left > 0, cache'[j].val \in R!VersionNumbers
         PROVE  \A n : n = MaxWait + Ttl - cache'[j].left => Within(cache'[j].val, n)
    <3>1. CASE j = k
      BY <3>1, <2>4, <2>5, <2>8, <2>11, <2>12
    <3>2. CASE j # k
      BY <3>2, <2>8, <2>12 DEF ResolveInv, FreshInv
    <3> QED
      BY <3>1, <3>2
  <2>13. ASSUME NEW u \in Readers, lookup'[u].pc = "done", lookup'[u].val # R!None
         PROVE  /\ lookup'[u].val \in R!VersionNumbers
                /\ \A n : n = MaxWait + Ttl - 1 + lookup'[u].age => Within(lookup'[u].val, n)
    <3>1. CASE u = q
      BY <3>1, <2>1, <2>4, <2>6, <2>7, <2>13
    <3>2. CASE u # q
      BY <3>2, <2>7, <2>13 DEF ResolveInv, FreshInv
    <3> QED
      BY <3>1, <3>2
  <2>14. ASSUME NEW u \in Readers, lookup'[u].pc = "keep", lookup'[u].val \in R!VersionNumbers
         PROVE  \A n : n = lookup'[u].age => Within(lookup'[u].val, n)
    BY <2>1, <2>7, <2>14 DEF ResolveInv, FreshInv
  <2>15. FreshInv'
    BY <2>10, <2>12, <2>13, <2>14 DEF FreshInv
  <2>16. LinkInv'
    BY <2>0, <2>1, <2>5, <2>7, <2>8 DEF ResolveInv, LinkInv
  <2> QED
    BY <2>9, <2>15, <2>16 DEF ResolveInv
<1>15. CASE UNCHANGED R!vars
  <2>1. \A v, n : Within(v, n)' <=> Within(v, n)
    BY <1>15, WithinSame DEF R!vars
  <2> QED
    BY <1>15, <2>1 DEF R!vars, ResolveInv, R!TypeOK, FreshInv, LinkInv
<1> QED
  BY <1>1, <1>2, <1>3, <1>4, <1>5, <1>6, <1>7, <1>8, <1>9, <1>10, <1>11, <1>12, <1>13, <1>14,
     <1>15 DEF R!Next

(* No answer is older than the time one request took to fetch it, RESOLVE_TTL
   and the time one request took to pass it on (cached, resolveKey,
   resolveENS). *)
THEOREM AnswersAreFresh == R!Spec => []FreshEnough
<1>1. ResolveInv => FreshEnough
  <2> SUFFICES ASSUME ResolveInv PROVE FreshEnough
    OBVIOUS
  <2>1. ASSUME NEW q \in Readers, lookup[q].pc = "done", lookup[q].val # R!None
        PROVE  R!Current(lookup[q].val) \/ since[lookup[q].val] <= R!Bound
    <3>1. lookup[q].val \in R!VersionNumbers /\ Within(lookup[q].val, MaxWait + Ttl - 1 + lookup[q].age)
      BY <2>1 DEF ResolveInv, FreshInv
    <3>2. lookup[q].age \in Nat /\ lookup[q].age <= MaxWait /\ since[lookup[q].val] \in Nat
      BY <3>1, Bounds DEF ResolveInv, R!TypeOK, R!Request
    <3> QED
      BY <3>1, <3>2, Bounds DEF Within, R!Bound
  <2> QED
    BY <2>1 DEF ResolveInv, FreshEnough, R!FreshEnough
<1> QED
  BY <1>1, ResolveInit, ResolveStep, PTL DEF R!Spec
=============================================================================
