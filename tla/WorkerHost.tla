----------------------------- MODULE WorkerHost -----------------------------
(***************************************************************************)
(* The host that runs as a Cloudflare Worker (worker/src/index.js).  It    *)
(* has no memory and no lock: a request reads and writes two stores, one   *)
(* call at a time, while other requests run elsewhere.  R2 holds the files *)
(* of each version, where the rest of a version is (carry), and the head   *)
(* of each site, which is replaced by a conditional put.  KV holds an      *)
(* entry per site, which is what is served, and the claimed names.         *)
(*                                                                         *)
(* A read of KV may be an old one.  That is a request that read earlier,   *)
(* so it needs no state of its own.  The etag of a head is that of its     *)
(* content, so a head stands for its own etag.                             *)
(***************************************************************************)
EXTENDS Naturals

CONSTANTS
  Keys, NoKey,          \* the site keys (IPNS names); none
  Names, NoName,        \* the free names; none claimed
  Files,                \* file contents at a path
  PathOf,               \* PathOf[f]: the path of file f
  Versions, NoVersion,  \* the versions: sets of files; none
  Seqs,                 \* the sequences in use
  Requests,             \* the requests that may run at once
  Pushes                \* the signed pushes that are ever sent

PathsIn(files) == {PathOf[f] : f \in files}

PushType ==
  [key : Keys, cid : Versions, seq : Seqs,
   parent : Versions \cup {NoVersion},
   own : SUBSET Files,             \* what is uploaded, in one part or more
   manifest : BOOLEAN,             \* it says what to keep of the parent,
   carry : SUBSET PathsIn(Files)]  \* which is these paths

ASSUME ConstantsAssumption ==
  /\ Versions \subseteq SUBSET Files
  /\ NoVersion \notin Versions
  /\ NoKey \notin Keys
  /\ NoName \notin Names
  /\ Seqs \subseteq Nat /\ {0, 1} \subseteq Seqs
  /\ Pushes \subseteq PushType
  /\ \A p \in Pushes : p.own \subseteq p.cid

(* A version has one file at a path, and a push is what it says: a whole one
   uploads all of its version, one on a parent what differs from it.  A manifest
   may be refused for what it keeps. *)
ASSUME PushesAssumption ==
  /\ \A c \in Versions : \A f, g \in c : PathOf[f] = PathOf[g] => f = g
  /\ \A p \in Pushes :
       LET kept == IF p.manifest THEN p.carry ELSE PathsIn(p.parent) \ PathsIn(p.own)
       IN /\ p.parent = NoVersion => p.own = p.cid
          /\ p.parent # NoVersion /\ kept \subseteq PathsIn(p.parent) \ PathsIn(p.own)
               => p.cid = p.own \cup {f \in p.parent : PathOf[f] \in kept}

VARIABLES
  entry,    \* KV key:<ipns>: [cid, seq, name], all empty if there is none
  names,    \* KV name:<name>: the key it leads to
  heads,    \* R2 heads/<ipns>: [cid, seq], or NoHead
  owners,   \* R2 owners/<cid>: the key that first pushed the version
  stored,   \* R2 sites/<cid>/: the files pushed with the version
  maps,     \* R2 carry/<cid>.json: every map of it that was ever put
  pushed,   \* KV pushed:<cid>: "no", "1" or "manifest"
  req,      \* req[r]: the request that runs as r
  behind,   \* history: the keys whose entry was left to disagree with the head
  loose     \* history: the keys whose entry was left to disagree with names

vars == <<entry, names, heads, owners, stored, maps, pushed, req, behind, loose>>

HeadType == [cid : Versions \cup {NoVersion}, seq : Seqs]
NoHead == [cid |-> NoVersion, seq |-> 0]

Entry == [cid : Versions \cup {NoVersion}, seq : Seqs, name : Names \cup {NoName}]
NoEntry == [cid |-> NoVersion, seq |-> 0, name |-> NoName]

HeadIn(e) == [cid |-> e.cid, seq |-> e.seq]

Idle == [pc |-> "idle"]

Pushing ==
  [pc : {"head", "owner", "own", "files", "carry", "move", "check", "moveAgain",
         "save", "mark", "notify"},
   push : Pushes, left : SUBSET Files, last : BOOLEAN,
   existing : Entry, cur : HeadType, etag : HeadType]

Claiming ==
  [pc : {"readEntry", "free", "name", "saveName"}, key : Keys, name : Names,
   seen : Keys \cup {NoKey}, existing : Entry]

Maps == SUBSET (PathsIn(Files) \X Versions)

(* Every store and every request keep their shape (the values index.js puts
   under each key). *)
TypeOK ==
  /\ entry \in [Keys -> Entry]
  /\ names \in [Names -> Keys \cup {NoKey}]
  /\ heads \in [Keys -> HeadType]
  /\ owners \in [Versions -> Keys \cup {NoKey}]
  /\ stored \in [Versions -> SUBSET Files]
  /\ DOMAIN maps = Versions /\ \A c \in Versions : \A m \in maps[c] : m \in Maps
  /\ pushed \in [Versions -> {"no", "1", "manifest"}]
  /\ req \in [Requests -> Pushing \cup Claiming \cup {Idle}]
  /\ behind \subseteq Keys /\ loose \subseteq Keys

(* Nothing is stored, or a site was last pushed before heads and owners were
   recorded: it has an entry and its files. *)
Init ==
  /\ \E old \in {[k \in Keys |-> NoEntry]}
                 \cup {[k \in Keys |-> IF k = o THEN [cid |-> c, seq |-> 1, name |-> NoName] ELSE NoEntry]
                        : o \in {p.key : p \in Pushes}, c \in {p.cid : p \in {q \in Pushes : q.parent = NoVersion}}} :
       /\ entry = old
       /\ stored = [c \in Versions |-> IF \E k \in Keys : old[k].cid = c THEN c ELSE {}]
       /\ pushed = [c \in Versions |-> IF \E k \in Keys : old[k].cid = c THEN "1" ELSE "no"]
  /\ names = [n \in Names |-> NoKey]
  /\ heads = [k \in Keys |-> NoHead]
  /\ owners = [c \in Versions |-> NoKey]
  /\ maps = [c \in Versions |-> {}]
  /\ req = [r \in Requests |-> Idle]
  /\ behind = {} /\ loose = {}

-----------------------------------------------------------------------------
At(r, pc) == req[r].pc = pc
Finish(r) == req' = [req EXCEPT ![r] = Idle]
Advance(r, pc) == req' = [req EXCEPT ![r].pc = pc]

(* Mutant of pushConflict: a stale parent is not looked at. *)
pushConflictBySequence(cur, p) ==
  \/ p.seq < cur.seq
  \/ p.parent = NoVersion /\ cur.cid # NoVersion /\ p.seq = cur.seq /\ cur.cid # p.cid

(* A push that may not replace the head it found. *)
pushConflict(cur, p) ==
  \/ p.seq < cur.seq
  \/ p.parent = NoVersion /\ cur.cid # NoVersion /\ p.seq = cur.seq /\ cur.cid # p.cid
  \/ p.parent # NoVersion /\ cur.cid # p.parent

(* The head, or for a site pushed before there were heads its entry. *)
headOf(k, e) == IF heads[k] # NoHead THEN heads[k] ELSE HeadIn(e)

(* carryOf: the map of version c.  An isolate may have kept an earlier one
   in its cache, but never that there is none. *)
carryOf(c) == IF maps[c] = {} THEN {{}} ELSE maps[c]

(* What r2 finds of version c through map m: its own files first. *)
Found(c, m) ==
  stored[c] \cup
  {f \in Files \ stored[c] : /\ PathOf[f] \notin PathsIn(stored[c])
                             /\ \E v \in Versions : <<PathOf[f], v>> \in m /\ f \in stored[v]}

-----------------------------------------------------------------------------
(* A push: a part of the files, and the last part once the others are held.
   It reads the entry. *)
BeginPush(r, p, part) ==
  /\ At(r, "idle")
  /\ part # {}
  /\ req' = [req EXCEPT ![r] = [pc |-> "head", push |-> p, left |-> part,
                                last |-> p.own \ part \subseteq stored[p.cid],
                                existing |-> entry[p.key], cur |-> NoHead, etag |-> NoHead]]
  /\ UNCHANGED <<entry, names, heads, owners, stored, maps, pushed, behind, loose>>

(* It reads the head and looks for a conflict. *)
ReadHead(r) ==
  /\ At(r, "head")
  /\ LET p == req[r].push
         cur == headOf(p.key, req[r].existing)
     IN IF pushConflict(cur, p)
        THEN Finish(r)
        ELSE req' = [req EXCEPT ![r].pc = "owner", ![r].cur = cur, ![r].etag = heads[p.key]]
  /\ UNCHANGED <<entry, names, heads, owners, stored, maps, pushed, behind, loose>>

(* claimVersion: a version takes files from the key that first pushed it, and
   none if it was stored before owners were recorded. *)
ReadOwner(r) ==
  /\ At(r, "owner")
  /\ LET c == req[r].push.cid IN
       \/ owners[c] = req[r].push.key /\ Advance(r, "files")
       \/ owners[c] = NoKey /\ stored[c] = {} /\ Advance(r, "own")
       \/ owners[c] \notin {NoKey, req[r].push.key} /\ Finish(r)
       \/ owners[c] = NoKey /\ stored[c] # {} /\ Finish(r)
  /\ UNCHANGED <<entry, names, heads, owners, stored, maps, pushed, behind, loose>>

PutOwner(r) ==
  /\ At(r, "own")
  /\ owners' = [owners EXCEPT ![req[r].push.cid] = req[r].push.key]
  /\ Advance(r, "files")
  /\ UNCHANGED <<entry, names, heads, stored, maps, pushed, behind, loose>>

(* One file is stored, or is there already. *)
StoreFile(r, f) ==
  /\ At(r, "files")
  /\ f \in req[r].left
  /\ stored' = [stored EXCEPT ![req[r].push.cid] = @ \cup {f}]
  /\ req' = [req EXCEPT ![r].left = @ \ {f}]
  /\ UNCHANGED <<entry, names, heads, owners, maps, pushed, behind, loose>>

(* A part that is not the last one changes nothing else. *)
FilesStored(r) ==
  /\ At(r, "files")
  /\ req[r].left = {}
  /\ IF req[r].last THEN Advance(r, "carry") ELSE Finish(r)
  /\ UNCHANGED <<entry, names, heads, owners, stored, maps, pushed, behind, loose>>

(* Mutant of MapAfter: only the parent's own files are carried. *)
MapAfterOwn(p, m) ==
  LET from == {<<PathOf[f], p.parent>> : f \in stored[p.parent]}
  IN IF p.manifest THEN {x \in from : x[1] \in p.carry}
     ELSE {x \in from : x[1] \notin PathsIn(stored[p.cid])}

(* Where the files are that push p does not hold, if m says it of its
   parent: with the parent, or where the parent has them from. *)
MapAfter(p, m) ==
  LET own  == PathsIn(stored[p.parent])
      from == {<<PathOf[f], p.parent>> : f \in stored[p.parent]} \cup {x \in m : x[1] \notin own}
  IN IF p.manifest THEN {x \in from : x[1] \in p.carry}
     ELSE {x \in from : x[1] \notin PathsIn(stored[p.cid])}

(* A manifest is refused when it names what the parent does not have, or what
   was uploaded. *)
BadManifest(p, m) ==
  \/ p.parent = NoVersion
  \/ p.carry \cap PathsIn(stored[p.cid]) # {}
  \/ ~ p.carry \subseteq PathsIn(stored[p.parent]) \cup {x[1] : x \in m}

(* saveCarry and saveManifestCarry. *)
SaveCarry(r) ==
  /\ At(r, "carry")
  /\ LET p == req[r].push IN
       \/ ~p.manifest /\ p.parent = NoVersion /\ Advance(r, "move") /\ UNCHANGED maps
       \/ p.parent = NoVersion /\ p.manifest /\ Finish(r) /\ UNCHANGED maps
       \/ /\ p.parent # NoVersion
          /\ \E m \in carryOf(p.parent) :
               IF p.manifest /\ BadManifest(p, m)
               THEN Finish(r) /\ UNCHANGED maps
               ELSE /\ maps' = [maps EXCEPT ![p.cid] = @ \cup {MapAfter(p, m)}]
                    /\ Advance(r, "move")
  /\ UNCHANGED <<entry, names, heads, owners, stored, pushed, behind, loose>>

(* The condition of the put: the head is still the one that was read, which
   may be none. *)
MayMove(k, etag) == heads[k] = etag

(* The head moves, if no other push moved it.  A push on a parent is refused
   if one did, a whole one looks again. *)
MoveHead(r) ==
  /\ req[r].pc \in {"move", "moveAgain"}
  /\ LET p == req[r].push IN
       \/ /\ MayMove(p.key, req[r].etag)
          /\ heads' = [heads EXCEPT ![p.key] = [cid |-> p.cid, seq |-> p.seq]]
          /\ Advance(r, "save")
       \/ /\ ~MayMove(p.key, req[r].etag)
          /\ IF At(r, "move") /\ p.parent = NoVersion THEN Advance(r, "check") ELSE Finish(r)
          /\ UNCHANGED heads
  /\ UNCHANGED <<entry, names, owners, stored, maps, pushed, behind, loose>>

(* It reads the head again: there is one by now. *)
CheckAgain(r) ==
  /\ At(r, "check")
  /\ LET p == req[r].push
         now == headOf(p.key, entry[p.key])
     IN IF pushConflict(now, p)
        THEN Finish(r)
        ELSE req' = [req EXCEPT ![r].pc = "moveAgain", ![r].cur = now, ![r].etag = heads[p.key]]
  /\ UNCHANGED <<entry, names, heads, owners, stored, maps, pushed, behind, loose>>

(* Mutant of EntryAfter: the sequence is left as it was. *)
EntryAfterCidOnly(e, p) == [e EXCEPT !.cid = p.cid]

EntryAfter(e, p) == [e EXCEPT !.cid = p.cid, !.seq = p.seq]

(* The entry this request read when it began is put back with the new
   version.  Over an entry that changed since, it undoes that change; and the
   head may have moved on. *)
SaveEntry(r) ==
  /\ At(r, "save")
  /\ LET p == req[r].push
         undoes == entry[p.key] # req[r].existing
     IN /\ entry' = [entry EXCEPT ![p.key] = EntryAfter(req[r].existing, p)]
        /\ behind' = IF undoes \/ heads[p.key] # [cid |-> p.cid, seq |-> p.seq] THEN behind \cup {p.key}
                     ELSE behind \ {p.key}
        /\ loose' = IF undoes THEN loose \cup {p.key} ELSE loose
  /\ Advance(r, "mark")
  /\ UNCHANGED <<names, heads, owners, stored, maps, pushed>>

(* How the version is to be served. *)
MarkPushed(r) ==
  /\ At(r, "mark")
  /\ pushed' = [pushed EXCEPT ![req[r].push.cid] = IF req[r].push.manifest THEN "manifest" ELSE "1"]
  /\ Advance(r, "notify")
  /\ UNCHANGED <<entry, names, heads, owners, stored, maps, behind, loose>>

(* The paths the node is to pull. *)
Listed(c, m) == PathsIn(stored[c]) \cup {x[1] : x \in m}

(* The answer; notifyNode tells the node what is Listed. *)
NotifyNode(r) ==
  /\ At(r, "notify")
  /\ Finish(r)
  /\ UNCHANGED <<entry, names, heads, owners, stored, maps, pushed, behind, loose>>

-----------------------------------------------------------------------------
Claims(r, k) == req[r].pc \in {"readEntry", "free", "name", "saveName"} /\ req[r].key = k

(* A claim: the name is free, or the key's own. *)
BeginClaim(r, k, n) ==
  /\ At(r, "idle")
  /\ names[n] \in {NoKey, k}
  /\ req' = [req EXCEPT ![r] = [pc |-> "readEntry", key |-> k, name |-> n,
                                seen |-> names[n], existing |-> NoEntry]]
  /\ UNCHANGED <<entry, names, heads, owners, stored, maps, pushed, behind, loose>>

(* Mutant of HasOther: the old name is kept. *)
HasOtherNever(e, n) == FALSE

(* The key has another name than the one it claims. *)
HasOther(e, n) == e.name \notin {NoName, n}

ReadEntry(r) ==
  /\ At(r, "readEntry")
  /\ LET e == entry[req[r].key] IN
       req' = [req EXCEPT ![r].existing = e,
                          ![r].pc = IF HasOther(e, req[r].name) THEN "free" ELSE "name"]
  /\ UNCHANGED <<entry, names, heads, owners, stored, maps, pushed, behind, loose>>

(* One name per key: the old one goes, whoever has it now. *)
FreeName(r) ==
  /\ At(r, "free")
  /\ LET old == req[r].existing.name IN
       /\ names' = [names EXCEPT ![old] = NoKey]
       /\ loose' = IF names[old] # req[r].key THEN loose \cup ({names[old], req[r].key} \cap Keys) ELSE loose
  /\ Advance(r, "name")
  /\ UNCHANGED <<entry, heads, owners, stored, maps, pushed, behind>>

(* The name leads to the key, whoever took it since it was found free. *)
PutName(r) ==
  /\ At(r, "name")
  /\ LET n == req[r].name IN
       /\ names' = [names EXCEPT ![n] = req[r].key]
       /\ loose' = loose \cup (IF names[n] # req[r].seen THEN {names[n], req[r].key} \cap Keys ELSE {})
                        \cup {req[r].key : s \in {t \in Requests \ {r} : Claims(t, req[r].key)}}
  /\ Advance(r, "saveName")
  /\ UNCHANGED <<entry, heads, owners, stored, maps, pushed, behind>>

Named(e, n) == [e EXCEPT !.name = n]

(* The entry goes back as it was read, with the name. *)
SaveName(r) ==
  /\ At(r, "saveName")
  /\ LET k == req[r].key
         e == req[r].existing
     IN /\ entry' = [entry EXCEPT ![k] = Named(e, req[r].name)]
        /\ loose' = IF entry[k] # e THEN loose \cup {k} ELSE loose
        /\ behind' = IF entry[k] # e THEN behind \cup {k} ELSE behind
  /\ Finish(r)
  /\ UNCHANGED <<names, heads, owners, stored, maps, pushed>>

(* A call fails, the client hangs up or the Worker is stopped: what was put
   stays. *)
Fails(r) ==
  /\ req[r].pc # "idle"
  /\ Finish(r)
  /\ behind' = IF At(r, "save") THEN behind \cup {req[r].push.key} ELSE behind
  /\ loose' = IF req[r].pc \in {"name", "saveName"} THEN loose \cup {req[r].key} ELSE loose
  /\ UNCHANGED <<entry, names, heads, owners, stored, maps, pushed>>

Next ==
  \E r \in Requests :
    \/ \E p \in Pushes : \E part \in SUBSET p.own : BeginPush(r, p, part)
    \/ ReadHead(r) \/ ReadOwner(r) \/ PutOwner(r)
    \/ \E f \in Files : StoreFile(r, f)
    \/ FilesStored(r) \/ SaveCarry(r) \/ MoveHead(r) \/ CheckAgain(r)
    \/ SaveEntry(r) \/ MarkPushed(r) \/ NotifyNode(r)
    \/ \E k \in Keys, n \in Names : BeginClaim(r, k, n)
    \/ ReadEntry(r) \/ FreeName(r) \/ PutName(r) \/ SaveName(r)
    \/ Fails(r)

Spec == Init /\ [][Next]_vars

-----------------------------------------------------------------------------
(* Whatever map an isolate has cached, the host finds every file of a head,
   and nothing that is not in it: a push that sent only what changed, or a
   manifest that dropped a file, over parents that did the same (r2, carryOf,
   saveCarry, saveManifestCarry); and the node is told exactly the paths of the
   version, so that it can rebuild it and find its root (notifyNode, filesOf). *)
HeadsAreWhole ==
  /\ TypeOK
  /\ \A k \in Keys : heads[k] # NoHead => \A m \in carryOf(heads[k].cid) : Found(heads[k].cid, m) = heads[k].cid
  /\ \A r \in Requests : At(r, "notify") =>
       LET c == req[r].push.cid IN \A m \in carryOf(c) : Listed(c, m) = PathsIn(c)

MovingOn(k) == \E r \in Requests : At(r, "save") /\ req[r].push.key = k

(* The entry, which is served, names the head, except while a push is between
   the two puts, and unless a request put back an entry that had changed, or
   stopped between the puts.  A push that nothing crosses mends that. *)
ServesHeadUnlessCrossed ==
  \A k \in Keys : heads[k] # NoHead /\ k \notin behind /\ ~MovingOn(k) => HeadIn(entry[k]) = heads[k]

RenamingNow(k) == \E r \in Requests : req[r].pc \in {"name", "saveName"} /\ req[r].key = k

(* A key and its name lead to one another, unless requests crossed in the
   entry or in the name, or a claim stopped half way (claim is five calls,
   without a lock). *)
NamesMatchUnlessCrossed ==
  \A k \in Keys : k \notin loose /\ ~RenamingNow(k) => \A n \in Names : names[n] = k <=> entry[k].name = n

OfferOf(r) ==
  IF req[r].pc \in {"owner", "own", "files", "carry", "move", "check", "moveAgain"}
  THEN LET p == req[r].push IN
         [key |-> p.key, cid |-> p.cid, seq |-> p.seq, parent |-> p.parent, mirror |-> FALSE]
  ELSE Idle

Promise == INSTANCE SiteHead WITH
  Writers <- Requests, NoOffer <- Idle,
  head <- [k \in Keys |-> headOf(k, entry[k])],
  offer <- [r \in Requests |-> OfferOf(r)],
  confirmed <- [k \in Keys |-> 0]

(* Pushes keep the promise of a host (SiteHead): the conditional put takes an
   offer in one step that looks at the head it replaces, for all that was
   read before it and however the requests cross. *)
KeepsPromise == Promise!HWrites
=============================================================================
