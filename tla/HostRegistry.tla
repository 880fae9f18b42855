---------------------------- MODULE HostRegistry ----------------------------
(***************************************************************************)
(* The host (internal/host/host.go): a registry of the version held for    *)
(* each site key and of the claimed names, kept in memory under a mutex    *)
(* and saved whole after every change; the pushes and pulls that replace   *)
(* a version, which run outside the mutex from their first conflict check  *)
(* to their second one; and crashes and restarts.                          *)
(*                                                                         *)
(* Content is addressed by its hash, so a version is the set of its files, *)
(* and two versions are equal only if they have the same files.            *)
(***************************************************************************)
EXTENDS Naturals

CONSTANTS
  Keys, NoKey,          \* the site keys (IPNS names); no owner
  Names, NoName,        \* the free names; no name claimed
  Files,                \* file contents at a path
  PathOf,               \* PathOf[f]: the path of file f
  Versions, NoVersion,  \* the versions: sets of files; none
  Seqs,                 \* the sequences in use
  Requests,             \* the requests the host may be serving at once
  Pushes,               \* the signed pushes and pulls that are ever sent
  Torn                  \* a saved registry that was cut short

PathsIn(files) == {PathOf[f] : f \in files}

PushType ==
  [key : Keys, cid : Versions, seq : Seqs,
   parent : Versions \cup {NoVersion},
   files : SUBSET Files,                       \* what this request carries
   manifest : BOOLEAN,                         \* it says what to keep of the parent,
   carry : SUBSET PathsIn(Files),              \* which is these paths
   last : BOOLEAN,                             \* not "part i of n" with i < n
   mirror : BOOLEAN,                           \* a pull, not a push
   rec : Versions \cup {NoVersion}]            \* the version its IPNS record names

ASSUME ConstantsAssumption ==
  /\ Versions \subseteq SUBSET Files
  /\ NoVersion \notin Versions
  /\ NoKey \notin Keys
  /\ NoName \notin Names
  /\ Seqs \subseteq Nat /\ 0 \in Seqs
  /\ Pushes \subseteq PushType
  /\ \A p \in Pushes : p.mirror => p.parent = NoVersion   \* a pull takes all of a version

VARIABLES
  reg,        \* reg[k]: the entry of key k, all empty if k has none
  names,      \* names[n]: the key that claimed n
  disk,       \* what registry.json holds: [reg, names], or Torn
  staged,     \* staged[c]: the files in the staging directory of version c
  blocks,     \* the files whose blocks the host's node holds
  req,        \* req[r]: the request being served
  up,         \* the host runs
  confirmed,  \* history: the sequence the last push to k was confirmed with
  owner       \* history: who was told that it holds n, until it asks for another

vars == <<reg, names, disk, staged, blocks, req, up, confirmed, owner>>

Entry == [cid : Versions \cup {NoVersion}, seq : Seqs,
          rec : Versions \cup {NoVersion}, name : Names \cup {NoName}]

NoEntry == [cid |-> NoVersion, seq |-> 0, rec |-> NoVersion, name |-> NoName]

Registry == [reg : [Keys -> Entry], names : [Names -> Keys \cup {NoKey}]]

Idle == [pc |-> "idle"]

Active == [pc : {"receive", "build", "commit"}, push : Pushes, left : SUBSET Files]

(* Every variable keeps its type: a request that is served is one of the
   signed pushes, an entry names versions, sequences and names (Entry,
   registry). *)
TypeOK ==
  /\ reg \in [Keys -> Entry]
  /\ names \in [Names -> Keys \cup {NoKey}]
  /\ disk \in Registry \cup {Torn}
  /\ staged \in [Versions -> SUBSET Files]
  /\ blocks \subseteq Files
  /\ req \in [Requests -> Active \cup {Idle}]
  /\ up \in BOOLEAN
  /\ confirmed \in [Keys -> Seqs]
  /\ owner \in [Names -> Keys \cup {NoKey}]

Init ==
  /\ reg = [k \in Keys |-> NoEntry]
  /\ names = [n \in Names |-> NoKey]
  /\ disk = [reg |-> reg, names |-> names]
  /\ staged = [c \in Versions |-> {}]
  /\ blocks = {}
  /\ req = [r \in Requests |-> Idle]
  /\ up = TRUE
  /\ confirmed = [k \in Keys |-> 0]
  /\ owner = [n \in Names |-> NoKey]

-----------------------------------------------------------------------------
(* top on top of base: a path in top replaces the same path in base. *)
Overlay(base, top) == top \cup {f \in base : PathOf[f] \notin PathsIn(top)}

(* Mutant of conflict: a stale parent is not looked at. *)
conflictBySequence(e, p) ==
  \/ p.seq < e.seq
  \/ p.parent = NoVersion /\ e.cid # NoVersion /\ p.seq = e.seq /\ e.cid # p.cid

(* A push that may not replace entry e, here or when it commits. *)
conflict(e, p) ==
  \/ p.seq < e.seq
  \/ p.parent = NoVersion /\ e.cid # NoVersion /\ p.seq = e.seq /\ e.cid # p.cid
  \/ p.parent # NoVersion /\ e.cid # p.parent

(* Mutant of Refused: a pull is never behind. *)
RefusedPush(e, p) == ~p.mirror /\ conflict(e, p)

(* A pull looks at the sequence alone. *)
Refused(e, p) == IF p.mirror THEN p.seq < e.seq ELSE conflict(e, p)

(* Mutant of Saved: the file is written before the change. *)
SavedBefore == disk' = [reg |-> reg, names |-> names]

(* The registry in memory is written out whole.  The write may fail before
   it starts, or after the old file was cut short. *)
Saved == disk' = [reg |-> reg', names |-> names']
SaveFails == disk' \in {disk, Torn}

Finish(r) == req' = [req EXCEPT ![r] = Idle]
Unstage(c) == staged' = [staged EXCEPT ![c] = {}]
Advance(r, pc) == req' = [req EXCEPT ![r].pc = pc]

At(r, pc) == up /\ req[r].pc = pc

-----------------------------------------------------------------------------
(* The request is signed and does not conflict, or is answered 409 and
   changes nothing. *)
BeginPush(r, p) ==
  /\ At(r, "idle")
  /\ ~Refused(reg[p.key], p)
  /\ req' = [req EXCEPT ![r] = [pc |-> "receive", push |-> p, left |-> p.files]]
  /\ UNCHANGED <<reg, names, disk, staged, blocks, up, confirmed, owner>>

(* One file lands in the staging directory. *)
Receive(r, f) ==
  /\ At(r, "receive")
  /\ f \in req[r].left
  /\ staged' = [staged EXCEPT ![req[r].push.cid] = Overlay(@, {f})]
  /\ req' = [req EXCEPT ![r].left = @ \ {f}]
  /\ UNCHANGED <<reg, names, disk, blocks, up, confirmed, owner>>

(* The connection breaks, or the disk is full: what was staged stays.  A
   pull removes it. *)
BreakOff(r) ==
  /\ At(r, "receive")
  /\ Finish(r)
  /\ IF req[r].push.mirror THEN Unstage(req[r].push.cid) ELSE UNCHANGED staged
  /\ UNCHANGED <<reg, names, disk, blocks, up, confirmed, owner>>

(* Everything has landed.  A part that is not the last one is answered (with
   an error if it has a manifest) and stays staged, and so does a push whose
   manifest has no parent. *)
Received(r) ==
  /\ At(r, "receive")
  /\ req[r].left = {}
  /\ LET p == req[r].push IN
       IF p.last /\ (p.manifest => p.parent # NoVersion)
       THEN Advance(r, "build")
       ELSE Finish(r)
  /\ UNCHANGED <<reg, names, disk, staged, blocks, up, confirmed, owner>>

(* Mutant of Carried: the paths are looked up in the new version. *)
CarriedUnread(p) == {f \in p.cid : PathOf[f] \in p.carry}

(* What the staged files and the parent make of push p. *)
Carried(p) == {f \in p.parent : PathOf[f] \in p.carry}

GoodManifest(p) ==
  /\ p.carry \subseteq PathsIn(p.parent)
  /\ p.carry \cap PathsIn(staged[p.cid]) = {}

Got(p) ==
  IF p.manifest THEN staged[p.cid] \cup Carried(p)
  ELSE IF p.parent # NoVersion THEN Overlay(p.parent, staged[p.cid])
  ELSE staged[p.cid]

(* The host's own failure keeps the staged files for the retry; a pull drops
   them whatever happens. *)
BuildFails(r) ==
  /\ At(r, "build")
  /\ Finish(r)
  /\ IF req[r].push.mirror THEN Unstage(req[r].push.cid) ELSE UNCHANGED staged
  /\ UNCHANGED <<reg, names, disk, blocks, up, confirmed, owner>>

(* The staged files are added to the node.  They make the version that was
   signed for, or a manifest push is refused, or the rest is fetched from the
   network. *)
Build(r) ==
  /\ At(r, "build")
  /\ LET p == req[r].push
         bad == p.manifest /\ ~GoodManifest(p)
     IN
       /\ \/ /\ ~bad /\ Got(p) = p.cid
             /\ blocks' = blocks \cup staged[p.cid]
             /\ Advance(r, "commit")
             /\ UNCHANGED staged
          \/ /\ p.manifest
             /\ bad \/ Got(p) # p.cid
             /\ blocks' = IF bad THEN blocks ELSE blocks \cup staged[p.cid]
             /\ Finish(r) /\ Unstage(p.cid)
          \/ /\ ~p.manifest /\ Got(p) # p.cid
             /\ blocks' = blocks \cup staged[p.cid] \cup p.cid
             /\ Advance(r, "commit")
             /\ UNCHANGED staged
          \/ /\ ~p.manifest /\ Got(p) # p.cid
             /\ blocks' = blocks \cup staged[p.cid]
             /\ Finish(r) /\ Unstage(p.cid)
  /\ UNCHANGED <<reg, names, disk, up, confirmed, owner>>

(* Mutant of Supersede: off by one. *)
SupersedeNext(e, p) == [e EXCEPT !.cid = p.cid, !.seq = p.seq + 1]

Supersede(e, p) ==
  [e EXCEPT !.cid = p.cid, !.seq = p.seq,
            !.rec = IF p.rec = NoVersion THEN @ ELSE p.rec]

(* Under the mutex: the conflict check again, the entry, the save.  Then the
   staging directory goes. *)
Commit(r) ==
  /\ At(r, "commit")
  /\ LET p == req[r].push
         e == reg[p.key]
     IN
       /\ UNCHANGED names
       /\ Unstage(p.cid)
       /\ \/ /\ ~p.mirror /\ conflict(e, p)
             /\ UNCHANGED <<reg, disk, confirmed>>
          \/ /\ p.mirror /\ p.seq < e.seq
             /\ UNCHANGED <<reg, confirmed>>
             /\ Saved \/ SaveFails
          \/ /\ ~Refused(e, p)
             /\ reg' = [reg EXCEPT ![p.key] = Supersede(e, p)]
             /\ \/ /\ Saved
                   /\ confirmed' = IF p.mirror THEN confirmed
                                   ELSE [confirmed EXCEPT ![p.key] = p.seq]
                \/ SaveFails /\ UNCHANGED confirmed
  /\ Finish(r)
  /\ UNCHANGED <<blocks, up, owner>>

(* Mutant of Available: whoever has no name yet takes any. *)
AvailableToNew(k, n) == names[n] \in {k, NoKey} \/ reg[k].name = NoName

Available(k, n) == names[n] \in {k, NoKey}

(* Mutant of Freed: the old name stays taken. *)
FreedNone(k, n) == {}

Freed(k, n) == {m \in Names : m = reg[k].name /\ m # n}

(* Key k claims name n.  It has one name: the one it had is free again.  The
   whole of it runs under the mutex. *)
claim(k, n) ==
  /\ up
  /\ Available(k, n)
  /\ names' = [m \in Names |-> IF m = n THEN k ELSE IF m \in Freed(k, n) THEN NoKey ELSE names[m]]
  /\ reg' = [reg EXCEPT ![k].name = n]
  /\ LET given == {m \in Names : owner[m] = k} IN
     \/ Saved /\ owner' = [m \in Names |-> IF m = n THEN k
                            ELSE IF m \in given THEN NoKey ELSE owner[m]]
     \/ SaveFails /\ owner' = [m \in Names |-> IF m \in given \ {n} THEN NoKey ELSE owner[m]]
  /\ UNCHANGED <<staged, blocks, req, up, confirmed>>

-----------------------------------------------------------------------------
(* The process ends at any point.  What it holds on disk stays. *)
Crash ==
  /\ up
  /\ up' = FALSE
  /\ req' = [r \in Requests |-> Idle]
  /\ UNCHANGED <<reg, names, disk, staged, blocks, confirmed, owner>>

(* It loads the registry, or cannot start when the file was cut short, and
   removes what has been staged for two days. *)
Start ==
  /\ ~up
  /\ disk # Torn
  /\ up' = TRUE
  /\ reg' = disk.reg
  /\ names' = disk.names
  /\ \E old \in SUBSET Versions :
       staged' = [c \in Versions |-> IF c \in old THEN {} ELSE staged[c]]
  /\ UNCHANGED <<disk, blocks, req, confirmed, owner>>

Next ==
  \/ \E r \in Requests, p \in Pushes : BeginPush(r, p)
  \/ \E r \in Requests, f \in Files : Receive(r, f)
  \/ \E r \in Requests : BreakOff(r) \/ Received(r) \/ BuildFails(r) \/ Build(r) \/ Commit(r)
  \/ \E k \in Keys, n \in Names : claim(k, n)
  \/ Crash
  \/ Start

Spec == Init /\ [][Next]_vars

-----------------------------------------------------------------------------
(* The names and the entries mirror one another, in memory and on disk: a
   name leads to one key, a key has at most the one name, and renaming leaves
   nothing behind (claim changes both maps). *)
Mirrored(entries, byName) ==
  \A k \in Keys, n \in Names : byName[n] = k <=> entries[k].name = n

NamesMatchKeys ==
  /\ Mirrored(reg, names)
  /\ disk # Torn => Mirrored(disk.reg, disk.names)

(* A host can serve every version it names, now and after a restart: all its
   files are in the node.  A push only sends what changed, so this rests on
   the parent being whole when the push began. *)
HeadsAreWhole ==
  \A k \in Keys :
    /\ reg[k].cid # NoVersion => reg[k].cid \subseteq blocks
    /\ disk # Torn /\ disk.reg[k].cid # NoVersion => disk.reg[k].cid \subseteq blocks

(* A push that was confirmed is never undone by an earlier one: what a
   restart would load is at the confirmed sequence or above. *)
ConfirmedSurvives ==
  \A k \in Keys :
    /\ reg[k].seq >= confirmed[k]
    /\ disk # Torn => disk.reg[k].seq >= confirmed[k]

(* A key that was told it holds a name holds it until it asks for another
   one, through failed saves and restarts. *)
ClaimsLast ==
  \A n \in Names : owner[n] # NoKey =>
    /\ names[n] = owner[n]
    /\ disk # Torn => disk.names[n] = owner[n]

(* While the host runs, the sequence it holds for a key never goes down,
   whatever was in flight when it changed. *)
SequenceNeverGoesDown ==
  [][up /\ up' => \A k \in Keys : reg'[k].seq >= reg[k].seq]_vars

(* The offer a request is for. *)
OfferOf(r) ==
  IF req[r].pc = "idle" THEN Idle
  ELSE LET p == req[r].push IN
    [key |-> p.key, cid |-> p.cid, seq |-> p.seq, parent |-> p.parent, mirror |-> p.mirror]

Promise == INSTANCE SiteHead WITH
  Writers <- Requests, NoOffer <- Idle,
  head <- [k \in Keys |-> [cid |-> reg[k].cid, seq |-> reg[k].seq]],
  offer <- [r \in Requests |-> OfferOf(r)]

(* Pushes and pulls implement the host's promise, which takes an offer in one
   step (SiteHead): from their first conflict check to their commit, nothing
   that crosses them makes one replace a version it was not built on. *)
KeepsPromise == Promise!HSpec
=============================================================================
