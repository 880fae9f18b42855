----------------------------- MODULE Publisher -----------------------------
(***************************************************************************)
(* Publishing one site (internal/publish): the laptops that keep a copy of *)
(* it, the agents that post to it with nothing but its key, the host that  *)
(* holds one version of it and the network that keeps its IPNS records.    *)
(*                                                                         *)
(* On a laptop, Publish, Keepalive and CatchUp exclude one another (mu);   *)
(* one background upload (runPushes) runs beside them, and the console     *)
(* saves and deletes posts beside everything.  Each exchange with the host *)
(* or the network is a step of its own.  The host takes a push in one step *)
(* (HeadRule), which HostRegistry is shown to implement.                   *)
(*                                                                         *)
(* A version is the posts in it and the posts its index page lists: a      *)
(* laptop renders every page, an agent only adds its post's folder and the *)
(* feeds to the version it found.                                          *)
(***************************************************************************)
EXTENDS Lineage, FiniteSets, FiniteSetsExt

CONSTANTS
  Laptops, Agents,
  Drafts,        \* Drafts[l]: the posts the owner may write on laptop l
  FirstPosts,    \* the posts of the site when it is first seen
  Starts,        \* how the site may stand at first (StartCopy)
  CanDelete,     \* the owner deletes posts
  CanForce,      \* the owner publishes with --force
  CanWhole,      \* an upload may go whole although the host holds a version
  Faults,        \* which kinds of fault occur (FaultKinds)
  MaxFaults,     \* bound: how many of them
  MaxPublishes,  \* bound: publishes the owner asks for
  MaxRenewals,   \* bound: renewals by Keepalive
  MaxSeq         \* bound: a site at this sequence is not published again by itself

Posts == Agents \cup FirstPosts \cup UNION {Drafts[l] : l \in Laptops}

Version == [posts : SUBSET Posts, indexed : SUBSET Posts]

Threads == (Laptops \X {"mu", "upload"}) \cup Agents

(* What can go wrong: the host cannot be asked; the network gives an older
   record, none or no answer; an answer of the host is lost; announcing a
   record fails, before or after the network took it; a version cannot be
   fetched; the caller of a publish gives up; the laptop stops. *)
FaultKinds == {"host", "network", "answer", "announce", "fetch", "caller", "crash"}

ASSUME PublisherAssumption ==
  /\ NoVersion \notin Version
  /\ {NoRecord, Unreachable} \cap [cid : Version, seq : Nat] = {}
  /\ Faults \subseteq FaultKinds
  /\ Drafts \in [Laptops -> SUBSET Posts]
  /\ Starts \subseteq {"fresh", "published", "adopted"}
  /\ {CanDelete, CanForce, CanWhole} \subseteq BOOLEAN
  /\ {MaxFaults, MaxPublishes, MaxRenewals, MaxSeq} \subseteq Nat

VARIABLES
  host,       \* the version the host holds and its sequence
  announced,  \* the records the network has been given
  site,       \* site[l]: the copy of the site saved on laptop l
  op,         \* op[l]: what holds mu on laptop l
  upload,     \* upload[l]: the background upload of laptop l
  call,       \* call[t]: the push thread t is waiting for
  orphans,    \* pushes nobody waits for, that the host may still take
  spent,      \* the bounds used up
  held,       \* history: every post the host has held
  waived,     \* history: posts the owner chose to go over with --force
  asked       \* history: posts the owner asked laptop l to publish

vars == <<host, announced, site, op, upload, call, orphans, spent, held, waived, asked>>

Record == [cid : Version, seq : Nat]
Job == Record
Push == [cid : Version, seq : Nat, parent : Version \cup {NoVersion}, mirror : {FALSE}]

NoCall == [st |-> "none"]
NoJob == [cid |-> NoVersion, seq |-> 0]
NoUpload == [pc |-> "off", job |-> NoJob, pending |-> NoJob]
NoOp == [pc |-> "idle", kind |-> "none", by |-> "none", force |-> FALSE, attempt |-> 0,
         base |-> NoVersion, cid |-> NoVersion, seq |-> 0, behind |-> NoJob, synced |-> FALSE]

Rendered(posts) == [posts |-> posts, indexed |-> posts]

First == Rendered(FirstPosts)

Copy(posts, last, seq, versions) ==
  [posts |-> posts, deleted |-> {}, last |-> last, seq |-> seq,
   versions |-> versions, elsewhere |-> FALSE]

(* How the site stands: never published; published, and up on the host; or
   adopted from the network, which did not tell its sequence. *)
StartCopy(start) ==
  CASE start = "fresh"     -> Copy(FirstPosts, NoVersion, 0, <<>>)
    [] start = "published" -> Copy(FirstPosts, First, 1, <<First>>)
    [] start = "adopted"   -> Copy(FirstPosts, First, 0, <<First>>)

Init ==
  /\ \E start \in Starts :
       /\ site = [l \in Laptops |-> StartCopy(start)]
       /\ announced = IF start = "fresh" THEN {} ELSE {[cid |-> First, seq |-> 1]}
       /\ IF start = "fresh"
          THEN host = NoJob /\ held = {}
          ELSE host = [cid |-> First, seq |-> 1] /\ held = FirstPosts
  /\ op = [l \in Laptops |-> NoOp]
  /\ upload = [l \in Laptops |-> NoUpload]
  /\ call = [t \in Threads |-> NoCall]
  /\ orphans = {}
  /\ spent = [faults |-> 0, publishes |-> 0, renewals |-> 0]
  /\ waived = {}
  /\ asked = [l \in Laptops |-> {}]

-----------------------------------------------------------------------------
(* A step that meets these kinds of fault. *)
May(kinds) == kinds \subseteq Faults /\ spent.faults + Cardinality(kinds) <= MaxFaults
Counted(kinds) == [spent EXCEPT !.faults = @ + Cardinality(kinds)]
Meets(kinds) == May(kinds) /\ spent' = Counted(kinds)

Newest == {r \in announced : \A s \in announced : r.seq >= s.seq}

(* NetworkRecord: the DHT gives the newest record, or an older one, none, or
   does not answer. *)
NetworkAnswers ==
  {[is |-> r, faults |-> {}] : r \in Newest}
  \cup {[is |-> NoRecord, faults |-> {}] : x \in {y \in {0} : announced = {}}}
  \cup [is : announced \cup {NoRecord, Unreachable}, faults : {{"network"}}]

NoAnswer(a) == a \in {NoRecord, Unreachable}

(* latestRecord: the host's version, unless the network has a newer one or
   the host cannot be asked. *)
LatestAnswers ==
  LET read(n) == IF host.cid # NoVersion /\ (NoAnswer(n.is) \/ host.seq >= n.is.seq)
                 THEN [n EXCEPT !.is = host] ELSE n
      unread(n) == [n EXCEPT !.faults = @ \cup {"host"}]
  IN {read(n) : n \in NetworkAnswers} \cup {unread(n) : n \in NetworkAnswers}

Mu(l) == <<l, "mu">>
Uploader(l) == <<l, "upload">>

Send(t, c, seq, parent) ==
  call' = [call EXCEPT ![t] =
    [st |-> "sent", push |-> [cid |-> c, seq |-> seq, parent |-> parent, mirror |-> FALSE]]]

Return(t) == call' = [call EXCEPT ![t] = NoCall]

(* The operation on laptop l is over: mu is free, and the upload that ran it
   goes on to its next job. *)
Uploading(l) ==
  IF op[l].by = "upload" THEN [upload EXCEPT ![l].pc = "take"] ELSE upload

Finish(l) == op' = [op EXCEPT ![l] = NoOp]

Done(l) == Finish(l) /\ upload' = Uploading(l)

(* Mutant of Queued: nothing starts the upload. *)
QueuedOnly(uploads, l, job) == [uploads EXCEPT ![l].pending = job]

(* queuePush: job waits, and takes the place of an older one that waits. *)
Queued(uploads, l, job) ==
  [uploads EXCEPT ![l].pending = job,
                  ![l].pc = IF @ = "off" THEN "take" ELSE @]

(* The console's lock is held by a background publish from its first look at
   the site to its last. *)
GateHeld(l) == upload[l].pc \in {"republish", "republishing", "catchup", "catching"}

-----------------------------------------------------------------------------
(* The console writes a post, or deletes one.  Neither takes a lock. *)
SavePost(l, p) ==
  /\ p \in Drafts[l]
  /\ \A m \in Laptops : p \notin site[m].posts \cup site[m].deleted
  /\ p \notin held
  /\ site' = [site EXCEPT ![l].posts = @ \cup {p}]
  /\ UNCHANGED <<host, announced, op, upload, call, orphans, spent, held, waived, asked>>

DeletePost(l, p) ==
  /\ CanDelete
  /\ p \in site[l].posts
  /\ site' = [site EXCEPT ![l].posts = @ \ {p}, ![l].deleted = @ \cup {p}]
  /\ UNCHANGED <<host, announced, op, upload, call, orphans, spent, held, waived, asked>>

(* The owner publishes: the site is rendered and added. *)
BeginPublish(l, force) ==
  /\ op[l].pc = "idle" /\ ~GateHeld(l)
  /\ spent.publishes < MaxPublishes
  /\ force => CanForce
  /\ spent' = [spent EXCEPT !.publishes = @ + 1]
  /\ op' = [op EXCEPT ![l] = [NoOp EXCEPT !.pc = "lookup", !.kind = "publish", !.by = "console",
                                          !.force = force, !.cid = Rendered(site[l].posts)]]
  /\ asked' = [asked EXCEPT ![l] = @ \cup site[l].posts]
  /\ UNCHANGED <<host, announced, site, upload, call, orphans, held, waived>>

(* A version published elsewhere: it is taken in, at most twice. *)
Behind(l, rec) ==
  IF op[l].attempt = 2 THEN Done(l)
  ELSE op' = [op EXCEPT ![l].pc = "takein", ![l].behind = rec] /\ UNCHANGED upload

(* latestRecord and nextSequence.  One of this machine's own versions is no
   news from elsewhere, only its sequence counts. *)
PublishLookup(l) ==
  /\ op[l].pc = "lookup"
  /\ \E a \in LatestAnswers :
       LET base == IF op[l].base = NoVersion THEN site[l].last ELSE op[l].base
           answer == IF ~NoAnswer(a.is) /\ ownVersion(site[l], a.is.cid)
                     THEN [cid |-> base, seq |-> a.is.seq] ELSE a.is
       IN
         /\ Meets(a.faults)
         /\ \/ /\ PublishedElsewhere(site[l].seq, base, answer, op[l].force)
               /\ Behind(l, answer)
            \/ /\ WouldResetSequence(site[l].seq, base, answer, op[l].force)
               /\ Done(l)
            \/ /\ ~PublishedElsewhere(site[l].seq, base, answer, op[l].force)
               /\ ~WouldResetSequence(site[l].seq, base, answer, op[l].force)
               /\ op' = [op EXCEPT ![l].pc = IF op[l].force THEN "override" ELSE "entry",
                                   ![l].base = base,
                                   ![l].seq = nextSequence(site[l].seq, answer)]
               /\ UNCHANGED upload
  /\ UNCHANGED <<host, announced, site, call, orphans, held, waived, asked>>

(* publishChanges: what changed goes to the host first, when it holds the
   version this one is built on and the change is small and checks out.
   Otherwise the version is announced first. *)
PublishEntry(l) ==
  /\ op[l].pc = "entry"
  /\ LET o == op[l] IN
     \/ /\ o.base # NoVersion /\ host.cid # NoVersion
        /\ hostAhead(site[l], host.cid, {o.base, o.cid})
        /\ Behind(l, host)
        /\ UNCHANGED <<call, spent>>
     \/ /\ o.base # NoVersion /\ host.cid = o.base /\ host.cid # o.cid
        /\ Send(Mu(l), o.cid, o.seq, host.cid)
        /\ op' = [op EXCEPT ![l].pc = "await"]
        /\ UNCHANGED <<upload, spent>>
     \/ /\ \/ o.base = NoVersion /\ UNCHANGED spent
           \/ ~hostAhead(site[l], host.cid, {o.base, o.cid, NoVersion}) /\ UNCHANGED spent
           \/ o.base # NoVersion /\ Meets({"host"})   \* the host cannot be asked
        /\ op' = [op EXCEPT ![l].pc = "announce"]
        /\ UNCHANGED <<upload, call>>
  /\ UNCHANGED <<host, announced, site, orphans, held, waived, asked>>

(* The host's answer.  A conflict is looked at: the push may have committed
   and only its answer was lost. *)
PublishAnswer(l) ==
  LET o == op[l] IN
  /\ o.pc = "await" /\ call[Mu(l)].st # "sent"
  /\ Return(Mu(l))
  /\ \/ /\ call[Mu(l)].st = "ok"
        /\ op' = [op EXCEPT ![l].pc = "announce", ![l].synced = TRUE]
        /\ UNCHANGED <<upload, spent>>
     \/ /\ call[Mu(l)].st = "conflict"
        /\ \/ Meets({"host"}) /\ Done(l)
           \/ /\ host.cid # o.cid
              /\ Behind(l, host)
              /\ UNCHANGED spent
           \/ /\ host.cid = o.cid
              /\ op' = [op EXCEPT ![l].pc = "announce", ![l].synced = TRUE]
              /\ UNCHANGED <<upload, spent>>
     \/ /\ call[Mu(l)].st = "lost"
        /\ op' = [op EXCEPT ![l].pc = "announce"]
        /\ UNCHANGED <<upload, spent>>
     \/ /\ call[Mu(l)].st = "lost"   \* the caller gives up
        /\ Meets({"caller"}) /\ Done(l)
  /\ UNCHANGED <<host, announced, site, orphans, held, waived, asked>>

(* A forced publish goes over what the host holds now: the version is one
   this machine has seen. *)
PublishOverride(l) ==
  /\ op[l].pc = "override"
  /\ \/ /\ host.cid # NoVersion
        /\ site' = [site EXCEPT ![l].versions = rememberVersion(@, host.cid)]
        /\ waived' = waived \cup host.cid.posts
        /\ UNCHANGED spent
     \/ /\ host.cid = NoVersion
        /\ UNCHANGED <<site, waived, spent>>
     \/ /\ Meets({"host"})
        /\ UNCHANGED <<site, waived>>
  /\ op' = [op EXCEPT ![l].pc = "announce"]
  /\ UNCHANGED <<host, announced, upload, call, orphans, held, asked>>

(* published: the version is this machine's latest. *)
Published(l, c, seq) ==
  [site EXCEPT ![l].versions = rememberVersion(rememberVersion(@, site[l].last), c),
               ![l].last = c, ![l].seq = seq, ![l].elsewhere = FALSE]

(* The record is announced and the version recorded, then queued unless the
   host has it.  Announcing may fail, before or after the network took the
   record: then nothing is recorded, unless the host has the version. *)
PublishAnnounce(l) ==
  LET o == op[l]
      rec == [cid |-> o.cid, seq |-> o.seq]
  IN
  /\ o.pc = "announce"
  /\ \/ /\ announced' = announced \cup {rec}
        /\ site' = Published(l, o.cid, o.seq)
        /\ upload' = IF o.synced THEN Uploading(l) ELSE Queued(Uploading(l), l, rec)
        /\ UNCHANGED spent
     \/ /\ ~o.synced
        /\ announced' \in {announced, announced \cup {rec}}
        /\ upload' = Uploading(l)
        /\ Meets({"announce"})
        /\ UNCHANGED site
  /\ Finish(l)
  /\ UNCHANGED <<host, call, orphans, held, waived, asked>>

(* Mutant of Merged: posts that are new to this laptop are left out. *)
MergedKnown(s, c) == s.posts

(* mergePosts: a post deleted here stays deleted. *)
Merged(s, c) == s.posts \cup (c.posts \ s.deleted)

(* Mutant of SequenceAfter: the sequence of the version taken in. *)
SequenceTaken(s, rec) == rec.seq

(* "The sequence never goes down: this machine may have announced higher
   already." *)
SequenceAfter(s, rec) == Larger(s.seq, rec.seq)

(* takeIn: version rec's posts are merged into the copy, and it becomes the
   version to build on.  A publish then renders again.  If it fails, the owner
   has to sync. *)
TakeIn(l) ==
  LET o == op[l]
      rec == o.behind
      posts == Merged(site[l], rec.cid)
  IN
  /\ o.pc = "takein"
  /\ \/ /\ site' = [site EXCEPT
             ![l].posts = posts,
             ![l].versions = rememberVersion(rememberVersion(@, site[l].last), rec.cid),
             ![l].last = rec.cid,
             ![l].seq = SequenceAfter(site[l], rec),
             ![l].elsewhere = FALSE]
        /\ IF o.kind = "publish"
           THEN /\ op' = [op EXCEPT ![l] = [o EXCEPT !.pc = "lookup", !.attempt = @ + 1,
                            !.base = rec.cid, !.cid = Rendered(posts), !.behind = NoJob]]
                /\ UNCHANGED upload
           ELSE Done(l)
        /\ asked' = IF o.by = "console" THEN [asked EXCEPT ![l] = @ \cup posts] ELSE asked
        /\ UNCHANGED spent
     \/ /\ site' = [site EXCEPT ![l].elsewhere = TRUE]
        /\ Meets({"fetch"})
        /\ Done(l)
        /\ UNCHANGED asked
  /\ UNCHANGED <<host, announced, call, orphans, held, waived>>

(* The caller gives up while the host is asked, before anything is
   announced. *)
GiveUpPublish(l) ==
  /\ op[l].kind = "publish" /\ op[l].pc \in {"entry", "override"}
  /\ Meets({"caller"})
  /\ Done(l)
  /\ UNCHANGED <<host, announced, site, call, orphans, held, waived, asked>>

-----------------------------------------------------------------------------
(* Keepalive: takes in a version published elsewhere, or renews the last one
   above every sequence seen. *)
Keepalive(l) ==
  /\ op[l].pc = "idle" /\ site[l].last # NoVersion
  /\ \E a \in LatestAnswers :
       /\ ~NoAnswer(a.is)
       /\ LET s == site[l]
              other == a.is.cid # s.last
          IN
          \/ /\ other /\ s.seq = 0
             /\ site' = [site EXCEPT ![l].versions = rememberVersion(@, a.is.cid),
                                     ![l].last = a.is.cid, ![l].seq = a.is.seq,
                                     ![l].elsewhere = FALSE]
             /\ Meets(a.faults)
             /\ UNCHANGED op
          \/ /\ other /\ s.seq # 0 /\ ~ownVersion(s, a.is.cid) /\ a.is.seq >= s.seq
             /\ op' = [op EXCEPT ![l] = [NoOp EXCEPT !.pc = "takein", !.kind = "keepalive",
                                                     !.by = "loop", !.behind = a.is]]
             /\ Meets(a.faults)
             /\ UNCHANGED site
          \/ /\ ~other \/ (s.seq # 0 /\ ownVersion(s, a.is.cid))
             /\ spent.renewals < MaxRenewals
             /\ May(a.faults)
             /\ spent' = [Counted(a.faults) EXCEPT !.renewals = @ + 1]
             /\ op' = [op EXCEPT ![l] = [NoOp EXCEPT !.pc = "renew", !.kind = "keepalive",
                          !.by = "loop", !.cid = s.last, !.seq = Larger(a.is.seq, s.seq) + 1]]
             /\ UNCHANGED site
  /\ UNCHANGED <<host, announced, upload, call, orphans, held, waived, asked>>

Renew(l) ==
  LET o == op[l]
      rec == [cid |-> o.cid, seq |-> o.seq]
  IN
  /\ o.pc = "renew"
  /\ \/ /\ announced' = announced \cup {rec}
        /\ site' = [site EXCEPT ![l].seq = o.seq, ![l].elsewhere = FALSE]
        /\ UNCHANGED spent
     \/ /\ announced' \in {announced, announced \cup {rec}}
        /\ Meets({"announce"})
        /\ UNCHANGED site
  /\ Finish(l)
  /\ UNCHANGED <<host, upload, call, orphans, held, waived, asked>>

(* CatchUp: sends the host what it lacks, or takes in what it has. *)
CatchUp(l, by) ==
  LET s == site[l] IN
  /\ op[l].pc = "idle" /\ s.last # NoVersion
  /\ IF by = "upload" THEN upload[l].pc = "catchup" ELSE TRUE
  /\ LET next(pc) == IF by = "upload" THEN [upload EXCEPT ![l].pc = pc] ELSE upload IN
     \/ /\ ~s.elsewhere
        /\ host.cid = NoVersion \/ (host.cid # s.last /\ ownVersion(s, host.cid))
        /\ upload' = Queued(next("take"), l, [cid |-> s.last, seq |-> s.seq])
        /\ UNCHANGED <<op, spent>>
     \/ /\ ~s.elsewhere
        /\ host.cid # NoVersion /\ hostAhead(s, host.cid, {s.last})
        /\ op' = [op EXCEPT ![l] = [NoOp EXCEPT !.pc = "takein", !.kind = "catchup",
                                                !.by = by, !.behind = host]]
        /\ upload' = next("catching")
        /\ UNCHANGED spent
     \/ /\ by = "upload"   \* nothing to do, or the host cannot be asked
        /\ upload' = next("take")
        /\ IF s.elsewhere \/ host.cid = s.last THEN UNCHANGED spent ELSE Meets({"host"})
        /\ UNCHANGED op
  /\ UNCHANGED <<host, announced, site, call, orphans, held, waived, asked>>

-----------------------------------------------------------------------------
(* runPushes: the newest version waiting. *)
TakeJob(l) ==
  /\ upload[l].pc = "take"
  /\ upload' = [upload EXCEPT ![l] =
       IF @.pending = NoJob THEN NoUpload
       ELSE [pc |-> "choose", job |-> @.pending, pending |-> NoJob]]
  /\ UNCHANGED <<host, announced, site, op, call, orphans, spent, held, waived, asked>>

Go(l, pc) == upload' = [upload EXCEPT ![l].pc = pc]

(* A failed upload waits its turn again, unless a newer one does. *)
Retry(l) ==
  upload' = [upload EXCEPT ![l].pc = "take",
                           ![l].pending = IF @ = NoJob THEN upload[l].job ELSE @]

(* settled, with the host's entry in hand. *)
Settle(l) ==
  LET j == upload[l].job
      s == site[l]
  IN \/ PublishedPast(s, j) /\ Go(l, "take")
     \/ /\ ~PublishedPast(s, j) /\ host.cid # NoVersion
        /\ \/ Superseded(s, j, host) /\ Go(l, "overtaken")
           \/ AlreadyThere(s, j, host) /\ Go(l, "take")

Unsettled(l) ==
  LET j == upload[l].job IN
  /\ ~PublishedPast(site[l], j)
  /\ host.cid # NoVersion => ~Superseded(site[l], j, host) /\ ~AlreadyThere(site[l], j, host)

(* pushVersion, up to the upload: settled, then what to send.  The host's
   entry is read for each; the first read may fail. *)
ChooseUpload(l) ==
  LET j == upload[l].job
      s == site[l]
      whole == Send(Uploader(l), j.cid, j.seq, NoVersion) /\ Go(l, "await")
      changes == Send(Uploader(l), j.cid, j.seq, host.cid) /\ Go(l, "await")
  IN
  /\ upload[l].pc = "choose"
  /\ \/ Settle(l) /\ UNCHANGED <<call, spent>>
     \/ ~PublishedPast(s, j) /\ Meets({"host"}) /\ Retry(l) /\ UNCHANGED call
     \/ /\ Unsettled(l) /\ UNCHANGED spent
        /\ \/ host.cid = NoVersion /\ whole
           \/ host.cid # NoVersion /\ changes
           \/ host.cid # NoVersion /\ CanWhole /\ whole
     \/ /\ ~PublishedPast(s, j) /\ Meets({"host"}) /\ host.cid # NoVersion
        /\ \/ Superseded(s, j, host) /\ Go(l, "overtaken") /\ UNCHANGED call
           \/ host.cid = j.cid /\ CanWhole /\ whole
           \/ ~Superseded(s, j, host) /\ host.cid # j.cid /\ changes
  /\ UNCHANGED <<host, announced, site, op, orphans, held, waived, asked>>

UploadAnswer(l) ==
  LET st == call[Uploader(l)].st IN
  /\ upload[l].pc = "await" /\ st # "sent"
  /\ Return(Uploader(l))
  /\ \/ st = "ok" /\ Go(l, "take") /\ UNCHANGED spent
     \/ st = "lost" /\ Retry(l) /\ UNCHANGED spent
     \/ st = "conflict" /\ Settle(l) /\ UNCHANGED spent
     \/ st = "conflict" /\ Unsettled(l) /\ Retry(l) /\ UNCHANGED spent
     \/ st = "conflict" /\ Meets({"host"}) /\ Retry(l)
  /\ UNCHANGED <<host, announced, site, op, orphans, held, waived, asked>>

(* overtaken: rendersTo says whether anything was saved here since the
   overtaken version was published.  If not it is published again, otherwise
   only taken in. *)
Overtaken(l) ==
  /\ upload[l].pc = "overtaken" /\ op[l].pc = "idle"
  /\ Go(l, IF Rendered(site[l].posts) = upload[l].job.cid THEN "republish" ELSE "catchup")
  /\ UNCHANGED <<host, announced, site, op, call, orphans, spent, held, waived, asked>>

Republish(l) ==
  /\ upload[l].pc = "republish" /\ op[l].pc = "idle"
  /\ site[l].seq < MaxSeq
  /\ Go(l, "republishing")
  /\ op' = [op EXCEPT ![l] = [NoOp EXCEPT !.pc = "lookup", !.kind = "publish", !.by = "upload",
                                          !.cid = Rendered(site[l].posts)]]
  /\ UNCHANGED <<host, announced, site, call, orphans, spent, held, waived, asked>>

-----------------------------------------------------------------------------
(* Post: an agent adds its post to the version it finds at the host, unless
   the network knows a newer version.  It posts once. *)
AgentPost(a) ==
  /\ call[a] = NoCall
  /\ host.cid # NoVersion
  /\ \E n \in NetworkAnswers :
       /\ Meets(n.faults)
       /\ ~NoAnswer(n.is) => n.is.seq <= host.seq \/ n.is.cid = host.cid
       /\ Send(a, [host.cid EXCEPT !.posts = @ \cup {a}],
               Larger(host.seq, IF NoAnswer(n.is) THEN 0 ELSE n.is.seq) + 1, host.cid)
  /\ UNCHANGED <<host, announced, site, op, upload, orphans, held, waived, asked>>

(* The host takes push p and announces its record. *)
HostTakes(p) ==
  /\ Supersedes(p, host)
  /\ host' = [cid |-> p.cid, seq |-> p.seq]
  /\ announced' = announced \cup {[cid |-> p.cid, seq |-> p.seq]}
  /\ held' = held \cup p.cid.posts

HostAnswers(t) ==
  /\ call[t].st = "sent"
  /\ \/ HostTakes(call[t].push) /\ call' = [call EXCEPT ![t].st = "ok"]
     \/ /\ ~Supersedes(call[t].push, host)
        /\ call' = [call EXCEPT ![t].st = "conflict"]
        /\ UNCHANGED <<host, announced, held>>
  /\ UNCHANGED <<site, op, upload, orphans, spent, waived, asked>>

(* The connection breaks or the wait ends.  The commit is not tied to it: a
   push that has arrived may still be taken. *)
LoseAnswer(t) ==
  /\ call[t].st \in {"sent", "ok", "conflict"}
  /\ Meets({"answer"})
  /\ call' = [call EXCEPT ![t].st = "lost"]
  /\ orphans' \in IF call[t].st = "sent" THEN {orphans, orphans \cup {call[t].push}} ELSE {orphans}
  /\ UNCHANGED <<host, announced, site, op, upload, held, waived, asked>>

HostTakesOrphan(p) ==
  /\ p \in orphans
  /\ \/ HostTakes(p)
     \/ ~Supersedes(p, host) /\ UNCHANGED <<host, announced, held>>
  /\ orphans' = orphans \ {p}
  /\ UNCHANGED <<site, op, upload, call, spent, waived, asked>>

(* The app quits, the laptop sleeps: what was not saved is forgotten. *)
Crash(l) ==
  /\ op[l] # NoOp \/ upload[l] # NoUpload
  /\ Meets({"crash"})
  /\ op' = [op EXCEPT ![l] = NoOp]
  /\ upload' = [upload EXCEPT ![l] = NoUpload]
  /\ call' = [t \in Threads |-> IF t \in {Mu(l), Uploader(l)} THEN NoCall ELSE call[t]]
  /\ orphans' = orphans \cup {call[t].push : t \in {u \in {Mu(l), Uploader(l)} : call[u].st = "sent"}}
  /\ UNCHANGED <<host, announced, site, held, waived, asked>>

-----------------------------------------------------------------------------
PublishStep(l) ==
  \/ PublishLookup(l) \/ PublishEntry(l) \/ PublishAnswer(l) \/ PublishOverride(l)
  \/ PublishAnnounce(l) \/ TakeIn(l) \/ Renew(l)

UploadStep(l) ==
  \/ TakeJob(l) \/ ChooseUpload(l) \/ UploadAnswer(l) \/ Overtaken(l) \/ Republish(l)
  \/ CatchUp(l, "upload")

Next ==
  \/ \E l \in Laptops :
       \/ \E p \in Posts : SavePost(l, p) \/ DeletePost(l, p)
       \/ \E force \in BOOLEAN : BeginPublish(l, force)
       \/ PublishStep(l) \/ UploadStep(l)
       \/ Keepalive(l) \/ CatchUp(l, "loop")
       \/ GiveUpPublish(l) \/ Crash(l)
  \/ \E a \in Agents : AgentPost(a)
  \/ \E t \in Threads : HostAnswers(t) \/ LoseAnswer(t)
  \/ \E p \in orphans : HostTakesOrphan(p)

Spec == Init /\ [][Next]_vars

-----------------------------------------------------------------------------
SiteCopy == [posts : SUBSET Posts, deleted : SUBSET Posts, last : Version \cup {NoVersion},
             seq : Nat, versions : Seq(Version), elsewhere : BOOLEAN]

Operation ==
  [pc : {"idle", "lookup", "entry", "await", "override", "announce", "takein", "renew"},
   kind : {"none", "publish", "keepalive", "catchup"}, by : {"none", "console", "loop", "upload"},
   force : BOOLEAN, attempt : 0..2, base : Version \cup {NoVersion},
   cid : Version \cup {NoVersion}, seq : Nat, behind : Job \cup {NoJob}, synced : BOOLEAN]

Upload ==
  [pc : {"off", "take", "choose", "await", "overtaken", "republish", "republishing",
         "catchup", "catching"},
   job : Job \cup {NoJob}, pending : Job \cup {NoJob}]

Call == {NoCall} \cup [st : {"sent", "ok", "conflict", "lost"}, push : Push]

(* Every variable keeps its type: no operation runs with an absent version,
   remembers one, or takes in more than two versions (Publish). *)
TypeOK ==
  /\ host \in Job \cup {NoJob}
  /\ announced \subseteq Record
  /\ site \in [Laptops -> SiteCopy]
  /\ op \in [Laptops -> Operation]
  /\ upload \in [Laptops -> Upload]
  /\ call \in [Threads -> Call]
  /\ orphans \subseteq Push
  /\ spent \in [faults : 0..MaxFaults, publishes : 0..MaxPublishes, renewals : 0..MaxRenewals]
  /\ held \subseteq Posts
  /\ waived \subseteq Posts
  /\ asked \in [Laptops -> SUBSET Posts]

Deleted == UNION {site[l].deleted : l \in Laptops}

(* A post the host accepted from an agent stays in what it holds, unless an
   owner deleted it or went over it with --force (Post: "no post is lost"). *)
AgentPostsKept ==
  host.cid # NoVersion => held \cap Agents \subseteq host.cid.posts \cup Deleted \cup waived

(* So does every other post, whichever laptop it came from, while no laptop
   stops twice in the middle of its publishes (pushVersion, publishChanges);
   PostsRecoverable is what holds without that. *)
NoPostLost ==
  host.cid # NoVersion => held \subseteq host.cid.posts \cup Deleted \cup waived

(* A laptop's sequence never goes down, in whatever order versions and
   answers reach it (pull, published, Keepalive). *)
LaptopSequenceNeverGoesDown == [][\A l \in Laptops : site'[l].seq >= site[l].seq]_vars

(* What the upload publishes by itself holds no post of this laptop that its
   owner has not asked to publish (overtaken: "Edits saved since are never
   published by themselves"). *)
EditsWaitForTheOwner ==
  \A l \in Laptops : op[l].kind = "publish" /\ op[l].by = "upload" =>
    op[l].cid.posts \cap Drafts[l] \subseteq asked[l]

(* A laptop alone with its site never publishes it again by itself: that is
   for when another machine published past it (errSuperseded, overtaken). *)
NeverRepublishesAlone ==
  Agents = {} /\ Cardinality(Laptops) = 1 => \A l \in Laptops : upload[l].pc # "republish"

(* However laptops, agents and answers cross, no post is lost everywhere,
   but by the owner's --force or deletion: what the host has held it holds
   still, or a laptop has a copy of it. *)
PostsRecoverable ==
  \A p \in held \ (Deleted \cup waived) :
    \/ host.cid # NoVersion /\ p \in host.cid.posts
    \/ \E l \in Laptops : p \in site[l].posts

-----------------------------------------------------------------------------
(* The loop and the upload keep running, and the host answers; faults are
   few, the network delivers in the end, and the owner may do nothing. *)
Fairness ==
  /\ \A l \in Laptops :
       /\ WF_vars(PublishStep(l)) /\ WF_vars(UploadStep(l))
       /\ SF_vars(CatchUp(l, "loop")) /\ SF_vars(Keepalive(l))
  /\ \A t \in Threads : WF_vars(HostAnswers(t))

FairSpec == Spec /\ Fairness

(* What the host took from an agent reaches every laptop (CatchUp). *)
AgentPostsArrive ==
  \A a \in Agents, l \in Laptops : a \in held ~> a \in site[l].posts \cup site[l].deleted

(* What a publish recorded reaches the host (overtaken: "the site is published
   again on top of it"). *)
PublishedPostsArrive ==
  \A l \in Laptops, p \in Posts :
    site[l].last # NoVersion /\ p \in site[l].last.posts ~> host.cid # NoVersion /\ p \in host.cid.posts

(* It does unless an agent posts, whatever uploads were cut short, refused or
   left unanswered (queuePush, runPushes, CatchUp). *)
PublishedAloneArrives ==
  \A l \in Laptops, p \in Posts :
    site[l].last # NoVersion /\ p \in site[l].last.posts ~>
      \/ host.cid # NoVersion /\ p \in host.cid.posts
      \/ held \cap Agents # {}
=============================================================================
