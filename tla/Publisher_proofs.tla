-------------------------- MODULE Publisher_proofs --------------------------
(***************************************************************************)
(* What Publisher promises for any number of laptops, agents, posts,       *)
(* faults and publishes: the types of its variables, that a laptop's       *)
(* sequence never goes down, and that no post is lost everywhere.          *)
(***************************************************************************)
EXTENDS Publisher, FiniteSetTheorems, SequenceTheorems, TLAPS

(* Where an operation stands says what it holds: a version to announce, or
   one to take in, which it does twice at most; and the upload has a version
   to send. *)
OperationOK(o) ==
  /\ o \in Operation
  /\ o.pc \in {"lookup", "entry", "await", "override", "announce", "renew"} => o.cid \in Version
  /\ o.pc = "takein" => o.behind \in Job /\ (o.kind = "publish" => o.attempt \in 0..1)

UploadOK(u) == u \in Upload /\ (u.pc = "choose" => u.job \in Job)

TypeInv == TypeOK /\ \A l \in Laptops : OperationOK(op[l]) /\ UploadOK(upload[l])

(* Who waits for the host's answer to changes has seen that it holds a
   version, and a host does not lose the one it holds. *)
HeldInv == \A l \in Laptops : op[l].pc = "await" => host.cid # NoVersion

(* The sequence that was chosen is above every one this laptop has used:
   nothing else that changes it runs beside the operation that chose. *)
AheadInv ==
  \A l \in Laptops :
    op[l].pc \in {"entry", "await", "override", "announce", "renew"} => op[l].seq > site[l].seq

-----------------------------------------------------------------------------
(* Lineage's operators. *)

LEMMA LargerOf ==
  ASSUME NEW x \in Nat, NEW y \in Nat
  PROVE  Larger(x, y) \in Nat /\ Larger(x, y) >= x /\ Larger(x, y) >= y
  BY DEF Larger

(* A list of versions stays one, whichever is remembered. *)
LEMMA RememberedIs ==
  ASSUME NEW list \in Seq(Version), NEW c \in Version \cup {NoVersion}
  PROVE  rememberVersion(list, c) \in Seq(Version)
<1>1. CASE c = NoVersion \/ c \in ToSet(list)
  BY <1>1 DEF rememberVersion
<1>2. CASE c \in Version /\ ~(c = NoVersion \/ c \in ToSet(list))
  <2>1. Append(list, c) \in Seq(Version) /\ Append(list, c) # <<>>
    BY <1>2, AppendProperties
  <2>2. Tail(Append(list, c)) \in Seq(Version)
    BY <2>1, HeadTailProperties
  <2> QED
    BY <1>2, <2>1, <2>2 DEF rememberVersion
<1> QED
  BY <1>1, <1>2

(* The sequence that is chosen is above the laptop's and above the network's. *)
LEMMA NextSequenceOf ==
  ASSUME NEW local \in Nat, NEW answer,
         answer \in {NoRecord, Unreachable} \/ answer.seq \in Nat
  PROVE  nextSequence(local, answer) \in Nat /\ nextSequence(local, answer) > local
<1>1. CASE answer \in {NoRecord, Unreachable}
  BY <1>1 DEF nextSequence
<1>2. CASE answer \notin {NoRecord, Unreachable}
  <2>1. Larger(local, answer.seq) \in Nat /\ Larger(local, answer.seq) >= local
    BY <1>2, LargerOf
  <2> QED
    BY <1>2, <2>1 DEF nextSequence
<1> QED
  BY <1>1, <1>2

-----------------------------------------------------------------------------
(* What the host and the network can answer. *)
LEMMA NetworkAnswersIs ==
  ASSUME announced \subseteq Record, NEW n \in NetworkAnswers
  PROVE  /\ NoAnswer(n.is) \/ n.is \in Record
         /\ IsFiniteSet(n.faults)
         /\ n = [is |-> n.is, faults |-> n.faults]
<1>1. IsFiniteSet({}) /\ IsFiniteSet({"network"})
  BY FS_EmptySet, FS_Singleton
<1>2. \/ \E r \in Newest : n = [is |-> r, faults |-> {}]
      \/ n = [is |-> NoRecord, faults |-> {}]
      \/ n \in [is : announced \cup {NoRecord, Unreachable}, faults : {{"network"}}]
  BY DEF NetworkAnswers
<1>3. ASSUME NEW r \in Newest, n = [is |-> r, faults |-> {}]
      PROVE  n.is \in Record /\ n.faults = {} /\ n = [is |-> n.is, faults |-> n.faults]
  BY <1>3 DEF Newest
<1>4. CASE n = [is |-> NoRecord, faults |-> {}]
  BY <1>1, <1>4 DEF NoAnswer
<1>5. CASE n \in [is : announced \cup {NoRecord, Unreachable}, faults : {{"network"}}]
  BY <1>1, <1>5 DEF NoAnswer
<1> QED
  BY <1>1, <1>2, <1>3, <1>4, <1>5

LEMMA Answers ==
  ASSUME announced \subseteq Record, host \in Job \cup {NoJob}, NEW a \in LatestAnswers
  PROVE  /\ NoAnswer(a.is) \/ a.is \in Record
         /\ IsFiniteSet(a.faults)
<1>1. host.cid # NoVersion => host \in Record
  BY DEF Job, NoJob
<1>2. PICK n \in NetworkAnswers :
        \/ a = n
        \/ host.cid # NoVersion /\ a = [n EXCEPT !.is = host]
        \/ a = [n EXCEPT !.faults = @ \cup {"host"}]
  BY Zenon DEF LatestAnswers
<1>3. /\ NoAnswer(n.is) \/ n.is \in Record
      /\ IsFiniteSet(n.faults) /\ n = [is |-> n.is, faults |-> n.faults]
  BY NetworkAnswersIs
<1>4. IsFiniteSet(n.faults \cup {"host"})
  BY <1>3, FS_AddElement
<1> QED
  BY <1>1, <1>2, <1>3, <1>4

(* The bound on faults is kept. *)
SpentIs == spent \in [faults : 0..MaxFaults, publishes : 0..MaxPublishes, renewals : 0..MaxRenewals]

LEMMA MeetsKeeps ==
  ASSUME SpentIs, NEW kinds, IsFiniteSet(kinds), Meets(kinds)
  PROVE  SpentIs'
<1>1. Cardinality(kinds) \in Nat
  BY FS_CardinalityType
<1> QED
  BY <1>1, PublisherAssumption DEF SpentIs, Meets, May, Counted

LEMMA MeetsOne ==
  ASSUME SpentIs, NEW kind, Meets({kind})
  PROVE  SpentIs'
  BY MeetsKeeps, FS_Singleton

-----------------------------------------------------------------------------
(* Types.  An operation that is changed, an upload, a call, a site. *)
LEMMA OpSet ==
  ASSUME TypeInv, NEW l \in Laptops, NEW o, OperationOK(o), op' = [op EXCEPT ![l] = o]
  PROVE  op' \in [Laptops -> Operation] /\ \A m \in Laptops : OperationOK(op'[m])
  BY DEF TypeInv, TypeOK, OperationOK

LEMMA UploadSet ==
  ASSUME TypeInv, NEW l \in Laptops, NEW u, UploadOK(u), upload' = [upload EXCEPT ![l] = u]
  PROVE  upload' \in [Laptops -> Upload] /\ \A m \in Laptops : UploadOK(upload'[m])
  BY DEF TypeInv, TypeOK, UploadOK

OpsOK == op' \in [Laptops -> Operation] /\ \A m \in Laptops : OperationOK(op'[m])
UploadsOK == upload' \in [Laptops -> Upload] /\ \A m \in Laptops : UploadOK(upload'[m])

LEMMA SameOps ==
  ASSUME TypeInv, UNCHANGED op PROVE OpsOK
  BY DEF TypeInv, TypeOK, OpsOK

LEMMA SameUploads ==
  ASSUME TypeInv, UNCHANGED upload PROVE UploadsOK
  BY DEF TypeInv, TypeOK, UploadsOK

LEMMA NoOpOK == OperationOK(NoOp)
  BY DEF OperationOK, Operation, NoOp, NoJob, Job, Record

LEMMA FinishOK ==
  ASSUME TypeInv, NEW l \in Laptops, Finish(l) PROVE OpsOK
  BY NoOpOK, OpSet DEF Finish, OpsOK

(* The upload goes to a step that needs no version. *)
LEMMA UploadGoes ==
  ASSUME TypeInv, NEW l \in Laptops, NEW pc,
         pc \in {"take", "await", "overtaken", "republish", "republishing", "catchup", "catching"},
         upload' = [upload EXCEPT ![l].pc = pc]
  PROVE  UploadsOK
<1> DEFINE u == [upload[l] EXCEPT !.pc = pc]
<1>1. upload[l] \in Upload /\ upload' = [upload EXCEPT ![l] = u]
  BY DEF TypeInv, TypeOK
<1>2. UploadOK(u)
  BY <1>1 DEF UploadOK, Upload
<1> QED
  BY <1>1, <1>2, UploadSet DEF UploadsOK

LEMMA UploadingOK ==
  ASSUME TypeInv, NEW l \in Laptops, upload' = Uploading(l) PROVE UploadsOK
  BY UploadGoes, SameUploads DEF Uploading

LEMMA DoneOK ==
  ASSUME TypeInv, NEW l \in Laptops, Done(l) PROVE OpsOK /\ UploadsOK
  BY FinishOK, UploadingOK DEF Done

LEMMA BehindOK ==
  ASSUME TypeInv, NEW l \in Laptops, NEW rec \in Job, Behind(l, rec) PROVE OpsOK /\ UploadsOK
<1>1. CASE op[l].attempt = 2
  BY <1>1, DoneOK DEF Behind
<1>2. CASE op[l].attempt # 2
  <2> DEFINE o == [op[l] EXCEPT !.pc = "takein", !.behind = rec]
  <2>1. op[l] \in Operation /\ op' = [op EXCEPT ![l] = o] /\ UNCHANGED upload
    BY <1>2 DEF Behind, TypeInv, TypeOK
  <2>2. o \in Operation /\ o.pc = "takein" /\ o.behind = rec /\ o.attempt = op[l].attempt
    BY <2>1 DEF Operation
  <2>3. o.attempt \in 0..1
    BY <1>2, <2>1, <2>2 DEF Operation
  <2>4. OperationOK(o)
    BY <2>2, <2>3 DEF OperationOK
  <2> QED
    BY <2>1, <2>4, OpSet, SameUploads DEF OpsOK
<1> QED
  BY <1>1, <1>2

LEMMA QueuedOK ==
  ASSUME TypeInv, NEW l \in Laptops, NEW job \in Job,
         NEW base, base \in [Laptops -> Upload], \A m \in Laptops : UploadOK(base[m]),
         upload' = Queued(base, l, job)
  PROVE  UploadsOK
<1> DEFINE u == [base[l] EXCEPT !.pending = job, !.pc = IF @ = "off" THEN "take" ELSE @]
<1>1. upload' = [base EXCEPT ![l] = u]
  BY DEF Queued, Upload
<1>2. UploadOK(u)
  BY DEF UploadOK, Upload
<1> QED
  BY <1>1, <1>2 DEF UploadsOK, UploadOK

LEMMA SendOK ==
  ASSUME TypeInv, NEW t \in Threads, NEW c \in Version, NEW seq \in Nat,
         NEW parent \in Version \cup {NoVersion}, Send(t, c, seq, parent)
  PROVE  call' \in [Threads -> Call]
  BY DEF Send, TypeInv, TypeOK, Call, Push

LEMMA ReturnOK ==
  ASSUME TypeInv, NEW t \in Threads, Return(t)
  PROVE  call' \in [Threads -> Call]
  BY DEF Return, TypeInv, TypeOK, Call

(* Whatever changes, a step that changes only these keeps the types. *)
SiteOK == site' \in [Laptops -> SiteCopy]
CallsOK == call' \in [Threads -> Call]

LEMMA Threaded ==
  ASSUME NEW l \in Laptops PROVE Mu(l) \in Threads /\ Uploader(l) \in Threads
  BY DEF Mu, Uploader, Threads

LEMMA SameSpent ==
  ASSUME TypeInv PROVE SpentIs /\ (UNCHANGED spent => SpentIs')
  BY DEF TypeInv, TypeOK, SpentIs

LEMMA SiteSet ==
  ASSUME TypeInv, NEW l \in Laptops, NEW s \in SiteCopy, site' = [site EXCEPT ![l] = s]
  PROVE  SiteOK
  BY DEF TypeInv, TypeOK, SiteOK

LEMMA SiteIs ==
  ASSUME TypeInv, NEW l \in Laptops
  PROVE  /\ site[l] \in SiteCopy
         /\ site[l].posts \subseteq Posts /\ site[l].deleted \subseteq Posts
         /\ site[l].last \in Version \cup {NoVersion} /\ site[l].seq \in Nat
         /\ site[l].versions \in Seq(Version) /\ site[l].elsewhere \in BOOLEAN
  BY DEF TypeInv, TypeOK, SiteCopy

LEMMA OpIs ==
  ASSUME TypeInv, NEW l \in Laptops
  PROVE  /\ op[l] \in Operation /\ OperationOK(op[l])
         /\ op[l].base \in Version \cup {NoVersion} /\ op[l].seq \in Nat
         /\ op[l].cid \in Version \cup {NoVersion}
         /\ op[l].behind \in Job \cup {NoJob} /\ op[l].attempt \in 0..2
  BY DEF TypeInv, TypeOK, Operation

(* What an operation of a laptop becomes. *)
LEMMA OpBecomes ==
  ASSUME TypeInv, NEW l \in Laptops, NEW o, op' = [op EXCEPT ![l] = o]
  PROVE  op'[l] = o /\ \A m \in Laptops \ {l} : op'[m] = op[m]
  BY DEF TypeInv, TypeOK

LEMMA CatchUpTakesIn ==
  ASSUME TypeInv, NEW l \in Laptops, NEW by, CatchUp(l, by)
  PROVE  \/ UNCHANGED op
         \/ op'[l].pc = "takein" /\ \A m \in Laptops \ {l} : op'[m] = op[m]
<1> DEFINE o == [NoOp EXCEPT !.pc = "takein", !.kind = "catchup", !.by = by, !.behind = host]
<1>1. o.pc = "takein"
  BY DEF NoOp
<1>2. UNCHANGED op \/ op' = [op EXCEPT ![l] = o]
  BY DEF CatchUp
<1> HIDE DEF o
<1> QED
  BY <1>1, <1>2, OpBecomes

LEMMA HostIs ==
  ASSUME TypeInv
  PROVE  host \in Job \cup {NoJob} /\ host.seq \in Nat /\ host.cid \in Version \cup {NoVersion}
         /\ (host.cid # NoVersion => host \in Job)
  BY DEF TypeInv, TypeOK, Job, Record, NoJob

LEMMA AnswersIs ==
  ASSUME TypeInv, NEW a \in LatestAnswers
  PROVE  (NoAnswer(a.is) \/ a.is \in Record) /\ IsFiniteSet(a.faults)
  BY Answers DEF TypeInv, TypeOK

(* A step of an operation, of the upload, or of both, that touches no site. *)
LEMMA OperationStep ==
  ASSUME TypeInv, OpsOK, UploadsOK, CallsOK, SpentIs',
         UNCHANGED <<host, announced, site, orphans, held, waived, asked>>
  PROVE  TypeInv'
  BY DEF TypeInv, TypeOK, OpsOK, UploadsOK, CallsOK, SpentIs

LEMMA SameCalls ==
  ASSUME TypeInv, UNCHANGED call PROVE CallsOK
  BY DEF TypeInv, TypeOK, CallsOK

LEMMA SavePostTypes ==
  ASSUME TypeInv, NEW l \in Laptops, NEW p \in Posts, SavePost(l, p) \/ DeletePost(l, p)
  PROVE  TypeInv'
<1>1. site' \in [Laptops -> SiteCopy]
  <2>1. CASE SavePost(l, p)
    <3> DEFINE s == [site[l] EXCEPT !.posts = @ \cup {p}]
    <3>1. s \in SiteCopy
      BY SiteIs DEF SiteCopy
    <3>2. site' = [site EXCEPT ![l] = s]
      BY <2>1 DEF SavePost
    <3> QED
      BY <3>1, <3>2, SiteSet DEF SiteOK
  <2>2. CASE DeletePost(l, p)
    <3> DEFINE s == [site[l] EXCEPT !.posts = @ \ {p}, !.deleted = @ \cup {p}]
    <3>1. s \in SiteCopy
      BY SiteIs DEF SiteCopy
    <3>2. site' = [site EXCEPT ![l] = s]
      BY <2>2 DEF DeletePost
    <3> QED
      BY <3>1, <3>2, SiteSet DEF SiteOK
  <2> QED
    BY <2>1, <2>2
<1> QED
  BY <1>1 DEF SavePost, DeletePost, TypeInv, TypeOK

LEMMA BeginPublishTypes ==
  ASSUME TypeInv, NEW l \in Laptops, NEW force \in BOOLEAN, BeginPublish(l, force)
  PROVE  TypeInv'
<1> DEFINE o == [NoOp EXCEPT !.pc = "lookup", !.kind = "publish", !.by = "console",
                             !.force = force, !.cid = Rendered(site[l].posts)]
<1>1. Rendered(site[l].posts) \in Version
  BY SiteIs DEF Rendered, Version
<1>2. OperationOK(o)
  <2>1. NoOp \in Operation
    BY NoOpOK DEF OperationOK
  <2> DEFINE c == Rendered(site[l].posts)
  <2> HIDE DEF c
  <2>2. [NoOp EXCEPT !.pc = "lookup", !.kind = "publish", !.by = "console", !.force = force,
                     !.cid = c] \in Operation
    BY <1>1, <2>1 DEF Operation, c
  <2>3. o.pc = "lookup" /\ o.cid \in Version
    BY <1>1, <2>1 DEF Operation
  <2> QED
    BY <2>2, <2>3 DEF OperationOK, c
<1> HIDE DEF o
<1>3. OpsOK
  BY <1>2, OpSet DEF BeginPublish, OpsOK, o
<1>4. SpentIs'
  BY SameSpent, PublisherAssumption DEF SpentIs, BeginPublish
<1>5. asked' \in [Laptops -> SUBSET Posts]
  BY SiteIs DEF BeginPublish, TypeInv, TypeOK
<1> QED
  BY <1>3, <1>4, <1>5, SameUploads DEF BeginPublish, TypeInv, TypeOK, OpsOK, UploadsOK, SpentIs

LEMMA PublishLookupTypes ==
  ASSUME TypeInv, NEW l \in Laptops, PublishLookup(l)
  PROVE  TypeInv'
<1>1. PICK a \in LatestAnswers :
        LET base == IF op[l].base = NoVersion THEN site[l].last ELSE op[l].base
            answer == IF ~NoAnswer(a.is) /\ ownVersion(site[l], a.is.cid)
                      THEN [cid |-> base, seq |-> a.is.seq] ELSE a.is
        IN /\ Meets(a.faults)
           /\ \/ PublishedElsewhere(site[l].seq, base, answer, op[l].force) /\ Behind(l, answer)
              \/ Done(l)
              \/ /\ op' = [op EXCEPT ![l].pc = IF op[l].force THEN "override" ELSE "entry",
                                      ![l].base = base,
                                      ![l].seq = nextSequence(site[l].seq, answer)]
                 /\ UNCHANGED upload
  BY Zenon DEF PublishLookup
<1> DEFINE base == IF op[l].base = NoVersion THEN site[l].last ELSE op[l].base
           answer == IF ~NoAnswer(a.is) /\ ownVersion(site[l], a.is.cid)
                     THEN [cid |-> base, seq |-> a.is.seq] ELSE a.is
           next == [op[l] EXCEPT !.pc = IF op[l].force THEN "override" ELSE "entry",
                                 !.base = base, !.seq = nextSequence(site[l].seq, answer)]
<1>2. base \in Version \cup {NoVersion} /\ (NoAnswer(a.is) \/ a.is \in Record)
  BY SiteIs, OpIs, AnswersIs
<1>3. answer \in {NoRecord, Unreachable} \/ answer.seq \in Nat
  BY <1>2 DEF NoAnswer, Record
<1>4. SpentIs'
  BY <1>1, AnswersIs, SameSpent, MeetsKeeps
<1>5. CASE PublishedElsewhere(site[l].seq, base, answer, op[l].force) /\ Behind(l, answer)
  <2>1. answer \in Job
    BY <1>2, <1>5 DEF PublishedElsewhere, NoAnswer, Job
  <2>2. OpsOK /\ UploadsOK
    BY <1>5, <2>1, BehindOK
  <2> QED
    BY <1>4, <2>2, OperationStep, SameCalls DEF PublishLookup
<1>6. CASE Done(l)
  BY <1>4, <1>6, DoneOK, OperationStep, SameCalls DEF PublishLookup
<1>7. CASE op' = [op EXCEPT ![l].pc = IF op[l].force THEN "override" ELSE "entry",
                            ![l].base = base, ![l].seq = nextSequence(site[l].seq, answer)]
           /\ UNCHANGED upload
  <2>1. nextSequence(site[l].seq, answer) \in Nat
    BY <1>3, SiteIs, NextSequenceOf
  <2>2. op[l].pc = "lookup" /\ op[l].cid \in Version /\ op[l] \in Operation
    BY OpIs DEF PublishLookup, OperationOK
  <2> HIDE DEF base, answer
  <2>3. OperationOK(next)
    BY <1>2, <2>1, <2>2 DEF OperationOK, Operation
  <2>4. op' = [op EXCEPT ![l] = next]
    BY <1>7 DEF TypeInv, TypeOK
  <2> HIDE DEF next
  <2>5. OpsOK
    BY <2>3, <2>4, OpSet DEF OpsOK
  <2> QED
    BY <1>4, <1>7, <2>5, OperationStep, SameCalls, SameUploads DEF PublishLookup
<1> QED
  BY <1>1, <1>5, <1>6, <1>7

(* A publish goes on with the version it has. *)
LEMMA PublishGoes ==
  ASSUME TypeInv, NEW l \in Laptops, op[l].pc \in {"entry", "await", "override"},
         NEW pc \in {"await", "announce"},
         \/ op' = [op EXCEPT ![l].pc = pc]
         \/ op' = [op EXCEPT ![l].pc = pc, ![l].synced = TRUE]
  PROVE  OpsOK
<1> DEFINE o1 == [op[l] EXCEPT !.pc = pc]
           o2 == [op[l] EXCEPT !.pc = pc, !.synced = TRUE]
<1>1. op[l] \in Operation /\ op[l].cid \in Version
  BY OpIs DEF OperationOK
<1>2. OperationOK(o1) /\ OperationOK(o2)
  BY <1>1 DEF OperationOK, Operation
<1>3. op' = [op EXCEPT ![l] = o1] \/ op' = [op EXCEPT ![l] = o2]
  BY DEF TypeInv, TypeOK
<1> HIDE DEF o1, o2
<1> QED
  BY <1>2, <1>3, OpSet DEF OpsOK

LEMMA PublishEntryTypes ==
  ASSUME TypeInv, NEW l \in Laptops, PublishEntry(l)
  PROVE  TypeInv'
<1>1. op[l].pc = "entry" /\ op[l].cid \in Version /\ op[l].seq \in Nat
  BY OpIs DEF PublishEntry, OperationOK
<1>2. CASE Behind(l, host) /\ host.cid # NoVersion /\ UNCHANGED <<call, spent>>
  BY <1>2, HostIs, BehindOK, OperationStep, SameCalls, SameSpent DEF PublishEntry
<1>3. CASE /\ host.cid # NoVersion /\ Send(Mu(l), op[l].cid, op[l].seq, host.cid)
           /\ op' = [op EXCEPT ![l].pc = "await"]
           /\ UNCHANGED <<upload, spent>>
  <2>1. OpsOK
    BY <1>1, <1>3, PublishGoes
  <2>2. CallsOK
    BY <1>1, <1>3, HostIs, Threaded, SendOK DEF CallsOK
  <2> QED
    BY <1>3, <2>1, <2>2, SameUploads, SameSpent, OperationStep DEF PublishEntry
<1>4. CASE /\ UNCHANGED spent \/ Meets({"host"})
           /\ op' = [op EXCEPT ![l].pc = "announce"] /\ UNCHANGED <<upload, call>>
  <2>1. OpsOK
    BY <1>1, <1>4, PublishGoes
  <2>2. SpentIs'
    BY <1>4, SameSpent, MeetsOne
  <2> QED
    BY <1>4, <2>1, <2>2, SameUploads, SameCalls, OperationStep DEF PublishEntry
<1>5. \/ Behind(l, host) /\ host.cid # NoVersion /\ UNCHANGED <<call, spent>>
      \/ /\ host.cid # NoVersion /\ Send(Mu(l), op[l].cid, op[l].seq, host.cid)
         /\ op' = [op EXCEPT ![l].pc = "await"]
         /\ UNCHANGED <<upload, spent>>
      \/ /\ UNCHANGED spent \/ Meets({"host"})
         /\ op' = [op EXCEPT ![l].pc = "announce"] /\ UNCHANGED <<upload, call>>
  BY DEF PublishEntry
<1> QED
  BY <1>2, <1>3, <1>4, <1>5

LEMMA PublishAnswerTypes ==
  ASSUME TypeInv, HeldInv, NEW l \in Laptops, PublishAnswer(l)
  PROVE  TypeInv'
<1>1. op[l].pc = "await" /\ CallsOK
  BY Threaded, ReturnOK DEF PublishAnswer, CallsOK
<1>2. \/ /\ op' = [op EXCEPT ![l].pc = "announce", ![l].synced = TRUE]
         /\ UNCHANGED <<upload, spent>>
      \/ Meets({"host"}) /\ Done(l)
      \/ host.cid # op[l].cid /\ Behind(l, host) /\ UNCHANGED spent
      \/ /\ op' = [op EXCEPT ![l].pc = "announce"]
         /\ UNCHANGED <<upload, spent>>
      \/ Meets({"caller"}) /\ Done(l)
  BY DEF PublishAnswer
<1>3. CASE /\ \/ op' = [op EXCEPT ![l].pc = "announce", ![l].synced = TRUE]
              \/ op' = [op EXCEPT ![l].pc = "announce"]
           /\ UNCHANGED <<upload, spent>>
  <2>1. OpsOK
    BY <1>1, <1>3, PublishGoes
  <2> QED
    BY <1>1, <1>3, <2>1, SameUploads, SameSpent, OperationStep DEF PublishAnswer
<1>4. CASE (Meets({"host"}) \/ Meets({"caller"})) /\ Done(l)
  BY <1>1, <1>4, DoneOK, SameSpent, MeetsOne, OperationStep DEF PublishAnswer
<1>5. CASE Behind(l, host) /\ UNCHANGED spent
  <2>1. host \in Job
    BY <1>1, HostIs DEF HeldInv
  <2> QED
    BY <1>1, <1>5, <2>1, BehindOK, SameSpent, OperationStep DEF PublishAnswer
<1> QED
  BY <1>2, <1>3, <1>4, <1>5

LEMMA PublishOverrideTypes ==
  ASSUME TypeInv, NEW l \in Laptops, PublishOverride(l)
  PROVE  TypeInv'
<1>1. OpsOK
  BY PublishGoes DEF PublishOverride
<1>2. SpentIs'
  BY SameSpent, MeetsOne DEF PublishOverride
<1>3. SiteOK /\ waived' \subseteq Posts
  <2>1. CASE /\ host.cid # NoVersion
             /\ site' = [site EXCEPT ![l].versions = rememberVersion(@, host.cid)]
             /\ waived' = waived \cup host.cid.posts
    <3> DEFINE s == [site[l] EXCEPT !.versions = rememberVersion(@, host.cid)]
    <3>1. host.cid \in Version /\ rememberVersion(site[l].versions, host.cid) \in Seq(Version)
      BY <2>1, HostIs, SiteIs, RememberedIs
    <3>2. s \in SiteCopy
      BY <3>1, SiteIs DEF SiteCopy
    <3>3. site' = [site EXCEPT ![l] = s]
      BY <2>1
    <3>4. host.cid.posts \subseteq Posts /\ waived \subseteq Posts
      BY <3>1 DEF Version, TypeInv, TypeOK
    <3> HIDE DEF s
    <3> QED
      BY <2>1, <3>2, <3>3, <3>4, SiteSet
  <2>2. CASE UNCHANGED <<site, waived>>
    BY <2>2 DEF TypeInv, TypeOK, SiteOK
  <2> QED
    BY <2>1, <2>2 DEF PublishOverride
<1> QED
  BY <1>1, <1>2, <1>3, SameUploads
  DEF PublishOverride, TypeInv, TypeOK, OpsOK, UploadsOK, SiteOK, SpentIs

(* A version becomes the laptop's last one. *)
LEMMA RecordedSite ==
  ASSUME TypeInv, NEW l \in Laptops, NEW posts \in SUBSET Posts, NEW c \in Version, NEW seq \in Nat
  PROVE  [site[l] EXCEPT !.posts = posts,
                         !.versions = rememberVersion(rememberVersion(@, site[l].last), c),
                         !.last = c, !.seq = seq, !.elsewhere = FALSE] \in SiteCopy
<1>1. rememberVersion(site[l].versions, site[l].last) \in Seq(Version)
  BY SiteIs, RememberedIs
<1>2. rememberVersion(rememberVersion(site[l].versions, site[l].last), c) \in Seq(Version)
  BY <1>1, RememberedIs
<1> QED
  BY <1>2, SiteIs DEF SiteCopy

LEMMA PublishAnnounceTypes ==
  ASSUME TypeInv, NEW l \in Laptops, PublishAnnounce(l)
  PROVE  TypeInv'
<1> DEFINE rec == [cid |-> op[l].cid, seq |-> op[l].seq]
<1>1. rec \in Job /\ op[l].cid \in Version /\ op[l].seq \in Nat
  BY OpIs DEF PublishAnnounce, OperationOK, Job, Record
<1>2. OpsOK
  BY FinishOK DEF PublishAnnounce
<1>3. announced' \subseteq Record
  BY <1>1 DEF PublishAnnounce, Job, TypeInv, TypeOK
<1>4. SpentIs'
  BY SameSpent, MeetsOne DEF PublishAnnounce
<1>5. SiteOK
  <2>1. CASE site' = Published(l, op[l].cid, op[l].seq)
    <3> DEFINE s == [site[l] EXCEPT !.posts = site[l].posts,
                       !.versions = rememberVersion(rememberVersion(@, site[l].last), op[l].cid),
                       !.last = op[l].cid, !.seq = op[l].seq, !.elsewhere = FALSE]
    <3>1. s \in SiteCopy
      BY <1>1, SiteIs, RecordedSite
    <3>2. site' = [site EXCEPT ![l] = s]
      BY <2>1, SiteIs DEF Published, SiteCopy, TypeInv, TypeOK
    <3> HIDE DEF s
    <3> QED
      BY <3>1, <3>2, SiteSet
  <2>2. CASE UNCHANGED site
    BY <2>2 DEF TypeInv, TypeOK, SiteOK
  <2> QED
    BY <2>1, <2>2 DEF PublishAnnounce
<1>6. UploadsOK
  <2>1. CASE upload' = Uploading(l)
    BY <2>1, UploadingOK
  <2>2. CASE upload' = Queued(Uploading(l), l, rec)
    <3>1. Uploading(l) \in [Laptops -> Upload] /\ \A m \in Laptops : UploadOK(Uploading(l)[m])
      BY DEF Uploading, TypeInv, TypeOK, UploadOK, Upload
    <3> HIDE DEF rec
    <3> QED
      BY <1>1, <2>2, <3>1, QueuedOK
  <2> QED
    BY <2>1, <2>2 DEF PublishAnnounce
<1> QED
  BY <1>2, <1>3, <1>4, <1>5, <1>6
  DEF PublishAnnounce, TypeInv, TypeOK, OpsOK, UploadsOK, SiteOK, SpentIs

LEMMA TakeInTypes ==
  ASSUME TypeInv, NEW l \in Laptops, TakeIn(l)
  PROVE  TypeInv'
<1> DEFINE rec == op[l].behind
           posts == Merged(site[l], rec.cid)
           s == [site[l] EXCEPT !.posts = posts,
                   !.versions = rememberVersion(rememberVersion(@, site[l].last), rec.cid),
                   !.last = rec.cid, !.seq = SequenceAfter(site[l], rec), !.elsewhere = FALSE]
<1>1. op[l].pc = "takein" /\ rec \in Job /\ rec.cid \in Version /\ rec.seq \in Nat
      /\ (op[l].kind = "publish" => op[l].attempt \in 0..1)
  BY OpIs DEF TakeIn, OperationOK, Job, Record
<1>2. posts \in SUBSET Posts
  BY <1>1, SiteIs DEF Merged, Version
<1>3. SequenceAfter(site[l], rec) \in Nat
  BY <1>1, SiteIs, LargerOf DEF SequenceAfter
<1> HIDE DEF posts, rec
<1>4. s \in SiteCopy
  BY <1>1, <1>2, <1>3, RecordedSite
<1>5. SpentIs'
  BY SameSpent, MeetsOne DEF TakeIn
<1>6. SiteOK
  <2>1. CASE site' = [site EXCEPT ![l].elsewhere = TRUE]
    <3>1. [site[l] EXCEPT !.elsewhere = TRUE] \in SiteCopy
      BY SiteIs DEF SiteCopy
    <3> QED
      BY <2>1, <3>1, SiteSet
  <2>2. CASE site' = [site EXCEPT ![l] = s]
    BY <1>4, <2>2, SiteSet
  <2>3. \/ site' = [site EXCEPT ![l].elsewhere = TRUE]
        \/ site' = [site EXCEPT ![l] = s]
    BY SiteIs DEF TakeIn, posts, rec, SiteCopy, TypeInv, TypeOK
  <2> QED
    BY <2>1, <2>2, <2>3
<1>7. asked' \in [Laptops -> SUBSET Posts]
  <2>1. UNCHANGED asked \/ asked' = [asked EXCEPT ![l] = @ \cup posts]
    BY DEF TakeIn, posts, rec
  <2> QED
    BY <1>2, <2>1 DEF TypeInv, TypeOK
<1>8. OpsOK /\ UploadsOK
  <2>1. CASE Done(l)
    BY <2>1, DoneOK
  <2>2. CASE /\ op[l].kind = "publish" /\ UNCHANGED upload
             /\ op' = [op EXCEPT ![l] = [op[l] EXCEPT !.pc = "lookup", !.attempt = @ + 1,
                            !.base = rec.cid, !.cid = Rendered(posts), !.behind = NoJob]]
    <3> DEFINE c == Rendered(posts)
               o == [op[l] EXCEPT !.pc = "lookup", !.attempt = @ + 1,
                                  !.base = rec.cid, !.cid = c, !.behind = NoJob]
    <3>1. c \in Version
      BY <1>2 DEF Rendered, Version
    <3>2. op[l].attempt + 1 \in 0..2
      BY <1>1, <2>2
    <3> HIDE DEF c
    <3>3. OperationOK(o)
      <4>1. o \in Operation /\ o.pc = "lookup" /\ o.cid = c
        BY <1>1, <3>1, <3>2, OpIs, ZenonT(30) DEF Operation
      <4> QED
        BY <3>1, <4>1 DEF OperationOK
    <3>4. op' = [op EXCEPT ![l] = o]
      BY <2>2 DEF c
    <3> HIDE DEF o
    <3> QED
      BY <2>2, <3>3, <3>4, OpSet, SameUploads DEF OpsOK
  <2> QED
    BY <2>1, <2>2 DEF TakeIn, posts, rec
<1> QED
  BY <1>5, <1>6, <1>7, <1>8 DEF TakeIn, TypeInv, TypeOK, OpsOK, UploadsOK, SiteOK, SpentIs

LEMMA GiveUpTypes ==
  ASSUME TypeInv, NEW l \in Laptops, GiveUpPublish(l)
  PROVE  TypeInv'
  BY DoneOK, SameSpent, MeetsOne, SameCalls, OperationStep DEF GiveUpPublish

(* An operation that begins with a version to take in, or to renew. *)
LEMMA BeginsOK ==
  ASSUME TypeInv, NEW l \in Laptops, NEW kind \in {"keepalive", "catchup"}, NEW by \in {"loop", "upload"},
         \/ \E rec \in Job : op' = [op EXCEPT ![l] = [NoOp EXCEPT !.pc = "takein", !.kind = kind,
                                                      !.by = by, !.behind = rec]]
         \/ \E c \in Version, seq \in Nat :
              op' = [op EXCEPT ![l] = [NoOp EXCEPT !.pc = "renew", !.kind = kind, !.by = by,
                                                   !.cid = c, !.seq = seq]]
  PROVE  OpsOK
<1>1. NoOp \in Operation
  BY NoOpOK DEF OperationOK
<1>2. ASSUME NEW rec \in Job
      PROVE  OperationOK([NoOp EXCEPT !.pc = "takein", !.kind = kind, !.by = by, !.behind = rec])
  BY <1>1 DEF OperationOK, Operation
<1>3. ASSUME NEW c \in Version, NEW seq \in Nat
      PROVE  OperationOK([NoOp EXCEPT !.pc = "renew", !.kind = kind, !.by = by, !.cid = c, !.seq = seq])
  BY <1>1 DEF OperationOK, Operation
<1> QED
  BY <1>2, <1>3, OpSet DEF OpsOK

LEMMA KeepaliveTypes ==
  ASSUME TypeInv, NEW l \in Laptops, Keepalive(l)
  PROVE  TypeInv'
<1>1. PICK a \in LatestAnswers :
        /\ ~NoAnswer(a.is)
        /\ \/ /\ site' = [site EXCEPT ![l].versions = rememberVersion(@, a.is.cid),
                                       ![l].last = a.is.cid, ![l].seq = a.is.seq,
                                       ![l].elsewhere = FALSE]
              /\ Meets(a.faults)
              /\ UNCHANGED op
           \/ /\ op' = [op EXCEPT ![l] = [NoOp EXCEPT !.pc = "takein", !.kind = "keepalive",
                                                       !.by = "loop", !.behind = a.is]]
              /\ Meets(a.faults)
              /\ UNCHANGED site
           \/ /\ spent.renewals < MaxRenewals
              /\ May(a.faults)
              /\ spent' = [Counted(a.faults) EXCEPT !.renewals = @ + 1]
              /\ op' = [op EXCEPT ![l] = [NoOp EXCEPT !.pc = "renew", !.kind = "keepalive",
                           !.by = "loop", !.cid = site[l].last, !.seq = Larger(a.is.seq, site[l].seq) + 1]]
              /\ UNCHANGED site
  BY Zenon DEF Keepalive
<1>2. a.is \in Job /\ a.is.cid \in Version /\ a.is.seq \in Nat /\ IsFiniteSet(a.faults)
  BY <1>1, AnswersIs DEF Job, Record
<1>3. site[l].last \in Version
  BY SiteIs DEF Keepalive
<1>4. CASE /\ site' = [site EXCEPT ![l].versions = rememberVersion(@, a.is.cid),
                                    ![l].last = a.is.cid, ![l].seq = a.is.seq,
                                    ![l].elsewhere = FALSE]
           /\ Meets(a.faults)
           /\ UNCHANGED op
  <2> DEFINE s == [site[l] EXCEPT !.versions = rememberVersion(@, a.is.cid),
                     !.last = a.is.cid, !.seq = a.is.seq, !.elsewhere = FALSE]
  <2>1. rememberVersion(site[l].versions, a.is.cid) \in Seq(Version)
    BY <1>2, SiteIs, RememberedIs
  <2>2. s \in SiteCopy
    BY <1>2, <2>1, SiteIs DEF SiteCopy
  <2>3. site' = [site EXCEPT ![l] = s]
    BY <1>4 DEF TypeInv, TypeOK
  <2> HIDE DEF s
  <2>4. SiteOK
    BY <2>2, <2>3, SiteSet
  <2>5. SpentIs'
    BY <1>2, <1>4, SameSpent, MeetsKeeps
  <2> QED
    BY <1>4, <2>4, <2>5 DEF Keepalive, TypeInv, TypeOK, SiteOK, SpentIs
<1>5. CASE /\ op' = [op EXCEPT ![l] = [NoOp EXCEPT !.pc = "takein", !.kind = "keepalive",
                                                    !.by = "loop", !.behind = a.is]]
           /\ Meets(a.faults)
           /\ UNCHANGED site
  <2>1. OpsOK
    BY <1>2, <1>5, BeginsOK
  <2>2. SpentIs'
    BY <1>2, <1>5, SameSpent, MeetsKeeps
  <2> QED
    BY <1>5, <2>1, <2>2, SameUploads, SameCalls, OperationStep DEF Keepalive
<1>6. CASE /\ spent.renewals < MaxRenewals
           /\ May(a.faults)
           /\ spent' = [Counted(a.faults) EXCEPT !.renewals = @ + 1]
           /\ op' = [op EXCEPT ![l] = [NoOp EXCEPT !.pc = "renew", !.kind = "keepalive",
                        !.by = "loop", !.cid = site[l].last, !.seq = Larger(a.is.seq, site[l].seq) + 1]]
           /\ UNCHANGED site
  <2>1. Larger(a.is.seq, site[l].seq) + 1 \in Nat
    <3>1. site[l].seq \in Nat
      BY SiteIs
    <3>2. Larger(a.is.seq, site[l].seq) \in Nat
      BY <1>2, <3>1, LargerOf
    <3> QED
      BY <3>2
  <2>2. OpsOK
    BY <1>3, <1>6, <2>1, BeginsOK
  <2>3. Cardinality(a.faults) \in Nat
    BY <1>2, FS_CardinalityType
  <2>4. SpentIs'
    <3> DEFINE n == Cardinality(a.faults)
    <3>1. spent.faults + n <= MaxFaults
          /\ spent' = [spent EXCEPT !.faults = @ + n, !.renewals = @ + 1]
      BY <1>6, SameSpent DEF May, Counted, SpentIs
    <3> HIDE DEF n
    <3>2. n \in Nat
      BY <2>3 DEF n
    <3>3. MaxFaults \in Nat /\ MaxRenewals \in Nat
      BY PublisherAssumption
    <3>4. /\ spent.faults \in 0..MaxFaults /\ spent.renewals \in 0..MaxRenewals
          /\ spent \in [faults : 0..MaxFaults, publishes : 0..MaxPublishes, renewals : 0..MaxRenewals]
      BY SameSpent DEF SpentIs
    <3>5. spent.faults + n \in 0..MaxFaults /\ spent.renewals + 1 \in 0..MaxRenewals
      BY <1>6, <3>1, <3>2, <3>3, <3>4
    <3> QED
      BY <3>1, <3>4, <3>5 DEF SpentIs
  <2> QED
    BY <1>6, <2>2, <2>4, SameUploads, SameCalls, OperationStep DEF Keepalive
<1> QED
  BY <1>1, <1>4, <1>5, <1>6

LEMMA RenewTypes ==
  ASSUME TypeInv, NEW l \in Laptops, Renew(l)
  PROVE  TypeInv'
<1>1. op[l].cid \in Version /\ op[l].seq \in Nat
  BY OpIs DEF Renew, OperationOK
<1>2. OpsOK
  BY FinishOK DEF Renew
<1>3. announced' \subseteq Record
  BY <1>1 DEF Renew, Record, TypeInv, TypeOK
<1>4. SpentIs'
  BY SameSpent, MeetsOne DEF Renew
<1>5. SiteOK
  <2> DEFINE s == [site[l] EXCEPT !.seq = op[l].seq, !.elsewhere = FALSE]
  <2>1. s \in SiteCopy
    BY <1>1, SiteIs DEF SiteCopy
  <2>2. site' = [site EXCEPT ![l] = s] \/ UNCHANGED site
    BY DEF Renew, TypeInv, TypeOK
  <2> HIDE DEF s
  <2> QED
    BY <2>1, <2>2, SiteSet DEF SiteOK, TypeInv, TypeOK
<1> QED
  BY <1>2, <1>3, <1>4, <1>5 DEF Renew, TypeInv, TypeOK, OpsOK, SiteOK, SpentIs

LEMMA CatchUpTypes ==
  ASSUME TypeInv, NEW l \in Laptops, NEW by \in {"loop", "upload"}, CatchUp(l, by)
  PROVE  TypeInv'
<1> DEFINE next(pc) == IF by = "upload" THEN [upload EXCEPT ![l].pc = pc] ELSE upload
           job == [cid |-> site[l].last, seq |-> site[l].seq]
<1>1. job \in Job
  BY SiteIs DEF CatchUp, Job, Record
<1>2. CASE upload' = Queued(next("take"), l, job) /\ UNCHANGED <<op, spent>>
  <2>1. next("take") \in [Laptops -> Upload] /\ \A m \in Laptops : UploadOK(next("take")[m])
    BY DEF TypeInv, TypeOK, UploadOK, Upload
  <2> HIDE DEF next, job
  <2>2. UploadsOK
    BY <1>1, <1>2, <2>1, QueuedOK
  <2> QED
    BY <1>2, <2>2, SameOps, SameCalls, SameSpent, OperationStep DEF CatchUp
<1>3. CASE /\ host.cid # NoVersion
           /\ op' = [op EXCEPT ![l] = [NoOp EXCEPT !.pc = "takein", !.kind = "catchup",
                                                    !.by = by, !.behind = host]]
           /\ upload' = next("catching")
           /\ UNCHANGED spent
  <2>1. OpsOK
    BY <1>3, HostIs, BeginsOK
  <2>2. UploadsOK
    BY <1>3, UploadGoes, SameUploads
  <2> QED
    BY <1>3, <2>1, <2>2, SameCalls, SameSpent, OperationStep DEF CatchUp
<1>4. CASE /\ upload' = next("take")
           /\ UNCHANGED spent \/ Meets({"host"})
           /\ UNCHANGED op
  <2>1. UploadsOK
    BY <1>4, UploadGoes, SameUploads
  <2>2. SpentIs'
    BY <1>4, SameSpent, MeetsOne
  <2> QED
    BY <1>4, <2>1, <2>2, SameOps, SameCalls, OperationStep DEF CatchUp
<1>5. \/ upload' = Queued(next("take"), l, job) /\ UNCHANGED <<op, spent>>
      \/ /\ host.cid # NoVersion
         /\ op' = [op EXCEPT ![l] = [NoOp EXCEPT !.pc = "takein", !.kind = "catchup",
                                                  !.by = by, !.behind = host]]
         /\ upload' = next("catching")
         /\ UNCHANGED spent
      \/ /\ upload' = next("take")
         /\ UNCHANGED spent \/ Meets({"host"})
         /\ UNCHANGED op
  BY DEF CatchUp
<1> QED
  BY <1>2, <1>3, <1>4, <1>5

LEMMA TakeJobTypes ==
  ASSUME TypeInv, NEW l \in Laptops, TakeJob(l)
  PROVE  TypeInv'
<1> DEFINE u == IF upload[l].pending = NoJob THEN NoUpload
                ELSE [pc |-> "choose", job |-> upload[l].pending, pending |-> NoJob]
<1>1. upload[l].pending \in Job \cup {NoJob}
  BY DEF TypeInv, TypeOK, Upload
<1>2. UploadOK(u)
  BY <1>1 DEF UploadOK, Upload, NoUpload
<1>3. upload' = [upload EXCEPT ![l] = u]
  BY DEF TakeJob, TypeInv, TypeOK
<1> HIDE DEF u
<1>4. UploadsOK
  BY <1>2, <1>3, UploadSet DEF UploadsOK
<1> QED
  BY <1>4, SameOps, SameCalls, SameSpent, OperationStep DEF TakeJob

LEMMA RetryOK ==
  ASSUME TypeInv, NEW l \in Laptops, Retry(l) PROVE UploadsOK
<1> DEFINE u == [upload[l] EXCEPT !.pc = "take", !.pending = IF @ = NoJob THEN upload[l].job ELSE @]
<1>1. upload[l] \in Upload
  BY DEF TypeInv, TypeOK
<1>2. UploadOK(u)
  BY <1>1 DEF UploadOK, Upload
<1>3. upload' = [upload EXCEPT ![l] = u]
  BY DEF Retry, TypeInv, TypeOK
<1> HIDE DEF u
<1> QED
  BY <1>2, <1>3, UploadSet DEF UploadsOK

LEMMA SettleOK ==
  ASSUME TypeInv, NEW l \in Laptops, Settle(l) PROVE UploadsOK
  BY UploadGoes DEF Settle, Go

LEMMA ChooseUploadTypes ==
  ASSUME TypeInv, NEW l \in Laptops, ChooseUpload(l)
  PROVE  TypeInv'
<1> DEFINE j == upload[l].job
<1>1. j.cid \in Version /\ j.seq \in Nat
  BY DEF ChooseUpload, TypeInv, UploadOK, Job, Record
<1>2. ASSUME NEW parent \in Version \cup {NoVersion},
             Send(Uploader(l), j.cid, j.seq, parent), Go(l, "await"), SpentIs'
      PROVE  TypeInv'
  <2>1. CallsOK
    BY <1>1, <1>2, Threaded, SendOK DEF CallsOK
  <2>2. UploadsOK
    BY <1>2, UploadGoes DEF Go
  <2> QED
    BY <1>2, <2>1, <2>2, SameOps, OperationStep DEF ChooseUpload
<1>3. ASSUME UploadsOK, UNCHANGED call, SpentIs'
      PROVE  TypeInv'
  BY <1>3, SameOps, SameCalls, OperationStep DEF ChooseUpload
<1>4. SpentIs'
  BY SameSpent, MeetsOne DEF ChooseUpload
<1>5. \/ Settle(l) /\ UNCHANGED call
      \/ Retry(l) /\ UNCHANGED call
      \/ Go(l, "overtaken") /\ UNCHANGED call
      \/ \E parent \in {host.cid, NoVersion} : Send(Uploader(l), j.cid, j.seq, parent) /\ Go(l, "await")
  BY DEF ChooseUpload
<1>6. CASE Settle(l) /\ UNCHANGED call
  BY <1>3, <1>4, <1>6, SettleOK
<1>7. CASE Retry(l) /\ UNCHANGED call
  BY <1>3, <1>4, <1>7, RetryOK
<1>8. CASE Go(l, "overtaken") /\ UNCHANGED call
  BY <1>3, <1>4, <1>8, UploadGoes DEF Go
<1>9. ASSUME NEW parent \in {host.cid, NoVersion},
             Send(Uploader(l), j.cid, j.seq, parent) /\ Go(l, "await")
      PROVE  TypeInv'
  BY <1>2, <1>4, <1>9, HostIs
<1> QED
  BY <1>5, <1>6, <1>7, <1>8, <1>9

LEMMA UploadAnswerTypes ==
  ASSUME TypeInv, NEW l \in Laptops, UploadAnswer(l)
  PROVE  TypeInv'
<1>1. UploadsOK
  <2>1. Settle(l) \/ Retry(l) \/ Go(l, "take")
    BY DEF UploadAnswer
  <2> QED
    BY <2>1, SettleOK, RetryOK, UploadGoes DEF Go
<1>2. CallsOK
  BY Threaded, ReturnOK DEF UploadAnswer, CallsOK
<1>3. SpentIs'
  BY SameSpent, MeetsOne DEF UploadAnswer
<1> QED
  BY <1>1, <1>2, <1>3, SameOps, OperationStep DEF UploadAnswer

LEMMA OvertakenTypes ==
  ASSUME TypeInv, NEW l \in Laptops, Overtaken(l)
  PROVE  TypeInv'
<1>1. UploadsOK
  BY UploadGoes DEF Overtaken, Go
<1> QED
  BY <1>1, SameOps, SameCalls, SameSpent, OperationStep DEF Overtaken

LEMMA RepublishTypes ==
  ASSUME TypeInv, NEW l \in Laptops, Republish(l)
  PROVE  TypeInv'
<1> DEFINE c == Rendered(site[l].posts)
           o == [NoOp EXCEPT !.pc = "lookup", !.kind = "publish", !.by = "upload", !.cid = c]
<1>1. c \in Version
  BY SiteIs DEF Rendered, Version
<1>2. NoOp \in Operation
  BY NoOpOK DEF OperationOK
<1>3. op' = [op EXCEPT ![l] = o]
  BY DEF Republish
<1> HIDE DEF c
<1>4. OperationOK(o)
  BY <1>1, <1>2 DEF OperationOK, Operation
<1> HIDE DEF o
<1>5. OpsOK
  BY <1>3, <1>4, OpSet DEF OpsOK
<1>6. UploadsOK
  BY UploadGoes DEF Republish, Go
<1> QED
  BY <1>5, <1>6, SameCalls, SameSpent, OperationStep DEF Republish

LEMMA AgentPostTypes ==
  ASSUME TypeInv, NEW a \in Agents, AgentPost(a)
  PROVE  TypeInv'
<1>1. PICK n \in NetworkAnswers :
        /\ Meets(n.faults)
        /\ Send(a, [host.cid EXCEPT !.posts = @ \cup {a}],
                Larger(host.seq, IF NoAnswer(n.is) THEN 0 ELSE n.is.seq) + 1, host.cid)
  BY Zenon DEF AgentPost
<1>2. (NoAnswer(n.is) \/ n.is \in Record) /\ IsFiniteSet(n.faults)
  BY NetworkAnswersIs DEF TypeInv, TypeOK
<1>3. host.cid \in Version /\ host.seq \in Nat
  BY HostIs DEF AgentPost
<1>4. [host.cid EXCEPT !.posts = @ \cup {a}] \in Version
  BY <1>3 DEF Version, Posts
<1>5. Larger(host.seq, IF NoAnswer(n.is) THEN 0 ELSE n.is.seq) + 1 \in Nat
  <2>1. (IF NoAnswer(n.is) THEN 0 ELSE n.is.seq) \in Nat
    BY <1>2 DEF Record
  <2>2. Larger(host.seq, IF NoAnswer(n.is) THEN 0 ELSE n.is.seq) \in Nat
    BY <1>3, <2>1, LargerOf
  <2> QED
    BY <2>2
<1>6. CallsOK
  BY <1>1, <1>3, <1>4, <1>5, SendOK DEF Threads, CallsOK
<1>7. SpentIs'
  BY <1>1, <1>2, SameSpent, MeetsKeeps
<1> QED
  BY <1>6, <1>7, SameOps, SameUploads, OperationStep DEF AgentPost

(* The host and the network, when a push arrives. *)
LEMMA TakenPush ==
  ASSUME TypeInv, NEW p \in Push, HostTakes(p)
  PROVE  host' \in Job /\ announced' \subseteq Record /\ held' \subseteq Posts
  BY DEF HostTakes, Push, Job, Record, Version, TypeInv, TypeOK

LEMMA HostAnswersTypes ==
  ASSUME TypeInv, NEW t \in Threads, HostAnswers(t)
  PROVE  TypeInv'
<1>1. call[t] \in Call /\ call[t] # NoCall /\ call[t].push \in Push
  BY DEF HostAnswers, TypeInv, TypeOK, Call, NoCall
<1>2. call' \in [Threads -> Call]
  <2>1. call' = [call EXCEPT ![t].st = "ok"] \/ call' = [call EXCEPT ![t].st = "conflict"]
    BY DEF HostAnswers
  <2>2. [call[t] EXCEPT !.st = "ok"] \in Call /\ [call[t] EXCEPT !.st = "conflict"] \in Call
    BY <1>1 DEF Call
  <2> QED
    BY <2>1, <2>2 DEF TypeInv, TypeOK
<1>3. HostTakes(call[t].push) \/ UNCHANGED <<host, announced, held>>
  BY DEF HostAnswers
<1>4. host' \in Job \cup {NoJob} /\ announced' \subseteq Record /\ held' \subseteq Posts
  BY <1>1, <1>3, TakenPush DEF TypeInv, TypeOK
<1> QED
  BY <1>2, <1>4 DEF HostAnswers, TypeInv, TypeOK

LEMMA LoseAnswerTypes ==
  ASSUME TypeInv, NEW t \in Threads, LoseAnswer(t)
  PROVE  TypeInv'
<1>1. call[t] \in Call /\ call[t] # NoCall /\ call[t].push \in Push
  BY DEF LoseAnswer, TypeInv, TypeOK, Call, NoCall
<1>2. call' \in [Threads -> Call]
  BY <1>1 DEF LoseAnswer, TypeInv, TypeOK, Call
<1>3. SpentIs'
  BY SameSpent, MeetsOne DEF LoseAnswer
<1>4. orphans' \subseteq Push
  BY <1>1 DEF LoseAnswer, TypeInv, TypeOK
<1> QED
  BY <1>2, <1>3, <1>4 DEF LoseAnswer, TypeInv, TypeOK, SpentIs

LEMMA OrphanTypes ==
  ASSUME TypeInv, NEW p \in orphans, HostTakesOrphan(p)
  PROVE  TypeInv'
<1>1. p \in Push /\ orphans' \subseteq Push
  BY DEF HostTakesOrphan, TypeInv, TypeOK
<1>2. HostTakes(p) \/ UNCHANGED <<host, announced, held>>
  BY DEF HostTakesOrphan
<1>3. host' \in Job \cup {NoJob} /\ announced' \subseteq Record /\ held' \subseteq Posts
  BY <1>1, <1>2, TakenPush DEF TypeInv, TypeOK
<1> QED
  BY <1>1, <1>3 DEF HostTakesOrphan, TypeInv, TypeOK

LEMMA CrashTypes ==
  ASSUME TypeInv, NEW l \in Laptops, Crash(l)
  PROVE  TypeInv'
<1>1. OpsOK
  BY NoOpOK, OpSet DEF Crash, OpsOK
<1>2. UploadsOK
  <2>1. UploadOK(NoUpload)
    BY DEF UploadOK, Upload, NoUpload
  <2> QED
    BY <2>1, UploadSet DEF Crash, UploadsOK
<1>3. call' \in [Threads -> Call]
  BY DEF Crash, TypeInv, TypeOK, Call
<1>4. orphans' \subseteq Push
  <2>1. \A u \in {Mu(l), Uploader(l)} : call[u].st = "sent" => call[u].push \in Push
    BY Threaded DEF TypeInv, TypeOK, Call, NoCall
  <2> QED
    BY <2>1 DEF Crash, TypeInv, TypeOK
<1>5. SpentIs'
  BY SameSpent, MeetsOne DEF Crash
<1> QED
  BY <1>1, <1>2, <1>3, <1>4, <1>5 DEF Crash, TypeInv, TypeOK, OpsOK, UploadsOK, SpentIs

LEMMA InitTypes == Init => TypeInv
<1> SUFFICES ASSUME Init PROVE TypeInv
  OBVIOUS
<1>1. First \in Version /\ [cid |-> First, seq |-> 1] \in Record
  BY DEF First, Rendered, Version, Posts, Record
<1>2. PICK start \in Starts :
        /\ site = [l \in Laptops |-> StartCopy(start)]
        /\ announced = IF start = "fresh" THEN {} ELSE {[cid |-> First, seq |-> 1]}
        /\ IF start = "fresh"
           THEN host = NoJob /\ held = {}
           ELSE host = [cid |-> First, seq |-> 1] /\ held = FirstPosts
  BY DEF Init
<1>3. start \in {"fresh", "published", "adopted"}
  BY PublisherAssumption
<1>4. StartCopy(start) \in SiteCopy
  <2>1. <<First>> \in Seq(Version) /\ <<>> \in Seq(Version) /\ FirstPosts \subseteq Posts
    BY <1>1 DEF Posts
  <2> QED
    BY <1>1, <1>3, <2>1 DEF StartCopy, Copy, SiteCopy
<1>5. site \in [Laptops -> SiteCopy] /\ announced \subseteq Record
  BY <1>1, <1>2, <1>4
<1>6. host \in Job \cup {NoJob} /\ held \subseteq Posts
  BY <1>1, <1>2 DEF Job, Posts
<1>7. NoUpload \in Upload /\ UploadOK(NoUpload)
  BY DEF UploadOK, Upload, NoUpload
<1>8. spent \in [faults : 0..MaxFaults, publishes : 0..MaxPublishes, renewals : 0..MaxRenewals]
  BY PublisherAssumption DEF Init
<1>9. NoOp \in Operation
  BY NoOpOK DEF OperationOK
<1> QED
  BY <1>5, <1>6, <1>7, <1>8, <1>9, NoOpOK DEF Init, TypeInv, TypeOK, Call

LEMMA NextTypes ==
  ASSUME TypeInv, HeldInv, [Next]_vars
  PROVE  TypeInv'
<1>1. CASE UNCHANGED vars
  BY <1>1 DEF vars, TypeInv, TypeOK, OperationOK, UploadOK
<1>2. ASSUME NEW l \in Laptops,
             \/ \E p \in Posts : SavePost(l, p) \/ DeletePost(l, p)
             \/ \E force \in BOOLEAN : BeginPublish(l, force)
      PROVE  TypeInv'
  BY <1>2, SavePostTypes, BeginPublishTypes
<1>3. ASSUME NEW l \in Laptops, PublishStep(l) \/ GiveUpPublish(l)
      PROVE  TypeInv'
  BY <1>3, PublishLookupTypes, PublishEntryTypes, PublishAnswerTypes, PublishOverrideTypes,
     PublishAnnounceTypes, TakeInTypes, RenewTypes, GiveUpTypes DEF PublishStep
<1>4. ASSUME NEW l \in Laptops, UploadStep(l) \/ CatchUp(l, "loop")
      PROVE  TypeInv'
  BY <1>4, TakeJobTypes, ChooseUploadTypes, UploadAnswerTypes, OvertakenTypes, RepublishTypes,
     CatchUpTypes DEF UploadStep
<1>5. ASSUME NEW l \in Laptops, Keepalive(l) \/ Crash(l)
      PROVE  TypeInv'
  BY <1>5, KeepaliveTypes, CrashTypes
<1>6. ASSUME NEW a \in Agents, AgentPost(a)
      PROVE  TypeInv'
  BY <1>6, AgentPostTypes
<1>7. ASSUME NEW t \in Threads, HostAnswers(t) \/ LoseAnswer(t)
      PROVE  TypeInv'
  BY <1>7, HostAnswersTypes, LoseAnswerTypes
<1>8. ASSUME NEW p \in orphans, HostTakesOrphan(p)
      PROVE  TypeInv'
  BY <1>8, OrphanTypes
<1> QED
  BY <1>1, <1>2, <1>3, <1>4, <1>5, <1>6, <1>7, <1>8 DEF Next

-----------------------------------------------------------------------------
(* What a step does to the sequence of a laptop and to the one its operation
   has chosen: the sequence changes only when an operation ends or takes a
   version in. *)
SequenceStep(l) ==
  \/ op'[l] = op[l] /\ site'[l].seq = site[l].seq
  \/ op'[l].pc \in {"idle", "lookup", "takein"} /\ site'[l].seq >= site[l].seq
  \/ /\ op'[l].pc \in {"entry", "override", "renew"}
     /\ op'[l].seq > site[l].seq /\ site'[l].seq = site[l].seq
  \/ /\ op[l].pc \in {"entry", "await", "override"} /\ op'[l].pc \in {"await", "announce"}
     /\ op'[l].pc = "await" => host.cid # NoVersion
     /\ op'[l].seq = op[l].seq /\ site'[l].seq = site[l].seq

(* The other laptops keep their copy and their operation. *)
OnlyOf(l) == \A m \in Laptops \ {l} : op'[m] = op[m] /\ site'[m] = site[m]

LEMMA AloneOf ==
  ASSUME NEW l \in Laptops, OnlyOf(l), SequenceStep(l)
  PROVE  \A m \in Laptops : SequenceStep(m)
  BY DEF OnlyOf, SequenceStep

LEMMA NothingOf ==
  ASSUME UNCHANGED <<op, site>>
  PROVE  \A m \in Laptops : SequenceStep(m)
  BY DEF SequenceStep

(* An operation that ends, or takes a version in. *)
LEMMA FinishSteps ==
  ASSUME TypeInv, NEW l \in Laptops, Finish(l)
  PROVE  op'[l].pc = "idle" /\ \A m \in Laptops \ {l} : op'[m] = op[m]
  BY DEF Finish, TypeInv, TypeOK, NoOp

LEMMA BehindSteps ==
  ASSUME TypeInv, NEW l \in Laptops, NEW rec, Behind(l, rec)
  PROVE  op'[l].pc \in {"idle", "takein"} /\ \A m \in Laptops \ {l} : op'[m] = op[m]
  BY OpIs, FinishSteps DEF Behind, Done, TypeInv, TypeOK, Operation

LEMMA LookupSteps ==
  ASSUME TypeInv, NEW l \in Laptops, PublishLookup(l)
  PROVE  \A m \in Laptops : SequenceStep(m)
<1> DEFINE Base == IF op[l].base = NoVersion THEN site[l].last ELSE op[l].base
           Read(a) == IF ~NoAnswer(a.is) /\ ownVersion(site[l], a.is.cid)
                      THEN [cid |-> Base, seq |-> a.is.seq] ELSE a.is
<1>1. PICK a \in LatestAnswers :
        \/ Behind(l, Read(a))
        \/ Done(l)
        \/ op' = [op EXCEPT ![l].pc = IF op[l].force THEN "override" ELSE "entry",
                            ![l].base = Base, ![l].seq = nextSequence(site[l].seq, Read(a))]
  BY Zenon DEF PublishLookup
<1>2. UNCHANGED site /\ site[l].seq \in Nat /\ op[l] \in Operation
  BY SiteIs, OpIs DEF PublishLookup
<1>3. Read(a) \in {NoRecord, Unreachable} \/ Read(a).seq \in Nat
  BY AnswersIs DEF NoAnswer, Record
<1>4. nextSequence(site[l].seq, Read(a)) > site[l].seq
  BY <1>2, <1>3, NextSequenceOf
<1> HIDE DEF Base, Read
<1>5. CASE op' = [op EXCEPT ![l].pc = IF op[l].force THEN "override" ELSE "entry",
                            ![l].base = Base, ![l].seq = nextSequence(site[l].seq, Read(a))]
  <2>1. /\ op'[l].pc \in {"entry", "override"} /\ op'[l].seq = nextSequence(site[l].seq, Read(a))
        /\ \A m \in Laptops \ {l} : op'[m] = op[m]
    BY <1>2, <1>5 DEF Operation, TypeInv, TypeOK
  <2> QED
    BY <1>2, <1>4, <2>1, AloneOf DEF OnlyOf, SequenceStep
<1>6. CASE Behind(l, Read(a)) \/ Done(l)
  <2>1. op'[l].pc \in {"idle", "takein"} /\ \A m \in Laptops \ {l} : op'[m] = op[m]
    BY <1>6, BehindSteps, FinishSteps DEF Done
  <2> QED
    BY <1>2, <2>1, AloneOf DEF OnlyOf, SequenceStep
<1> QED
  BY <1>1, <1>5, <1>6

LEMMA ExchangeSteps ==
  ASSUME TypeInv, NEW l \in Laptops, PublishEntry(l) \/ PublishAnswer(l) \/ PublishOverride(l)
  PROVE  \A m \in Laptops : SequenceStep(m)
<1>1. op[l] \in Operation /\ site[l].seq \in Nat /\ op[l].pc \in {"entry", "await", "override"}
  BY OpIs, SiteIs DEF PublishEntry, PublishAnswer, PublishOverride
<1>2. site'[l].seq = site[l].seq /\ \A m \in Laptops \ {l} : site'[m] = site[m]
  BY SiteIs DEF PublishEntry, PublishAnswer, PublishOverride, SiteCopy, TypeInv, TypeOK
<1>3. \/ Behind(l, host) \/ Done(l)
      \/ op' = [op EXCEPT ![l].pc = "await"] /\ host.cid # NoVersion
      \/ op' = [op EXCEPT ![l].pc = "announce"]
      \/ op' = [op EXCEPT ![l].pc = "announce", ![l].synced = TRUE]
  BY DEF PublishEntry, PublishAnswer, PublishOverride
<1>4. CASE Behind(l, host) \/ Done(l)
  <2>1. op'[l].pc \in {"idle", "takein"} /\ \A m \in Laptops \ {l} : op'[m] = op[m]
    BY <1>4, BehindSteps, FinishSteps DEF Done
  <2> QED
    BY <1>1, <1>2, <2>1, AloneOf DEF OnlyOf, SequenceStep
<1>5. CASE \/ op' = [op EXCEPT ![l].pc = "await"] /\ host.cid # NoVersion
           \/ op' = [op EXCEPT ![l].pc = "announce"]
           \/ op' = [op EXCEPT ![l].pc = "announce", ![l].synced = TRUE]
  <2>1. /\ op'[l].pc \in {"await", "announce"} /\ op'[l].seq = op[l].seq
        /\ op'[l].pc = "await" => host.cid # NoVersion
        /\ \A m \in Laptops \ {l} : op'[m] = op[m]
    BY <1>1, <1>5 DEF Operation, TypeInv, TypeOK
  <2> QED
    BY <1>1, <1>2, <2>1, AloneOf DEF OnlyOf, SequenceStep
<1> QED
  BY <1>3, <1>4, <1>5

(* The version is announced, or its record renewed, at the sequence chosen. *)
LEMMA AnnounceSteps ==
  ASSUME TypeInv, AheadInv, NEW l \in Laptops, PublishAnnounce(l) \/ Renew(l)
  PROVE  \A m \in Laptops : SequenceStep(m)
<1>1. op[l].seq > site[l].seq /\ site[l].seq \in Nat /\ op[l].seq \in Nat /\ site[l] \in SiteCopy
  BY OpIs, SiteIs DEF AheadInv, PublishAnnounce, Renew
<1>2. op'[l].pc = "idle" /\ \A m \in Laptops \ {l} : op'[m] = op[m]
  BY FinishSteps DEF PublishAnnounce, Renew
<1>3. site'[l].seq \in {op[l].seq, site[l].seq} /\ \A m \in Laptops \ {l} : site'[m] = site[m]
  BY <1>1 DEF PublishAnnounce, Renew, Published, SiteCopy, TypeInv, TypeOK
<1> QED
  BY <1>1, <1>2, <1>3, AloneOf DEF OnlyOf, SequenceStep

(* A version that is taken in is recorded, or the attempt fails. *)
LEMMA TakeInSite ==
  ASSUME TypeInv, NEW l \in Laptops, TakeIn(l)
  PROVE  /\ site'[l].seq \in {SequenceAfter(site[l], op[l].behind), site[l].seq}
         /\ \A m \in Laptops \ {l} : site'[m] = site[m]
<1> DEFINE rec == op[l].behind
           taken == [site[l] EXCEPT !.posts = Merged(site[l], rec.cid),
                       !.versions = rememberVersion(rememberVersion(@, site[l].last), rec.cid),
                       !.last = rec.cid, !.seq = SequenceAfter(site[l], rec), !.elsewhere = FALSE]
           failed == [site[l] EXCEPT !.elsewhere = TRUE]
<1>1. taken.seq = SequenceAfter(site[l], rec) /\ failed.seq = site[l].seq
  BY SiteIs DEF SiteCopy
<1>2. site' = [site EXCEPT ![l] = taken] \/ site' = [site EXCEPT ![l] = failed]
  BY DEF TakeIn
<1> HIDE DEF taken, failed
<1> QED
  BY <1>1, <1>2 DEF TypeInv, TypeOK

LEMMA TakeInSteps ==
  ASSUME TypeInv, NEW l \in Laptops, TakeIn(l)
  PROVE  \A m \in Laptops : SequenceStep(m)
<1>1. site[l].seq \in Nat /\ op[l].behind.seq \in Nat /\ site[l] \in SiteCopy /\ op[l] \in Operation
  BY OpIs, SiteIs DEF TakeIn, OperationOK, Job, Record
<1>2. op'[l].pc \in {"idle", "lookup"} /\ \A m \in Laptops \ {l} : op'[m] = op[m]
  <2>1. CASE Done(l)
    BY <2>1, FinishSteps DEF Done
  <2>2. ASSUME NEW base, NEW c,
               op' = [op EXCEPT ![l] = [op[l] EXCEPT !.pc = "lookup", !.attempt = @ + 1,
                                          !.base = base, !.cid = c, !.behind = NoJob]]
        PROVE  op'[l].pc = "lookup" /\ \A m \in Laptops \ {l} : op'[m] = op[m]
    BY <1>1, <2>2 DEF Operation, TypeInv, TypeOK
  <2>3. \/ Done(l)
        \/ op' = [op EXCEPT ![l] = [op[l] EXCEPT !.pc = "lookup", !.attempt = @ + 1,
                     !.base = op[l].behind.cid,
                     !.cid = Rendered(Merged(site[l], op[l].behind.cid)), !.behind = NoJob]]
    BY DEF TakeIn
  <2> QED
    BY <2>1, <2>2, <2>3
<1>3. /\ site'[l].seq \in {SequenceAfter(site[l], op[l].behind), site[l].seq}
      /\ \A m \in Laptops \ {l} : site'[m] = site[m]
  BY TakeInSite
<1>4. SequenceAfter(site[l], op[l].behind) >= site[l].seq
  BY <1>1, LargerOf DEF SequenceAfter
<1>5. site'[l].seq >= site[l].seq
  BY <1>1, <1>3, <1>4
<1> QED
  BY <1>2, <1>3, <1>5, AloneOf DEF OnlyOf, SequenceStep

LEMMA KeepaliveSteps ==
  ASSUME TypeInv, NEW l \in Laptops, Keepalive(l)
  PROVE  \A m \in Laptops : SequenceStep(m)
<1>1. PICK a \in LatestAnswers :
        /\ ~NoAnswer(a.is)
        /\ \/ /\ site[l].seq = 0
              /\ site' = [site EXCEPT ![l].versions = rememberVersion(@, a.is.cid),
                                      ![l].last = a.is.cid, ![l].seq = a.is.seq,
                                      ![l].elsewhere = FALSE]
              /\ UNCHANGED op
           \/ /\ op' = [op EXCEPT ![l] = [NoOp EXCEPT !.pc = "takein", !.kind = "keepalive",
                                                       !.by = "loop", !.behind = a.is]]
              /\ UNCHANGED site
           \/ /\ op' = [op EXCEPT ![l] = [NoOp EXCEPT !.pc = "renew", !.kind = "keepalive",
                           !.by = "loop", !.cid = site[l].last, !.seq = Larger(a.is.seq, site[l].seq) + 1]]
              /\ UNCHANGED site
  BY Zenon DEF Keepalive
<1>2. a.is.seq \in Nat /\ site[l].seq \in Nat /\ site[l] \in SiteCopy /\ op[l].pc = "idle"
  BY <1>1, AnswersIs, SiteIs DEF Record, Keepalive
<1>3. CASE /\ site[l].seq = 0
           /\ site' = [site EXCEPT ![l].versions = rememberVersion(@, a.is.cid),
                                   ![l].last = a.is.cid, ![l].seq = a.is.seq,
                                   ![l].elsewhere = FALSE]
           /\ UNCHANGED op
  <2>1. site'[l].seq = a.is.seq /\ \A m \in Laptops \ {l} : site'[m] = site[m]
    BY <1>2, <1>3 DEF SiteCopy, TypeInv, TypeOK
  <2>2. site'[l].seq >= site[l].seq
    BY <1>2, <1>3, <2>1
  <2> QED
    BY <1>2, <1>3, <2>1, <2>2, AloneOf DEF OnlyOf, SequenceStep
<1>4. CASE /\ op' = [op EXCEPT ![l] = [NoOp EXCEPT !.pc = "takein", !.kind = "keepalive",
                                                    !.by = "loop", !.behind = a.is]]
           /\ UNCHANGED site
  <2>1. op'[l].pc = "takein" /\ \A m \in Laptops \ {l} : op'[m] = op[m]
    BY <1>4 DEF NoOp, TypeInv, TypeOK
  <2> QED
    BY <1>2, <1>4, <2>1, AloneOf DEF OnlyOf, SequenceStep
<1>5. CASE /\ op' = [op EXCEPT ![l] = [NoOp EXCEPT !.pc = "renew", !.kind = "keepalive",
                        !.by = "loop", !.cid = site[l].last, !.seq = Larger(a.is.seq, site[l].seq) + 1]]
           /\ UNCHANGED site
  <2>1. /\ op'[l].pc = "renew" /\ op'[l].seq = Larger(a.is.seq, site[l].seq) + 1
        /\ \A m \in Laptops \ {l} : op'[m] = op[m]
    BY <1>5 DEF NoOp, TypeInv, TypeOK
  <2>2. Larger(a.is.seq, site[l].seq) \in Nat /\ Larger(a.is.seq, site[l].seq) >= site[l].seq
    BY <1>2, LargerOf
  <2>3. op'[l].seq > site[l].seq
    BY <1>2, <2>1, <2>2
  <2> QED
    BY <1>5, <2>1, <2>3, AloneOf DEF OnlyOf, SequenceStep
<1> QED
  BY <1>1, <1>3, <1>4, <1>5

(* What an owner, an upload, an agent or the host does to them. *)
LEMMA OtherSteps ==
  ASSUME TypeInv, NEW l \in Laptops,
         \/ \E p \in Posts : SavePost(l, p) \/ DeletePost(l, p)
         \/ \E force \in BOOLEAN : BeginPublish(l, force)
         \/ GiveUpPublish(l) \/ Crash(l) \/ CatchUp(l, "loop") \/ UploadStep(l)
  PROVE  \A m \in Laptops : SequenceStep(m)
<1>1. site'[l].seq = site[l].seq /\ \A m \in Laptops \ {l} : site'[m] = site[m]
  <2>1. CASE \E p \in Posts : SavePost(l, p) \/ DeletePost(l, p)
    BY <2>1, SiteIs DEF SavePost, DeletePost, SiteCopy, TypeInv, TypeOK
  <2>2. CASE \/ \E force \in BOOLEAN : BeginPublish(l, force)
             \/ GiveUpPublish(l) \/ Crash(l) \/ CatchUp(l, "loop") \/ UploadStep(l)
    <3>1. UNCHANGED site
      BY <2>2 DEF BeginPublish, GiveUpPublish, Crash, CatchUp, UploadStep, TakeJob, ChooseUpload,
         UploadAnswer, Overtaken, Republish
    <3> QED
      BY <3>1
  <2> QED
    BY <2>1, <2>2
<1>2. \/ UNCHANGED op
      \/ op'[l].pc \in {"idle", "lookup", "takein"} /\ \A m \in Laptops \ {l} : op'[m] = op[m]
  <2>1. CASE \E p \in Posts : SavePost(l, p) \/ DeletePost(l, p)
    BY <2>1 DEF SavePost, DeletePost
  <2>2. ASSUME NEW force \in BOOLEAN, BeginPublish(l, force)
        PROVE  op'[l].pc = "lookup" /\ \A m \in Laptops \ {l} : op'[m] = op[m]
    <3> DEFINE o == [NoOp EXCEPT !.pc = "lookup", !.kind = "publish", !.by = "console",
                                 !.force = force, !.cid = Rendered(site[l].posts)]
    <3>1. o.pc = "lookup"
      BY DEF NoOp
    <3>2. op' = [op EXCEPT ![l] = o]
      BY <2>2 DEF BeginPublish
    <3> HIDE DEF o
    <3> QED
      BY <3>1, <3>2 DEF TypeInv, TypeOK
  <2>3. CASE GiveUpPublish(l)
    BY <2>3, FinishSteps DEF GiveUpPublish, Done
  <2>4. CASE Crash(l)
    BY <2>4 DEF Crash, NoOp, TypeInv, TypeOK
  <2>5. ASSUME NEW by \in {"loop", "upload"}, CatchUp(l, by)
        PROVE  \/ UNCHANGED op
               \/ op'[l].pc = "takein" /\ \A m \in Laptops \ {l} : op'[m] = op[m]
    BY <2>5, CatchUpTakesIn
  <2>6. CASE CatchUp(l, "loop") \/ CatchUp(l, "upload")
    BY <2>5, <2>6
  <2>7. CASE TakeJob(l) \/ ChooseUpload(l) \/ UploadAnswer(l) \/ Overtaken(l)
    BY <2>7 DEF TakeJob, ChooseUpload, UploadAnswer, Overtaken
  <2>8. CASE Republish(l)
    BY <2>8 DEF Republish, NoOp, TypeInv, TypeOK
  <2> QED
    BY <2>1, <2>2, <2>3, <2>4, <2>6, <2>7, <2>8 DEF UploadStep
<1>3. site[l].seq \in Nat
  BY SiteIs
<1>4. SequenceStep(l)
  BY <1>1, <1>2, <1>3 DEF SequenceStep
<1>5. OnlyOf(l)
  BY <1>1, <1>2 DEF OnlyOf
<1> QED
  BY <1>4, <1>5, AloneOf

LEMMA SequenceSteps ==
  ASSUME TypeInv, AheadInv, [Next]_vars
  PROVE  \A m \in Laptops : SequenceStep(m)
<1>1. CASE UNCHANGED vars \/ (\E a \in Agents : AgentPost(a))
           \/ (\E t \in Threads : HostAnswers(t) \/ LoseAnswer(t))
           \/ (\E p \in orphans : HostTakesOrphan(p))
  BY <1>1, NothingOf DEF vars, AgentPost, HostAnswers, LoseAnswer, HostTakesOrphan
<1>2. ASSUME NEW l \in Laptops, PublishStep(l)
      PROVE  \A m \in Laptops : SequenceStep(m)
  BY <1>2, LookupSteps, ExchangeSteps, AnnounceSteps, TakeInSteps DEF PublishStep
<1> QED
  BY <1>1, <1>2, OtherSteps, KeepaliveSteps DEF Next

(* A host that holds a version goes on to hold one. *)
LEMMA HostHolds ==
  ASSUME TypeInv, [Next]_vars, host.cid # NoVersion
  PROVE  host'.cid # NoVersion
<1>1. ASSUME NEW p \in Push, HostTakes(p)
      PROVE  host'.cid # NoVersion
  BY <1>1, PublisherAssumption DEF HostTakes, Push
<1>2. UNCHANGED host \/ \E p \in Push : HostTakes(p)
  <2>1. ASSUME NEW t \in Threads, HostAnswers(t)
        PROVE  UNCHANGED host \/ \E p \in Push : HostTakes(p)
    <3>1. call[t].push \in Push
      BY <2>1 DEF HostAnswers, TypeInv, TypeOK, Call, NoCall
    <3> QED
      BY <2>1, <3>1 DEF HostAnswers
  <2>2. ASSUME NEW p \in orphans, HostTakesOrphan(p)
        PROVE  UNCHANGED host \/ \E q \in Push : HostTakes(q)
    BY <2>2 DEF HostTakesOrphan, TypeInv, TypeOK
  <2>3. ASSUME NEW l \in Laptops, PublishStep(l) \/ UploadStep(l)
        PROVE  UNCHANGED host
    BY <2>3 DEF PublishStep, UploadStep, PublishLookup, PublishEntry, PublishAnswer, PublishOverride,
       PublishAnnounce, TakeIn, Renew, TakeJob, ChooseUpload, UploadAnswer, Overtaken, Republish, CatchUp
  <2>4. ASSUME NEW l \in Laptops,
               \/ \E p \in Posts : SavePost(l, p) \/ DeletePost(l, p)
               \/ \E force \in BOOLEAN : BeginPublish(l, force)
               \/ Keepalive(l) \/ CatchUp(l, "loop") \/ GiveUpPublish(l) \/ Crash(l)
        PROVE  UNCHANGED host
    BY <2>4 DEF SavePost, DeletePost, BeginPublish, Keepalive, CatchUp, GiveUpPublish, Crash
  <2>5. CASE UNCHANGED vars \/ (\E a \in Agents : AgentPost(a)) \/ (\E t \in Threads : LoseAnswer(t))
    BY <2>5 DEF vars, AgentPost, LoseAnswer
  <2> QED
    BY <2>1, <2>2, <2>3, <2>4, <2>5 DEF Next
<1> QED
  BY <1>1, <1>2

PublishInv == TypeInv /\ HeldInv /\ AheadInv

LEMMA PublishInvStep ==
  ASSUME PublishInv, [Next]_vars
  PROVE  PublishInv'
<1>1. TypeInv'
  BY NextTypes DEF PublishInv
<1>2. \A l \in Laptops : SequenceStep(l)
  BY SequenceSteps DEF PublishInv
<1>3. HeldInv'
  BY <1>2, HostHolds DEF PublishInv, HeldInv, SequenceStep
<1>4. AheadInv'
  BY <1>2 DEF PublishInv, AheadInv, SequenceStep
<1> QED
  BY <1>1, <1>3, <1>4 DEF PublishInv

LEMMA PublishInvKept == Spec => []PublishInv
<1>1. Init => PublishInv
  BY InitTypes DEF Init, PublishInv, HeldInv, AheadInv, NoOp
<1>2. PublishInv /\ [Next]_vars => PublishInv'
  BY PublishInvStep
<1> QED
  BY <1>1, <1>2, PTL DEF Spec

-----------------------------------------------------------------------------
(* Every variable keeps its type, for any number of laptops, agents, posts
   and faults: no operation announces an absent version, remembers one, or
   takes in more than two (Publish, rememberVersion, pushVersion). *)
THEOREM TypeCorrect == Spec => []TypeOK
<1>1. PublishInv => TypeOK
  BY DEF PublishInv, TypeInv
<1> QED
  BY <1>1, PublishInvKept, PTL

(* A laptop's sequence never goes down, in whatever order the answers of the
   host and the network, renewals and crashes reach it (pull, published,
   Keepalive). *)
THEOREM SequenceMonotone == Spec => LaptopSequenceNeverGoesDown
<1>1. PublishInv /\ [Next]_vars => [\A l \in Laptops : site'[l].seq >= site[l].seq]_vars
  <2> SUFFICES ASSUME PublishInv, [Next]_vars
               PROVE  \A l \in Laptops : site'[l].seq >= site[l].seq
    OBVIOUS
  <2> TAKE l \in Laptops
  <2>1. SequenceStep(l) /\ site[l].seq \in Nat
    BY SequenceSteps, SiteIs DEF PublishInv
  <2> QED
    BY <2>1 DEF SequenceStep
<1> QED
  BY <1>1, PublishInvKept, PTL DEF Spec, LaptopSequenceNeverGoesDown

-----------------------------------------------------------------------------
(* Sequences.  One that a laptop, its upload or the host has was announced, or
   a higher one was. *)
Reached(n) == n = 0 \/ \E r \in announced : n <= r.seq

(* A laptop that has published, or goes on from a version, has a sequence. *)
Stands(l) ==
  /\ site[l].last # NoVersion => site[l].seq > 0
  /\ op[l].pc \in {"await", "takein"} \/ op[l].base # NoVersion => site[l].seq > 0
  /\ Reached(site[l].seq)
  /\ op[l].pc = "takein" => Reached(op[l].behind.seq)

StandInv == \A l \in Laptops : Stands(l)

(* What a step does to them. *)
ReachedThen(n) == n = 0 \/ \E r \in announced' : n <= r.seq

StandStep(l) ==
  /\ site'[l].last = site[l].last \/ site'[l].seq > 0
  /\ op'[l].pc \in {"await", "takein"} \/ op'[l].base # NoVersion => site[l].seq > 0
  /\ ReachedThen(site'[l].seq)
  /\ op'[l].pc = "takein" => ReachedThen(op'[l].behind.seq)

LEMMA AnnouncedGrows ==
  ASSUME [Next]_vars
  PROVE  announced \subseteq announced'
<1>1. ASSUME NEW l \in Laptops, PublishStep(l) \/ UploadStep(l)
      PROVE  announced \subseteq announced'
  BY <1>1 DEF PublishStep, UploadStep, PublishLookup, PublishEntry, PublishAnswer, PublishOverride,
     PublishAnnounce, TakeIn, Renew, TakeJob, ChooseUpload, UploadAnswer, Overtaken, Republish, CatchUp
<1>2. ASSUME NEW l \in Laptops,
             \/ \E p \in Posts : SavePost(l, p) \/ DeletePost(l, p)
             \/ \E force \in BOOLEAN : BeginPublish(l, force)
             \/ Keepalive(l) \/ CatchUp(l, "loop") \/ GiveUpPublish(l) \/ Crash(l)
      PROVE  announced \subseteq announced'
  BY <1>2 DEF SavePost, DeletePost, BeginPublish, Keepalive, CatchUp, GiveUpPublish, Crash
<1>3. CASE UNCHANGED vars \/ (\E a \in Agents : AgentPost(a)) \/ (\E t \in Threads : LoseAnswer(t))
  BY <1>3 DEF vars, AgentPost, LoseAnswer
<1>4. ASSUME NEW q, HostTakes(q)
      PROVE  announced \subseteq announced'
  BY <1>4 DEF HostTakes
<1>5. CASE (\E t \in Threads : HostAnswers(t)) \/ (\E q \in orphans : HostTakesOrphan(q))
  BY <1>4, <1>5 DEF HostAnswers, HostTakesOrphan
<1> QED
  BY <1>1, <1>2, <1>3, <1>5 DEF Next

LEMMA ReachedStays ==
  ASSUME announced \subseteq announced', NEW n, Reached(n)
  PROVE  ReachedThen(n)
  BY DEF Reached, ReachedThen

LEMMA AnswerReached ==
  ASSUME TypeInv, Reached(host.seq), NEW a \in LatestAnswers, ~NoAnswer(a.is)
  PROVE  Reached(a.is.seq)
<1>1. PICK n \in NetworkAnswers :
        \/ a = n
        \/ host.cid # NoVersion /\ a = [n EXCEPT !.is = host]
        \/ a = [n EXCEPT !.faults = @ \cup {"host"}]
  BY Zenon DEF LatestAnswers
<1>2. n = [is |-> n.is, faults |-> n.faults]
  BY NetworkAnswersIs DEF TypeInv, TypeOK
<1>3. a.is = n.is \/ a.is = host
  BY <1>1, <1>2
<1>4. n.is \in announced \/ NoAnswer(n.is)
  <2>1. ASSUME NEW r \in Newest, n = [is |-> r, faults |-> {}]
        PROVE  n.is \in announced
    BY <2>1 DEF Newest
  <2>2. CASE n = [is |-> NoRecord, faults |-> {}]
    BY <2>2 DEF NoAnswer
  <2>3. CASE n \in [is : announced \cup {NoRecord, Unreachable}, faults : {{"network"}}]
    BY <2>3 DEF NoAnswer
  <2> QED
    BY <2>1, <2>2, <2>3 DEF NetworkAnswers
<1>5. n.is \in announced => Reached(n.is.seq)
  <2> SUFFICES ASSUME n.is \in announced PROVE n.is.seq <= n.is.seq
    BY DEF Reached
  <2> QED
    BY DEF TypeInv, TypeOK, Record
<1> QED
  BY <1>3, <1>4, <1>5

LEMMA OthersStand ==
  ASSUME StandInv, announced \subseteq announced', NEW l \in Laptops, OnlyOf(l), StandStep(l)
  PROVE  \A m \in Laptops : StandStep(m)
<1> SUFFICES ASSUME NEW m \in Laptops \ {l} PROVE StandStep(m)
  OBVIOUS
<1>1. Stands(m) /\ op'[m] = op[m] /\ site'[m] = site[m]
  BY DEF StandInv, OnlyOf
<1> QED
  BY <1>1, ReachedStays DEF Stands, StandStep

LEMMA NothingStands ==
  ASSUME StandInv, announced \subseteq announced', UNCHANGED <<op, site>>
  PROVE  \A m \in Laptops : StandStep(m)
<1> SUFFICES ASSUME NEW m \in Laptops PROVE StandStep(m)
  OBVIOUS
<1>1. Stands(m) /\ op'[m] = op[m] /\ site'[m] = site[m]
  BY DEF StandInv
<1> QED
  BY <1>1, ReachedStays DEF Stands, StandStep

(* A step of an operation that leaves the last version and its sequence. *)
LEMMA OperationStands ==
  ASSUME StandInv, announced \subseteq announced', NEW l \in Laptops,
         \A m \in Laptops \ {l} : op'[m] = op[m] /\ site'[m] = site[m],
         site'[l].last = site[l].last, site'[l].seq = site[l].seq,
         op'[l].pc \in {"await", "takein"} \/ op'[l].base # NoVersion => site[l].seq > 0,
         op'[l].pc = "takein" => Reached(op'[l].behind.seq)
  PROVE  \A m \in Laptops : StandStep(m)
<1>1. Stands(l)
  BY DEF StandInv
<1>2. StandStep(l)
  BY <1>1, ReachedStays DEF Stands, StandStep
<1> QED
  BY <1>2, OthersStand DEF OnlyOf

LEMMA FinishStands ==
  ASSUME TypeInv, StandInv, announced \subseteq announced', NEW l \in Laptops, Finish(l), UNCHANGED site
  PROVE  \A m \in Laptops : StandStep(m)
<1>1. /\ op'[l].pc = "idle" /\ op'[l].base = NoVersion
      /\ \A m \in Laptops \ {l} : op'[m] = op[m]
  BY DEF Finish, NoOp, TypeInv, TypeOK
<1> QED
  BY <1>1, OperationStands

LEMMA BehindStands ==
  ASSUME TypeInv, StandInv, NEW l \in Laptops, NEW rec, Behind(l, rec), Reached(rec.seq),
         site[l].seq > 0, UNCHANGED <<site, announced>>
  PROVE  \A m \in Laptops : StandStep(m)
<1>1. CASE Done(l)
  BY <1>1, FinishStands DEF Done
<1>2. CASE op' = [op EXCEPT ![l].pc = "takein", ![l].behind = rec]
  <2>1. /\ op'[l].pc = "takein" /\ op'[l].behind = rec
        /\ \A m \in Laptops \ {l} : op'[m] = op[m]
    BY <1>2, OpIs DEF TypeInv, TypeOK, Operation
  <2> QED
    BY <2>1, OperationStands
<1> QED
  BY <1>1, <1>2 DEF Behind

LEMMA LookupStands ==
  ASSUME TypeInv, StandInv, Reached(host.seq), NEW l \in Laptops, PublishLookup(l)
  PROVE  \A m \in Laptops : StandStep(m)
<1> DEFINE Base == IF op[l].base = NoVersion THEN site[l].last ELSE op[l].base
           Read(a) == IF ~NoAnswer(a.is) /\ ownVersion(site[l], a.is.cid)
                      THEN [cid |-> Base, seq |-> a.is.seq] ELSE a.is
<1>1. PICK a \in LatestAnswers :
        \/ PublishedElsewhere(site[l].seq, Base, Read(a), op[l].force) /\ Behind(l, Read(a))
        \/ Done(l)
        \/ op' = [op EXCEPT ![l].pc = IF op[l].force THEN "override" ELSE "entry",
                            ![l].base = Base, ![l].seq = nextSequence(site[l].seq, Read(a))]
  BY Zenon DEF PublishLookup
<1>2. UNCHANGED <<site, announced>> /\ op[l] \in Operation /\ op \in [Laptops -> Operation] /\ Stands(l)
  BY OpIs DEF PublishLookup, TypeInv, TypeOK, StandInv
<1>3. CASE PublishedElsewhere(site[l].seq, Base, Read(a), op[l].force) /\ Behind(l, Read(a))
  <2>1. site[l].seq > 0 /\ ~NoAnswer(a.is)
    BY <1>3 DEF PublishedElsewhere, NoAnswer
  <2>2. Reached(Read(a).seq)
    BY <2>1, AnswerReached
  <2> HIDE DEF Base, Read
  <2> QED
    BY <1>2, <1>3, <2>1, <2>2, BehindStands
<1>4. CASE Done(l)
  BY <1>2, <1>4, FinishStands DEF Done
<1>5. Base # NoVersion => site[l].seq > 0
  BY <1>2 DEF Stands
<1> DEFINE seq == nextSequence(site[l].seq, Read(a))
<1> HIDE DEF Base, Read, seq
<1>6. CASE op' = [op EXCEPT ![l].pc = IF op[l].force THEN "override" ELSE "entry",
                            ![l].base = Base, ![l].seq = seq]
  <2>1. /\ op'[l].pc \in {"entry", "override"} /\ op'[l].base = Base
        /\ \A m \in Laptops \ {l} : op'[m] = op[m]
    BY <1>2, <1>6 DEF Operation
  <2> QED
    BY <1>2, <1>5, <2>1, OperationStands
<1> QED
  BY <1>1, <1>3, <1>4, <1>6 DEF seq

LEMMA EntryStands ==
  ASSUME TypeInv, StandInv, Reached(host.seq), NEW l \in Laptops,
         PublishEntry(l) \/ PublishAnswer(l) \/ PublishOverride(l)
  PROVE  \A m \in Laptops : StandStep(m)
<1>1. /\ UNCHANGED announced /\ op[l].pc \in {"entry", "await", "override"}
      /\ op[l] \in Operation /\ op \in [Laptops -> Operation] /\ Stands(l)
  BY OpIs DEF PublishEntry, PublishAnswer, PublishOverride, TypeInv, TypeOK, StandInv
<1>2. /\ site'[l].last = site[l].last /\ site'[l].seq = site[l].seq
      /\ \A m \in Laptops \ {l} : site'[m] = site[m]
  BY SiteIs DEF PublishEntry, PublishAnswer, PublishOverride, SiteCopy, TypeInv, TypeOK
<1>3. \/ Behind(l, host) /\ (op[l].pc = "await" \/ op[l].base # NoVersion) /\ UNCHANGED site
      \/ Done(l) /\ UNCHANGED site
      \/ op' = [op EXCEPT ![l].pc = "await"] /\ op[l].base # NoVersion
      \/ op' = [op EXCEPT ![l].pc = "announce"]
      \/ op' = [op EXCEPT ![l].pc = "announce", ![l].synced = TRUE]
  BY DEF PublishEntry, PublishAnswer, PublishOverride
<1>4. CASE Behind(l, host) /\ (op[l].pc = "await" \/ op[l].base # NoVersion) /\ UNCHANGED site
  BY <1>1, <1>4, BehindStands DEF Stands
<1>5. CASE Done(l) /\ UNCHANGED site
  BY <1>1, <1>5, FinishStands DEF Done
<1>6. CASE \/ op' = [op EXCEPT ![l].pc = "await"] /\ op[l].base # NoVersion
           \/ op' = [op EXCEPT ![l].pc = "announce"]
           \/ op' = [op EXCEPT ![l].pc = "announce", ![l].synced = TRUE]
  <2>1. /\ op'[l].pc \in {"await", "announce"} /\ op'[l].base = op[l].base
        /\ op'[l].pc = "await" => op[l].base # NoVersion
        /\ \A m \in Laptops \ {l} : op'[m] = op[m]
    BY <1>1, <1>6 DEF Operation
  <2> QED
    BY <1>1, <1>2, <2>1, OperationStands DEF Stands
<1> QED
  BY <1>3, <1>4, <1>5, <1>6

(* A version or a renewal is announced under the sequence it is saved with. *)
LEMMA AnnounceStands ==
  ASSUME TypeInv, AheadInv, StandInv, announced \subseteq announced', NEW l \in Laptops,
         PublishAnnounce(l) \/ Renew(l)
  PROVE  \A m \in Laptops : StandStep(m)
<1>1. CASE UNCHANGED site
  BY <1>1, FinishStands DEF PublishAnnounce, Renew
<1>2. CASE announced' = announced \cup {[cid |-> op[l].cid, seq |-> op[l].seq]} /\ site' # site
  <2>1. op[l].seq > site[l].seq /\ site[l].seq \in Nat /\ op[l].seq \in Nat /\ site[l] \in SiteCopy
    BY OpIs, SiteIs DEF AheadInv, PublishAnnounce, Renew
  <2>2. site'[l].seq = op[l].seq /\ \A m \in Laptops \ {l} : site'[m] = site[m]
    BY <1>2, <2>1 DEF PublishAnnounce, Renew, Published, SiteCopy, TypeInv, TypeOK
  <2>3. /\ op'[l].pc = "idle" /\ op'[l].base = NoVersion
        /\ \A m \in Laptops \ {l} : op'[m] = op[m]
    BY DEF PublishAnnounce, Renew, Finish, NoOp, TypeInv, TypeOK
  <2>4. ReachedThen(op[l].seq)
    <3>1. [cid |-> op[l].cid, seq |-> op[l].seq] \in announced'
      BY <1>2
    <3>2. [cid |-> op[l].cid, seq |-> op[l].seq].seq = op[l].seq /\ op[l].seq <= op[l].seq
      BY <2>1
    <3> QED
      BY <3>1, <3>2 DEF ReachedThen
  <2>5. StandStep(l)
    BY <2>1, <2>2, <2>3, <2>4 DEF StandStep
  <2> QED
    BY <2>2, <2>3, <2>5, OthersStand DEF OnlyOf
<1> QED
  BY <1>1, <1>2 DEF PublishAnnounce, Renew

LEMMA TakeInStands ==
  ASSUME TypeInv, StandInv, NEW l \in Laptops, TakeIn(l)
  PROVE  \A m \in Laptops : StandStep(m)
<1>1. /\ site[l].seq \in Nat /\ op[l].behind.seq \in Nat /\ site[l] \in SiteCopy /\ op[l] \in Operation
      /\ op \in [Laptops -> Operation] /\ site \in [Laptops -> SiteCopy]
  BY OpIs, SiteIs DEF TakeIn, OperationOK, Job, Record, TypeInv, TypeOK
<1>2. /\ site[l].seq > 0 /\ Reached(site[l].seq) /\ Reached(op[l].behind.seq)
      /\ announced' = announced
  BY DEF StandInv, Stands, TakeIn
<1>3. op'[l].pc \in {"idle", "lookup"} /\ \A m \in Laptops \ {l} : op'[m] = op[m]
  <2>1. CASE Done(l)
    BY <2>1, FinishSteps DEF Done
  <2>2. ASSUME NEW base, NEW c,
               op' = [op EXCEPT ![l] = [op[l] EXCEPT !.pc = "lookup", !.attempt = @ + 1,
                                          !.base = base, !.cid = c, !.behind = NoJob]]
        PROVE  op'[l].pc = "lookup" /\ \A m \in Laptops \ {l} : op'[m] = op[m]
    BY <1>1, <2>2 DEF Operation
  <2>3. \/ Done(l)
        \/ op' = [op EXCEPT ![l] = [op[l] EXCEPT !.pc = "lookup", !.attempt = @ + 1,
                     !.base = op[l].behind.cid,
                     !.cid = Rendered(Merged(site[l], op[l].behind.cid)), !.behind = NoJob]]
    BY DEF TakeIn
  <2> QED
    BY <2>1, <2>2, <2>3
<1>4. /\ site'[l].seq \in {SequenceAfter(site[l], op[l].behind), site[l].seq}
      /\ \A m \in Laptops \ {l} : site'[m] = site[m]
  BY TakeInSite
<1>5. /\ SequenceAfter(site[l], op[l].behind) \in {site[l].seq, op[l].behind.seq}
      /\ SequenceAfter(site[l], op[l].behind) >= site[l].seq
  BY <1>1, LargerOf DEF SequenceAfter, Larger
<1>6. Reached(site'[l].seq) /\ site'[l].seq > 0
  BY <1>1, <1>2, <1>4, <1>5
<1>7. StandStep(l)
  BY <1>2, <1>3, <1>6, ReachedStays DEF StandStep
<1> QED
  BY <1>2, <1>3, <1>4, <1>7, OthersStand DEF OnlyOf

LEMMA KeepaliveStands ==
  ASSUME TypeInv, StandInv, Reached(host.seq), NEW l \in Laptops, Keepalive(l)
  PROVE  \A m \in Laptops : StandStep(m)
<1>1. site[l].seq > 0 /\ site[l].seq # 0 /\ UNCHANGED announced
  BY SiteIs DEF StandInv, Stands, Keepalive
<1>2. PICK a \in LatestAnswers :
        /\ ~NoAnswer(a.is)
        /\ \/ op' = [op EXCEPT ![l] = [NoOp EXCEPT !.pc = "takein", !.kind = "keepalive",
                                                   !.by = "loop", !.behind = a.is]]
           \/ op' = [op EXCEPT ![l] = [NoOp EXCEPT !.pc = "renew", !.kind = "keepalive",
                         !.by = "loop", !.cid = site[l].last, !.seq = Larger(a.is.seq, site[l].seq) + 1]]
        /\ UNCHANGED site
  BY <1>1, Zenon DEF Keepalive
<1>3. Reached(a.is.seq)
  BY <1>2, AnswerReached
<1>4. /\ op'[l].pc \in {"takein", "renew"} /\ \A m \in Laptops \ {l} : op'[m] = op[m]
      /\ op'[l].pc = "takein" => op'[l].behind = a.is
  <2>1. CASE op' = [op EXCEPT ![l] = [NoOp EXCEPT !.pc = "takein", !.kind = "keepalive",
                                                  !.by = "loop", !.behind = a.is]]
    BY <2>1 DEF NoOp, TypeInv, TypeOK
  <2>2. ASSUME NEW seq,
               op' = [op EXCEPT ![l] = [NoOp EXCEPT !.pc = "renew", !.kind = "keepalive",
                                          !.by = "loop", !.cid = site[l].last, !.seq = seq]]
        PROVE  op'[l].pc = "renew" /\ \A m \in Laptops \ {l} : op'[m] = op[m]
    BY <2>2 DEF NoOp, TypeInv, TypeOK
  <2> QED
    BY <1>2, <2>1, <2>2
<1> QED
  BY <1>1, <1>2, <1>3, <1>4, OperationStands

LEMMA CatchUpStands ==
  ASSUME TypeInv, StandInv, Reached(host.seq), NEW l \in Laptops, NEW by, CatchUp(l, by)
  PROVE  \A m \in Laptops : StandStep(m)
<1>1. site[l].seq > 0 /\ UNCHANGED <<announced, site>>
  BY DEF StandInv, Stands, CatchUp
<1>2. CASE UNCHANGED op
  BY <1>1, <1>2, NothingStands
<1>3. CASE op' = [op EXCEPT ![l] = [NoOp EXCEPT !.pc = "takein", !.kind = "catchup",
                                                !.by = by, !.behind = host]]
  <2>1. op'[l].behind = host /\ \A m \in Laptops \ {l} : op'[m] = op[m]
    BY <1>3 DEF NoOp, TypeInv, TypeOK
  <2> QED
    BY <1>1, <2>1, OperationStands
<1> QED
  BY <1>2, <1>3 DEF CatchUp

(* A publish begins with no version to build on. *)
LEMMA BeginsStand ==
  ASSUME TypeInv, StandInv, NEW l \in Laptops, UNCHANGED <<site, announced>>, NEW by, NEW force, NEW c,
         op' = [op EXCEPT ![l] = [NoOp EXCEPT !.pc = "lookup", !.kind = "publish", !.by = by,
                                              !.force = force, !.cid = c]]
  PROVE  \A m \in Laptops : StandStep(m)
<1>1. /\ op'[l].pc = "lookup" /\ op'[l].base = NoVersion
      /\ \A m \in Laptops \ {l} : op'[m] = op[m]
  BY DEF NoOp, TypeInv, TypeOK
<1> QED
  BY <1>1, OperationStands

LEMMA OtherStands ==
  ASSUME TypeInv, StandInv, Reached(host.seq), NEW l \in Laptops,
         \/ \E p \in Posts : SavePost(l, p) \/ DeletePost(l, p)
         \/ \E force \in BOOLEAN : BeginPublish(l, force)
         \/ GiveUpPublish(l) \/ Crash(l) \/ CatchUp(l, "loop") \/ UploadStep(l)
  PROVE  \A m \in Laptops : StandStep(m)
<1>1. ASSUME NEW p \in Posts, SavePost(l, p) \/ DeletePost(l, p)
      PROVE  \A m \in Laptops : StandStep(m)
  <2>1. /\ site'[l].last = site[l].last /\ site'[l].seq = site[l].seq
        /\ \A m \in Laptops \ {l} : site'[m] = site[m]
        /\ UNCHANGED <<op, announced>> /\ Stands(l)
    BY <1>1, SiteIs DEF SavePost, DeletePost, SiteCopy, TypeInv, TypeOK, StandInv
  <2> QED
    BY <2>1, OperationStands DEF Stands
<1>2. ASSUME NEW force \in BOOLEAN, BeginPublish(l, force)
      PROVE  \A m \in Laptops : StandStep(m)
  <2> DEFINE c == Rendered(site[l].posts)
  <2>1. /\ UNCHANGED <<site, announced>>
        /\ op' = [op EXCEPT ![l] = [NoOp EXCEPT !.pc = "lookup", !.kind = "publish", !.by = "console",
                                                !.force = force, !.cid = c]]
    BY <1>2 DEF BeginPublish
  <2> HIDE DEF c
  <2> QED
    BY <2>1, BeginsStand
<1>3. CASE GiveUpPublish(l)
  BY <1>3, FinishStands DEF GiveUpPublish, Done
<1>4. CASE Crash(l)
  BY <1>4, FinishStands DEF Crash, Finish
<1>5. CASE CatchUp(l, "loop") \/ CatchUp(l, "upload")
  BY <1>5, CatchUpStands
<1>6. CASE TakeJob(l) \/ ChooseUpload(l) \/ UploadAnswer(l) \/ Overtaken(l)
  BY <1>6, NothingStands DEF TakeJob, ChooseUpload, UploadAnswer, Overtaken
<1>7. CASE Republish(l)
  <2> DEFINE c == Rendered(site[l].posts)
  <2>1. /\ UNCHANGED <<site, announced>>
        /\ op' = [op EXCEPT ![l] = [NoOp EXCEPT !.pc = "lookup", !.kind = "publish", !.by = "upload",
                                                !.cid = c]]
    BY <1>7 DEF Republish
  <2> HIDE DEF c
  <2>2. /\ op'[l].pc = "lookup" /\ op'[l].base = NoVersion
        /\ \A m \in Laptops \ {l} : op'[m] = op[m]
    BY <2>1 DEF NoOp, TypeInv, TypeOK
  <2> QED
    BY <2>1, <2>2, OperationStands
<1> QED
  BY <1>1, <1>2, <1>3, <1>4, <1>5, <1>6, <1>7 DEF UploadStep

LEMMA StandSteps ==
  ASSUME TypeInv, AheadInv, StandInv, Reached(host.seq), [Next]_vars
  PROVE  \A m \in Laptops : StandStep(m)
<1>1. CASE UNCHANGED vars \/ (\E a \in Agents : AgentPost(a))
           \/ (\E t \in Threads : HostAnswers(t) \/ LoseAnswer(t))
           \/ (\E p \in orphans : HostTakesOrphan(p))
  BY <1>1, AnnouncedGrows, NothingStands DEF vars, AgentPost, HostAnswers, LoseAnswer, HostTakesOrphan
<1>2. ASSUME NEW l \in Laptops, PublishStep(l)
      PROVE  \A m \in Laptops : StandStep(m)
  BY <1>2, AnnouncedGrows, LookupStands, EntryStands, AnnounceStands, TakeInStands DEF PublishStep
<1> QED
  BY <1>1, <1>2, OtherStands, KeepaliveStands DEF Next

LEMMA StandKept ==
  ASSUME PublishInv, PublishInv', StandInv, Reached(host.seq), [Next]_vars
  PROVE  StandInv'
<1> SUFFICES ASSUME NEW l \in Laptops PROVE Stands(l)'
  BY DEF StandInv
<1>1. Stands(l) /\ StandStep(l) /\ SequenceStep(l)
  BY StandSteps, SequenceSteps DEF PublishInv, StandInv
<1>2. site[l].seq \in Nat /\ site'[l].seq \in Nat
  BY SiteIs DEF PublishInv, TypeInv, TypeOK, SiteCopy
<1>3. site'[l].seq >= site[l].seq
  BY <1>1, <1>2 DEF SequenceStep
<1> QED
  BY <1>1, <1>2, <1>3 DEF Stands, StandStep, Reached, ReachedThen

-----------------------------------------------------------------------------
(* No post is lost everywhere.  What a laptop has, or has deleted; the
   versions it takes for its own; and the posts that are accounted for
   without the host. *)
Have(l) == site[l].posts \cup site[l].deleted
Own(l) == ToSet(site[l].versions) \cup ({site[l].last} \ {NoVersion})
Kept == waived \cup UNION {Have(l) : l \in Laptops}

Publishing == {"lookup", "entry", "await", "override", "announce"}

(* A laptop has the posts of every version it takes for its own, but those its
   owner went over. *)
KnownInv == \A l \in Laptops : \A v \in Own(l) : v.posts \subseteq Have(l) \cup waived

(* It has the posts it is publishing, and those of the version they are built
   on. *)
BuiltInv ==
  \A l \in Laptops : op[l].pc \in Publishing =>
    /\ op[l].cid.posts \subseteq Have(l)
    /\ op[l].base # NoVersion => op[l].base.posts \subseteq Have(l) \cup waived

(* So it has the posts of the versions that wait for the upload. *)
Jobs(l) == {upload[l].job, upload[l].pending}
JobOK(j) == j.cid # NoVersion => j.cid.posts \subseteq Kept /\ Reached(j.seq)

JobInv == \A l \in Laptops : \A j \in Jobs(l) : JobOK(j)

(* A push on its way, waited for or not.  One that names the version it
   replaces drops of that version's posts only what a laptop has.  One that
   goes whole names none, and goes over every lower sequence. *)
Underway == {call[t].push : t \in {u \in Threads : call[u].st = "sent"}} \cup orphans
Wholes == {q \in Underway : q.parent = NoVersion}

Covered(q) == q.parent # NoVersion => q.parent.posts \subseteq q.cid.posts \cup Kept

(* No push that goes whole goes over this one. *)
Late(q) == q.parent # NoVersion /\ \A w \in Wholes : w.seq < q.seq

PushInv ==
  \A q \in Underway :
    /\ Covered(q)
    /\ q.cid.posts \subseteq Kept \/ Late(q)
    /\ q.parent = NoVersion => Reached(q.seq)

(* A host that holds no version was sent none but the laptops'.  What it has
   held is in the version it holds, or a laptop has it; and pushes that go
   whole drop nothing else, or come too late. *)
HostInv ==
  /\ Reached(host.seq)
  /\ host.cid = NoVersion => held = {} /\ \A q \in Underway : q.cid.posts \subseteq Kept
  /\ host.cid # NoVersion => held \subseteq host.cid.posts \cup Kept
  /\ \A w \in Wholes : held \subseteq Kept \/ w.seq < host.seq
  /\ "network" \in Faults => host.cid # NoVersion /\ Wholes = {}

RecoverInv == PublishInv /\ StandInv /\ KnownInv /\ BuiltInv /\ JobInv /\ PushInv /\ HostInv

LEMMA RememberedVersions ==
  ASSUME NEW list \in Seq(Version), NEW c \in Version \cup {NoVersion}
  PROVE  ToSet(rememberVersion(list, c)) \subseteq ToSet(list) \cup ({c} \ {NoVersion})
<1>1. CASE c = NoVersion \/ c \in ToSet(list)
  BY <1>1 DEF rememberVersion
<1>2. CASE c \in Version /\ c # NoVersion /\ c \notin ToSet(list)
  <2> DEFINE longer == Append(list, c)
  <2>1. /\ longer \in Seq(Version) /\ longer # <<>> /\ Len(longer) = Len(list) + 1
        /\ \A i \in 1..Len(list) : longer[i] = list[i]
        /\ longer[Len(list) + 1] = c
    BY <1>2, AppendProperties
  <2>2. /\ Tail(longer) \in Seq(Version) /\ Len(Tail(longer)) = Len(longer) - 1
        /\ \A i \in 1..Len(Tail(longer)) : Tail(longer)[i] = longer[i + 1]
    BY <2>1, HeadTailProperties
  <2> HIDE DEF longer
  <2>3. Len(list) \in Nat /\ DOMAIN list = 1..Len(list) /\ DOMAIN longer = 1..Len(longer)
        /\ DOMAIN Tail(longer) = 1..Len(Tail(longer))
    BY <2>1, <2>2, LenProperties
  <2>4. \A i \in DOMAIN longer : longer[i] \in ToSet(list) \cup {c}
    BY <2>1, <2>3 DEF ToSet
  <2>5. \A i \in DOMAIN Tail(longer) : Tail(longer)[i] \in ToSet(list) \cup {c}
    BY <2>1, <2>2, <2>3, <2>4
  <2>6. ToSet(longer) \subseteq ToSet(list) \cup {c} /\ ToSet(Tail(longer)) \subseteq ToSet(list) \cup {c}
    BY <2>4, <2>5 DEF ToSet
  <2>7. rememberVersion(list, c) \in {longer, Tail(longer)}
    BY <1>2 DEF rememberVersion, longer
  <2> QED
    BY <1>2, <2>6, <2>7
<1> QED
  BY <1>1, <1>2

(* What a step does to the copy of a laptop and to what it publishes. *)
CopyStep(l) ==
  /\ Have(l) \subseteq Have(l)'
  /\ \A v \in Own(l)' : v \in Own(l) \/ v.posts \subseteq Have(l)' \cup waived'

BuildStep(l) ==
  op'[l].pc \in Publishing =>
    \/ /\ op[l].pc \in Publishing /\ op'[l].cid = op[l].cid
       /\ op'[l].base \in {op[l].base, site[l].last}
    \/ /\ op'[l].cid.posts \subseteq Have(l)'
       /\ op'[l].base # NoVersion => op'[l].base.posts \subseteq Have(l)'

PostsStep(l) == CopyStep(l) /\ BuildStep(l)

LEMMA OthersPosts ==
  ASSUME NEW l \in Laptops, OnlyOf(l), PostsStep(l)
  PROVE  \A m \in Laptops : PostsStep(m)
<1>1. ASSUME NEW m \in Laptops \ {l}
      PROVE  PostsStep(m)
  BY DEF OnlyOf, PostsStep, CopyStep, BuildStep, Have, Own
<1> QED
  BY <1>1

LEMMA SameCopies ==
  ASSUME NEW l \in Laptops, site'[l] = site[l]
  PROVE  CopyStep(l)
  BY DEF CopyStep, Have, Own

LEMMA NothingPosts ==
  ASSUME UNCHANGED <<op, site>>
  PROVE  \A m \in Laptops : PostsStep(m)
  BY DEF PostsStep, CopyStep, BuildStep, Have, Own

LEMMA SavePosts ==
  ASSUME TypeInv, NEW l \in Laptops, NEW p \in Posts, SavePost(l, p) \/ DeletePost(l, p)
  PROVE  \A m \in Laptops : PostsStep(m)
<1>1. UNCHANGED op /\ site[l] \in SiteCopy /\ site \in [Laptops -> SiteCopy]
  BY SiteIs DEF SavePost, DeletePost, TypeInv, TypeOK
<1>2. /\ \A m \in Laptops \ {l} : site'[m] = site[m]
      /\ site'[l].last = site[l].last /\ site'[l].versions = site[l].versions
      /\ Have(l) \subseteq Have(l)'
  <2>1. CASE SavePost(l, p)
    <3>1. site'[l] = [site[l] EXCEPT !.posts = @ \cup {p}] /\ \A m \in Laptops \ {l} : site'[m] = site[m]
      BY <1>1, <2>1 DEF SavePost
    <3> QED
      BY <1>1, <3>1 DEF SiteCopy, Have
  <2>2. CASE DeletePost(l, p)
    <3>1. /\ site'[l] = [site[l] EXCEPT !.posts = @ \ {p}, !.deleted = @ \cup {p}]
          /\ \A m \in Laptops \ {l} : site'[m] = site[m]
      BY <1>1, <2>2 DEF DeletePost
    <3> QED
      BY <1>1, <3>1 DEF SiteCopy, Have
  <2> QED
    BY <2>1, <2>2
<1>3. CopyStep(l) /\ BuildStep(l)
  BY <1>1, <1>2 DEF CopyStep, BuildStep, Own
<1> QED
  BY <1>1, <1>2, <1>3, OthersPosts DEF OnlyOf, PostsStep

(* A step of an operation that leaves the copy as it was. *)
LEMMA BuildSteps ==
  ASSUME NEW l \in Laptops, UNCHANGED site, \A m \in Laptops \ {l} : op'[m] = op[m], BuildStep(l)
  PROVE  \A m \in Laptops : PostsStep(m)
  BY SameCopies, OthersPosts DEF OnlyOf, PostsStep

(* A publish of what the laptop has begins. *)
LEMMA RenderedIs ==
  ASSUME NEW posts
  PROVE  Rendered(posts).posts = posts
  BY DEF Rendered

LEMMA BeginsPosts ==
  ASSUME TypeInv, NEW l \in Laptops, UNCHANGED site,
         NEW by, NEW force,
         op' = [op EXCEPT ![l] = [NoOp EXCEPT !.pc = "lookup", !.kind = "publish", !.by = by,
                                              !.force = force, !.cid = Rendered(site[l].posts)]]
  PROVE  \A m \in Laptops : PostsStep(m)
<1> DEFINE c == Rendered(site[l].posts)
<1>1. c.posts \subseteq Have(l)'
  BY RenderedIs DEF Have
<1> HIDE DEF c
<1>2. op'[l].cid = c /\ op'[l].base = NoVersion /\ \A m \in Laptops \ {l} : op'[m] = op[m]
  BY DEF NoOp, TypeInv, TypeOK, c
<1> QED
  BY <1>1, <1>2, BuildSteps DEF BuildStep

LEMMA IdlePosts ==
  ASSUME NEW l \in Laptops, UNCHANGED site, op'[l].pc \notin Publishing,
         \A m \in Laptops \ {l} : op'[m] = op[m]
  PROVE  \A m \in Laptops : PostsStep(m)
  BY BuildSteps DEF BuildStep

LEMMA LookupPosts ==
  ASSUME TypeInv, NEW l \in Laptops, PublishLookup(l)
  PROVE  \A m \in Laptops : PostsStep(m)
<1> DEFINE Base == IF op[l].base = NoVersion THEN site[l].last ELSE op[l].base
           Read(a) == IF ~NoAnswer(a.is) /\ ownVersion(site[l], a.is.cid)
                      THEN [cid |-> Base, seq |-> a.is.seq] ELSE a.is
<1>1. PICK a \in LatestAnswers :
        \/ Behind(l, Read(a))
        \/ Done(l)
        \/ op' = [op EXCEPT ![l].pc = IF op[l].force THEN "override" ELSE "entry",
                            ![l].base = Base, ![l].seq = nextSequence(site[l].seq, Read(a))]
  BY Zenon DEF PublishLookup
<1>2. UNCHANGED site /\ op[l] \in Operation /\ op[l].pc = "lookup" /\ op \in [Laptops -> Operation]
  BY OpIs DEF PublishLookup, TypeInv, TypeOK
<1>3. Base \in {op[l].base, site[l].last}
  OBVIOUS
<1> DEFINE seq == nextSequence(site[l].seq, Read(a))
<1> HIDE DEF Base, Read, seq
<1>4. CASE op' = [op EXCEPT ![l].pc = IF op[l].force THEN "override" ELSE "entry",
                            ![l].base = Base, ![l].seq = seq]
  <2>1. /\ op'[l].cid = op[l].cid /\ op'[l].base = Base
        /\ \A m \in Laptops \ {l} : op'[m] = op[m]
    BY <1>2, <1>4 DEF Operation
  <2> QED
    BY <1>2, <1>3, <2>1, BuildSteps DEF BuildStep, Publishing
<1>5. CASE Behind(l, Read(a)) \/ Done(l)
  BY <1>2, <1>5, BehindSteps, FinishSteps, IdlePosts DEF Done, Publishing
<1> QED
  BY <1>1, <1>4, <1>5 DEF seq

LEMMA GoesOnPosts ==
  ASSUME TypeInv, NEW l \in Laptops, op[l].pc \in {"entry", "await", "override"},
         \/ op' = [op EXCEPT ![l].pc = "await"]
         \/ op' = [op EXCEPT ![l].pc = "announce"]
         \/ op' = [op EXCEPT ![l].pc = "announce", ![l].synced = TRUE]
  PROVE  BuildStep(l) /\ \A m \in Laptops \ {l} : op'[m] = op[m]
<1>1. op[l] \in Operation /\ op \in [Laptops -> Operation]
  BY OpIs DEF TypeInv, TypeOK
<1>2. /\ op'[l].cid = op[l].cid /\ op'[l].base = op[l].base
      /\ \A m \in Laptops \ {l} : op'[m] = op[m]
  BY <1>1 DEF Operation
<1> QED
  BY <1>2 DEF BuildStep, Publishing

LEMMA EntryPosts ==
  ASSUME TypeInv, NEW l \in Laptops, PublishEntry(l) \/ PublishAnswer(l)
  PROVE  \A m \in Laptops : PostsStep(m)
<1>1. UNCHANGED site /\ op[l].pc \in {"entry", "await", "override"}
  BY DEF PublishEntry, PublishAnswer
<1>2. \/ Behind(l, host) \/ Done(l)
      \/ op' = [op EXCEPT ![l].pc = "await"]
      \/ op' = [op EXCEPT ![l].pc = "announce"]
      \/ op' = [op EXCEPT ![l].pc = "announce", ![l].synced = TRUE]
  BY DEF PublishEntry, PublishAnswer
<1>3. CASE Behind(l, host) \/ Done(l)
  BY <1>1, <1>3, BehindSteps, FinishSteps, IdlePosts DEF Done, Publishing
<1> QED
  BY <1>1, <1>2, <1>3, GoesOnPosts, BuildSteps

(* What a forced publish goes over is a version of this laptop's from then
   on, and its posts are waived. *)
LEMMA OverridePosts ==
  ASSUME TypeInv, NEW l \in Laptops, PublishOverride(l)
  PROVE  \A m \in Laptops : PostsStep(m)
<1>1. op[l].pc = "override" /\ op' = [op EXCEPT ![l].pc = "announce"]
      /\ site[l] \in SiteCopy /\ site \in [Laptops -> SiteCopy]
  BY SiteIs DEF PublishOverride, TypeInv, TypeOK
<1>2. CASE UNCHANGED site
  BY <1>1, <1>2, GoesOnPosts, BuildSteps
<1>3. CASE /\ host.cid # NoVersion
           /\ site' = [site EXCEPT ![l].versions = rememberVersion(@, host.cid)]
           /\ waived' = waived \cup host.cid.posts
  <2> DEFINE list == rememberVersion(site[l].versions, host.cid)
  <2>1. ToSet(list) \subseteq ToSet(site[l].versions) \cup {host.cid}
    BY SiteIs, HostIs, RememberedVersions
  <2> HIDE DEF list
  <2>2. site' = [site EXCEPT ![l].versions = list]
    BY <1>3 DEF list
  <2>3. /\ site'[l].posts = site[l].posts /\ site'[l].deleted = site[l].deleted
        /\ site'[l].last = site[l].last /\ site'[l].versions = list
        /\ \A m \in Laptops \ {l} : site'[m] = site[m]
    BY <1>1, <2>2 DEF SiteCopy
  <2>4. CopyStep(l)
    BY <1>3, <2>1, <2>3 DEF CopyStep, Have, Own
  <2>5. BuildStep(l) /\ \A m \in Laptops \ {l} : op'[m] = op[m]
    BY <1>1, GoesOnPosts
  <2> QED
    BY <2>3, <2>4, <2>5, OthersPosts DEF OnlyOf, PostsStep
<1> QED
  BY <1>2, <1>3 DEF PublishOverride

LEMMA AnnouncePosts ==
  ASSUME TypeInv, BuiltInv, NEW l \in Laptops, PublishAnnounce(l)
  PROVE  \A m \in Laptops : PostsStep(m)
<1>1. op[l].cid \in Version /\ op[l].cid.posts \subseteq Have(l)
  BY OpIs DEF PublishAnnounce, OperationOK, BuiltInv, Publishing
<1>2. op'[l].pc = "idle" /\ \A m \in Laptops \ {l} : op'[m] = op[m]
  BY FinishSteps DEF PublishAnnounce
<1>3. CASE UNCHANGED site
  BY <1>2, <1>3, IdlePosts DEF Publishing
<1>4. CASE site' = Published(l, op[l].cid, op[l].seq)
  <2> DEFINE once == rememberVersion(site[l].versions, site[l].last)
             list == rememberVersion(once, op[l].cid)
  <2>1. once \in Seq(Version) /\ ToSet(once) \subseteq Own(l)
    BY SiteIs, RememberedIs, RememberedVersions DEF Own
  <2>2. ToSet(list) \subseteq Own(l) \cup {op[l].cid}
    BY <1>1, <2>1, RememberedVersions
  <2> HIDE DEF once, list
  <2>3. site[l] \in SiteCopy /\ site \in [Laptops -> SiteCopy]
        /\ site' = [site EXCEPT ![l].versions = list, ![l].last = op[l].cid, ![l].seq = op[l].seq,
                                ![l].elsewhere = FALSE]
    BY <1>4, SiteIs DEF Published, once, list, TypeInv, TypeOK
  <2>4. /\ site'[l].posts = site[l].posts /\ site'[l].deleted = site[l].deleted
        /\ site'[l].last = op[l].cid /\ site'[l].versions = list
        /\ \A m \in Laptops \ {l} : site'[m] = site[m]
    BY <2>3 DEF SiteCopy
  <2>5. Have(l)' = Have(l) /\ Own(l)' \subseteq Own(l) \cup {op[l].cid}
    BY <2>2, <2>4 DEF Have, Own
  <2>6. CopyStep(l)
    BY <1>1, <2>5 DEF CopyStep
  <2> QED
    BY <1>2, <2>4, <2>6, OthersPosts DEF OnlyOf, PostsStep, BuildStep, Publishing
<1> QED
  BY <1>3, <1>4 DEF PublishAnnounce

LEMMA TakeInPosts ==
  ASSUME TypeInv, NEW l \in Laptops, TakeIn(l)
  PROVE  \A m \in Laptops : PostsStep(m)
<1> DEFINE rec == op[l].behind
           posts == Merged(site[l], rec.cid)
           once == rememberVersion(site[l].versions, site[l].last)
           list == rememberVersion(once, rec.cid)
           seq == SequenceAfter(site[l], rec)
<1>1. /\ site[l] \in SiteCopy /\ site \in [Laptops -> SiteCopy]
      /\ op[l] \in Operation /\ op \in [Laptops -> Operation] /\ rec.cid \in Version
  BY SiteIs, OpIs DEF TakeIn, OperationOK, Job, Record, TypeInv, TypeOK
<1>2. CASE /\ site' = [site EXCEPT ![l].elsewhere = TRUE] /\ Done(l)
  <2>1. /\ site'[l].posts = site[l].posts /\ site'[l].deleted = site[l].deleted
        /\ site'[l].last = site[l].last /\ site'[l].versions = site[l].versions
        /\ \A m \in Laptops \ {l} : site'[m] = site[m]
    BY <1>1, <1>2 DEF SiteCopy
  <2>2. op'[l].pc = "idle" /\ \A m \in Laptops \ {l} : op'[m] = op[m]
    BY <1>2, FinishSteps DEF Done
  <2> QED
    BY <2>1, <2>2, OthersPosts DEF OnlyOf, PostsStep, CopyStep, BuildStep, Have, Own, Publishing
<1>3. CASE /\ site' = [site EXCEPT ![l].posts = posts, ![l].versions = list, ![l].last = rec.cid,
                                   ![l].seq = seq, ![l].elsewhere = FALSE]
           /\ \/ Done(l)
              \/ op' = [op EXCEPT ![l] = [op[l] EXCEPT !.pc = "lookup", !.attempt = @ + 1,
                            !.base = rec.cid, !.cid = Rendered(posts), !.behind = NoJob]]
  <2>1. once \in Seq(Version) /\ ToSet(once) \subseteq Own(l)
    BY SiteIs, RememberedIs, RememberedVersions DEF Own
  <2>2. ToSet(list) \subseteq Own(l) \cup {rec.cid}
    BY <1>1, <2>1, RememberedVersions
  <2>3. site[l].posts \subseteq posts /\ rec.cid.posts \subseteq posts \cup site[l].deleted
    BY DEF Merged
  <2>4. Rendered(posts).posts = posts
    BY RenderedIs
  <2> DEFINE c == Rendered(posts)
  <2> HIDE DEF rec, posts, once, list, seq, c
  <2>5. /\ site'[l].posts = posts /\ site'[l].deleted = site[l].deleted
        /\ site'[l].last = rec.cid /\ site'[l].versions = list
        /\ \A m \in Laptops \ {l} : site'[m] = site[m]
    BY <1>1, <1>3 DEF SiteCopy
  <2>6. Have(l) \subseteq Have(l)' /\ rec.cid.posts \subseteq Have(l)' /\ posts \subseteq Have(l)'
    BY <2>3, <2>5 DEF Have
  <2>7. Own(l)' \subseteq Own(l) \cup {rec.cid}
    BY <2>2, <2>5 DEF Own
  <2>8. CopyStep(l)
    BY <2>6, <2>7 DEF CopyStep
  <2>9. BuildStep(l) /\ \A m \in Laptops \ {l} : op'[m] = op[m]
    <3>1. CASE Done(l)
      BY <3>1, FinishSteps DEF Done, BuildStep, Publishing
    <3>2. CASE op' = [op EXCEPT ![l] = [op[l] EXCEPT !.pc = "lookup", !.attempt = @ + 1,
                         !.base = rec.cid, !.cid = c, !.behind = NoJob]]
      <4>1. op'[l].cid = c /\ op'[l].base = rec.cid /\ \A m \in Laptops \ {l} : op'[m] = op[m]
        BY <1>1, <3>2 DEF Operation
      <4> QED
        BY <2>4, <2>6, <4>1 DEF BuildStep, c
    <3> QED
      BY <1>3, <3>1, <3>2 DEF c
  <2> QED
    BY <2>5, <2>8, <2>9, OthersPosts DEF OnlyOf, PostsStep
<1> QED
  BY <1>2, <1>3 DEF TakeIn

LEMMA RenewPosts ==
  ASSUME TypeInv, NEW l \in Laptops, Renew(l)
  PROVE  \A m \in Laptops : PostsStep(m)
<1>1. op'[l].pc = "idle" /\ \A m \in Laptops \ {l} : op'[m] = op[m]
  BY FinishSteps DEF Renew
<1>2. site[l] \in SiteCopy /\ site \in [Laptops -> SiteCopy]
  BY SiteIs DEF TypeInv, TypeOK
<1>3. /\ site'[l].posts = site[l].posts /\ site'[l].deleted = site[l].deleted
      /\ site'[l].last = site[l].last /\ site'[l].versions = site[l].versions
      /\ \A m \in Laptops \ {l} : site'[m] = site[m]
  BY <1>2 DEF Renew, SiteCopy
<1> QED
  BY <1>1, <1>3, OthersPosts DEF OnlyOf, PostsStep, CopyStep, BuildStep, Have, Own, Publishing

(* A renewal takes a version for the laptop's own only before it knows a
   sequence. *)
LEMMA KeepalivePosts ==
  ASSUME TypeInv, StandInv, NEW l \in Laptops, Keepalive(l)
  PROVE  \A m \in Laptops : PostsStep(m)
<1>1. site[l].seq # 0
  BY DEF StandInv, Stands, Keepalive
<1>2. PICK a \in LatestAnswers :
        /\ \/ op' = [op EXCEPT ![l] = [NoOp EXCEPT !.pc = "takein", !.kind = "keepalive",
                                                   !.by = "loop", !.behind = a.is]]
           \/ op' = [op EXCEPT ![l] = [NoOp EXCEPT !.pc = "renew", !.kind = "keepalive",
                         !.by = "loop", !.cid = site[l].last, !.seq = Larger(a.is.seq, site[l].seq) + 1]]
        /\ UNCHANGED site
  BY <1>1, Zenon DEF Keepalive
<1>3. op'[l].pc \in {"takein", "renew"} /\ \A m \in Laptops \ {l} : op'[m] = op[m]
  <2> DEFINE take == [NoOp EXCEPT !.pc = "takein", !.kind = "keepalive", !.by = "loop", !.behind = a.is]
             renew == [NoOp EXCEPT !.pc = "renew", !.kind = "keepalive",
                         !.by = "loop", !.cid = site[l].last, !.seq = Larger(a.is.seq, site[l].seq) + 1]
  <2>1. take.pc = "takein" /\ renew.pc = "renew"
    BY DEF NoOp
  <2>2. op' = [op EXCEPT ![l] = take] \/ op' = [op EXCEPT ![l] = renew]
    BY <1>2
  <2> HIDE DEF take, renew
  <2> QED
    BY <2>1, <2>2, OpBecomes
<1> QED
  BY <1>2, <1>3, IdlePosts DEF Publishing

LEMMA OtherPosts ==
  ASSUME TypeInv, NEW l \in Laptops,
         \/ \E force \in BOOLEAN : BeginPublish(l, force)
         \/ GiveUpPublish(l) \/ Crash(l) \/ CatchUp(l, "loop") \/ UploadStep(l)
  PROVE  \A m \in Laptops : PostsStep(m)
<1>1. ASSUME NEW force \in BOOLEAN, BeginPublish(l, force)
      PROVE  \A m \in Laptops : PostsStep(m)
  BY <1>1, BeginsPosts DEF BeginPublish
<1>2. CASE GiveUpPublish(l)
  BY <1>2, FinishSteps, IdlePosts DEF GiveUpPublish, Done, Publishing
<1>3. CASE Crash(l)
  <2>1. op'[l].pc = "idle" /\ \A m \in Laptops \ {l} : op'[m] = op[m]
    BY <1>3 DEF Crash, NoOp, TypeInv, TypeOK
  <2> QED
    BY <1>3, <2>1, IdlePosts DEF Crash, Publishing
<1>4. ASSUME NEW by \in {"loop", "upload"}, CatchUp(l, by)
      PROVE  \A m \in Laptops : PostsStep(m)
  <2>1. UNCHANGED site /\ (UNCHANGED op \/ (op'[l].pc = "takein" /\ \A m \in Laptops \ {l} : op'[m] = op[m]))
    BY <1>4, CatchUpTakesIn DEF CatchUp
  <2> QED
    BY <2>1, NothingPosts, IdlePosts DEF Publishing
<1>5. CASE TakeJob(l) \/ ChooseUpload(l) \/ UploadAnswer(l) \/ Overtaken(l)
  <2>1. UNCHANGED <<op, site>>
    BY <1>5 DEF TakeJob, ChooseUpload, UploadAnswer, Overtaken
  <2> QED
    BY <2>1, NothingPosts
<1>6. CASE Republish(l)
  <2>1. UNCHANGED site /\ op' = [op EXCEPT ![l] = [NoOp EXCEPT !.pc = "lookup", !.kind = "publish",
                                      !.by = "upload", !.cid = Rendered(site[l].posts)]]
    BY <1>6 DEF Republish
  <2> DEFINE c == Rendered(site[l].posts)
  <2>2. c.posts \subseteq Have(l)'
    BY <2>1, RenderedIs DEF Have
  <2> HIDE DEF c
  <2>3. op'[l].cid = c /\ op'[l].base = NoVersion /\ \A m \in Laptops \ {l} : op'[m] = op[m]
    BY <2>1 DEF NoOp, TypeInv, TypeOK, c
  <2> QED
    BY <2>1, <2>2, <2>3, BuildSteps DEF BuildStep
<1> QED
  BY <1>1, <1>2, <1>3, <1>4, <1>5, <1>6 DEF UploadStep

LEMMA PostsSteps ==
  ASSUME TypeInv, StandInv, BuiltInv, [Next]_vars
  PROVE  \A m \in Laptops : PostsStep(m)
<1>1. CASE UNCHANGED vars \/ (\E a \in Agents : AgentPost(a))
           \/ (\E t \in Threads : HostAnswers(t) \/ LoseAnswer(t))
           \/ (\E p \in orphans : HostTakesOrphan(p))
  BY <1>1, NothingPosts DEF vars, AgentPost, HostAnswers, LoseAnswer, HostTakesOrphan
<1>2. ASSUME NEW l \in Laptops, PublishStep(l)
      PROVE  \A m \in Laptops : PostsStep(m)
  BY <1>2, LookupPosts, EntryPosts, OverridePosts, AnnouncePosts, TakeInPosts, RenewPosts DEF PublishStep
<1> QED
  BY <1>1, <1>2, SavePosts, OtherPosts, KeepalivePosts DEF Next

LEMMA WaivedGrows ==
  ASSUME [Next]_vars
  PROVE  waived \subseteq waived'
<1>1. ASSUME NEW l \in Laptops, PublishStep(l) \/ UploadStep(l)
      PROVE  waived \subseteq waived'
  BY <1>1 DEF PublishStep, UploadStep, PublishLookup, PublishEntry, PublishAnswer, PublishOverride,
     PublishAnnounce, TakeIn, Renew, TakeJob, ChooseUpload, UploadAnswer, Overtaken, Republish, CatchUp
<1>2. ASSUME NEW l \in Laptops,
             \/ \E p \in Posts : SavePost(l, p) \/ DeletePost(l, p)
             \/ \E force \in BOOLEAN : BeginPublish(l, force)
             \/ Keepalive(l) \/ CatchUp(l, "loop") \/ GiveUpPublish(l) \/ Crash(l)
      PROVE  waived \subseteq waived'
  BY <1>2 DEF SavePost, DeletePost, BeginPublish, Keepalive, CatchUp, GiveUpPublish, Crash
<1>3. CASE UNCHANGED vars \/ (\E a \in Agents : AgentPost(a))
           \/ (\E t \in Threads : HostAnswers(t) \/ LoseAnswer(t))
           \/ (\E p \in orphans : HostTakesOrphan(p))
  BY <1>3 DEF vars, AgentPost, HostAnswers, LoseAnswer, HostTakesOrphan
<1> QED
  BY <1>1, <1>2, <1>3 DEF Next

(* What a laptop has is accounted for. *)
LEMMA HaveIsKept ==
  ASSUME NEW l \in Laptops
  PROVE  Have(l) \cup waived \subseteq Kept
<1>1. \A p \in Have(l) : p \in UNION {Have(m) : m \in Laptops}
  BY Zenon
<1> QED
  BY <1>1 DEF Kept

LEMMA KeptGrows ==
  ASSUME \A l \in Laptops : PostsStep(l), waived \subseteq waived'
  PROVE  Kept \subseteq Kept'
<1>1. \A l \in Laptops : Have(l) \subseteq Have(l)'
  BY DEF PostsStep, CopyStep
<1> QED
  BY <1>1 DEF Kept

(* What waits for the upload after a step. *)
JobStep ==
  \A l \in Laptops : \A j \in Jobs(l)' :
    j \in Jobs(l) \cup {NoJob} \/ (j.cid.posts \subseteq Kept /\ ReachedThen(j.seq))

LEMMA SameJobs ==
  ASSUME NEW l \in Laptops, \A m \in Laptops \ {l} : upload'[m] = upload[m],
         {upload'[l].job, upload'[l].pending} \subseteq Jobs(l) \cup {NoJob}
  PROVE  JobStep
  BY DEF JobStep, Jobs

LEMMA SameUploadJobs ==
  ASSUME UNCHANGED upload
  PROVE  JobStep
  BY DEF JobStep, Jobs

LEMMA GoesJobs ==
  ASSUME TypeInv, NEW l \in Laptops, NEW pc, upload' = [upload EXCEPT ![l].pc = pc]
  PROVE  JobStep
<1>1. /\ upload'[l].job = upload[l].job /\ upload'[l].pending = upload[l].pending
      /\ \A m \in Laptops \ {l} : upload'[m] = upload[m]
  BY DEF TypeInv, TypeOK, Upload
<1> QED
  BY <1>1, SameJobs DEF Jobs

LEMMA UploadingJobs ==
  ASSUME TypeInv, NEW l \in Laptops, upload' = Uploading(l)
  PROVE  JobStep
  BY GoesJobs, SameUploadJobs DEF Uploading

LEMMA BehindJobs ==
  ASSUME TypeInv, NEW l \in Laptops, NEW rec, Behind(l, rec)
  PROVE  JobStep
  BY UploadingJobs, SameUploadJobs DEF Behind, Done

(* A version is queued that its laptop has, under a sequence that was
   announced. *)
LEMMA QueuedJobs ==
  ASSUME TypeInv, NEW l \in Laptops, NEW pc, NEW base, NEW job,
         base \in {upload, [upload EXCEPT ![l].pc = pc]},
         upload' = Queued(base, l, job),
         job.cid.posts \subseteq Kept, ReachedThen(job.seq)
  PROVE  JobStep
<1>1. upload \in [Laptops -> Upload] /\ upload[l] \in Upload
  BY DEF TypeInv, TypeOK
<1>2. /\ upload'[l].job = upload[l].job /\ upload'[l].pending = job
      /\ \A m \in Laptops \ {l} : upload'[m] = upload[m]
  <2>1. CASE base = upload
    BY <1>1, <2>1 DEF Queued, Upload
  <2>2. CASE base = [upload EXCEPT ![l].pc = pc]
    BY <1>1, <2>2 DEF Queued, Upload
  <2> QED
    BY <2>1, <2>2
<1> QED
  BY <1>2 DEF JobStep, Jobs

LEMMA AnnounceJobs ==
  ASSUME TypeInv, BuiltInv, NEW l \in Laptops, PublishAnnounce(l)
  PROVE  JobStep
<1> DEFINE rec == [cid |-> op[l].cid, seq |-> op[l].seq]
<1>1. rec.cid.posts \subseteq Kept
  BY HaveIsKept DEF BuiltInv, Publishing, PublishAnnounce
<1>2. CASE upload' = Queued(Uploading(l), l, rec) /\ announced' = announced \cup {rec}
  <2>1. rec \in announced' /\ op[l].seq <= op[l].seq
    BY <1>2, OpIs
  <2>2. ReachedThen(rec.seq)
    BY <2>1 DEF ReachedThen
  <2>3. Uploading(l) \in {upload, [upload EXCEPT ![l].pc = "take"]}
    BY DEF Uploading
  <2> HIDE DEF rec
  <2> QED
    BY <1>1, <1>2, <2>2, <2>3, QueuedJobs
<1> QED
  BY <1>2, UploadingJobs DEF PublishAnnounce

LEMMA CatchUpJobs ==
  ASSUME TypeInv, StandInv, KnownInv, NEW l \in Laptops, NEW by, CatchUp(l, by)
  PROVE  JobStep
<1> DEFINE job == [cid |-> site[l].last, seq |-> site[l].seq]
           next(pc) == IF by = "upload" THEN [upload EXCEPT ![l].pc = pc] ELSE upload
<1>1. CASE upload' = Queued(next("take"), l, job)
  <2>1. site[l].last \in Own(l)
    BY DEF CatchUp, Own
  <2>2. job.cid.posts \subseteq Kept
    BY <2>1, HaveIsKept DEF KnownInv
  <2>3. UNCHANGED announced /\ Reached(site[l].seq)
    BY DEF CatchUp, StandInv, Stands
  <2>4. ReachedThen(job.seq)
    BY <2>3, ReachedStays
  <2> HIDE DEF job
  <2>5. next("take") \in {upload, [upload EXCEPT ![l].pc = "take"]}
    OBVIOUS
  <2> QED
    BY <1>1, <2>2, <2>4, <2>5, QueuedJobs
<1>2. CASE upload' = next("catching") \/ upload' = next("take")
  BY <1>2, GoesJobs, SameUploadJobs
<1> QED
  BY <1>1, <1>2 DEF CatchUp

LEMMA RetryJobs ==
  ASSUME TypeInv, NEW l \in Laptops, Retry(l)
  PROVE  JobStep
<1>1. upload[l] \in Upload /\ upload \in [Laptops -> Upload]
  BY DEF TypeInv, TypeOK
<1>2. /\ upload'[l].job = upload[l].job /\ upload'[l].pending \in Jobs(l)
      /\ \A m \in Laptops \ {l} : upload'[m] = upload[m]
  BY <1>1 DEF Retry, Jobs, Upload
<1> QED
  BY <1>2, SameJobs DEF Jobs

LEMMA UploadJobs ==
  ASSUME TypeInv, NEW l \in Laptops,
         TakeJob(l) \/ ChooseUpload(l) \/ UploadAnswer(l) \/ Overtaken(l) \/ Republish(l) \/ Crash(l)
  PROVE  JobStep
<1>1. upload[l] \in Upload /\ upload \in [Laptops -> Upload]
  BY DEF TypeInv, TypeOK
<1>2. CASE TakeJob(l)
  <2>1. /\ {upload'[l].job, upload'[l].pending} \subseteq Jobs(l) \cup {NoJob}
        /\ \A m \in Laptops \ {l} : upload'[m] = upload[m]
    BY <1>1, <1>2 DEF TakeJob, NoUpload, Jobs
  <2> QED
    BY <2>1, SameJobs
<1>3. CASE Crash(l)
  <2>1. /\ {upload'[l].job, upload'[l].pending} \subseteq Jobs(l) \cup {NoJob}
        /\ \A m \in Laptops \ {l} : upload'[m] = upload[m]
    BY <1>1, <1>3 DEF Crash, NoUpload, Jobs
  <2> QED
    BY <2>1, SameJobs
<1>4. CASE ChooseUpload(l) \/ UploadAnswer(l) \/ Overtaken(l) \/ Republish(l)
  <2>1. Retry(l) \/ \E pc : Go(l, pc)
    BY <1>4 DEF ChooseUpload, UploadAnswer, Overtaken, Republish, Settle
  <2> QED
    BY <2>1, RetryJobs, GoesJobs DEF Go
<1> QED
  BY <1>2, <1>3, <1>4

LEMMA JobSteps ==
  ASSUME TypeInv, StandInv, KnownInv, BuiltInv, [Next]_vars
  PROVE  JobStep
<1>1. ASSUME NEW l \in Laptops, PublishStep(l)
      PROVE  JobStep
  <2>1. CASE PublishLookup(l) \/ PublishEntry(l) \/ PublishAnswer(l)
    <3>1. UNCHANGED upload \/ Done(l) \/ \E rec : Behind(l, rec)
      BY <2>1, Zenon DEF PublishLookup, PublishEntry, PublishAnswer
    <3> QED
      BY <3>1, SameUploadJobs, UploadingJobs, BehindJobs DEF Done
  <2>2. CASE PublishOverride(l) \/ TakeIn(l) \/ Renew(l)
    <3>1. UNCHANGED upload \/ Done(l)
      BY <2>2 DEF PublishOverride, TakeIn, Renew
    <3> QED
      BY <3>1, SameUploadJobs, UploadingJobs DEF Done
  <2> QED
    BY <1>1, <2>1, <2>2, AnnounceJobs DEF PublishStep
<1>2. ASSUME NEW l \in Laptops,
             \/ \E p \in Posts : SavePost(l, p) \/ DeletePost(l, p)
             \/ \E force \in BOOLEAN : BeginPublish(l, force)
             \/ Keepalive(l)
      PROVE  JobStep
  BY <1>2, SameUploadJobs DEF SavePost, DeletePost, BeginPublish, Keepalive
<1>3. ASSUME NEW l \in Laptops, GiveUpPublish(l)
      PROVE  JobStep
  BY <1>3, UploadingJobs DEF GiveUpPublish, Done
<1>4. CASE UNCHANGED vars \/ (\E a \in Agents : AgentPost(a))
           \/ (\E t \in Threads : HostAnswers(t) \/ LoseAnswer(t))
           \/ (\E p \in orphans : HostTakesOrphan(p))
  BY <1>4, SameUploadJobs DEF vars, AgentPost, HostAnswers, LoseAnswer, HostTakesOrphan
<1> QED
  BY <1>1, <1>2, <1>3, <1>4, CatchUpJobs, UploadJobs DEF Next, UploadStep

(* The pushes on their way after a step.  A new one adds what its laptop has,
   or is an agent's; it goes whole only to a host that holds no version. *)
NewPush(q) ==
  /\ Covered(q)
  /\ q.cid.posts \subseteq Kept \/ (host.cid # NoVersion /\ Late(q))
  /\ q.parent = NoVersion => host.cid = NoVersion /\ Reached(q.seq)

PushStep == \A q \in Underway' : q \in Underway \/ NewPush(q)

LEMMA SentPush ==
  ASSUME TypeInv, NEW t \in Threads, NEW c, NEW seq, NEW parent, Send(t, c, seq, parent), UNCHANGED orphans,
         NewPush([cid |-> c, seq |-> seq, parent |-> parent, mirror |-> FALSE])
  PROVE  PushStep
<1> DEFINE new == [cid |-> c, seq |-> seq, parent |-> parent, mirror |-> FALSE]
<1>1. NewPush(new)
  OBVIOUS
<1>2. call' = [call EXCEPT ![t] = [st |-> "sent", push |-> new]] /\ call \in [Threads -> Call]
  BY DEF Send, TypeInv, TypeOK
<1> HIDE DEF new
<1>3. ASSUME NEW u \in Threads
      PROVE  call'[u].push = new \/ call'[u] = call[u]
  BY <1>2
<1>4. \A q \in Underway' : q \in Underway \/ q = new
  BY <1>3 DEF Underway
<1> QED
  BY <1>1, <1>4 DEF PushStep

LEMMA ReturnedPush ==
  ASSUME TypeInv, NEW t \in Threads, Return(t), UNCHANGED orphans
  PROVE  PushStep
<1>1. \A u \in Threads : call'[u].st = "sent" => call'[u] = call[u]
  BY DEF Return, NoCall, TypeInv, TypeOK
<1> QED
  BY <1>1 DEF PushStep, Underway

LEMMA SamePushes ==
  ASSUME UNCHANGED <<call, orphans>>
  PROVE  PushStep
  BY DEF PushStep, Underway

(* Changes are built on the version the laptop went on from. *)
LEMMA EntryPush ==
  ASSUME TypeInv, BuiltInv, NEW l \in Laptops, PublishEntry(l)
  PROVE  PushStep
<1>1. CASE /\ op[l].base # NoVersion /\ host.cid = op[l].base
           /\ Send(Mu(l), op[l].cid, op[l].seq, host.cid)
  <2>1. host.cid.posts \subseteq Kept /\ op[l].cid.posts \subseteq Kept
    BY <1>1, HaveIsKept DEF PublishEntry, BuiltInv, Publishing
  <2>2. NewPush([cid |-> op[l].cid, seq |-> op[l].seq, parent |-> host.cid, mirror |-> FALSE])
    BY <1>1, <2>1 DEF NewPush, Covered
  <2> QED
    BY <1>1, <2>2, Threaded, SentPush DEF PublishEntry
<1>2. CASE UNCHANGED call
  BY <1>2, SamePushes DEF PublishEntry
<1> QED
  BY <1>1, <1>2 DEF PublishEntry

LEMMA UnderwayIs ==
  ASSUME TypeInv, NEW q \in Underway
  PROVE  /\ q \in Push /\ q.cid \in Version /\ q.cid # NoVersion /\ q.seq \in Nat /\ q.mirror = FALSE
<1>1. q \in Push
  BY DEF Underway, TypeInv, TypeOK, Call, NoCall
<1> QED
  BY <1>1, PublisherAssumption DEF Push

(* An upload is sent as changes to a version that is the laptop's own: it is
   not superseded.  It goes whole only to a host that holds none. *)
LEMMA ChoosePush ==
  ASSUME TypeInv, KnownInv, JobInv, CanWhole = FALSE, NEW l \in Laptops, ChooseUpload(l)
  PROVE  PushStep
<1> DEFINE job == upload[l].job
<1>1. job.cid \in Version /\ job.cid # NoVersion
  BY PublisherAssumption DEF ChooseUpload, TypeInv, UploadOK, Job, Record
<1>2. job.cid.posts \subseteq Kept /\ Reached(job.seq)
  BY <1>1 DEF JobInv, Jobs, JobOK
<1>3. \/ UNCHANGED call
      \/ host.cid = NoVersion /\ Send(Uploader(l), job.cid, job.seq, NoVersion)
      \/ /\ host.cid # NoVersion /\ Send(Uploader(l), job.cid, job.seq, host.cid)
         /\ ~Superseded(site[l], job, host) /\ host.cid # job.cid
  BY DEF ChooseUpload, Unsettled, AlreadyThere
<1>4. CASE host.cid = NoVersion /\ Send(Uploader(l), job.cid, job.seq, NoVersion)
  <2>1. NewPush([cid |-> job.cid, seq |-> job.seq, parent |-> NoVersion, mirror |-> FALSE])
    BY <1>2, <1>4 DEF NewPush, Covered
  <2> QED
    BY <1>4, <2>1, Threaded, SentPush DEF ChooseUpload
<1>5. CASE /\ host.cid # NoVersion /\ Send(Uploader(l), job.cid, job.seq, host.cid)
           /\ ~Superseded(site[l], job, host) /\ host.cid # job.cid
  <2>1. host.cid \in Own(l)
    BY <1>5 DEF Superseded, ownVersion, Own
  <2>2. host.cid.posts \subseteq Kept
    BY <2>1, HaveIsKept DEF KnownInv
  <2>3. NewPush([cid |-> job.cid, seq |-> job.seq, parent |-> host.cid, mirror |-> FALSE])
    BY <1>2, <1>5, <2>2 DEF NewPush, Covered
  <2> QED
    BY <1>5, <2>3, Threaded, SentPush DEF ChooseUpload
<1> QED
  BY <1>3, <1>4, <1>5, SamePushes DEF ChooseUpload

(* An agent adds to the version it found, above every sequence that was
   announced: so above those of the pushes that go whole. *)
LEMMA AgentPush ==
  ASSUME TypeInv, PushInv, HostInv, NEW a \in Agents, AgentPost(a)
  PROVE  PushStep
<1> DEFINE c == [host.cid EXCEPT !.posts = @ \cup {a}]
           seq(n) == Larger(host.seq, IF NoAnswer(n.is) THEN 0 ELSE n.is.seq) + 1
<1>1. host.cid \in Version /\ host.cid # NoVersion /\ host.seq \in Nat
  BY HostIs DEF AgentPost
<1>2. host.cid.posts \subseteq c.posts
  BY <1>1 DEF Version
<1> HIDE DEF c
<1>3. PICK n \in NetworkAnswers : Meets(n.faults) /\ Send(a, c, seq(n), host.cid)
  BY Zenon DEF AgentPost, c
<1>4. a \in Threads
  BY DEF Threads
<1>5. NoAnswer(n.is) \/ n.is \in Record
  BY NetworkAnswersIs DEF TypeInv, TypeOK
<1> DEFINE told == IF NoAnswer(n.is) THEN 0 ELSE n.is.seq
<1>6. told \in Nat /\ seq(n) \in Nat /\ seq(n) > 0 /\ seq(n) > told
  <2>1. told \in Nat
    BY <1>5 DEF Record
  <2> HIDE DEF told
  <2>2. Larger(host.seq, told) \in Nat /\ Larger(host.seq, told) >= told
    BY <1>1, <2>1, LargerOf
  <2>3. seq(n) = Larger(host.seq, told) + 1
    BY DEF told
  <2> QED
    BY <2>1, <2>2, <2>3
<1>7. ASSUME NEW w \in Wholes PROVE w.seq < seq(n)
  <2>1. w.seq \in Nat /\ Reached(w.seq)
    BY UnderwayIs DEF Wholes, PushInv
  <2>2. CASE w.seq = 0
    BY <1>6, <2>2
  <2>3. ASSUME NEW r \in announced, w.seq <= r.seq PROVE w.seq < seq(n)
    <3>1. n.faults = {}
      <4>1. "network" \notin Faults
        BY DEF HostInv
      <4>2. n.faults \in {{}, {"network"}}
        BY DEF NetworkAnswers
      <4> QED
        BY <1>3, <4>1, <4>2 DEF Meets, May
    <3>2. n.is \in Newest
      <4>1. \/ \E s \in Newest : n = [is |-> s, faults |-> {}]
            \/ n \in [is : announced \cup {NoRecord, Unreachable}, faults : {{"network"}}]
        BY <2>3 DEF NetworkAnswers
      <4> QED
        BY <3>1, <4>1
    <3>3. n.is \in Record /\ r \in Record /\ r.seq \in Nat /\ n.is.seq \in Nat /\ n.is.seq >= r.seq
      BY <3>2 DEF Newest, TypeInv, TypeOK, Record
    <3>4. told = n.is.seq
      BY <3>3, PublisherAssumption DEF NoAnswer, Record
    <3> HIDE DEF told, seq
    <3> QED
      BY <1>6, <2>1, <2>3, <3>3, <3>4
  <2> QED
    BY <2>1, <2>2, <2>3 DEF Reached
<1>8. NewPush([cid |-> c, seq |-> seq(n), parent |-> host.cid, mirror |-> FALSE])
  BY <1>1, <1>2, <1>7 DEF NewPush, Covered, Late
<1> HIDE DEF seq
<1> QED
  BY <1>3, <1>4, <1>8, SentPush DEF AgentPost

(* The host answers, or its answer is lost: a push it may still take is one
   that was on its way. *)
LEMMA AnsweredPush ==
  ASSUME TypeInv, NEW t \in Threads, HostAnswers(t) \/ LoseAnswer(t)
  PROVE  PushStep
<1>1. \E st \in {"ok", "conflict", "lost"} : call' = [call EXCEPT ![t].st = st]
  BY DEF HostAnswers, LoseAnswer
<1>2. call[t] \in [st : {"sent", "ok", "conflict", "lost"}, push : Push] /\ call \in [Threads -> Call]
  BY DEF HostAnswers, LoseAnswer, TypeInv, TypeOK, Call, NoCall
<1>3. \A u \in Threads : call'[u].st = "sent" => call'[u] = call[u]
  BY <1>1, <1>2
<1>4. orphans' \subseteq orphans \cup (IF call[t].st = "sent" THEN {call[t].push} ELSE {})
  BY DEF HostAnswers, LoseAnswer
<1> QED
  BY <1>3, <1>4 DEF PushStep, Underway

LEMMA CrashPush ==
  ASSUME TypeInv, NEW l \in Laptops, Crash(l)
  PROVE  PushStep
<1>1. \A u \in Threads : call'[u].st = "sent" => call'[u] = call[u]
  BY DEF Crash, NoCall
<1>2. orphans' = orphans \cup {call[t].push : t \in {u \in {Mu(l), Uploader(l)} : call[u].st = "sent"}}
  BY DEF Crash
<1> QED
  BY <1>1, <1>2, Threaded DEF PushStep, Underway

LEMMA PushSteps ==
  ASSUME TypeInv, KnownInv, BuiltInv, JobInv, PushInv, HostInv, CanWhole = FALSE, [Next]_vars
  PROVE  PushStep
<1>1. ASSUME NEW l \in Laptops, PublishStep(l)
      PROVE  PushStep
  <2>1. CASE PublishAnswer(l)
    BY <2>1, Threaded, ReturnedPush DEF PublishAnswer
  <2>2. CASE PublishLookup(l) \/ PublishOverride(l) \/ PublishAnnounce(l) \/ TakeIn(l) \/ Renew(l)
    BY <2>2, SamePushes DEF PublishLookup, PublishOverride, PublishAnnounce, TakeIn, Renew
  <2> QED
    BY <1>1, <2>1, <2>2, EntryPush DEF PublishStep
<1>2. ASSUME NEW l \in Laptops, UploadStep(l)
      PROVE  PushStep
  <2>1. CASE UploadAnswer(l)
    BY <2>1, Threaded, ReturnedPush DEF UploadAnswer
  <2>2. CASE TakeJob(l) \/ Overtaken(l) \/ Republish(l) \/ CatchUp(l, "upload")
    BY <2>2, SamePushes DEF TakeJob, Overtaken, Republish, CatchUp
  <2> QED
    BY <1>2, <2>1, <2>2, ChoosePush DEF UploadStep
<1>3. ASSUME NEW l \in Laptops,
             \/ \E p \in Posts : SavePost(l, p) \/ DeletePost(l, p)
             \/ \E force \in BOOLEAN : BeginPublish(l, force)
             \/ Keepalive(l) \/ CatchUp(l, "loop") \/ GiveUpPublish(l)
      PROVE  PushStep
  BY <1>3, SamePushes DEF SavePost, DeletePost, BeginPublish, Keepalive, CatchUp, GiveUpPublish
<1>4. ASSUME NEW p \in orphans, HostTakesOrphan(p)
      PROVE  PushStep
  BY <1>4 DEF HostTakesOrphan, PushStep, Underway
<1>5. CASE UNCHANGED vars
  BY <1>5, SamePushes DEF vars
<1> QED
  BY <1>1, <1>2, <1>3, <1>4, <1>5, CrashPush, AgentPush, AnsweredPush DEF Next

LEMMA PushKept ==
  ASSUME PushInv, HostInv, PushStep, Kept \subseteq Kept', announced \subseteq announced'
  PROVE  PushInv'
<1> SUFFICES ASSUME NEW q \in Underway'
             PROVE  /\ Covered(q)'
                    /\ q.cid.posts \subseteq Kept' \/ Late(q)'
                    /\ q.parent = NoVersion => ReachedThen(q.seq)
  BY DEF PushInv, Reached, ReachedThen
<1>1. q \in Underway \/ NewPush(q)
  BY DEF PushStep
<1>2. Covered(q)'
  BY <1>1 DEF PushInv, NewPush, Covered
<1>3. q.cid.posts \subseteq Kept \/ Late(q)
  BY <1>1 DEF PushInv, NewPush
<1>4. q.cid.posts \subseteq Kept' \/ Late(q)'
  <2> SUFFICES ASSUME ~(q.cid.posts \subseteq Kept), NEW w \in Wholes', w \notin Wholes
               PROVE  FALSE
    BY <1>3 DEF Late
  <2>1. w \in Underway' /\ w \notin Underway /\ w.parent = NoVersion
    BY DEF Wholes
  <2>2. host.cid = NoVersion
    BY <2>1 DEF PushStep, NewPush
  <2> QED
    BY <1>1, <2>2 DEF HostInv, NewPush
<1>5. q.parent = NoVersion => ReachedThen(q.seq)
  BY <1>1, ReachedStays DEF PushInv, NewPush
<1> QED
  BY <1>2, <1>4, <1>5

(* What the host takes drops nothing that no laptop has: it replaces exactly
   the version it was built on, or everything the host has held a laptop has. *)
HostStep == UNCHANGED <<host, held>> \/ \E q \in Underway : HostTakes(q)

LEMMA HostSteps ==
  ASSUME [Next]_vars
  PROVE  HostStep
<1> USE DEF HostStep
<1>1. ASSUME NEW t \in Threads, HostAnswers(t)
      PROVE  HostStep
  BY <1>1 DEF HostAnswers, Underway
<1>2. ASSUME NEW p \in orphans, HostTakesOrphan(p)
      PROVE  HostStep
  BY <1>2 DEF HostTakesOrphan, Underway
<1>3. ASSUME NEW l \in Laptops, PublishStep(l) \/ UploadStep(l)
      PROVE  HostStep
  BY <1>3 DEF PublishStep, UploadStep, PublishLookup, PublishEntry, PublishAnswer, PublishOverride,
     PublishAnnounce, TakeIn, Renew, TakeJob, ChooseUpload, UploadAnswer, Overtaken, Republish, CatchUp
<1>4. ASSUME NEW l \in Laptops,
             \/ \E p \in Posts : SavePost(l, p) \/ DeletePost(l, p)
             \/ \E force \in BOOLEAN : BeginPublish(l, force)
             \/ Keepalive(l) \/ CatchUp(l, "loop") \/ GiveUpPublish(l) \/ Crash(l)
      PROVE  HostStep
  BY <1>4 DEF SavePost, DeletePost, BeginPublish, Keepalive, CatchUp, GiveUpPublish, Crash
<1>5. CASE UNCHANGED vars \/ (\E a \in Agents : AgentPost(a)) \/ (\E t \in Threads : LoseAnswer(t))
  BY <1>5 DEF vars, AgentPost, LoseAnswer
<1> QED
  BY <1>1, <1>2, <1>3, <1>4, <1>5 DEF Next

LEMMA TakenPosts ==
  ASSUME TypeInv, PushInv, HostInv, NEW q \in Underway, HostTakes(q)
  PROVE  /\ host'.cid = q.cid /\ host'.cid # NoVersion /\ host'.seq = q.seq /\ q.seq >= host.seq
         /\ held' = held \cup q.cid.posts
         /\ held' \subseteq q.cid.posts \cup Kept
         /\ ReachedThen(host'.seq)
<1>1. q.seq \in Nat /\ host.seq \in Nat /\ q.cid # NoVersion /\ q.mirror = FALSE
  BY HostIs, UnderwayIs
<1>2. host'.cid = q.cid /\ host'.seq = q.seq /\ held' = held \cup q.cid.posts
  BY DEF HostTakes
<1>3. q.seq >= host.seq
  BY <1>1 DEF HostTakes, Supersedes
<1>4. ASSUME q.parent # NoVersion
      PROVE  held' \subseteq q.cid.posts \cup Kept
  <2>1. q.parent = host.cid
    BY <1>1, <1>4 DEF HostTakes, Supersedes
  <2> QED
    BY <1>2, <1>4, <2>1 DEF HostInv, PushInv, Covered
<1>5. ASSUME q.parent = NoVersion
      PROVE  held' \subseteq q.cid.posts \cup Kept
  <2>1. held \subseteq Kept
    BY <1>1, <1>3, <1>5 DEF HostInv, Wholes
  <2> QED
    BY <1>2, <2>1
<1>6. [cid |-> q.cid, seq |-> q.seq] \in announced' /\ q.seq <= q.seq
  BY <1>1 DEF HostTakes
<1>7. ReachedThen(q.seq)
  BY <1>6 DEF ReachedThen
<1>8. held' \subseteq q.cid.posts \cup Kept
  BY <1>2, <1>4, <1>5
<1> QED
  BY <1>1, <1>2, <1>3, <1>7, <1>8

LEMMA HostKept ==
  ASSUME TypeInv, PushInv, HostInv, PushStep, HostStep, Kept \subseteq Kept', announced \subseteq announced',
         host.cid # NoVersion => host'.cid # NoVersion
  PROVE  HostInv'
<1>1. ReachedThen(host'.seq)
  BY TakenPosts, ReachedStays DEF HostStep, HostInv
<1>2. ASSUME host'.cid = NoVersion
      PROVE  held' = {} /\ \A q \in Underway' : q.cid.posts \subseteq Kept'
  <2>1. host.cid = NoVersion /\ held' = held
    BY <1>2, TakenPosts DEF HostStep
  <2> QED
    BY <2>1 DEF HostInv, PushStep, NewPush
<1>3. ASSUME host'.cid # NoVersion
      PROVE  held' \subseteq host'.cid.posts \cup Kept'
  <2>1. CASE UNCHANGED <<host, held>>
    BY <1>3, <2>1 DEF HostInv
  <2>2. ASSUME NEW q \in Underway, HostTakes(q)
        PROVE  held' \subseteq host'.cid.posts \cup Kept'
    BY <2>2, TakenPosts
  <2> QED
    BY <2>1, <2>2 DEF HostStep
<1>4. ASSUME NEW w \in Wholes'
      PROVE  held' \subseteq Kept' \/ w.seq < host'.seq
  <2>1. w \in Underway' /\ w.parent = NoVersion
    BY DEF Wholes
  <2>2. CASE w \in Underway
    <3>1. w \in Wholes /\ w.seq \in Nat /\ host.seq \in Nat
      BY <2>1, <2>2, HostIs, UnderwayIs DEF Wholes
    <3>2. held \subseteq Kept \/ w.seq < host.seq
      BY <3>1 DEF HostInv
    <3>3. ASSUME NEW q \in Underway, HostTakes(q)
          PROVE  held' \subseteq Kept' \/ w.seq < host'.seq
      <4>1. q.seq \in Nat /\ (q.cid.posts \subseteq Kept \/ w.seq < q.seq)
        BY <3>1, UnderwayIs DEF PushInv, Late
      <4>2. host'.seq = q.seq /\ q.seq >= host.seq /\ held' = held \cup q.cid.posts
        BY <3>3, TakenPosts
      <4> QED
        BY <3>1, <3>2, <4>1, <4>2
    <3> QED
      BY <3>2, <3>3 DEF HostStep
  <2>3. CASE w \notin Underway
    <3>1. host.cid = NoVersion
      BY <2>1, <2>3 DEF PushStep, NewPush
    <3>2. held = {} /\ \A q \in Underway : q.cid.posts \subseteq Kept
      BY <3>1 DEF HostInv
    <3>3. ASSUME NEW q \in Underway, HostTakes(q)
          PROVE  held' \subseteq Kept'
      BY <3>2, <3>3 DEF HostTakes
    <3> QED
      BY <3>2, <3>3 DEF HostStep
  <2> QED
    BY <2>2, <2>3
<1>5. ASSUME "network" \in Faults
      PROVE  host'.cid # NoVersion /\ Wholes' = {}
  <2>1. host.cid # NoVersion /\ Wholes = {}
    BY <1>5 DEF HostInv
  <2>2. \A w \in Underway' : w.parent # NoVersion
    BY <2>1 DEF PushStep, NewPush, Wholes
  <2> QED
    BY <2>1, <2>2 DEF Wholes
<1> QED
  BY <1>1, <1>2, <1>3, <1>4, <1>5 DEF HostInv, Reached, ReachedThen

LEMMA RecoverInit ==
  ASSUME Starts \subseteq {"fresh", "published"}, "fresh" \in Starts => "network" \notin Faults, Init
  PROVE  StandInv /\ KnownInv /\ BuiltInv /\ JobInv /\ PushInv /\ HostInv
<1>1. /\ Underway = {} /\ Wholes = {}
      /\ \A l \in Laptops : op[l].pc = "idle" /\ op[l].base = NoVersion /\ Jobs(l) = {NoJob}
  BY DEF Init, Underway, Wholes, NoCall, NoOp, NoUpload, Jobs
<1>2. BuiltInv /\ JobInv /\ PushInv
  BY <1>1 DEF BuiltInv, Publishing, JobInv, JobOK, NoJob, PushInv
<1>3. CASE /\ "fresh" \in Starts /\ site = [l \in Laptops |-> StartCopy("fresh")]
           /\ host = NoJob /\ held = {}
  <2>1. \A l \in Laptops : Own(l) = {} /\ site[l].last = NoVersion /\ site[l].seq = 0
    BY <1>3 DEF StartCopy, Copy, Own, ToSet
  <2>2. host.cid = NoVersion /\ host.seq = 0
    BY <1>3 DEF NoJob
  <2> QED
    BY <1>1, <1>2, <1>3, <2>1, <2>2 DEF StandInv, Stands, Reached, KnownInv, HostInv
<1>4. CASE /\ site = [l \in Laptops |-> StartCopy("published")] /\ announced = {[cid |-> First, seq |-> 1]}
           /\ host = [cid |-> First, seq |-> 1] /\ held = FirstPosts
  <2>1. First \in Version /\ First # NoVersion /\ First.posts = FirstPosts
    BY RenderedIs, PublisherAssumption DEF First, Rendered, Version, Posts
  <2> DEFINE f == First
  <2> HIDE DEF f
  <2>2. \A l \in Laptops : site[l] = Copy(FirstPosts, f, 1, <<f>>) /\ f \in Version /\ f # NoVersion
    BY <1>4, <2>1 DEF StartCopy, f
  <2>3. ToSet(<<f>>) = {f}
    BY DEF ToSet
  <2>4. \A l \in Laptops : /\ Own(l) = {f} /\ Have(l) = FirstPosts
                           /\ site[l].last = f /\ site[l].seq = 1
    BY <2>2, <2>3 DEF Own, Have, Copy
  <2>5. Reached(1)
    <3>1. [cid |-> First, seq |-> 1].seq = 1 /\ 1 <= 1
      OBVIOUS
    <3> QED
      BY <1>4, <3>1 DEF Reached
  <2>6. host.cid = f /\ host.seq = 1 /\ f.posts = FirstPosts /\ f # NoVersion
    BY <1>4, <2>1 DEF f
  <2> QED
    BY <1>1, <1>2, <1>4, <2>4, <2>5, <2>6 DEF StandInv, Stands, KnownInv, HostInv
<1>5. PICK start \in Starts :
        /\ site = [l \in Laptops |-> StartCopy(start)]
        /\ announced = IF start = "fresh" THEN {} ELSE {[cid |-> First, seq |-> 1]}
        /\ IF start = "fresh" THEN host = NoJob /\ held = {}
           ELSE host = [cid |-> First, seq |-> 1] /\ held = FirstPosts
  BY DEF Init
<1>6. start = "fresh" \/ start = "published"
  OBVIOUS
<1> QED
  BY <1>3, <1>4, <1>5, <1>6

(* A post the host has held, that no owner deleted or went over with --force,
   is in the version the host holds or in a laptop's copy: for any number of
   laptops and agents, however their publishes, the host's answers, renewals,
   lost answers and crashes cross.  It starts from a site that was never
   published, or is up on the host under its laptops' sequence, and uploads go
   as changes where the host holds a version: without either the code does lose
   posts (Keepalive's first sequence, pushWhole).  So it does if the network
   gives an agent an older record while the first upload of a site is on its
   way (Post). *)
THEOREM PostsStayRecoverable ==
  ASSUME Starts \subseteq {"fresh", "published"}, "fresh" \in Starts => "network" \notin Faults,
         CanWhole = FALSE
  PROVE  Spec => []PostsRecoverable
<1>1. Init => RecoverInv
  BY RecoverInit, InitTypes DEF RecoverInv, PublishInv, HeldInv, AheadInv, Init, NoOp
<1>2. RecoverInv /\ [Next]_vars => RecoverInv'
  <2> SUFFICES ASSUME RecoverInv, [Next]_vars PROVE RecoverInv'
    OBVIOUS
  <2> USE DEF RecoverInv
  <2>1. PublishInv' /\ TypeInv
    BY PublishInvStep DEF PublishInv
  <2>2. waived \subseteq waived' /\ \A l \in Laptops : PostsStep(l)
    BY <2>1, WaivedGrows, PostsSteps
  <2>3. Kept \subseteq Kept' /\ announced \subseteq announced'
    BY <2>2, KeptGrows, AnnouncedGrows
  <2>4. StandInv'
    BY <2>1, StandKept DEF HostInv
  <2>5. KnownInv'
    BY <2>2 DEF KnownInv, PostsStep, CopyStep
  <2>6. BuiltInv'
    <3> SUFFICES ASSUME NEW l \in Laptops, op'[l].pc \in Publishing
                 PROVE  /\ op'[l].cid.posts \subseteq Have(l)'
                        /\ op'[l].base # NoVersion => op'[l].base.posts \subseteq Have(l)' \cup waived'
      BY DEF BuiltInv
    <3>1. site[l].last # NoVersion => site[l].last.posts \subseteq Have(l) \cup waived
      BY DEF KnownInv, Own
    <3>2. Have(l) \subseteq Have(l)' /\ BuildStep(l)
      BY <2>2 DEF PostsStep, CopyStep
    <3> QED
      BY <2>2, <3>1, <3>2 DEF BuiltInv, BuildStep
  <2>7. JobInv'
    <3>1. JobStep
      BY <2>1, JobSteps
    <3> SUFFICES ASSUME NEW l \in Laptops, NEW j \in Jobs(l)', j.cid # NoVersion
                 PROVE  j.cid.posts \subseteq Kept' /\ ReachedThen(j.seq)
      BY DEF JobInv, JobOK, Reached, ReachedThen
    <3>2. j # NoJob
      BY DEF NoJob
    <3>3. CASE j \in Jobs(l)
      BY <2>3, <3>3, ReachedStays DEF JobInv, JobOK
    <3> QED
      BY <2>3, <3>1, <3>2, <3>3 DEF JobStep
  <2>8. PushStep /\ HostStep
    BY <2>1, PushSteps, HostSteps
  <2>9. PushInv'
    BY <2>3, <2>8, PushKept
  <2>10. HostInv'
    BY <2>1, <2>3, <2>8, HostKept, HostHolds
  <2> QED
    BY <2>1, <2>4, <2>5, <2>6, <2>7, <2>9, <2>10
<1>3. RecoverInv => PostsRecoverable
  <2> SUFFICES ASSUME RecoverInv, NEW p \in held \ (Deleted \cup waived),
                      ~(host.cid # NoVersion /\ p \in host.cid.posts)
               PROVE  \E l \in Laptops : p \in site[l].posts
    BY DEF PostsRecoverable
  <2>1. p \in UNION {Have(l) : l \in Laptops}
    BY DEF RecoverInv, HostInv, Kept
  <2>2. PICK l \in Laptops : p \in Have(l)
    BY <2>1, Zenon
  <2>3. p \notin site[l].deleted
    BY DEF Deleted
  <2> QED
    BY <2>2, <2>3 DEF Have
<1> QED
  BY <1>1, <1>2, <1>3, PTL DEF Spec
=============================================================================
