------------------------------ MODULE Lineage ------------------------------
(***************************************************************************)
(* How a laptop tells its own versions from ones published elsewhere, and  *)
(* how it picks the sequence of the next publish                           *)
(* (internal/publish/versions.go, sequence.go).  A site has the fields     *)
(*   last      its last published version, or NoVersion                    *)
(*   seq       the sequence it was published or renewed at, 0 if never     *)
(*   versions  the versions published or taken in here, newest last        *)
(***************************************************************************)
EXTENDS HeadRule, Sequences, SequencesExt

CONSTANTS
  MaxVersions,  \* how many versions the list keeps
  NoRecord,     \* the answer "the network has no record"
  Unreachable   \* no answer

ASSUME MaxVersionsAssumption == MaxVersions \in Nat \ {0}

Larger(x, y) == IF x >= y THEN x ELSE y

(* Mutant of rememberVersion: "no version" is remembered too. *)
rememberAny(list, c) ==
  IF c \in ToSet(list) THEN list
  ELSE LET longer == Append(list, c) IN
       IF Len(longer) > MaxVersions THEN Tail(longer) ELSE longer

(* Version c becomes the newest one, unless it is known: then it keeps its
   place.  The oldest goes when the list is full. *)
rememberVersion(list, c) ==
  IF c = NoVersion \/ c \in ToSet(list) THEN list
  ELSE LET longer == Append(list, c) IN
       IF Len(longer) > MaxVersions THEN Tail(longer) ELSE longer

ownVersion(site, c) == c # NoVersion /\ (c = site.last \/ c \in ToSet(site.versions))

(* This machine learned of version x after y. *)
rememberedAfter(list, x, y) ==
  \E i, j \in DOMAIN list : list[i] = x /\ list[j] = y /\ i > j

(* The host's version c is none of this machine's, nor one being published. *)
hostAhead(site, c, known) == c \notin known /\ ~ownVersion(site, c)

-----------------------------------------------------------------------------
(* nextSequence: the network (or host) answered with a record, with NoRecord
   or not at all, and the machine has published before or not. *)
PublishedElsewhere(local, base, answer, force) ==
  /\ answer \notin {NoRecord, Unreachable}
  /\ ~force /\ local > 0 /\ base # NoVersion /\ answer.cid # base

WouldResetSequence(local, base, answer, force) ==
  /\ answer = Unreachable
  /\ ~force /\ local = 0 /\ base # NoVersion

nextSequence(local, answer) ==
  IF answer \in {NoRecord, Unreachable} THEN local + 1
  ELSE Larger(local, answer.seq) + 1

(* pushVersion: the host at entry settles the upload of job without sending
   anything.  Superseded: going over it would drop what it added. *)
PublishedPast(site, job) == job.cid # site.last /\ job.seq < site.seq

Superseded(site, job, entry) ==
  /\ entry.cid # job.cid
  /\ ~ownVersion(site, entry.cid) \/ rememberedAfter(site.versions, entry.cid, job.cid)

AlreadyThere(site, job, entry) ==
  \/ entry.cid = job.cid
  \/ ~Superseded(site, job, entry) /\ entry.seq >= job.seq
=============================================================================
