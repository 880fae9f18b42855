----------------------------- MODULE PostFiles -----------------------------
(***************************************************************************)
(* The posts of one site as files on one laptop (internal/store), and all  *)
(* that writes them without a common lock: the console's handlers, which   *)
(* edit and delete posts, renders, which fill in what was generated, and   *)
(* take-ins of a version another machine published (pull).  Each of them   *)
(* reads files, works for a while and writes whole files back.             *)
(*                                                                         *)
(* A post is known by its last edit: the moment it was made, and the time  *)
(* it carries (LastChanged), which decides between two copies.             *)
(***************************************************************************)
EXTENDS Naturals, FiniteSets

CONSTANTS
  Posts,
  Pulls,       \* the take-ins that may run at once: the loop's, and Sync's
  NoPost,      \* no such file
  Dates,       \* the dates posts were first written with: 0, or a later one
  Deleters,    \* the deletions the console may be serving at once
  MaxTime      \* bound: how many edits and deletions are made

Writers == Pulls \cup {"render"}

Copy == [edit : 0..MaxTime, at : 0..MaxTime \cup Dates]

ASSUME PostFilesAssumption ==
  /\ MaxTime \in Nat
  /\ Dates \subseteq Nat
  /\ NoPost \notin Copy \cup Posts
  /\ {"render", "console"} \cap Pulls = {}

VARIABLES
  file,     \* file[p]: the post's file
  gone,     \* deleted.json: gone[p] is when p was deleted, 0 if never
  theirs,   \* theirs[p]: the post in the version another machine published last
  job,      \* job[t]: the take-in or render t is at
  erase,    \* erase[d]: the deletion handler d is at
  editing,  \* the posts a handler has read and is about to save
  now,      \* the clock
  crossed,  \* history: the posts written by others since t read the files
  erased    \* history: when the owner was told that p is deleted, 0 once it is back

vars == <<file, gone, theirs, job, erase, editing, now, crossed, erased>>

Files == [Posts -> Copy \cup {NoPost}]
None == [p \in Posts |-> NoPost]

Idle == [pc |-> "idle", from |-> None, local |-> None, todo |-> {}]
NoErase == [pc |-> "idle", post |-> NoPost, read |-> [p \in Posts |-> 0]]

Has(files) == {p \in Posts : files[p] # NoPost}

(* Every variable keeps its type, and only a take-in or render that goes on has
   something left to save, all of it in the version or files it read (pull,
   renderPost). *)
TypeOK ==
  /\ file \in Files
  /\ gone \in [Posts -> 0..MaxTime]
  /\ theirs \in Files
  /\ job \in [Writers -> [pc : {"idle", "listed", "read", "save"}, from : Files, local : Files,
                          todo : SUBSET Posts]]
  /\ \A t \in Writers : /\ job[t].todo \subseteq Has(job[t].from)
                        /\ job[t].pc # "save" => job[t].todo = {}
  /\ erase \in [Deleters -> [pc : {"idle", "removed", "read"}, post : Posts \cup {NoPost},
                             read : [Posts -> 0..MaxTime]]]
  /\ editing \subseteq Posts
  /\ now \in 0..MaxTime
  /\ crossed \in [Writers -> SUBSET Posts]
  /\ erased \in [Posts -> 0..MaxTime]

(* Each post is here, in the version published elsewhere, or in both, as it
   was first written. *)
Init ==
  /\ \E first \in [Posts -> Dates] :
       LET As(places) == [p \in Posts |-> IF p \in places
                            THEN [edit |-> 0, at |-> first[p]] ELSE NoPost]
       IN \E here, there \in SUBSET Posts : file = As(here) /\ theirs = As(there)
  /\ gone = [p \in Posts |-> 0]
  /\ job = [t \in Writers |-> Idle]
  /\ erase = [d \in Deleters |-> NoErase]
  /\ editing = {}
  /\ now = 0
  /\ crossed = [t \in Writers |-> {}]
  /\ erased = [p \in Posts |-> 0]

-----------------------------------------------------------------------------
Tick == now < MaxTime /\ now' = now + 1

(* Someone else than t writes p, or records its deletion. *)
Crosses(p, t) == crossed' =
  [u \in Writers |-> IF u # t /\ job[u].pc \in {"read", "save"} THEN crossed[u] \cup {p} ELSE crossed[u]]

Busy == {t \in Writers : job[t].pc # "idle"}

(* Sync and a render the console asks for hold its lock, the loop's take-in
   and its render follow one another, and a renderer renders one site at a
   time: of the three, two may run at once. *)
MayStart(t) == t \notin Busy /\ Cardinality(Busy) < 2

(* Mutant of Changed: a post that is not here is not looked at. *)
ChangedHere(ours, version, deleted) ==
  {p \in Has(version) \cap Has(ours) : version[p].at > ours[p].at}

(* Mutant of Changed: what was deleted does not count. *)
ChangedOrGone(ours, version, deleted) ==
  {p \in Has(version) : ours[p] = NoPost \/ version[p].at > ours[p].at}

(* mergePosts: the posts that are new in version, or changed there later than
   ours.  One that was deleted here counts if it changed after that. *)
Changed(ours, version, deleted) ==
  {p \in Has(version) :
     IF ours[p] = NoPost THEN deleted[p] = 0 \/ version[p].at > deleted[p]
     ELSE version[p].at > ours[p].at}

-----------------------------------------------------------------------------
(* The console: a handler reads a post, takes in the upload, and saves it. *)
BeginEdit(p) ==
  /\ p \in Has(file) \ editing
  /\ editing' = editing \cup {p}
  /\ UNCHANGED <<file, gone, theirs, job, erase, now, crossed, erased>>

SaveEdit(p) ==
  /\ p \in editing
  /\ editing' = editing \ {p}
  /\ Tick
  /\ file' = [file EXCEPT ![p] = [edit |-> now', at |-> now']]
  /\ erased' = [erased EXCEPT ![p] = 0]
  /\ Crosses(p, "console")
  /\ UNCHANGED <<gone, theirs, job, erase>>

AbandonEdit(p) ==
  /\ p \in editing
  /\ editing' = editing \ {p}
  /\ UNCHANGED <<file, gone, theirs, job, erase, now, crossed, erased>>

(* DeletePost: the file goes, then the record of deletions is read and
   written back with one more. *)
RemoveFile(d, p) ==
  /\ erase[d].pc = "idle" /\ p \in Has(file)
  /\ file' = [file EXCEPT ![p] = NoPost]
  /\ erase' = [erase EXCEPT ![d] = [NoErase EXCEPT !.pc = "removed", !.post = p]]
  /\ erased' = [erased EXCEPT ![p] = 0]
  /\ Crosses(p, "console")
  /\ UNCHANGED <<gone, theirs, job, editing, now>>

ReadDeleted(d) ==
  /\ erase[d].pc = "removed"
  /\ erase' = [erase EXCEPT ![d].pc = "read", ![d].read = gone]
  /\ UNCHANGED <<file, gone, theirs, job, editing, now, crossed, erased>>

RecordDeleted(d) ==
  LET p == erase[d].post IN
  /\ erase[d].pc = "read"
  /\ Tick
  /\ gone' = [erase[d].read EXCEPT ![p] = now']
  /\ erased' = [erased EXCEPT ![p] = now']
  /\ erase' = [erase EXCEPT ![d] = NoErase]
  /\ Crosses(p, "console")
  /\ UNCHANGED <<file, theirs, job, editing>>

DeleteFails(d) ==
  /\ erase[d].pc # "idle"
  /\ erase' = [erase EXCEPT ![d] = NoErase]
  /\ UNCHANGED <<file, gone, theirs, job, editing, now, crossed, erased>>

-----------------------------------------------------------------------------
(* pull: the version's list of posts, the posts here, what was deleted here,
   in this order. *)
BeginPull(t) ==
  /\ MayStart(t)
  /\ Has(theirs) # {}
  /\ job' = [job EXCEPT ![t] = [Idle EXCEPT !.pc = "listed", !.from = theirs]]
  /\ UNCHANGED <<file, gone, theirs, erase, editing, now, crossed, erased>>

ReadPosts(t) ==
  /\ job[t].pc = "listed"
  /\ job' = [job EXCEPT ![t].pc = "read", ![t].local = file]
  /\ UNCHANGED <<file, gone, theirs, erase, editing, now, crossed, erased>>

Compare(t) ==
  /\ job[t].pc = "read"
  /\ job' = [job EXCEPT ![t].pc = "save", ![t].local = None,
                        ![t].todo = Changed(job[t].local, job[t].from, gone)]
  /\ UNCHANGED <<file, gone, theirs, erase, editing, now, crossed, erased>>

(* A render reads every post, and saves those whose generated fields (the
   rendered text, the attachments' CIDs, the image's size) are not up to date:
   they may be any. *)
BeginRender ==
  /\ MayStart("render")
  /\ \E stale \in SUBSET Has(file) :
       job' = [job EXCEPT !["render"] = [Idle EXCEPT !.pc = "save", !.from = file, !.todo = stale]]
  /\ UNCHANGED <<file, gone, theirs, erase, editing, now, crossed, erased>>

(* A post is downloaded, or rendered, and saved. *)
Save(t, p) ==
  /\ p \in job[t].todo
  /\ file' = [file EXCEPT ![p] = job[t].from[p]]
  /\ job' = [job EXCEPT ![t].todo = @ \ {p}]
  /\ erased' = [erased EXCEPT ![p] = 0]
  /\ Crosses(p, t)
  /\ UNCHANGED <<gone, theirs, erase, editing, now>>

Rest(ts) ==
  /\ job' = [t \in Writers |-> IF t \in ts THEN Idle ELSE job[t]]
  /\ crossed' = [t \in Writers |-> IF t \in ts THEN {} ELSE crossed[t]]

Finish(t) ==
  /\ job[t].pc = "save" /\ job[t].todo = {}
  /\ Rest({t})
  /\ UNCHANGED <<file, gone, theirs, erase, editing, now, erased>>

(* A download or a page fails: what was saved so far stays. *)
Fail(t) ==
  /\ job[t].pc # "idle" /\ (job[t].pc = "save" => job[t].todo # {})
  /\ Rest({t})
  /\ UNCHANGED <<file, gone, theirs, erase, editing, now, erased>>

Crash ==
  /\ Rest(Writers)
  /\ erase' = [d \in Deleters |-> NoErase]
  /\ editing' = {}
  /\ UNCHANGED <<file, gone, theirs, now, erased>>

-----------------------------------------------------------------------------
(* The other machine edits a post, or takes in what this one published, and
   publishes. *)
TheyEdit(p) ==
  /\ p \in Has(theirs)
  /\ Tick
  /\ theirs' = [theirs EXCEPT ![p] = [edit |-> now', at |-> now']]
  /\ UNCHANGED <<file, gone, job, erase, editing, crossed, erased>>

TheyTakeIn ==
  /\ theirs' = [p \in Posts |->
       IF p \in Changed(theirs, file, [q \in Posts |-> 0])
       THEN file[p] ELSE theirs[p]]
  /\ UNCHANGED <<file, gone, job, erase, editing, now, crossed, erased>>

Next ==
  \/ \E p \in Posts : BeginEdit(p) \/ SaveEdit(p) \/ AbandonEdit(p) \/ TheyEdit(p)
  \/ \E d \in Deleters :
       \/ \E p \in Posts : RemoveFile(d, p)
       \/ ReadDeleted(d) \/ RecordDeleted(d) \/ DeleteFails(d)
  \/ \E t \in Pulls : BeginPull(t) \/ ReadPosts(t) \/ Compare(t)
  \/ BeginRender
  \/ \E t \in Writers : Finish(t) \/ Fail(t) \/ \E p \in Posts : Save(t, p)
  \/ Crash
  \/ TheyTakeIn

Spec == Init /\ [][Next]_vars

-----------------------------------------------------------------------------
(* The step puts p back to an earlier edit, or brings it back although it was
   deleted after its last edit. *)
Undone(p) ==
  /\ file'[p] # NoPost
  /\ IF file[p] = NoPost THEN file'[p].edit < erased[p]
     ELSE file'[p].edit < file[p].edit

(* Taking in a version undoes nothing (pull: "newest edit per post wins, and
   posts deleted here stay deleted"). *)
TakeInUndoesNothing ==
  [][\A t \in Pulls, p \in Posts : job'[t] # job[t] => ~Undone(p)]_vars

(* Taking in and rendering undo only what was written after they read the files: whatever was
   saved, deleted or taken in before that stays, through take-ins cut short,
   failed deletions and restarts (pull, mergePosts, DeletePost). *)
UndoneOnlyIfCrossed ==
  [][\A t \in Writers, p \in Posts :
       job'[t] # job[t] /\ Undone(p) => p \in crossed[t]]_vars

(* When a take-in is through, everything in its version has been taken in:
   each post is here at least as new, or deleted here since, unless it was
   written meanwhile (pull makes the version the baseline: what it left out
   would be dropped by the next publish). *)
TakenInWhole ==
  /\ TypeOK
  /\ \A t \in Pulls : job[t].pc = "save" /\ job[t].todo = {} =>
       \A p \in Has(job[t].from) :
         \/ p \in Has(file) /\ file[p].at >= job[t].from[p].at
         \/ gone[p] >= job[t].from[p].at
         \/ p \in crossed[t]
=============================================================================
