----------------------------- MODULE Posts_proofs ---------------------------
(***************************************************************************)
(* What PostFiles and PostEditor promise for any posts, take-ins, edits,   *)
(* times, attachments, calls and texts.  While the console serves one      *)
(* deletion at a time a take-in leaves nothing of its version out, and     *)
(* undoes only what was written after it read.  The editor lists and shows *)
(* what its post's folder holds, and previews its text, unless calls       *)
(* crossed, failed or came late.                                           *)
(***************************************************************************)
EXTENDS MCPosts, TLAPS

(* Two deletions at once may each drop what the other recorded
   (DeletePost). *)
OneDeletion == \A d, e \in Deleters : d = e

Jobs == [pc : {"idle", "listed", "read", "save"}, from : Files, local : Files, todo : SUBSET Posts]
Erases == [pc : {"idle", "removed", "read"}, post : Posts \cup {NoPost}, read : [Posts -> 0..MaxTime]]

(* A deletion that goes on is of a post. *)
TypeInv ==
  /\ TypeOK
  /\ \A d \in Deleters : erase[d].pc # "idle" => erase[d].post \in Posts

(* The record of deletions is as the deletion read it: nobody else writes
   it. *)
EraseInv == \A d \in Deleters : erase[d].pc = "read" => erase[d].read = gone

(* Of a post that nobody else wrote meanwhile: what is left to save is new
   here, or as new as what there is; what is not was taken in, or deleted since. *)
News(t, p) ==
  IF file[p] = NoPost THEN gone[p] = 0 \/ job[t].from[p].at > gone[p]
  ELSE job[t].from[p].at >= file[p].at

Whole(t, p) ==
  \/ file[p] # NoPost /\ file[p].at >= job[t].from[p].at
  \/ gone[p] >= job[t].from[p].at

WorkInv(t) ==
  /\ job[t].pc = "read" => \A p \in Posts \ crossed[t] : job[t].local[p] = file[p]
  /\ job[t].pc = "save" => \A p \in Has(job[t].from) \ crossed[t] :
                             IF p \in job[t].todo THEN News(t, p) ELSE Whole(t, p)

FilesInv == TypeInv /\ EraseInv /\ \A t \in Writers : WorkInv(t)

-----------------------------------------------------------------------------
(* Types. *)
LEMMA IsPost ==
  ASSUME NEW files \in Files, NEW p \in Has(files)
  PROVE  files[p] \in Copy /\ p \in Posts
  BY DEF Files, Has

LEMMA CopyTimes == \A c \in Copy : c.at \in Nat /\ c.edit \in Nat
<1> SUFFICES ASSUME NEW c \in Copy PROVE c.at \in Nat /\ c.edit \in Nat
  OBVIOUS
<1>1. c.edit \in 0..MaxTime /\ c.at \in (0..MaxTime) \cup Dates
  BY DEF Copy
<1>2. 0..MaxTime \subseteq Nat
  BY PostFilesAssumption
<1>3. Dates \subseteq Nat
  BY PostFilesAssumption
<1> QED
  BY <1>1, <1>2, <1>3

LEMMA EmptyFiles == None \in Files /\ Idle \in Jobs /\ Has(None) = {} /\ NoErase \in Erases
  BY PostFilesAssumption DEF None, Files, Idle, Jobs, Has, NoErase, Erases

LEMMA Ticked ==
  ASSUME TypeInv, Tick
  PROVE  now' \in 0..MaxTime /\ now' = now + 1 /\ now \in Nat /\ [edit |-> now', at |-> now'] \in Copy
  BY PostFilesAssumption DEF TypeInv, TypeOK, Tick, Copy

LEMMA CrossesIs ==
  ASSUME TypeInv, NEW p \in Posts, NEW w, Crosses(p, w)
  PROVE  /\ crossed' \in [Writers -> SUBSET Posts]
         /\ \A u \in Writers : crossed[u] \subseteq crossed'[u]
         /\ \A u \in Writers : u # w /\ job[u].pc \in {"read", "save"} => p \in crossed'[u]
  BY DEF TypeInv, TypeOK, Crosses

LEMMA TypedNow ==
  ASSUME TypeInv
  PROVE  /\ file \in Files /\ gone \in [Posts -> 0..MaxTime] /\ theirs \in Files
         /\ job \in [Writers -> Jobs]
         /\ \A t \in Writers : /\ job[t].todo \subseteq Has(job[t].from)
                               /\ job[t].pc # "save" => job[t].todo = {}
         /\ erase \in [Deleters -> Erases]
         /\ \A d \in Deleters : erase[d].pc # "idle" => erase[d].post \in Posts
         /\ editing \subseteq Posts /\ now \in 0..MaxTime
         /\ crossed \in [Writers -> SUBSET Posts] /\ erased \in [Posts -> 0..MaxTime]
<1>1. job \in [Writers -> Jobs] /\ erase \in [Deleters -> Erases]
  BY DEF TypeInv, TypeOK, Jobs, Erases
<1>2. \A t \in Writers : job[t].todo \subseteq Has(job[t].from) /\ (job[t].pc # "save" => job[t].todo = {})
  BY Zenon DEF TypeInv, TypeOK
<1> QED
  BY <1>1, <1>2 DEF TypeInv, TypeOK

LEMMA JobIs ==
  ASSUME TypeInv, NEW t \in Writers
  PROVE  /\ job[t] \in Jobs /\ job[t].todo \subseteq Has(job[t].from)
         /\ job[t].pc # "save" => job[t].todo = {}
  BY TypedNow

(* A job that goes on with other fields. *)
LEMMA JobTypes ==
  ASSUME TypeInv, NEW t \in Writers, NEW j \in Jobs, job' = [job EXCEPT ![t] = j],
         j.todo \subseteq Has(j.from), j.pc # "save" => j.todo = {}
  PROVE  /\ job' \in [Writers -> Jobs] /\ job'[t] = j
         /\ \A u \in Writers : u # t => job'[u] = job[u]
         /\ \A u \in Writers : /\ job'[u].todo \subseteq Has(job'[u].from)
                               /\ job'[u].pc # "save" => job'[u].todo = {}
  BY TypedNow

LEMMA EraseIs ==
  ASSUME TypeInv, NEW d \in Deleters
  PROVE  erase[d] \in Erases /\ (erase[d].pc # "idle" => erase[d].post \in Posts)
  BY DEF TypeInv, TypeOK, Erases

LEMMA EraseTypes ==
  ASSUME TypeInv, NEW d \in Deleters, NEW e \in Erases, erase' = [erase EXCEPT ![d] = e],
         e.pc # "idle" => e.post \in Posts
  PROVE  /\ erase' \in [Deleters -> Erases] /\ erase'[d] = e
         /\ \A c \in Deleters : c # d => erase'[c] = erase[c]
         /\ \A c \in Deleters : erase'[c].pc # "idle" => erase'[c].post \in Posts
  BY DEF TypeInv, TypeOK, Erases

(* The types of what steps leave alone. *)
LEMMA Typed ==
  ASSUME file' \in Files, gone' \in [Posts -> 0..MaxTime], theirs' \in Files,
         job' \in [Writers -> Jobs],
         \A t \in Writers : /\ job'[t].todo \subseteq Has(job'[t].from)
                            /\ job'[t].pc # "save" => job'[t].todo = {},
         erase' \in [Deleters -> Erases],
         \A d \in Deleters : erase'[d].pc # "idle" => erase'[d].post \in Posts,
         editing' \subseteq Posts, now' \in 0..MaxTime,
         crossed' \in [Writers -> SUBSET Posts], erased' \in [Posts -> 0..MaxTime]
  PROVE  TypeInv'
  BY DEF TypeInv, TypeOK, Jobs, Erases, Has

(* What Compare finds is of the version. *)
LEMMA ChangedIs ==
  ASSUME NEW ours, NEW version, NEW deleted
  PROVE  /\ Changed(ours, version, deleted) \subseteq Has(version)
         /\ \A p \in Has(version) :
              p \in Changed(ours, version, deleted) <=>
                IF ours[p] = NoPost THEN deleted[p] = 0 \/ version[p].at > deleted[p]
                ELSE version[p].at > ours[p].at
  BY DEF Changed

-----------------------------------------------------------------------------
(* The steps of a take-in or render, as one record. *)
Listed == [Idle EXCEPT !.pc = "listed", !.from = theirs]
Read(t) == [job[t] EXCEPT !.pc = "read", !.local = file]
Compared(t) == [job[t] EXCEPT !.pc = "save", !.local = None,
                              !.todo = Changed(job[t].local, job[t].from, gone)]
Rendering(stale) == [Idle EXCEPT !.pc = "save", !.from = file, !.todo = stale]
Saved(t, p) == [job[t] EXCEPT !.todo = @ \ {p}]

LEMMA JobSteps ==
  ASSUME TypeInv, NEW t \in Writers
  PROVE  /\ BeginPull(t) => job' = [job EXCEPT ![t] = Listed]
         /\ ReadPosts(t) => job' = [job EXCEPT ![t] = Read(t)]
         /\ Compare(t) => job' = [job EXCEPT ![t] = Compared(t)]
         /\ \A p \in Posts : Save(t, p) => job' = [job EXCEPT ![t] = Saved(t, p)]
  BY DEF TypeInv, TypeOK, BeginPull, ReadPosts, Compare, Save, Listed, Read, Compared, Saved

LEMMA NewJobs ==
  ASSUME TypeInv, NEW t \in Writers
  PROVE  /\ Listed \in Jobs /\ Listed.pc = "listed" /\ Listed.todo = {}
         /\ Read(t) \in Jobs /\ Read(t).pc = "read" /\ Read(t).local = file
         /\ Read(t).todo = job[t].todo /\ Read(t).from = job[t].from
         /\ Compared(t) \in Jobs /\ Compared(t).pc = "save" /\ Compared(t).from = job[t].from
         /\ Compared(t).todo = Changed(job[t].local, job[t].from, gone)
         /\ \A p \in Posts : /\ Saved(t, p) \in Jobs /\ Saved(t, p).pc = job[t].pc
                             /\ Saved(t, p).from = job[t].from
                             /\ Saved(t, p).todo = job[t].todo \ {p}
<1>1. Changed(job[t].local, job[t].from, gone) \subseteq Posts
  BY ChangedIs DEF Has
<1> QED
  BY <1>1, JobIs, TypedNow, EmptyFiles DEF Listed, Read, Compared, Saved, Jobs, Idle

LEMMA Begun ==
  ASSUME TypeInv, BeginRender
  PROVE  \E stale \in SUBSET Has(file) :
           /\ job' = [job EXCEPT !["render"] = Rendering(stale)]
           /\ Rendering(stale) \in Jobs /\ Rendering(stale).pc = "save"
           /\ Rendering(stale).from = file /\ Rendering(stale).todo = stale
<1>1. PICK stale \in SUBSET Has(file) :
        job' = [job EXCEPT !["render"] = Rendering(stale)]
  BY Zenon DEF BeginRender, Rendering
<1>2. stale \subseteq Posts
  BY DEF Has
<1>3. /\ Rendering(stale) \in Jobs /\ Rendering(stale).pc = "save"
      /\ Rendering(stale).from = file /\ Rendering(stale).todo = stale
  BY <1>2, TypedNow, EmptyFiles DEF Rendering, Jobs, Idle
<1> QED
  BY <1>1, <1>3

LEMMA RenderWrites == "render" \in Writers /\ "console" \notin Writers /\ Pulls \subseteq Writers
  BY PostFilesAssumption DEF Writers

-----------------------------------------------------------------------------
LEMMA InitTypes == Init => TypeInv
<1> SUFFICES ASSUME Init PROVE TypeInv
  OBVIOUS
<1> DEFINE As(first, places) == [p \in Posts |-> IF p \in places
                                   THEN [edit |-> 0, at |-> first[p]] ELSE NoPost]
<1>1. PICK first \in [Posts -> Dates], here \in SUBSET Posts, there \in SUBSET Posts :
        file = As(first, here) /\ theirs = As(first, there)
  BY Zenon DEF Init
<1>2. \A p \in Posts : [edit |-> 0, at |-> first[p]] \in Copy
  BY PostFilesAssumption DEF Copy
<1>3. \A places \in SUBSET Posts : As(first, places) \in Files
  BY <1>2 DEF Files
<1>4. file \in Files /\ theirs \in Files
  BY <1>1, <1>3
<1>5. job \in [Writers -> Jobs] /\ \A t \in Writers : job[t].todo = {}
  BY EmptyFiles DEF Init, Idle
<1>6. erase \in [Deleters -> Erases] /\ \A d \in Deleters : erase[d].pc = "idle"
  BY EmptyFiles DEF Init, NoErase
<1>7. now \in 0..MaxTime /\ gone \in [Posts -> 0..MaxTime] /\ erased \in [Posts -> 0..MaxTime]
      /\ editing \subseteq Posts /\ crossed \in [Writers -> SUBSET Posts]
  BY PostFilesAssumption DEF Init
<1>8. \A t \in Writers : /\ job[t].todo \subseteq Has(job[t].from)
                         /\ job[t].pc # "save" => job[t].todo = {}
  BY <1>5
<1>9. \A d \in Deleters : erase[d].pc # "idle" => erase[d].post \in Posts
  BY <1>6
<1> QED
  BY <1>4, <1>5, <1>6, <1>7, <1>8, <1>9 DEF TypeInv, TypeOK, Jobs, Erases

(* The console's handlers and the other machine. *)
LEMMA ConsoleTypes ==
  ASSUME TypeInv,
         \/ \E p \in Posts : BeginEdit(p) \/ SaveEdit(p) \/ AbandonEdit(p) \/ TheyEdit(p)
         \/ TheyTakeIn
  PROVE  TypeInv'
<1>1. ASSUME NEW p \in Posts, BeginEdit(p) \/ AbandonEdit(p)
      PROVE  TypeInv'
  BY <1>1, TypedNow, Typed DEF BeginEdit, AbandonEdit, Has
<1>2. ASSUME NEW p \in Posts, SaveEdit(p)
      PROVE  TypeInv'
  <2>1. now' \in 0..MaxTime /\ file' \in Files /\ erased' \in [Posts -> 0..MaxTime]
    BY <1>2, Ticked, TypedNow, PostFilesAssumption DEF SaveEdit, Files
  <2>2. crossed' \in [Writers -> SUBSET Posts]
    BY <1>2, CrossesIs DEF SaveEdit
  <2>3. editing' \subseteq Posts /\ UNCHANGED <<gone, theirs, job, erase>>
    BY <1>2, TypedNow DEF SaveEdit
  <2> QED
    BY <2>1, <2>2, <2>3, TypedNow, Typed
<1>3. ASSUME NEW p \in Posts, TheyEdit(p)
      PROVE  TypeInv'
  <2>1. now' \in 0..MaxTime /\ theirs' \in Files
    BY <1>3, Ticked, TypedNow DEF TheyEdit, Files
  <2> QED
    BY <1>3, <2>1, TypedNow, Typed DEF TheyEdit
<1>4. CASE TheyTakeIn
  <2>1. theirs' \in Files
    BY <1>4, TypedNow DEF TheyTakeIn, Files
  <2> QED
    BY <1>4, <2>1, TypedNow, Typed DEF TheyTakeIn
<1> QED
  BY <1>1, <1>2, <1>3, <1>4

LEMMA EraseSteps ==
  ASSUME TypeInv, NEW d \in Deleters
  PROVE  /\ \A p \in Posts : RemoveFile(d, p) =>
              erase' = [erase EXCEPT ![d] = [NoErase EXCEPT !.pc = "removed", !.post = p]]
         /\ ReadDeleted(d) => erase' = [erase EXCEPT ![d] = [erase[d] EXCEPT !.pc = "read", !.read = gone]]
         /\ RecordDeleted(d) \/ DeleteFails(d) => erase' = [erase EXCEPT ![d] = NoErase]
         /\ NoErase \in Erases /\ NoErase.pc = "idle"
         /\ \A p \in Posts :
              /\ [NoErase EXCEPT !.pc = "removed", !.post = p] \in Erases
              /\ [NoErase EXCEPT !.pc = "removed", !.post = p].post = p
              /\ [NoErase EXCEPT !.pc = "removed", !.post = p].pc = "removed"
         /\ [erase[d] EXCEPT !.pc = "read", !.read = gone] \in Erases
         /\ [erase[d] EXCEPT !.pc = "read", !.read = gone].post = erase[d].post
         /\ [erase[d] EXCEPT !.pc = "read", !.read = gone].pc = "read"
         /\ [erase[d] EXCEPT !.pc = "read", !.read = gone].read = gone
<1>1. erase[d] \in Erases /\ gone \in [Posts -> 0..MaxTime] /\ NoErase \in Erases
  BY EraseIs, TypedNow, EmptyFiles
<1>2. /\ [erase[d] EXCEPT !.pc = "read", !.read = gone] \in Erases
      /\ [erase[d] EXCEPT !.pc = "read", !.read = gone].post = erase[d].post
      /\ [erase[d] EXCEPT !.pc = "read", !.read = gone].pc = "read"
      /\ [erase[d] EXCEPT !.pc = "read", !.read = gone].read = gone
  BY <1>1 DEF Erases
<1>3. ASSUME NEW p \in Posts
      PROVE  /\ [NoErase EXCEPT !.pc = "removed", !.post = p] \in Erases
             /\ [NoErase EXCEPT !.pc = "removed", !.post = p].post = p
             /\ [NoErase EXCEPT !.pc = "removed", !.post = p].pc = "removed"
  BY <1>1 DEF Erases, NoErase
<1>4. ReadDeleted(d) => erase' = [erase EXCEPT ![d] = [erase[d] EXCEPT !.pc = "read", !.read = gone]]
  BY TypedNow DEF ReadDeleted
<1> QED
  BY <1>2, <1>3, <1>4, EmptyFiles DEF RemoveFile, RecordDeleted, DeleteFails, NoErase

LEMMA EraseEnds ==
  ASSUME TypeInv, NEW d \in Deleters, RecordDeleted(d) \/ DeleteFails(d)
  PROVE  /\ erase' \in [Deleters -> Erases] /\ erase'[d].pc = "idle"
         /\ \A c \in Deleters : erase'[c].pc # "idle" => erase'[c].post \in Posts
<1>1. erase' = [erase EXCEPT ![d] = NoErase]
  BY DEF RecordDeleted, DeleteFails
<1>2. NoErase \in Erases /\ NoErase.pc = "idle"
  BY EraseSteps
<1> QED
  BY <1>1, <1>2, EraseTypes

LEMMA DeleteTypes ==
  ASSUME TypeInv, NEW d \in Deleters,
         (\E p \in Posts : RemoveFile(d, p)) \/ ReadDeleted(d) \/ RecordDeleted(d) \/ DeleteFails(d)
  PROVE  TypeInv'
<1>1. ASSUME NEW p \in Posts, RemoveFile(d, p)
      PROVE  TypeInv'
  <2> DEFINE e == [NoErase EXCEPT !.pc = "removed", !.post = p]
  <2>0. e \in Erases /\ e.post = p /\ erase' = [erase EXCEPT ![d] = e]
    BY <1>1, EraseSteps
  <2> HIDE DEF e
  <2>1. /\ erase' \in [Deleters -> Erases]
        /\ \A c \in Deleters : erase'[c].pc # "idle" => erase'[c].post \in Posts
    BY <2>0, EraseTypes
  <2>2. file' \in Files
    BY <1>1, TypedNow DEF RemoveFile, Files
  <2>3. crossed' \in [Writers -> SUBSET Posts]
    BY <1>1, CrossesIs DEF RemoveFile
  <2>4. 0 \in 0..MaxTime
    BY PostFilesAssumption
  <2>5. erased' \in [Posts -> 0..MaxTime]
    BY <1>1, <2>4, TypedNow DEF RemoveFile
  <2> QED
    BY <1>1, <2>1, <2>2, <2>3, <2>5, TypedNow, Typed DEF RemoveFile
<1>2. CASE ReadDeleted(d)
  <2> DEFINE e == [erase[d] EXCEPT !.pc = "read", !.read = gone]
  <2>0. e \in Erases /\ e.post \in Posts /\ erase' = [erase EXCEPT ![d] = e]
    BY <1>2, EraseSteps, EraseIs DEF ReadDeleted
  <2> HIDE DEF e
  <2>1. /\ erase' \in [Deleters -> Erases]
        /\ \A c \in Deleters : erase'[c].pc # "idle" => erase'[c].post \in Posts
    BY <2>0, EraseTypes
  <2> QED
    BY <1>2, <2>1, TypedNow, Typed DEF ReadDeleted
<1>3. CASE RecordDeleted(d) \/ DeleteFails(d)
  <2>1. /\ erase' \in [Deleters -> Erases]
        /\ \A c \in Deleters : erase'[c].pc # "idle" => erase'[c].post \in Posts
    BY <1>3, EraseEnds
  <2>2. CASE DeleteFails(d)
    BY <2>1, <2>2, TypedNow, Typed DEF DeleteFails
  <2>3. CASE RecordDeleted(d)
    <3>1. erase[d] \in Erases /\ erase[d].post \in Posts
      BY <2>3, EraseIs DEF RecordDeleted
    <3>2. now' \in 0..MaxTime
      BY <2>3, Ticked DEF RecordDeleted
    <3>3. gone' \in [Posts -> 0..MaxTime] /\ erased' \in [Posts -> 0..MaxTime]
      BY <2>3, <3>1, <3>2, TypedNow DEF RecordDeleted, Erases
    <3>4. crossed' \in [Writers -> SUBSET Posts]
      BY <2>3, <3>1, CrossesIs DEF RecordDeleted
    <3> QED
      BY <2>1, <2>3, <3>2, <3>3, <3>4, TypedNow, Typed DEF RecordDeleted
  <2> QED
    BY <1>3, <2>2, <2>3
<1> QED
  BY <1>1, <1>2, <1>3

(* A job that begins, reads or compares. *)
LEMMA ReadTypes ==
  ASSUME TypeInv, NEW t \in Writers, BeginPull(t) \/ ReadPosts(t) \/ Compare(t)
  PROVE  TypeInv'
<1>1. UNCHANGED <<file, gone, theirs, erase, editing, now, crossed, erased>>
  BY DEF BeginPull, ReadPosts, Compare
<1>2. ASSUME NEW j \in Jobs, job' = [job EXCEPT ![t] = j],
             j.todo \subseteq Has(j.from), j.pc # "save" => j.todo = {}
      PROVE  TypeInv'
  <2>1. /\ job' \in [Writers -> Jobs]
        /\ \A u \in Writers : /\ job'[u].todo \subseteq Has(job'[u].from)
                              /\ job'[u].pc # "save" => job'[u].todo = {}
    BY <1>2, JobTypes
  <2> QED
    BY <1>1, <2>1, TypedNow, Typed
<1>3. CASE BeginPull(t)
  <2>1. Listed \in Jobs /\ Listed.todo = {} /\ job' = [job EXCEPT ![t] = Listed]
    BY <1>3, JobSteps, NewJobs
  <2> QED
    BY <2>1, <1>2
<1>4. CASE ReadPosts(t)
  <2>1. Read(t) \in Jobs /\ Read(t).todo = {} /\ job' = [job EXCEPT ![t] = Read(t)]
    BY <1>4, JobSteps, NewJobs, JobIs DEF ReadPosts
  <2> QED
    BY <2>1, <1>2
<1>5. CASE Compare(t)
  <2>1. /\ Compared(t) \in Jobs /\ Compared(t).pc = "save" /\ job' = [job EXCEPT ![t] = Compared(t)]
        /\ Compared(t).todo \subseteq Has(Compared(t).from)
    BY <1>5, JobSteps, NewJobs, ChangedIs
  <2> QED
    BY <2>1, <1>2
<1> QED
  BY <1>3, <1>4, <1>5

LEMMA RenderTypes ==
  ASSUME TypeInv, BeginRender
  PROVE  TypeInv'
<1>1. PICK stale \in SUBSET Has(file) :
        /\ job' = [job EXCEPT !["render"] = Rendering(stale)]
        /\ Rendering(stale) \in Jobs /\ Rendering(stale).pc = "save"
        /\ Rendering(stale).from = file /\ Rendering(stale).todo = stale
  BY Begun
<1>2. /\ job' \in [Writers -> Jobs]
      /\ \A u \in Writers : /\ job'[u].todo \subseteq Has(job'[u].from)
                            /\ job'[u].pc # "save" => job'[u].todo = {}
  BY <1>1, RenderWrites, JobTypes
<1>3. UNCHANGED <<file, gone, theirs, erase, editing, now, crossed, erased>>
  BY DEF BeginRender
<1> QED
  BY <1>2, <1>3, TypedNow, Typed

LEMMA SaveTypes ==
  ASSUME TypeInv, NEW t \in Writers, NEW p \in Posts, Save(t, p)
  PROVE  TypeInv'
<1>1. job[t] \in Jobs /\ job[t].todo \subseteq Has(job[t].from) /\ (job[t].pc # "save" => job[t].todo = {})
  BY JobIs
<1>2. /\ Saved(t, p) \in Jobs /\ Saved(t, p).pc = job[t].pc /\ Saved(t, p).from = job[t].from
      /\ Saved(t, p).todo = job[t].todo \ {p} /\ job' = [job EXCEPT ![t] = Saved(t, p)]
  BY JobSteps, NewJobs
<1>3. /\ Saved(t, p).todo \subseteq Has(Saved(t, p).from)
      /\ Saved(t, p).pc # "save" => Saved(t, p).todo = {}
  BY <1>1, <1>2
<1>4. /\ job' \in [Writers -> Jobs]
      /\ \A u \in Writers : /\ job'[u].todo \subseteq Has(job'[u].from)
                            /\ job'[u].pc # "save" => job'[u].todo = {}
  BY <1>2, <1>3, JobTypes
<1>5. job[t].from[p] \in Copy
  BY <1>1, IsPost DEF Save, Jobs
<1>6. file' \in Files
  BY <1>5, TypedNow DEF Save, Files
<1>7. 0 \in 0..MaxTime
  BY PostFilesAssumption
<1>8. erased' \in [Posts -> 0..MaxTime]
  BY <1>7, TypedNow DEF Save
<1>9. crossed' \in [Writers -> SUBSET Posts]
  BY CrossesIs DEF Save
<1>10. UNCHANGED <<gone, theirs, erase, editing, now>>
  BY DEF Save
<1> QED
  BY <1>4, <1>6, <1>8, <1>9, <1>10, TypedNow, Typed

(* Jobs that end. *)
LEMMA RestIs ==
  ASSUME TypeInv, NEW ts \in SUBSET Writers, Rest(ts)
  PROVE  /\ job' \in [Writers -> Jobs] /\ crossed' \in [Writers -> SUBSET Posts]
         /\ \A u \in Writers : /\ job'[u].todo \subseteq Has(job'[u].from)
                               /\ job'[u].pc # "save" => job'[u].todo = {}
         /\ \A u \in ts : job'[u].pc = "idle" /\ job'[u].from = None
         /\ \A u \in Writers \ ts : job'[u] = job[u] /\ crossed'[u] = crossed[u]
<1>1. /\ job' = [u \in Writers |-> IF u \in ts THEN Idle ELSE job[u]]
      /\ crossed' = [u \in Writers |-> IF u \in ts THEN {} ELSE crossed[u]]
  BY DEF Rest
<1>2. Idle \in Jobs /\ Idle.todo = {} /\ Idle.pc = "idle" /\ Idle.from = None
  BY EmptyFiles DEF Idle
<1>3. \A u \in ts : job'[u] = Idle
  BY <1>1
<1>4. \A u \in Writers \ ts : job'[u] = job[u] /\ crossed'[u] = crossed[u]
  BY <1>1
<1>5. job' \in [Writers -> Jobs] /\ crossed' \in [Writers -> SUBSET Posts]
  BY <1>1, <1>2, TypedNow
<1>6. \A u \in Writers : /\ job'[u].todo \subseteq Has(job'[u].from)
                         /\ job'[u].pc # "save" => job'[u].todo = {}
  BY <1>2, <1>3, <1>4, JobIs
<1>7. \A u \in ts : job'[u].pc = "idle" /\ job'[u].from = None
  BY <1>2, <1>3
<1> QED
  BY <1>4, <1>5, <1>6, <1>7

LEMMA EndTypes ==
  ASSUME TypeInv, (\E t \in Writers : Finish(t) \/ Fail(t)) \/ Crash
  PROVE  TypeInv'
<1>1. ASSUME NEW t \in Writers, Finish(t) \/ Fail(t)
      PROVE  TypeInv'
  <2>1. Rest({t}) /\ UNCHANGED <<file, gone, theirs, erase, editing, now, erased>>
    BY <1>1 DEF Finish, Fail
  <2> QED
    BY <2>1, RestIs, TypedNow, Typed
<1>2. CASE Crash
  <2>1. Rest(Writers) /\ editing' = {} /\ UNCHANGED <<file, gone, theirs, now, erased>>
    BY <1>2 DEF Crash
  <2>2. erase' = [d \in Deleters |-> NoErase]
    BY <1>2 DEF Crash
  <2>3. erase' \in [Deleters -> Erases] /\ \A d \in Deleters : erase'[d].pc = "idle"
    BY <2>2, EmptyFiles DEF NoErase
  <2>4. \A d \in Deleters : erase'[d].pc # "idle" => erase'[d].post \in Posts
    BY <2>3
  <2> QED
    BY <2>1, <2>3, <2>4, RestIs, TypedNow, Typed
<1> QED
  BY <1>1, <1>2

LEMMA TypesKept ==
  ASSUME TypeInv, [Next]_vars
  PROVE  TypeInv'
<1>1. CASE UNCHANGED vars
  BY <1>1 DEF vars, TypeInv, TypeOK, Has
<1>2. CASE Next
  BY <1>2, ConsoleTypes, DeleteTypes, ReadTypes, RenderTypes, SaveTypes, EndTypes, RenderWrites DEF Next
<1> QED
  BY <1>1, <1>2

-----------------------------------------------------------------------------
(* The steps, by what they do to the posts and to the jobs that have read:
   everything stays, or one post is written and every other job that has
   read knows. *)
Stays(t) ==
  /\ job'[t] = job[t] /\ crossed'[t] = crossed[t]
  /\ file' = file /\ gone' = gone

WrittenBeside(t, p) ==
  /\ job'[t] = job[t] /\ crossed[t] \subseteq crossed'[t]
  /\ job[t].pc \in {"read", "save"} => p \in crossed'[t]
  /\ \A q \in Posts : q # p => file'[q] = file[q] /\ gone'[q] = gone[q]

LEMMA StaysKeeps ==
  ASSUME NEW t \in Writers, WorkInv(t), Stays(t)
  PROVE  WorkInv(t)'
  BY DEF WorkInv, Stays, News, Whole, Has

LEMMA BesideKeeps ==
  ASSUME NEW t \in Writers, NEW p \in Posts, WorkInv(t), WrittenBeside(t, p)
  PROVE  WorkInv(t)'
<1>1. CASE job[t].pc = "read"
  <2>1. \A q \in Posts \ crossed'[t] : job[t].local[q] = file'[q]
    BY <1>1 DEF WorkInv, WrittenBeside
  <2> QED
    BY <1>1, <2>1 DEF WorkInv, WrittenBeside
<1>2. CASE job[t].pc = "save"
  <2> SUFFICES ASSUME NEW q \in Has(job[t].from) \ crossed'[t]
               PROVE  IF q \in job[t].todo THEN News(t, q)' ELSE Whole(t, q)'
    BY <1>2 DEF WorkInv, WrittenBeside, News, Whole, Has
  <2>1. q \in Posts /\ q # p /\ q \in Has(job[t].from) \ crossed[t]
    BY <1>2 DEF WrittenBeside, Has
  <2>2. file'[q] = file[q] /\ gone'[q] = gone[q] /\ job'[t] = job[t]
    BY <2>1 DEF WrittenBeside
  <2>3. IF q \in job[t].todo THEN News(t, q) ELSE Whole(t, q)
    BY <1>2, <2>1 DEF WorkInv
  <2> QED
    BY <2>2, <2>3 DEF News, Whole
<1>3. CASE job[t].pc \notin {"read", "save"}
  BY <1>3 DEF WorkInv, WrittenBeside
<1> QED
  BY <1>1, <1>2, <1>3

(* A deletion records what it read, and one post more. *)
LEMMA RecordIs ==
  ASSUME TypeInv, EraseInv, NEW d \in Deleters, RecordDeleted(d)
  PROVE  /\ erase[d].post \in Posts
         /\ gone' = [gone EXCEPT ![erase[d].post] = now']
         /\ \A q \in Posts : q # erase[d].post => gone'[q] = gone[q]
<1>1. erase[d].post \in Posts /\ gone \in [Posts -> 0..MaxTime] /\ erase[d].read = gone
  BY EraseIs, TypedNow DEF RecordDeleted, EraseInv
<1>2. gone' = [gone EXCEPT ![erase[d].post] = now']
  BY <1>1 DEF RecordDeleted
<1> QED
  BY <1>1, <1>2

LEMMA EraseKept ==
  ASSUME OneDeletion, TypeInv, EraseInv, [Next]_vars
  PROVE  EraseInv'
<1>1. ASSUME UNCHANGED <<gone, erase>>
      PROVE  EraseInv'
  BY <1>1 DEF EraseInv
<1>2. ASSUME NEW d \in Deleters, (\E p \in Posts : RemoveFile(d, p)) \/ RecordDeleted(d) \/ DeleteFails(d)
      PROVE  EraseInv'
  <2>1. \A c \in Deleters : c = d
    BY DEF OneDeletion
  <2>2. erase'[d].pc # "read"
    <3>1. ASSUME NEW p \in Posts, RemoveFile(d, p)
          PROVE  erase'[d].pc = "removed"
      <4> DEFINE e == [NoErase EXCEPT !.pc = "removed", !.post = p]
      <4>1. e \in Erases /\ e.post \in Posts /\ e.pc = "removed" /\ erase' = [erase EXCEPT ![d] = e]
        BY <3>1, EraseSteps
      <4> HIDE DEF e
      <4> QED
        BY <4>1, EraseTypes
    <3>2. ASSUME RecordDeleted(d) \/ DeleteFails(d)
          PROVE  erase'[d].pc = "idle"
      BY <3>2, EraseEnds
    <3> QED
      BY <1>2, <3>1, <3>2
  <2> QED
    BY <2>1, <2>2 DEF EraseInv
<1>3. ASSUME NEW d \in Deleters, ReadDeleted(d)
      PROVE  EraseInv'
  <2>1. \A c \in Deleters : c = d
    BY DEF OneDeletion
  <2> DEFINE e == [erase[d] EXCEPT !.pc = "read", !.read = gone]
  <2>2. e \in Erases /\ e.post \in Posts /\ e.read = gone /\ erase' = [erase EXCEPT ![d] = e]
    BY <1>3, EraseSteps, EraseIs DEF ReadDeleted
  <2> HIDE DEF e
  <2>3. erase'[d].read = gone /\ gone' = gone
    BY <1>3, <2>2, EraseTypes DEF ReadDeleted
  <2> QED
    BY <2>1, <2>3 DEF EraseInv
<1>4. CASE Crash
  <2>1. \A d \in Deleters : erase'[d].pc = "idle"
    BY <1>4 DEF Crash, NoErase
  <2> QED
    BY <2>1 DEF EraseInv
<1>5. CASE UNCHANGED vars
  BY <1>1, <1>5 DEF vars
<1>6. ASSUME NEW p \in Posts, BeginEdit(p) \/ SaveEdit(p) \/ AbandonEdit(p) \/ TheyEdit(p)
      PROVE  EraseInv'
  BY <1>1, <1>6 DEF BeginEdit, SaveEdit, AbandonEdit, TheyEdit
<1>7. ASSUME NEW t \in Writers, BeginPull(t) \/ ReadPosts(t) \/ Compare(t) \/ Finish(t) \/ Fail(t)
                                \/ \E p \in Posts : Save(t, p)
      PROVE  EraseInv'
  BY <1>1, <1>7 DEF BeginPull, ReadPosts, Compare, Finish, Fail, Save
<1>8. CASE BeginRender \/ TheyTakeIn
  BY <1>1, <1>8 DEF BeginRender, TheyTakeIn
<1> QED
  BY <1>2, <1>3, <1>4, <1>5, <1>6, <1>7, <1>8, RenderWrites DEF Next

-----------------------------------------------------------------------------
(* What each job is at, kept by every step. *)
LEMMA WrittenByConsole ==
  ASSUME TypeInv, EraseInv, NEW t \in Writers,
         \/ \E p \in Posts : SaveEdit(p)
         \/ \E d \in Deleters, p \in Posts : RemoveFile(d, p)
         \/ \E d \in Deleters : RecordDeleted(d)
  PROVE  \E p \in Posts : WrittenBeside(t, p)
<1>1. ASSUME NEW p \in Posts, SaveEdit(p)
      PROVE  WrittenBeside(t, p)
  <2>1. Crosses(p, "console") /\ job' = job /\ gone' = gone
    BY <1>1 DEF SaveEdit
  <2>2. \A q \in Posts : q # p => file'[q] = file[q]
    BY <1>1, TypedNow DEF SaveEdit, Files
  <2> QED
    BY <2>1, <2>2, CrossesIs, RenderWrites DEF WrittenBeside
<1>2. ASSUME NEW d \in Deleters, NEW p \in Posts, RemoveFile(d, p)
      PROVE  WrittenBeside(t, p)
  <2>1. Crosses(p, "console") /\ job' = job /\ gone' = gone
    BY <1>2 DEF RemoveFile
  <2>2. \A q \in Posts : q # p => file'[q] = file[q]
    BY <1>2, TypedNow DEF RemoveFile, Files
  <2> QED
    BY <2>1, <2>2, CrossesIs, RenderWrites DEF WrittenBeside
<1>3. ASSUME NEW d \in Deleters, RecordDeleted(d)
      PROVE  erase[d].post \in Posts /\ WrittenBeside(t, erase[d].post)
  <2>1. Crosses(erase[d].post, "console") /\ job' = job /\ file' = file
    BY <1>3 DEF RecordDeleted
  <2>2. /\ erase[d].post \in Posts
        /\ \A q \in Posts : q # erase[d].post => gone'[q] = gone[q]
    BY <1>3, RecordIs
  <2> QED
    BY <2>1, <2>2, CrossesIs, RenderWrites DEF WrittenBeside
<1> QED
  BY <1>1, <1>2, <1>3

LEMMA WrittenBySave ==
  ASSUME TypeInv, NEW u \in Writers, NEW p \in Posts, Save(u, p), NEW t \in Writers, t # u
  PROVE  WrittenBeside(t, p)
<1>1. job' = [job EXCEPT ![u] = Saved(u, p)] /\ Saved(u, p) \in Jobs
  BY JobSteps, NewJobs
<1>2. job'[t] = job[t]
  BY <1>1, TypedNow
<1>3. \A q \in Posts : q # p => file'[q] = file[q] /\ gone'[q] = gone[q]
  BY TypedNow DEF Save, Files
<1> QED
  BY <1>2, <1>3, CrossesIs DEF Save, WrittenBeside

(* What the job that steps makes of itself. *)
LEMMA BeginKeeps ==
  ASSUME TypeInv, NEW t \in Writers, BeginPull(t)
  PROVE  WorkInv(t)'
<1>1. job'[t].pc = "listed"
  BY JobSteps, NewJobs, TypedNow
<1> QED
  BY <1>1 DEF WorkInv

LEMMA ReadKeeps ==
  ASSUME TypeInv, NEW t \in Writers, ReadPosts(t)
  PROVE  WorkInv(t)'
<1>1. job'[t].pc = "read" /\ job'[t].local = file'
  <2>1. job' = [job EXCEPT ![t] = Read(t)] /\ file' = file
    BY JobSteps DEF ReadPosts
  <2>2. Read(t).pc = "read" /\ Read(t).local = file
    BY NewJobs
  <2> HIDE DEF Read
  <2> QED
    BY <2>1, <2>2, TypedNow
<1> QED
  BY <1>1 DEF WorkInv

LEMMA CompareKeeps ==
  ASSUME TypeInv, NEW t \in Writers, WorkInv(t), Compare(t)
  PROVE  WorkInv(t)'
<1>1. job' = [job EXCEPT ![t] = Compared(t)] /\ UNCHANGED <<file, gone, crossed>>
  BY JobSteps DEF Compare
<1>2. /\ Compared(t).pc = "save" /\ Compared(t).from = job[t].from
      /\ Compared(t).todo = Changed(job[t].local, job[t].from, gone)
  BY NewJobs
<1>3. /\ job'[t].pc = "save" /\ job'[t].from = job[t].from
      /\ job'[t].todo = Changed(job[t].local, job[t].from, gone)
  BY <1>1, <1>2, TypedNow
<1> SUFFICES ASSUME NEW p \in Has(job[t].from) \ crossed[t]
             PROVE  IF p \in Changed(job[t].local, job[t].from, gone)
                    THEN News(t, p)' ELSE Whole(t, p)'
  BY <1>1, <1>3 DEF WorkInv
<1>4. p \in Posts /\ job[t].local[p] = file[p]
  BY DEF Has, WorkInv, Compare
<1>5. job[t].from \in Files /\ gone[p] \in Nat /\ file \in Files
  BY <1>4, JobIs, TypedNow, PostFilesAssumption DEF Jobs
<1>6. job[t].from[p] \in Copy
  BY <1>5, IsPost
<1>7. file[p] # NoPost => file[p] \in Copy
  BY <1>4, <1>5 DEF Files
<1>8. job[t].from[p].at \in Nat /\ (file[p] # NoPost => file[p].at \in Nat)
  BY <1>6, <1>7, CopyTimes
<1>9. p \in Changed(job[t].local, job[t].from, gone) <=>
        IF file[p] = NoPost THEN gone[p] = 0 \/ job[t].from[p].at > gone[p]
        ELSE job[t].from[p].at > file[p].at
  BY <1>4, ChangedIs
<1> QED
  BY <1>1, <1>3, <1>5, <1>8, <1>9 DEF News, Whole

LEMMA RenderKeeps ==
  ASSUME TypeInv, BeginRender
  PROVE  WorkInv("render")'
<1>1. PICK stale \in SUBSET Has(file) :
        /\ job' = [job EXCEPT !["render"] = Rendering(stale)]
        /\ Rendering(stale) \in Jobs /\ Rendering(stale).pc = "save"
        /\ Rendering(stale).from = file /\ Rendering(stale).todo = stale
  BY Begun
<1>2. job'["render"].pc = "save" /\ job'["render"].from = file /\ file' = file /\ gone' = gone
  BY <1>1, RenderWrites, TypedNow DEF BeginRender
<1> SUFFICES ASSUME NEW p \in Has(file)
             PROVE  News("render", p)' /\ Whole("render", p)'
  BY <1>2 DEF WorkInv
<1>3. file[p] \in Copy /\ file[p] # NoPost /\ file[p].at \in Nat
  BY TypedNow, IsPost, CopyTimes DEF Has
<1> QED
  BY <1>2, <1>3 DEF News, Whole

LEMMA SaveKeeps ==
  ASSUME TypeInv, NEW t \in Writers, WorkInv(t), NEW p \in Posts, Save(t, p)
  PROVE  WorkInv(t)'
<1>1. job[t].pc = "save" /\ job[t] \in Jobs /\ p \in job[t].todo /\ p \in Has(job[t].from)
  BY JobIs DEF Save
<1>2. /\ job' = [job EXCEPT ![t] = Saved(t, p)] /\ gone' = gone
      /\ file' = [file EXCEPT ![p] = job[t].from[p]]
  BY JobSteps DEF Save
<1>3. /\ Saved(t, p).pc = job[t].pc /\ Saved(t, p).from = job[t].from
      /\ Saved(t, p).todo = job[t].todo \ {p}
  BY NewJobs
<1>4. job'[t].pc = "save" /\ job'[t].from = job[t].from /\ job'[t].todo = job[t].todo \ {p}
  BY <1>1, <1>2, <1>3, TypedNow
<1>5. file'[p] = job[t].from[p] /\ \A q \in Posts : q # p => file'[q] = file[q]
  BY <1>2, TypedNow DEF Files
<1>6. crossed[t] \subseteq crossed'[t]
  BY CrossesIs DEF Save
<1> SUFFICES ASSUME NEW q \in Has(job[t].from), q \notin crossed'[t]
             PROVE  IF q \in job[t].todo \ {p} THEN News(t, q)' ELSE Whole(t, q)'
  BY <1>4 DEF WorkInv
<1>7. job[t].from[q] \in Copy /\ job[t].from[q] # NoPost /\ job[t].from[q].at \in Nat /\ q \in Posts
  BY <1>1, IsPost, CopyTimes DEF Jobs, Has
<1>8. CASE q = p
  BY <1>4, <1>5, <1>7, <1>8 DEF Whole
<1>9. CASE q # p
  <2>1. IF q \in job[t].todo THEN News(t, q) ELSE Whole(t, q)
    BY <1>1, <1>6 DEF WorkInv
  <2>2. file'[q] = file[q] /\ gone'[q] = gone[q]
    BY <1>2, <1>5, <1>7, <1>9
  <2> QED
    BY <1>4, <1>9, <2>1, <2>2 DEF News, Whole
<1> QED
  BY <1>8, <1>9

LEMMA WorkKept ==
  ASSUME FilesInv, [Next]_vars, NEW t \in Writers
  PROVE  WorkInv(t)'
<1> USE DEF FilesInv
<1>1. ASSUME UNCHANGED <<file, gone, job, crossed>>
      PROVE  WorkInv(t)'
  BY <1>1, StaysKeeps DEF Stays
<1>2. ASSUME \/ \E p \in Posts : SaveEdit(p)
             \/ \E d \in Deleters, p \in Posts : RemoveFile(d, p)
             \/ \E d \in Deleters : RecordDeleted(d)
      PROVE  WorkInv(t)'
  BY <1>2, WrittenByConsole, BesideKeeps
<1>3. ASSUME NEW p \in Posts, BeginEdit(p) \/ AbandonEdit(p) \/ TheyEdit(p)
      PROVE  WorkInv(t)'
  BY <1>1, <1>3 DEF BeginEdit, AbandonEdit, TheyEdit
<1>4. ASSUME NEW d \in Deleters, ReadDeleted(d) \/ DeleteFails(d)
      PROVE  WorkInv(t)'
  BY <1>1, <1>4 DEF ReadDeleted, DeleteFails
<1>5. CASE TheyTakeIn \/ UNCHANGED vars
  BY <1>1, <1>5 DEF TheyTakeIn, vars
<1>6. ASSUME NEW u \in Writers, BeginPull(u) \/ ReadPosts(u) \/ Compare(u)
      PROVE  WorkInv(t)'
  <2>1. CASE u = t
    BY <1>6, <2>1, BeginKeeps, ReadKeeps, CompareKeeps
  <2>2. CASE u # t
    <3>1. job'[t] = job[t] /\ UNCHANGED <<file, gone, crossed>>
      BY <1>6, <2>2, TypedNow DEF BeginPull, ReadPosts, Compare
    <3> QED
      BY <3>1, StaysKeeps DEF Stays
  <2> QED
    BY <2>1, <2>2
<1>7. CASE BeginRender
  <2>1. CASE t = "render"
    BY <1>7, <2>1, RenderKeeps
  <2>2. CASE t # "render"
    <3>1. PICK stale : job' = [job EXCEPT !["render"] = Rendering(stale)]
      BY <1>7, Begun
    <3>2. job'[t] = job[t] /\ UNCHANGED <<file, gone, crossed>>
      BY <1>7, <2>2, <3>1, TypedNow DEF BeginRender
    <3> QED
      BY <3>2, StaysKeeps DEF Stays
  <2> QED
    BY <2>1, <2>2
<1>8. ASSUME NEW u \in Writers, NEW p \in Posts, Save(u, p)
      PROVE  WorkInv(t)'
  BY <1>8, SaveKeeps, WrittenBySave, BesideKeeps
<1>9. ASSUME NEW ts \in SUBSET Writers, Rest(ts), UNCHANGED <<file, gone>>
      PROVE  WorkInv(t)'
  <2>1. CASE t \in ts
    BY <1>9, <2>1, RestIs DEF WorkInv
  <2>2. CASE t \notin ts
    BY <1>9, <2>2, RestIs, StaysKeeps DEF Stays
  <2> QED
    BY <2>1, <2>2
<1>10. ASSUME NEW u \in Writers, Finish(u) \/ Fail(u)
       PROVE  WorkInv(t)'
  BY <1>9, <1>10 DEF Finish, Fail
<1>11. CASE Crash
  BY <1>9, <1>11 DEF Crash
<1> QED
  BY <1>2, <1>3, <1>4, <1>5, <1>6, <1>7, <1>8, <1>10, <1>11, RenderWrites DEF Next

LEMMA FilesInit == Init => FilesInv
<1> SUFFICES ASSUME Init PROVE FilesInv
  OBVIOUS
<1>1. \A d \in Deleters : erase[d].pc = "idle"
  BY DEF Init, NoErase
<1>2. \A t \in Writers : job[t].pc = "idle"
  BY DEF Init, Idle
<1> QED
  BY <1>1, <1>2, InitTypes DEF FilesInv, EraseInv, WorkInv

LEMMA FilesKept == ASSUME OneDeletion PROVE Spec => []FilesInv
<1>1. ASSUME FilesInv, [Next]_vars
      PROVE  FilesInv'
  BY <1>1, TypesKept, EraseKept, WorkKept DEF FilesInv
<1> QED
  BY <1>1, FilesInit, PTL DEF Spec

(* Every variable keeps its type, and what a take-in or render has left to
   save is of the version or files it read, however many deletions are served. *)
THEOREM TypeCorrect == Spec => []TypeOK
<1>1. Init => TypeInv
  BY InitTypes
<1>2. TypeInv /\ [Next]_vars => TypeInv'
  BY TypesKept
<1>3. TypeInv => TypeOK
  BY DEF TypeInv
<1> QED
  BY <1>1, <1>2, <1>3, PTL DEF Spec

(* When a take-in is through, everything in the version it took in is here at
   least as new, was deleted here since, or was written meanwhile, as long as
   the console serves one deletion at a time (pull, mergePosts). *)
THEOREM TakesInAll == ASSUME OneDeletion PROVE Spec => []TakenInWhole
<1>1. ASSUME FilesInv PROVE TakenInWhole
  <2>1. TypeOK
    BY <1>1 DEF FilesInv, TypeInv
  <2>2. ASSUME NEW t \in Pulls, job[t].pc = "save", job[t].todo = {}, NEW p \in Has(job[t].from)
        PROVE  \/ p \in Has(file) /\ file[p].at >= job[t].from[p].at
               \/ gone[p] >= job[t].from[p].at
               \/ p \in crossed[t]
    BY <1>1, <2>2, RenderWrites DEF FilesInv, WorkInv, Whole, Has
  <2> QED
    BY <2>1, <2>2 DEF TakenInWhole
<1> QED
  BY <1>1, FilesKept, PTL

-----------------------------------------------------------------------------
(* As long as no post was first written with a date ahead, every copy's time is that of its edit,
   and what the owner was told is deleted is on record. *)
TimesInv ==
  /\ \A p \in Posts : /\ file[p] # NoPost => file[p].at = file[p].edit
                      /\ theirs[p] # NoPost => theirs[p].at = theirs[p].edit
                      /\ erased[p] <= gone[p]
  /\ \A t \in Writers, p \in Posts :
       job[t].from[p] # NoPost => job[t].from[p].at = job[t].from[p].edit

AtEdit(files) == \A p \in Posts : files[p] # NoPost => files[p].at = files[p].edit

LEMMA TimesAre ==
  TimesInv <=> /\ AtEdit(file) /\ AtEdit(theirs)
               /\ \A p \in Posts : erased[p] <= gone[p]
               /\ \A t \in Writers : AtEdit(job[t].from)
  BY DEF TimesInv, AtEdit

LEMMA TimesInit == ASSUME Dates \subseteq {0}, Init PROVE TimesInv
<1> DEFINE As(first, places) == [p \in Posts |-> IF p \in places
                                   THEN [edit |-> 0, at |-> first[p]] ELSE NoPost]
<1>1. PICK first \in [Posts -> Dates], here \in SUBSET Posts, there \in SUBSET Posts :
        file = As(first, here) /\ theirs = As(first, there)
  BY Zenon DEF Init
<1>2. \A p \in Posts : first[p] = 0
  OBVIOUS
<1>3. \A places \in SUBSET Posts : AtEdit(As(first, places))
  BY <1>2 DEF AtEdit
<1>4. AtEdit(file) /\ AtEdit(theirs)
  BY <1>1, <1>3
<1>5. \A t \in Writers : AtEdit(job[t].from)
  BY DEF Init, Idle, None, AtEdit
<1>6. \A p \in Posts : erased[p] <= gone[p]
  BY DEF Init
<1> QED
  BY <1>4, <1>5, <1>6, TimesAre

(* Where the jobs' files come from. *)
LEMMA FromKept ==
  ASSUME TypeInv, TimesInv, NEW t \in Writers, [Next]_vars
  PROVE  AtEdit(job'[t].from)
<1>1. AtEdit(job[t].from) /\ AtEdit(file) /\ AtEdit(theirs) /\ AtEdit(None)
  BY TimesAre DEF AtEdit, None
<1>2. ASSUME NEW j \in Jobs, NEW u \in Writers, job' = [job EXCEPT ![u] = j],
             j.from \in {job[u].from, file, theirs}
      PROVE  AtEdit(job'[t].from)
  <2>1. job'[t].from \in {job[t].from, file, theirs}
    BY <1>2, TypedNow
  <2> QED
    BY <1>1, <2>1
<1>3. ASSUME NEW ts \in SUBSET Writers, Rest(ts)
      PROVE  AtEdit(job'[t].from)
  <2>1. job'[t].from \in {job[t].from, None}
    BY <1>3, RestIs
  <2> QED
    BY <1>1, <2>1
<1>4. ASSUME job' = job
      PROVE  AtEdit(job'[t].from)
  BY <1>1, <1>4
<1>5. ASSUME NEW u \in Writers, BeginPull(u) \/ ReadPosts(u) \/ Compare(u) \/ \E p \in Posts : Save(u, p)
      PROVE  AtEdit(job'[t].from)
  <2>1. CASE BeginPull(u)
    <3>1. Listed \in Jobs /\ Listed.from = theirs
      BY <1>5, NewJobs DEF Listed, Idle
    <3> QED
      BY <2>1, <3>1, JobSteps, <1>2
  <2>2. CASE ReadPosts(u) \/ Compare(u) \/ \E p \in Posts : Save(u, p)
    BY <2>2, JobSteps, NewJobs, <1>2
  <2> QED
    BY <1>5, <2>1, <2>2
<1>6. CASE BeginRender
  BY <1>6, Begun, RenderWrites, <1>2
<1>7. ASSUME NEW u \in Writers, Finish(u) \/ Fail(u)
      PROVE  AtEdit(job'[t].from)
  BY <1>3, <1>7 DEF Finish, Fail
<1>8. CASE Crash
  BY <1>3, <1>8 DEF Crash
<1>9. ASSUME NEW p \in Posts, BeginEdit(p) \/ SaveEdit(p) \/ AbandonEdit(p) \/ TheyEdit(p)
      PROVE  AtEdit(job'[t].from)
  BY <1>4, <1>9 DEF BeginEdit, SaveEdit, AbandonEdit, TheyEdit
<1>10. ASSUME NEW d \in Deleters, \/ \E p \in Posts : RemoveFile(d, p)
                                  \/ ReadDeleted(d) \/ RecordDeleted(d) \/ DeleteFails(d)
       PROVE  AtEdit(job'[t].from)
  BY <1>4, <1>10 DEF RemoveFile, ReadDeleted, RecordDeleted, DeleteFails
<1>11. CASE TheyTakeIn \/ UNCHANGED vars
  BY <1>4, <1>11 DEF TheyTakeIn, vars
<1> QED
  BY <1>5, <1>6, <1>7, <1>8, <1>9, <1>10, <1>11, RenderWrites DEF Next

LEMMA TimesKept ==
  ASSUME TypeInv, EraseInv, TimesInv, [Next]_vars
  PROVE  TimesInv'
<1>1. \A t \in Writers : AtEdit(job'[t].from)
  BY FromKept
<1>2. AtEdit(file) /\ AtEdit(theirs) /\ \A p \in Posts : erased[p] <= gone[p]
  BY TimesAre
<1>3. ASSUME AtEdit(file'), AtEdit(theirs'), \A p \in Posts : erased'[p] <= gone'[p]
      PROVE  TimesInv'
  BY <1>1, <1>3 DEF TimesInv, AtEdit
<1>4. ASSUME UNCHANGED <<file, theirs, gone, erased>>
      PROVE  TimesInv'
  BY <1>2, <1>3, <1>4
<1>5. ASSUME NEW p \in Posts, erased' = [erased EXCEPT ![p] = 0], gone' = gone
      PROVE  \A q \in Posts : erased'[q] <= gone'[q]
  <2>1. \A q \in Posts : erased'[q] = 0 \/ erased'[q] = erased[q]
    BY <1>5, TypedNow
  <2>2. \A q \in Posts : gone[q] \in Nat
    BY TypedNow, PostFilesAssumption
  <2> QED
    BY <1>2, <1>5, <2>1, <2>2
<1>6. ASSUME NEW p \in Posts, SaveEdit(p)
      PROVE  TimesInv'
  <2>1. AtEdit(file')
    BY <1>2, <1>6, TypedNow DEF SaveEdit, AtEdit, Files
  <2> QED
    BY <1>2, <1>3, <1>5, <1>6, <2>1 DEF SaveEdit
<1>7. ASSUME NEW d \in Deleters, NEW p \in Posts, RemoveFile(d, p)
      PROVE  TimesInv'
  <2>1. AtEdit(file')
    BY <1>2, <1>7, TypedNow DEF RemoveFile, AtEdit, Files
  <2> QED
    BY <1>2, <1>3, <1>5, <1>7, <2>1 DEF RemoveFile
<1>8. ASSUME NEW d \in Deleters, RecordDeleted(d)
      PROVE  TimesInv'
  <2> DEFINE p == erase[d].post
  <2>1. p \in Posts /\ gone' = [gone EXCEPT ![p] = now'] /\ erased' = [erased EXCEPT ![p] = now']
        /\ UNCHANGED <<file, theirs>>
    BY <1>8, RecordIs DEF RecordDeleted
  <2> HIDE DEF p
  <2>2. now' \in Nat
    BY <1>8, Ticked, PostFilesAssumption DEF RecordDeleted
  <2>3. gone'[p] = now' /\ erased'[p] = now'
    BY <2>1, TypedNow
  <2>4. \A q \in Posts : q # p => gone'[q] = gone[q] /\ erased'[q] = erased[q]
    BY <2>1, TypedNow
  <2>5. \A q \in Posts : erased'[q] <= gone'[q]
    BY <1>2, <2>2, <2>3, <2>4
  <2> QED
    BY <1>2, <1>3, <2>1, <2>5
<1>9. ASSUME NEW p \in Posts, TheyEdit(p)
      PROVE  TimesInv'
  <2>1. AtEdit(theirs')
    BY <1>2, <1>9, TypedNow DEF TheyEdit, AtEdit, Files
  <2> QED
    BY <1>2, <1>3, <1>9, <2>1 DEF TheyEdit
<1>10. CASE TheyTakeIn
  <2>1. AtEdit(theirs')
    BY <1>2, <1>10 DEF TheyTakeIn, AtEdit
  <2> QED
    BY <1>2, <1>3, <1>10, <2>1 DEF TheyTakeIn
<1>11. ASSUME NEW t \in Writers, NEW p \in Posts, Save(t, p)
       PROVE  TimesInv'
  <2>1. AtEdit(job[t].from)
    BY TimesAre
  <2>2. \A q \in Posts : file'[q] = file[q] \/ file'[q] = job[t].from[q]
    BY <1>11, TypedNow DEF Save, Files
  <2>3. AtEdit(file')
    BY <1>2, <2>1, <2>2 DEF AtEdit
  <2> QED
    BY <1>2, <1>3, <1>5, <1>11, <2>3 DEF Save
<1>12. ASSUME NEW p \in Posts, BeginEdit(p) \/ AbandonEdit(p)
       PROVE  TimesInv'
  BY <1>4, <1>12 DEF BeginEdit, AbandonEdit
<1>13. ASSUME NEW d \in Deleters, ReadDeleted(d) \/ DeleteFails(d)
       PROVE  TimesInv'
  BY <1>4, <1>13 DEF ReadDeleted, DeleteFails
<1>14. ASSUME NEW t \in Writers, BeginPull(t) \/ ReadPosts(t) \/ Compare(t) \/ Finish(t) \/ Fail(t)
       PROVE  TimesInv'
  BY <1>4, <1>14 DEF BeginPull, ReadPosts, Compare, Finish, Fail
<1>15. CASE BeginRender \/ Crash \/ UNCHANGED vars
  BY <1>4, <1>15 DEF BeginRender, Crash, vars
<1> QED
  BY <1>6, <1>7, <1>8, <1>9, <1>10, <1>11, <1>12, <1>13, <1>14, <1>15, RenderWrites DEF Next

-----------------------------------------------------------------------------
(* Only a save by the job that steps may undo something, and what it saves of
   a post that nobody crossed is new. *)
LEMMA SaveUndoes ==
  ASSUME FilesInv, TimesInv, NEW t \in Writers, NEW p \in Posts, Save(t, p), Undone(p)
  PROVE  p \in crossed[t]
<1> USE DEF FilesInv
<1> SUFFICES ASSUME p \notin crossed[t] PROVE FALSE
  OBVIOUS
<1>1. job[t].pc = "save" /\ job[t] \in Jobs /\ p \in job[t].todo /\ p \in Has(job[t].from)
  BY JobIs DEF Save
<1>2. News(t, p)
  BY <1>1 DEF WorkInv
<1>3. job[t].from[p] \in Copy /\ job[t].from[p] # NoPost
  BY <1>1, IsPost DEF Jobs, Has
<1>4. job[t].from[p].at = job[t].from[p].edit /\ job[t].from[p].edit \in Nat
  BY <1>3, CopyTimes DEF TimesInv
<1>5. file'[p] = job[t].from[p]
  BY TypedNow DEF Save, Files
<1>6. erased[p] <= gone[p] /\ erased[p] \in Nat /\ gone[p] \in Nat
  BY TypedNow, PostFilesAssumption DEF TimesInv
<1>7. CASE file[p] = NoPost
  BY <1>2, <1>4, <1>5, <1>6, <1>7 DEF News, Undone
<1>8. CASE file[p] # NoPost
  <2>1. file[p] \in Copy
    BY <1>8, TypedNow DEF Files
  <2>2. file[p].at = file[p].edit /\ file[p].edit \in Nat
    BY <1>8, <2>1, CopyTimes DEF TimesInv
  <2> QED
    BY <1>2, <1>4, <1>5, <1>8, <2>2 DEF News, Undone
<1> QED
  BY <1>7, <1>8

LEMMA NotUndone ==
  ASSUME TypeInv, NEW p \in Posts, file'[p] = file[p]
  PROVE  ~Undone(p)
<1>1. file[p] # NoPost => file[p].edit \in Nat
  BY TypedNow, CopyTimes DEF Files
<1> QED
  BY <1>1 DEF Undone

LEMMA StepUndoes ==
  ASSUME FilesInv, TimesInv, [Next]_vars, NEW t \in Writers, NEW p \in Posts,
         job'[t] # job[t], Undone(p)
  PROVE  p \in crossed[t]
<1> USE DEF FilesInv
<1>1. file'[p] # file[p]
  BY NotUndone
<1>2. ASSUME NEW u \in Writers, NEW q \in Posts, Save(u, q)
      PROVE  p \in crossed[t]
  <2>1. q = p
    BY <1>1, <1>2, TypedNow DEF Save, Files
  <2>2. job' = [job EXCEPT ![u] = Saved(u, q)]
    BY <1>2, JobSteps
  <2>3. u = t
    BY <2>2, TypedNow
  <2> QED
    BY <1>2, <2>1, <2>3, SaveUndoes
<1>3. ASSUME UNCHANGED job
      PROVE  FALSE
  BY <1>3
<1>4. ASSUME UNCHANGED file
      PROVE  FALSE
  BY <1>1, <1>4
<1>5. ASSUME NEW q \in Posts, BeginEdit(q) \/ SaveEdit(q) \/ AbandonEdit(q) \/ TheyEdit(q)
      PROVE  FALSE
  BY <1>3, <1>5 DEF BeginEdit, SaveEdit, AbandonEdit, TheyEdit
<1>6. ASSUME NEW d \in Deleters, \/ \E q \in Posts : RemoveFile(d, q)
                                 \/ ReadDeleted(d) \/ RecordDeleted(d) \/ DeleteFails(d)
      PROVE  FALSE
  BY <1>3, <1>6 DEF RemoveFile, ReadDeleted, RecordDeleted, DeleteFails
<1>7. ASSUME NEW u \in Writers, BeginPull(u) \/ ReadPosts(u) \/ Compare(u) \/ Finish(u) \/ Fail(u)
      PROVE  FALSE
  BY <1>4, <1>7 DEF BeginPull, ReadPosts, Compare, Finish, Fail
<1>8. ASSUME BeginRender \/ Crash \/ TheyTakeIn \/ UNCHANGED vars
      PROVE  FALSE
  BY <1>4, <1>8 DEF BeginRender, Crash, TheyTakeIn, vars
<1> QED
  BY <1>2, <1>5, <1>6, <1>7, <1>8, RenderWrites DEF Next

(* A take-in or render undoes an edit or a deletion only if that was made
   after it read the files, as long as the console serves one deletion at a
   time and no post was first written with a date ahead (pull, mergePosts, renderPost). *)
THEOREM UndoesNothingUncrossed ==
  ASSUME OneDeletion, Dates \subseteq {0}
  PROVE  Spec => UndoneOnlyIfCrossed
<1> DEFINE Step == \A t \in Writers, p \in Posts :
                     job'[t] # job[t] /\ Undone(p) => p \in crossed[t]
<1>1. Spec => []TimesInv
  <2>1. Init => TimesInv
    BY TimesInit
  <2>2. ASSUME FilesInv, TimesInv, [Next]_vars
        PROVE  TimesInv'
    BY <2>2, TimesKept DEF FilesInv
  <2> QED
    BY <2>1, <2>2, FilesKept, PTL DEF Spec
<1>2. ASSUME FilesInv, TimesInv, [Next]_vars
      PROVE  [Step]_vars
  BY <1>2, StepUndoes
<1> QED
  BY <1>1, <1>2, FilesKept, PTL DEF Spec, UndoneOnlyIfCrossed

-----------------------------------------------------------------------------
(* The editor of one post. *)

(* At most one call saves, and it takes no files. *)
OneSave ==
  /\ \A c, d \in E!Going : call[c].kind = "save" /\ call[d].kind = "save" => c = d
  /\ \A c \in E!Going : call[c].kind = "save" => call[c].files = {}

EditorTypeInv == E!TypeOK /\ OneSave

Calls == [Slots -> E!Call \cup {NoCall}]

(* Slot c gets the call k, and the other slots keep theirs. *)
Gets(c, k) ==
  /\ k \in E!Call /\ call' \in Calls /\ call'[c] = k
  /\ \A d \in Slots \ {c} : call'[d] = call[d]
  /\ E!Going' = E!Going \cup {c}

(* Slot c is free again. *)
Frees(c) ==
  /\ call' \in Calls /\ call'[c] = NoCall
  /\ \A d \in Slots \ {c} : call'[d] = call[d]
  /\ E!Going' = E!Going \ {c}

(* The call of slot c is at another place, with another copy. *)
Moves(c, where, copy) ==
  /\ Gets(c, call'[c]) /\ c \in E!Going
  /\ call'[c].at = where /\ call'[c].copy = copy
  /\ call'[c].kind = call[c].kind /\ call'[c].files = call[c].files /\ call'[c].todo = call[c].todo

(* A call begins in slot c. *)
Begins(c, kind, fs) ==
  /\ Gets(c, call'[c])
  /\ call'[c].at = "sent" /\ call'[c].kind = kind /\ call'[c].files = fs

-----------------------------------------------------------------------------
LEMMA NoCallIsNone == NoCall \notin E!Call
  BY EditorConstants DEF E!EditorAssumption

LEMMA GoingCalls ==
  ASSUME E!TypeOK
  PROVE  /\ call \in Calls /\ E!Going \subseteq Slots
         /\ \A c \in E!Going : call[c] \in E!Call /\ call[c] # NoCall
         /\ \A c \in Slots \ E!Going : call[c] = NoCall
  BY NoCallIsNone DEF E!TypeOK, E!Going, Calls

LEMMA FreeSlots ==
  ASSUME NEW c \in E!Free
  PROVE  c \in Slots /\ c \notin E!Going
  BY DEF E!Free, E!Going

LEMMA Put ==
  ASSUME E!TypeOK, NEW c \in Slots, NEW k \in E!Call, call' = [call EXCEPT ![c] = k]
  PROVE  Gets(c, k)
<1>1. /\ call \in Calls /\ call' \in Calls /\ call'[c] = k
      /\ \A d \in Slots \ {c} : call'[d] = call[d]
  BY GoingCalls DEF Calls
<1>2. k # NoCall
  BY NoCallIsNone
<1>3. E!Going' = E!Going \cup {c}
  <2>1. \A d \in Slots : call'[d] # NoCall <=> d = c \/ call[d] # NoCall
    BY <1>1, <1>2
  <2>. QED  BY <2>1 DEF E!Going
<1>. QED  BY <1>1, <1>3 DEF Gets

LEMMA Freed ==
  ASSUME E!TypeOK, NEW c \in Slots, call' = [call EXCEPT ![c] = NoCall]
  PROVE  Frees(c)
<1>1. /\ call \in Calls /\ call' \in Calls /\ call'[c] = NoCall
      /\ \A d \in Slots \ {c} : call'[d] = call[d]
  BY GoingCalls DEF Calls
<1>2. E!Going' = E!Going \ {c}
  <2>1. \A d \in Slots : call'[d] # NoCall <=> d # c /\ call[d] # NoCall
    BY <1>1
  <2>. QED  BY <2>1 DEF E!Going
<1>. QED  BY <1>1, <1>2 DEF Frees

LEMMA Beginning ==
  ASSUME NEW kind \in {"add", "remove", "save"},
         NEW fs \in SUBSET Attachments, NEW more \in SUBSET Attachments
  PROVE  /\ E!Began(kind, fs) \in E!Call
         /\ [E!Began(kind, fs) EXCEPT !.todo = more] \in E!Call
         /\ E!Began(kind, fs).kind = kind /\ E!Began(kind, fs).at = "sent" /\ E!Began(kind, fs).files = fs
         /\ [E!Began(kind, fs) EXCEPT !.todo = more].kind = kind
         /\ [E!Began(kind, fs) EXCEPT !.todo = more].at = "sent"
         /\ [E!Began(kind, fs) EXCEPT !.todo = more].files = fs
  BY DEF E!Began, E!Call

LEMMA AddBegins ==
  ASSUME E!TypeOK, NEW c \in Slots, NEW fs \in SUBSET Attachments, E!AddFiles(c, fs)
  PROVE  c \notin E!Going /\ \E f \in fs : Begins(c, "add", {f})
<1>1. PICK f \in fs : call' = [call EXCEPT ![c] = [E!Began("add", {f}) EXCEPT !.todo = fs \ {f}]]
  BY Zenon DEF E!AddFiles
<1>. DEFINE k == [E!Began("add", {f}) EXCEPT !.todo = fs \ {f}]
<1>2. k \in E!Call /\ k.kind = "add" /\ k.at = "sent" /\ k.files = {f}
  BY Beginning
<1>3. c \notin E!Going
  BY FreeSlots DEF E!AddFiles
<1>. HIDE DEF k
<1>4. call' = [call EXCEPT ![c] = k]
  BY <1>1 DEF k
<1>5. Gets(c, k)
  BY <1>2, <1>4, Put
<1>6. Begins(c, "add", {f})
  BY <1>2, <1>5 DEF Begins, Gets
<1>. QED  BY <1>3, <1>6

LEMMA RemoveBegins ==
  ASSUME E!TypeOK, NEW c \in Slots, NEW f \in Attachments, E!RemoveFile(c, f)
  PROVE  c \notin E!Going /\ Begins(c, "remove", {f})
<1>. DEFINE k == E!Began("remove", {f})
<1>1. k \in E!Call /\ k.kind = "remove" /\ k.at = "sent" /\ k.files = {f}
  <2>1. {f} \in SUBSET Attachments /\ {} \in SUBSET Attachments
    OBVIOUS
  <2>. QED  BY <2>1, Beginning
<1>2. call' = [call EXCEPT ![c] = k] /\ c \notin E!Going
  BY FreeSlots DEF E!RemoveFile
<1>. HIDE DEF k
<1>3. Gets(c, k)
  BY <1>1, <1>2, Put
<1>. QED  BY <1>1, <1>2, <1>3 DEF Begins, Gets

LEMMA SaveBegins ==
  ASSUME E!TypeOK, NEW c \in Slots, E!SavePost(c)
  PROVE  c \notin E!Going /\ Begins(c, "save", {})
<1>. DEFINE k == E!Began("save", {})
<1>1. k \in E!Call /\ k.kind = "save" /\ k.at = "sent" /\ k.files = {}
  BY Beginning
<1>2. call' = [call EXCEPT ![c] = k] /\ c \notin E!Going
  BY FreeSlots DEF E!SavePost
<1>. HIDE DEF k
<1>3. Gets(c, k)
  BY <1>1, <1>2, Put
<1>. QED  BY <1>1, <1>2, <1>3 DEF Begins, Gets

LEMMA ReadMoves ==
  ASSUME E!TypeOK, NEW c \in Slots, E!Read(c)
  PROVE  Moves(c, "read", listed)
<1>. DEFINE k == [call[c] EXCEPT !.at = "read", !.copy = listed]
<1>1. c \in E!Going /\ call[c] \in E!Call /\ listed \subseteq Attachments
  BY GoingCalls DEF E!Read, E!At, E!TypeOK
<1>2. /\ k \in E!Call /\ k.at = "read" /\ k.copy = listed
      /\ k.kind = call[c].kind /\ k.files = call[c].files /\ k.todo = call[c].todo
  BY <1>1 DEF E!Call
<1>3. call' = [call EXCEPT ![c] = k]
  BY GoingCalls DEF E!Read, Calls
<1>. HIDE DEF k
<1>4. Gets(c, k)
  BY <1>2, <1>3, Put
<1>. QED  BY <1>1, <1>2, <1>4 DEF Moves, Gets

LEMMA FileMoves ==
  ASSUME E!TypeOK, NEW c \in Slots, E!File(c)
  PROVE  Moves(c, "filed", call[c].copy)
<1>. DEFINE k == [call[c] EXCEPT !.at = "filed"]
<1>1. c \in E!Going /\ call[c] \in E!Call
  BY GoingCalls DEF E!File, E!At
<1>2. /\ k \in E!Call /\ k.at = "filed" /\ k.copy = call[c].copy
      /\ k.kind = call[c].kind /\ k.files = call[c].files /\ k.todo = call[c].todo
  BY <1>1 DEF E!Call
<1>3. call' = [call EXCEPT ![c] = k]
  BY GoingCalls DEF E!File, Calls
<1>. HIDE DEF k
<1>4. Gets(c, k)
  BY <1>2, <1>3, Put
<1>. QED  BY <1>1, <1>2, <1>4 DEF Moves, Gets

LEMMA SaveMoves ==
  ASSUME E!TypeOK, NEW c \in Slots, E!Save(c)
  PROVE  Moves(c, "saved", call[c].copy)
<1>. DEFINE k == [call[c] EXCEPT !.at = "saved"]
<1>1. c \in E!Going /\ call[c] \in E!Call
  BY GoingCalls DEF E!Save, E!At
<1>2. /\ k \in E!Call /\ k.at = "saved" /\ k.copy = call[c].copy
      /\ k.kind = call[c].kind /\ k.files = call[c].files /\ k.todo = call[c].todo
  BY <1>1 DEF E!Call
<1>3. call' = [call EXCEPT ![c] = k]
  BY GoingCalls DEF E!Save, Calls
<1>. HIDE DEF k
<1>4. Gets(c, k)
  BY <1>2, <1>3, Put
<1>. QED  BY <1>1, <1>2, <1>4 DEF Moves, Gets

LEMMA RenderedMoves ==
  ASSUME E!TypeOK, NEW c \in Slots, E!Rendered(c)
  PROVE  Moves(c, "answered", listed)
<1>. DEFINE k == [call[c] EXCEPT !.at = "answered", !.copy = listed]
<1>1. c \in E!Going /\ call[c] \in E!Call /\ listed \subseteq Attachments
  BY GoingCalls DEF E!Rendered, E!At, E!TypeOK
<1>2. /\ k \in E!Call /\ k.at = "answered" /\ k.copy = listed
      /\ k.kind = call[c].kind /\ k.files = call[c].files /\ k.todo = call[c].todo
  BY <1>1 DEF E!Call
<1>3. call' = [call EXCEPT ![c] = k]
  BY GoingCalls DEF E!Rendered, Calls
<1>. HIDE DEF k
<1>4. Gets(c, k)
  BY <1>2, <1>3, Put
<1>. QED  BY <1>1, <1>2, <1>4 DEF Moves, Gets

(* After a file was uploaded the next one follows, if there is one. *)
LEMMA AddedFollows ==
  ASSUME E!TypeOK, NEW c \in Slots, E!Added(c)
  PROVE  \/ call[c].todo = {} /\ Frees(c)
         \/ call[c].todo # {} /\ \E f \in Attachments : Begins(c, "add", {f})
<1>. DEFINE more == call[c].todo
<1>1. c \in E!Going /\ call[c] \in E!Call /\ more \subseteq Attachments
  BY GoingCalls DEF E!Added, E!At, E!Call
<1>2. CASE more = {}
  <2>1. call' = [call EXCEPT ![c] = NoCall]
    BY <1>2 DEF E!Added
  <2>. QED  BY <1>2, <2>1, Freed
<1>3. CASE more # {}
  <2>1. PICK f \in more : call' = [call EXCEPT ![c] = [E!Began("add", {f}) EXCEPT !.todo = more \ {f}]]
    BY <1>3, Zenon DEF E!Added
  <2>. DEFINE k == [E!Began("add", {f}) EXCEPT !.todo = more \ {f}]
  <2>2. k \in E!Call /\ k.kind = "add" /\ k.at = "sent" /\ k.files = {f}
    BY <1>1, Beginning
  <2>3. call' = [call EXCEPT ![c] = k]
    BY <2>1
  <2>. HIDE DEF k
  <2>4. Gets(c, k)
    BY <2>2, <2>3, Put
  <2>5. Begins(c, "add", {f})
    BY <2>2, <2>4 DEF Begins, Gets
  <2>. QED  BY <1>1, <1>3, <2>5
<1>. QED  BY <1>2, <1>3

-----------------------------------------------------------------------------
Saves == \E c \in Slots : call[c] # NoCall /\ call[c].kind = "save"

LEMMA MovesSaves ==
  ASSUME EditorTypeInv, NEW c \in Slots, NEW where, NEW copy, Moves(c, where, copy)
  PROVE  OneSave' /\ (Saves' <=> Saves)
<1>1. /\ \A d \in Slots : call'[d] # NoCall <=> call[d] # NoCall
      /\ \A d \in E!Going : call'[d].kind = call[d].kind /\ call'[d].files = call[d].files
      /\ E!Going' = E!Going
  BY NoCallIsNone, GoingCalls DEF Moves, Gets, EditorTypeInv, E!Going
<1>2. OneSave'
  BY <1>1 DEF EditorTypeInv, OneSave
<1>3. Saves' <=> Saves
  BY <1>1 DEF Saves, E!Going
<1>. QED  BY <1>2, <1>3

LEMMA BeginsSaves ==
  ASSUME EditorTypeInv, NEW c \in Slots, NEW kind \in {"add", "remove"}, NEW fs, Begins(c, kind, fs),
         c \notin E!Going \/ call[c].kind # "save"
  PROVE  OneSave' /\ (Saves' <=> Saves)
<1>1. /\ \A d \in E!Going' : d # c => d \in E!Going
      /\ \A d \in E!Going' : call'[d].kind = "save" => d # c
      /\ \A d \in Slots : d # c => call'[d] = call[d]
      /\ E!Going \subseteq Slots /\ E!Going' \subseteq Slots
  BY DEF Begins, Gets, EditorTypeInv, E!Going
<1>2. OneSave'
  BY <1>1 DEF EditorTypeInv, OneSave
<1>3. Saves' <=> Saves
  <2>1. call'[c].kind # "save"
    BY DEF Begins
  <2>. QED  BY <1>1, <2>1 DEF Saves, E!Going
<1>. QED  BY <1>2, <1>3

LEMMA SaveBeginsAlone ==
  ASSUME EditorTypeInv, NEW c \in Slots, Begins(c, "save", {}), ~Saves
  PROVE  OneSave' /\ Saves'
<1>1. \A d \in E!Going' : d # c => d \in E!Going /\ call'[d] = call[d] /\ call[d].kind # "save"
  BY DEF Begins, Gets, EditorTypeInv, E!Going, Saves
<1>2. c \in E!Going' /\ call'[c].kind = "save" /\ call'[c].files = {}
  BY DEF Begins, Gets
<1>3. OneSave'
  BY <1>1, <1>2 DEF OneSave
<1>4. Saves'
  BY <1>2 DEF Saves, E!Going
<1>. QED  BY <1>3, <1>4

LEMMA FreesSaves ==
  ASSUME EditorTypeInv, NEW c \in E!Going, Frees(c)
  PROVE  OneSave' /\ (Saves' <=> Saves /\ call[c].kind # "save")
<1>1. /\ \A d \in E!Going' : d # c /\ d \in E!Going /\ call'[d] = call[d]
      /\ \A d \in E!Going : d # c => d \in E!Going'
      /\ E!Going \subseteq Slots
  BY DEF Frees, EditorTypeInv, E!Going
<1>2. OneSave'
  BY <1>1 DEF EditorTypeInv, OneSave
<1>3. Saves' <=> Saves /\ call[c].kind # "save"
  <2>1. Saves' <=> \E d \in E!Going' : call'[d].kind = "save"
    BY DEF Saves, E!Going
  <2>2. Saves <=> \E d \in E!Going : call[d].kind = "save"
    BY DEF Saves, E!Going
  <2>3. CASE call[c].kind = "save"
    BY <1>1, <2>1, <2>2, <2>3 DEF EditorTypeInv, OneSave
  <2>4. CASE call[c].kind # "save"
    BY <1>1, <2>1, <2>2, <2>4
  <2>. QED  BY <2>3, <2>4
<1>. QED  BY <1>2, <1>3

(* The page with another text, list or preview is a page. *)
LEMMA Pages ==
  ASSUME E!TypeOK
  PROVE  /\ E!Opened \in E!Editor /\ E!Closed \in E!Editor /\ ~E!Opened.busy /\ ~E!Closed.busy
         /\ E!Opened.open /\ ~E!Closed.open
         /\ editor \in E!Editor /\ editor.text \in 0..MaxTexts /\ editor.preview \in 0..MaxTexts
         /\ editor.open \in BOOLEAN /\ editor.busy \in BOOLEAN /\ editor.due \in BOOLEAN
  <1>1. 0 \in 0..MaxTexts
    BY EditorConstants DEF E!EditorAssumption
  <1>. QED  BY <1>1 DEF E!TypeOK, E!Opened, E!Closed, E!Editor

LEMMA TypedPage ==
  ASSUME NEW e \in E!Editor, e.text < MaxTexts
  PROVE  /\ E!Typed(e) \in E!Editor /\ E!Typed(e).open = e.open /\ E!Typed(e).busy = e.busy
         /\ E!Typed(e).attached = e.attached /\ E!Typed(e).shown = e.shown
         /\ E!Typed(e).text = e.text + 1 /\ E!Typed(e).preview = e.preview /\ E!Typed(e).due
  <1>1. e.text + 1 \in 0..MaxTexts
    BY EditorConstants DEF E!EditorAssumption, E!Editor
  <1>. QED  BY <1>1 DEF E!Typed, E!Editor

(* The page after an upload: the list is taken over, and drawn at the end. *)
Taken(c) ==
  [editor EXCEPT !.attached = call[c].copy, !.shown = IF call[c].todo = {} THEN call[c].copy ELSE @]

LEMMA TakenPage ==
  ASSUME E!TypeOK, NEW c \in E!Going
  PROVE  /\ Taken(c) \in E!Editor /\ Taken(c).open = editor.open /\ Taken(c).busy = editor.busy
         /\ Taken(c).attached = call[c].copy
         /\ Taken(c).shown = IF call[c].todo = {} THEN call[c].copy ELSE editor.shown
         /\ Taken(c).text = editor.text /\ Taken(c).preview = editor.preview /\ Taken(c).due = editor.due
  <1>1. call[c].copy \in SUBSET Attachments
    BY GoingCalls DEF E!Call
  <1>. DEFINE new == IF call[c].todo = {} THEN call[c].copy ELSE editor.shown
  <1>2. new \in SUBSET Attachments
    BY <1>1, Pages DEF E!Editor
  <1>3. Taken(c) = [editor EXCEPT !.attached = call[c].copy, !.shown = new]
    BY Pages DEF Taken, E!Editor
  <1>. HIDE DEF new
  <1>4. /\ Taken(c) \in E!Editor /\ Taken(c).open = editor.open /\ Taken(c).busy = editor.busy
        /\ Taken(c).attached = call[c].copy /\ Taken(c).shown = new
        /\ Taken(c).text = editor.text /\ Taken(c).preview = editor.preview /\ Taken(c).due = editor.due
    BY <1>1, <1>2, <1>3, Pages DEF E!Editor
  <1>. QED  BY <1>4 DEF new

LEMMA AddedPages ==
  ASSUME E!TypeOK, NEW c \in E!Going, E!Added(c)
  PROVE  IF editor.open THEN editor' = Taken(c) \/ (editor.text < MaxTexts /\ editor' = E!Typed(Taken(c)))
         ELSE editor' = E!Closed
<1>1. CASE ~editor.open
  BY <1>1 DEF E!Added
<1>2. CASE editor.open
  <2>1. editor' \in {Taken(c)} \cup IF Taken(c).text < MaxTexts THEN {E!Typed(Taken(c))} ELSE {}
    BY <1>2 DEF E!Added, Taken
  <2>. QED  BY <1>2, <2>1, TakenPage
<1>. QED  BY <1>1, <1>2

LEMMA RemovedPages ==
  ASSUME E!TypeOK, NEW c \in E!Going, E!Removed(c)
  PROVE  /\ editor' \in E!Editor /\ editor'.open = editor.open /\ editor'.busy = editor.busy
         /\ editor'.text = editor.text /\ editor'.preview = editor.preview /\ editor'.due = editor.due
         /\ editor.open => /\ editor'.attached = editor.attached \ call[c].files
                           /\ editor'.shown = editor'.attached
<1>. DEFINE rest == E!Without(call[c].files)
<1>1. rest \in SUBSET Attachments
  BY Pages DEF E!Without, E!Editor
<1>2. editor' = IF editor.open THEN [editor EXCEPT !.attached = rest, !.shown = rest] ELSE editor
  BY DEF E!Removed
<1>3. rest = editor.attached \ call[c].files
  BY DEF E!Without
<1>. HIDE DEF rest
<1>4. CASE ~editor.open
  BY <1>2, <1>4, Pages
<1>5. CASE editor.open
  <2>1. editor' = [editor EXCEPT !.attached = rest, !.shown = rest]
    BY <1>2, <1>5
  <2>2. /\ editor' \in E!Editor /\ editor'.open = editor.open /\ editor'.busy = editor.busy
        /\ editor'.text = editor.text /\ editor'.preview = editor.preview /\ editor'.due = editor.due
        /\ editor'.attached = rest /\ editor'.shown = rest
    BY <1>1, <2>1, Pages DEF E!Editor
  <2>. QED  BY <1>3, <1>5, <2>2
<1>. QED  BY <1>4, <1>5

-----------------------------------------------------------------------------
LEMMA EditorInitTypes == E!Init => EditorTypeInv
<1>. SUFFICES ASSUME E!Init PROVE EditorTypeInv
  OBVIOUS
<1>1. 0 \in 0..MaxTexts
  BY EditorConstants DEF E!EditorAssumption
<1>2. E!Opened \in E!Editor /\ ~E!Opened.busy
  BY <1>1 DEF E!Opened, E!Editor, E!Init
<1>3. \A c \in Slots : call[c] = NoCall
  BY DEF E!Init
<1>4. E!TypeOK
  BY <1>2, <1>3 DEF E!Init, E!TypeOK
<1>5. OneSave
  BY <1>3 DEF OneSave, E!Going
<1>. QED  BY <1>4, <1>5 DEF EditorTypeInv

LEMMA TypeParts ==
  ASSUME E!TypeOK, NEW c \in E!Going
  PROVE  E!NewList(call[c]) \subseteq Attachments /\ call[c].files \subseteq Attachments
  BY GoingCalls DEF E!NewList, E!Call, E!TypeOK

LEMMA Pasts ==
  ASSUME E!TypeOK
  PROVE  /\ past \in [crossed : BOOLEAN, late : BOOLEAN, overtaken : BOOLEAN]
         /\ past.crossed \in BOOLEAN /\ past.late \in BOOLEAN /\ past.overtaken \in BOOLEAN
  BY DEF E!TypeOK

LEMMA HandlerTypes ==
  ASSUME EditorTypeInv, NEW c \in Slots, E!Read(c) \/ E!File(c) \/ E!Save(c) \/ E!Rendered(c)
  PROVE  EditorTypeInv'
<1>1. \E where, copy : Moves(c, where, copy)
  BY ReadMoves, FileMoves, SaveMoves, RenderedMoves DEF EditorTypeInv
<1>2. OneSave' /\ (Saves' <=> Saves) /\ call' \in Calls /\ c \in E!Going
  BY <1>1, MovesSaves DEF Moves, Gets
<1>3. listed' \subseteq Attachments /\ disk' \subseteq Attachments
  <2>1. E!NewList(call[c]) \subseteq Attachments /\ call[c].files \subseteq Attachments
    BY <1>2, TypeParts DEF EditorTypeInv
  <2>2. CASE E!File(c)
    BY <2>1, <2>2 DEF E!File, EditorTypeInv, E!TypeOK
  <2>3. CASE E!Save(c)
    BY <2>1, <2>3 DEF E!Save, EditorTypeInv, E!TypeOK
  <2>4. CASE E!Read(c) \/ E!Rendered(c)
    BY <2>4 DEF E!Read, E!Rendered, EditorTypeInv, E!TypeOK
  <2>. QED  BY <2>2, <2>3, <2>4
<1>4. UNCHANGED <<editor, previews>>
  BY DEF E!Read, E!File, E!Save, E!Rendered
<1>5. past' \in [crossed : BOOLEAN, late : BOOLEAN, overtaken : BOOLEAN]
  <2>. DEFINE crosses == past.crossed \/ \E d \in Slots \ {c} : E!At(d, "read") \/ E!At(d, "filed")
              lates == past.late \/ \E d \in Slots : E!At(d, "saved") \/ E!At(d, "answered")
  <2>1. crosses \in BOOLEAN /\ lates \in BOOLEAN
    OBVIOUS
  <2>2. \/ past' = [past EXCEPT !.crossed = crosses] \/ past' = [past EXCEPT !.late = lates]
        \/ past' = past
    BY Pasts DEF EditorTypeInv, E!Read, E!File, E!Save, E!Rendered
  <2>. HIDE DEF crosses, lates
  <2>. QED  BY <2>1, <2>2, Pasts DEF EditorTypeInv
<1>6. E!TypeOK'
  BY <1>2, <1>3, <1>4, <1>5 DEF EditorTypeInv, E!TypeOK, Saves, Calls
<1>. QED  BY <1>2, <1>6 DEF EditorTypeInv

LEMMA BeginTypes ==
  ASSUME EditorTypeInv, NEW c \in Slots,
         \/ \E fs \in SUBSET Attachments \ {{}} : E!AddFiles(c, fs)
         \/ \E f \in Attachments : E!RemoveFile(c, f)
         \/ E!SavePost(c)
  PROVE  EditorTypeInv'
<1>1. UNCHANGED <<listed, disk, previews, past>>
  BY DEF E!AddFiles, E!RemoveFile, E!SavePost
<1>2. CASE E!SavePost(c)
  <2>1. ~Saves /\ editor.open
    BY <1>2 DEF E!SavePost, EditorTypeInv, E!TypeOK, Saves
  <2>2. OneSave' /\ Saves' /\ call' \in Calls
    BY <1>2, <2>1, SaveBegins, SaveBeginsAlone DEF EditorTypeInv, Begins, Gets
  <2>3. editor' \in E!Editor /\ editor'.busy /\ editor'.open
    BY <1>2, <2>1, Pages DEF E!SavePost, EditorTypeInv, E!Editor
  <2>4. E!TypeOK'
    BY <1>1, <2>2, <2>3 DEF EditorTypeInv, E!TypeOK, Saves, Calls
  <2>. QED  BY <2>2, <2>4 DEF EditorTypeInv
<1>3. CASE ~E!SavePost(c)
  <2>1. editor' = editor
    BY <1>3 DEF E!AddFiles, E!RemoveFile
  <2>2. c \notin E!Going /\ \E kind \in {"add", "remove"}, fs \in SUBSET Attachments : Begins(c, kind, fs)
    <3>1. ASSUME NEW fs \in SUBSET Attachments, E!AddFiles(c, fs)
          PROVE  c \notin E!Going /\ \E f \in Attachments : Begins(c, "add", {f})
      BY <3>1, AddBegins DEF EditorTypeInv
    <3>2. ASSUME NEW f \in Attachments, E!RemoveFile(c, f)
          PROVE  c \notin E!Going /\ Begins(c, "remove", {f})
      BY <3>2, RemoveBegins DEF EditorTypeInv
    <3>. QED  BY <1>3, <3>1, <3>2
  <2>3. OneSave' /\ (Saves' <=> Saves) /\ call' \in Calls
    BY <2>2, BeginsSaves DEF Begins, Gets
  <2>4. E!TypeOK'
    BY <1>1, <2>1, <2>3 DEF EditorTypeInv, E!TypeOK, Saves, Calls
  <2>. QED  BY <2>3, <2>4 DEF EditorTypeInv
<1>. QED  BY <1>2, <1>3

LEMMA AddedTypes ==
  ASSUME EditorTypeInv, NEW c \in Slots, E!Added(c)
  PROVE  EditorTypeInv'
<1>1. c \in E!Going /\ call[c].kind = "add" /\ E!TypeOK
  BY DEF E!Added, E!At, EditorTypeInv
<1>2. OneSave' /\ (Saves' <=> Saves) /\ call' \in Calls
  <2>1. CASE Frees(c)
    BY <1>1, <2>1, FreesSaves DEF Frees
  <2>2. CASE \E f \in Attachments : Begins(c, "add", {f})
    BY <1>1, <2>2, BeginsSaves DEF Begins, Gets
  <2>. QED  BY <1>1, <2>1, <2>2, AddedFollows
<1>3. /\ editor' \in E!Editor /\ (editor'.open <=> editor.open)
      /\ (editor'.busy <=> editor.busy /\ editor.open)
  <2>1. CASE ~editor.open
    <3>1. editor' = E!Closed
      BY <1>1, <2>1, AddedPages
    <3>. QED  BY <1>1, <2>1, <3>1, Pages
  <2>2. CASE editor.open
    <3>1. /\ Taken(c) \in E!Editor /\ Taken(c).open = editor.open /\ Taken(c).busy = editor.busy
          /\ Taken(c).text = editor.text
      BY <1>1, TakenPage
    <3>2. editor' = Taken(c) \/ (editor.text < MaxTexts /\ editor' = E!Typed(Taken(c)))
      BY <1>1, <2>2, AddedPages
    <3>3. editor'.open = editor.open /\ editor'.busy = editor.busy /\ editor' \in E!Editor
      BY <3>1, <3>2, TypedPage
    <3>. QED  BY <1>1, <2>2, <3>3, Pages
  <2>. QED  BY <2>1, <2>2
<1>4. UNCHANGED <<listed, disk, previews, past>>
  BY DEF E!Added
<1>5. E!TypeOK'
  BY <1>1, <1>2, <1>3, <1>4 DEF E!TypeOK, Saves, Calls
<1>. QED  BY <1>2, <1>5 DEF EditorTypeInv

LEMMA EditorEndTypes ==
  ASSUME EditorTypeInv, NEW c \in Slots, E!Removed(c) \/ E!Saved(c) \/ E!Fails(c)
  PROVE  EditorTypeInv'
<1>1. c \in E!Going /\ E!TypeOK
  BY DEF E!Removed, E!Saved, E!Fails, E!At, EditorTypeInv
<1>2. OneSave' /\ (Saves' <=> Saves /\ call[c].kind # "save") /\ call' \in Calls
  <2>1. call' = [call EXCEPT ![c] = NoCall]
    BY DEF E!Removed, E!Saved, E!Fails
  <2>. QED  BY <1>1, <2>1, Freed, FreesSaves DEF Frees
<1>3. editor' \in E!Editor /\ (editor'.busy <=> editor'.open /\ Saves')
  <2>1. editor.busy <=> editor.open /\ Saves
    BY <1>1 DEF E!TypeOK, Saves
  <2>2. CASE E!Removed(c)
    BY <1>1, <1>2, <2>1, <2>2, RemovedPages DEF E!Removed
  <2>3. CASE E!Saved(c)
    BY <1>1, <2>3, Pages DEF E!Saved
  <2>4. CASE E!Fails(c)
    <3>1. CASE call[c].kind = "save"
      <4>1. editor' = [editor EXCEPT !.busy = FALSE]
        BY <2>4, <3>1 DEF E!Fails, E!Heard
      <4>2. editor' \in E!Editor /\ ~editor'.busy
        BY <1>1, <4>1, Pages DEF E!Editor
      <4>. QED  BY <1>2, <3>1, <4>2
    <3>2. CASE call[c].kind # "save"
      BY <1>1, <1>2, <2>1, <2>4, <3>2, Pages DEF E!Fails, E!Heard
    <3>. QED  BY <3>1, <3>2
  <2>. QED  BY <2>2, <2>3, <2>4
<1>4. /\ UNCHANGED <<listed, disk>> /\ previews' \subseteq 0..MaxTexts
      /\ past' \in [crossed : BOOLEAN, late : BOOLEAN, overtaken : BOOLEAN]
  BY <1>1, Pasts DEF E!Removed, E!Saved, E!Fails, E!TypeOK
<1>5. E!TypeOK'
  BY <1>1, <1>2, <1>3, <1>4 DEF E!TypeOK, Saves, Calls
<1>. QED  BY <1>2, <1>5 DEF EditorTypeInv

LEMMA PageTypes ==
  ASSUME EditorTypeInv,
         \/ E!Type \/ E!TimerEnds \/ E!Leave \/ E!Open
         \/ \E n \in previews : E!Previewed(n) \/ E!PreviewFails(n)
  PROVE  EditorTypeInv'
<1>1. E!TypeOK
  BY DEF EditorTypeInv
<1>2. UNCHANGED <<listed, disk, call>>
  BY DEF E!Type, E!TimerEnds, E!Leave, E!Open, E!Previewed, E!PreviewFails
<1>3. OneSave' /\ (Saves' <=> Saves)
  BY <1>2 DEF EditorTypeInv, OneSave, Saves, E!Going
<1>4. previews' \subseteq 0..MaxTexts
  BY <1>1, Pages DEF E!Type, E!TimerEnds, E!Fetching, E!Leave, E!Open, E!Previewed, E!PreviewFails, E!TypeOK
<1>5. editor' \in E!Editor /\ (editor'.busy <=> editor'.open /\ Saves)
  <2>1. editor.busy <=> editor.open /\ Saves
    BY <1>1 DEF E!TypeOK, Saves
  <2>2. CASE E!Type
    BY <1>1, <2>1, <2>2, Pages, TypedPage DEF E!Type
  <2>3. CASE E!TimerEnds
    BY <1>1, <2>1, <2>3, Pages DEF E!TimerEnds, E!Editor
  <2>4. CASE E!Leave
    BY <1>1, <2>4, Pages DEF E!Leave
  <2>5. CASE E!Open
    BY <1>1, <2>5, Pages DEF E!Open, Saves, E!Going
  <2>6. ASSUME NEW n \in previews, E!Previewed(n)
        PROVE  editor' \in E!Editor /\ editor'.busy = editor.busy /\ editor'.open = editor.open
    <3>1. n \in 0..MaxTexts
      BY <1>1 DEF E!TypeOK
    <3>. QED  BY <1>1, <2>6, <3>1, Pages DEF E!Previewed, E!Editor
  <2>7. ASSUME NEW n \in previews, E!PreviewFails(n) PROVE editor' = editor
    BY <2>7 DEF E!PreviewFails
  <2>. QED  BY <1>1, <2>1, <2>2, <2>3, <2>4, <2>5, <2>6, <2>7, Pages
<1>6. past' \in [crossed : BOOLEAN, late : BOOLEAN, overtaken : BOOLEAN]
  <2>1. CASE E!Type \/ E!TimerEnds \/ E!Leave
    BY <1>1, <2>1, Pasts DEF E!Type, E!TimerEnds, E!Leave
  <2>2. CASE E!Open
    BY <1>1, <2>2, Pasts DEF E!Open
  <2>3. ASSUME NEW n \in previews, E!Previewed(n) \/ E!PreviewFails(n)
        PROVE  past' \in [crossed : BOOLEAN, late : BOOLEAN, overtaken : BOOLEAN]
    <3>. DEFINE over == past.overtaken \/ n < editor.preview
    <3>1. over \in BOOLEAN
      OBVIOUS
    <3>2. past' = [past EXCEPT !.overtaken = over] \/ past' = [past EXCEPT !.overtaken = TRUE]
      BY <2>3, <1>1, Pasts DEF E!Previewed, E!PreviewFails
    <3>. HIDE DEF over
    <3>. QED  BY <1>1, <3>1, <3>2, Pasts
  <2>. QED  BY <2>1, <2>2, <2>3
<1>7. E!TypeOK'
  BY <1>1, <1>2, <1>3, <1>4, <1>5, <1>6 DEF E!TypeOK, Saves, Calls
<1>. QED  BY <1>3, <1>7 DEF EditorTypeInv

LEMMA EditorTypesKept == EditorTypeInv /\ [E!Next]_(E!vars) => EditorTypeInv'
<1>. SUFFICES ASSUME EditorTypeInv, [E!Next]_(E!vars) PROVE EditorTypeInv'
  OBVIOUS
<1>1. CASE UNCHANGED E!vars
  BY <1>1 DEF E!vars, EditorTypeInv, E!TypeOK, OneSave, E!Going
<1>2. ASSUME NEW c \in Slots,
             \/ \E fs \in SUBSET Attachments \ {{}} : E!AddFiles(c, fs)
             \/ \E f \in Attachments : E!RemoveFile(c, f)
             \/ E!SavePost(c)
      PROVE  EditorTypeInv'
  BY <1>2, BeginTypes
<1>3. ASSUME NEW c \in Slots, E!Read(c) \/ E!File(c) \/ E!Save(c) \/ E!Rendered(c) PROVE EditorTypeInv'
  BY <1>3, HandlerTypes
<1>4. ASSUME NEW c \in Slots, E!Added(c) PROVE EditorTypeInv'
  BY <1>4, AddedTypes
<1>5. ASSUME NEW c \in Slots, E!Removed(c) \/ E!Saved(c) \/ E!Fails(c) PROVE EditorTypeInv'
  BY <1>5, EditorEndTypes
<1>6. CASE \/ E!Type \/ E!TimerEnds \/ E!Leave \/ E!Open
           \/ \E n \in previews : E!Previewed(n) \/ E!PreviewFails(n)
  BY <1>6, PageTypes
<1>. QED  BY <1>1, <1>2, <1>3, <1>4, <1>5, <1>6 DEF E!Next

-----------------------------------------------------------------------------
(* A handler that has read the post and not saved it, and one that has saved
   it and whose answer has not come. *)
Working(c) == E!At(c, "read") \/ E!At(c, "filed")
Done(c) == E!At(c, "saved") \/ E!At(c, "answered")

(* Unless calls crossed, one handler at a time works on the post as it is, and
   the folder is ahead of the list by what that one does. *)
OneWorks ==
  /\ \A c, d \in Slots : Working(c) /\ Working(d) => c = d
  /\ \A c \in Slots : Working(c) => call[c].copy = listed
  /\ \A c \in Slots : E!At(c, "filed") => disk = E!NewList(call[c])
  /\ (\A c \in Slots : ~E!At(c, "filed")) => disk = listed

ListedInv == ~past.crossed => OneWorks

(* Unless one came late, one answer at a time is on its way, and it holds the
   list as it is. *)
OneAnswers ==
  /\ \A c, d \in Slots : Done(c) /\ Done(d) => c = d
  /\ \A c \in Slots : E!At(c, "answered") => call[c].copy = listed

AnswerInv == ~past.late => OneAnswers

(* The page's copy of the list is the post's but for the answer that is on its
   way, and it is drawn but for the uploads that go on. *)
Drawn == editor.shown # editor.attached => \E c \in E!Going : call[c].kind = "add"

Follows ==
  /\ (\A c \in Slots : ~Done(c)) => editor.attached = listed
  /\ \A c \in Slots : Done(c) /\ call[c].kind = "remove" =>
                        listed = editor.attached \ call[c].files

ShownInv == editor.open /\ ~past.crossed => Drawn /\ (~past.late => Follows)

(* The text as it is now is shown, or its preview is due or on its way. *)
PreviewInv ==
  /\ ~editor.open => previews = {}
  /\ editor.preview <= editor.text
  /\ \A n \in previews : n <= editor.text
  /\ editor.open /\ ~editor.due /\ ~past.overtaken =>
       editor.preview = editor.text \/ editor.text \in previews

-----------------------------------------------------------------------------
LEMMA OthersStay ==
  ASSUME NEW c \in Slots, \A d \in Slots \ {c} : call'[d] = call[d]
  PROVE  \A d \in Slots \ {c} :
           /\ \A w : E!At(d, w)' <=> E!At(d, w)
           /\ Working(d)' <=> Working(d)
           /\ Done(d)' <=> Done(d)
           /\ call'[d] = call[d]
<1>1. ASSUME NEW d \in Slots \ {c}, NEW w PROVE E!At(d, w)' <=> E!At(d, w)
  BY DEF E!At, E!Going
<1>. QED  BY <1>1 DEF Working, Done

LEMMA AfterMove ==
  ASSUME NEW c \in Slots, NEW where, NEW copy, Moves(c, where, copy)
  PROVE  \A w : E!At(c, w)' <=> w = where
  BY DEF Moves, Gets, E!At, E!Going

LEMMA AfterBegin ==
  ASSUME NEW c \in Slots, NEW kind, NEW fs, Begins(c, kind, fs)
  PROVE  (\A w : E!At(c, w)' <=> w = "sent") /\ ~Working(c)' /\ ~Done(c)'
  BY DEF Begins, Gets, E!At, E!Going, Working, Done

LEMMA AfterFree ==
  ASSUME NEW c \in Slots, Frees(c)
  PROVE  (\A w : ~E!At(c, w)') /\ ~Working(c)' /\ ~Done(c)'
  BY DEF Frees, E!At, E!Going, Working, Done

LEMMA AtOne ==
  ASSUME NEW c \in Slots, NEW w, E!At(c, w)
  PROVE  \A v : E!At(c, v) => v = w
  BY DEF E!At

(* A slot that no handler worked in begins a call, or is free. *)
LEMMA ListedBeside ==
  ASSUME ListedInv, NEW c \in Slots, ~Working(c), ~Working(c)',
         \A d \in Slots \ {c} : call'[d] = call[d],
         UNCHANGED <<listed, disk>>, past'.crossed = past.crossed
  PROVE  ListedInv'
<1>1. /\ \A d \in Slots : Working(d)' <=> Working(d)
      /\ \A d \in Slots : Working(d) => call'[d] = call[d]
  BY OthersStay
<1>2. \A d \in Slots : E!At(d, "filed")' <=> E!At(d, "filed")
  BY OthersStay DEF Working
<1>. SUFFICES ASSUME OneWorks PROVE OneWorks'
  BY DEF ListedInv
<1>3. \A d, e \in Slots : Working(d)' /\ Working(e)' => d = e
  BY <1>1 DEF OneWorks
<1>4. \A d \in Slots : Working(d)' => call'[d].copy = listed'
  BY <1>1 DEF OneWorks
<1>5. \A d \in Slots : E!At(d, "filed")' => disk' = E!NewList(call[d])'
  BY <1>1, <1>2 DEF OneWorks, Working, E!NewList
<1>6. (\A d \in Slots : ~E!At(d, "filed")') => disk' = listed'
  BY <1>2 DEF OneWorks
<1>. QED  BY <1>3, <1>4, <1>5, <1>6 DEF OneWorks

LEMMA PastAfter ==
  ASSUME E!TypeOK, NEW c \in Slots
  PROVE  /\ E!Read(c) => /\ past'.crossed <=> past.crossed \/ \E d \in Slots \ {c} : Working(d)
                         /\ past'.late = past.late
         /\ E!Save(c) => /\ past'.late <=> past.late \/ \E d \in Slots : Done(d)
                         /\ past'.crossed = past.crossed
         /\ E!Fails(c) => past'.crossed /\ past'.late = past.late
<1>. DEFINE crosses == past.crossed \/ \E d \in Slots \ {c} : E!At(d, "read") \/ E!At(d, "filed")
            lates == past.late \/ \E d \in Slots : E!At(d, "saved") \/ E!At(d, "answered")
<1>1. /\ E!Read(c) => past' = [past EXCEPT !.crossed = crosses]
      /\ E!Save(c) => past' = [past EXCEPT !.late = lates]
      /\ E!Fails(c) => past' = [past EXCEPT !.crossed = TRUE]
  BY Pasts DEF E!Read, E!Save, E!Fails
<1>2. /\ crosses <=> past.crossed \/ \E d \in Slots \ {c} : Working(d)
      /\ lates <=> past.late \/ \E d \in Slots : Done(d)
  BY DEF Working, Done
<1>. HIDE DEF crosses, lates
<1>3. /\ E!Read(c) => past'.crossed = crosses /\ past'.late = past.late
      /\ E!Save(c) => past'.late = lates /\ past'.crossed = past.crossed
      /\ E!Fails(c) => past'.crossed = TRUE /\ past'.late = past.late
  BY <1>1, Pasts
<1>. QED  BY <1>2, <1>3

LEMMA ReadKeepsListed ==
  ASSUME EditorTypeInv, ListedInv, NEW c \in Slots, E!Read(c)
  PROVE  ListedInv'
<1>1. SUFFICES ASSUME ~past'.crossed PROVE OneWorks'
  BY DEF ListedInv
<1>2. OneWorks /\ \A d \in Slots \ {c} : ~Working(d)
  BY <1>1, PastAfter DEF ListedInv, EditorTypeInv
<1>3. Moves(c, "read", listed) /\ UNCHANGED <<listed, disk>>
  BY ReadMoves DEF EditorTypeInv, E!Read
<1>4. (\A w : E!At(c, w)' <=> w = "read") /\ call'[c].copy = listed
  BY <1>3, AfterMove DEF Moves
<1>5. \A d \in Slots \ {c} : ~Working(d)'
  BY <1>2, <1>3, OthersStay DEF Moves, Gets
<1>6. \A d \in Slots : ~E!At(d, "filed")'
  BY <1>4, <1>5 DEF Working
<1>7. disk = listed
  <2>1. ~E!At(c, "filed")
    BY AtOne DEF E!Read
  <2>. QED  BY <1>2, <2>1 DEF OneWorks, Working
<1>8. /\ \A d, e \in Slots : Working(d)' /\ Working(e)' => d = e
      /\ \A d \in Slots : Working(d)' => call'[d].copy = listed'
  BY <1>3, <1>4, <1>5
<1>9. disk' = listed' /\ \A d \in Slots : E!At(d, "filed")' => disk' = E!NewList(call[d])'
  BY <1>3, <1>6, <1>7
<1>. QED  BY <1>8, <1>9 DEF OneWorks

LEMMA FileKeepsListed ==
  ASSUME EditorTypeInv, ListedInv, NEW c \in Slots, E!File(c)
  PROVE  ListedInv'
<1>1. past' = past /\ listed' = listed /\ E!At(c, "read") /\ Working(c)
  BY DEF E!File, Working
<1>2. SUFFICES ASSUME OneWorks PROVE OneWorks'
  BY <1>1 DEF ListedInv
<1>3. Moves(c, "filed", call[c].copy)
  BY FileMoves DEF EditorTypeInv
<1>4. (\A w : E!At(c, w)' <=> w = "filed") /\ call'[c].copy = listed
  BY <1>1, <1>2, <1>3, AfterMove DEF Moves, OneWorks
<1>5. \A d \in Slots \ {c} : ~Working(d) /\ ~Working(d)'
  BY <1>1, <1>2, <1>3, OthersStay DEF OneWorks, Moves, Gets
<1>6. disk = listed
  <2>1. \A d \in Slots : ~E!At(d, "filed")
    BY <1>1, <1>5, AtOne DEF Working
  <2>. QED  BY <1>2, <2>1 DEF OneWorks
<1>7. disk' = E!NewList(call[c])'
  <2>1. /\ call'[c].kind = call[c].kind /\ call'[c].files = call[c].files
        /\ c \in E!Going /\ call[c] \in E!Call
    BY <1>3, GoingCalls DEF Moves, EditorTypeInv
  <2>2. CASE call[c].kind = "add"
    BY <1>4, <1>6, <2>1, <2>2 DEF E!File, E!NewList
  <2>3. CASE call[c].kind = "remove"
    BY <1>4, <1>6, <2>1, <2>3 DEF E!File, E!NewList
  <2>4. CASE call[c].kind = "save"
    <3>1. call[c].files = {} /\ disk' = disk
      BY <2>1, <2>4 DEF EditorTypeInv, OneSave, E!File
    <3>. QED  BY <1>4, <1>6, <2>1, <2>4, <3>1 DEF E!NewList
  <2>. QED  BY <2>1, <2>2, <2>3, <2>4 DEF E!Call
<1>8. /\ \A d, e \in Slots : Working(d)' /\ Working(e)' => d = e
      /\ \A d \in Slots : Working(d)' => call'[d].copy = listed'
  BY <1>1, <1>4, <1>5
<1>9. \A d \in Slots : E!At(d, "filed")' => d = c
  BY <1>5 DEF Working
<1>10. E!At(c, "filed")'
  BY <1>4
<1>. QED  BY <1>7, <1>8, <1>9, <1>10 DEF OneWorks

LEMMA SaveKeepsListed ==
  ASSUME EditorTypeInv, ListedInv, NEW c \in Slots, E!Save(c)
  PROVE  ListedInv'
<1>1. /\ past'.crossed = past.crossed /\ disk' = disk /\ listed' = E!NewList(call[c])
      /\ E!At(c, "filed") /\ Working(c)
  BY PastAfter DEF E!Save, Working, EditorTypeInv
<1>2. SUFFICES ASSUME OneWorks PROVE OneWorks'
  BY <1>1 DEF ListedInv
<1>3. Moves(c, "saved", call[c].copy)
  BY SaveMoves DEF EditorTypeInv
<1>4. \A d \in Slots : ~Working(d)'
  <2>1. ~Working(c)'
    BY <1>3, AfterMove DEF Working
  <2>2. \A d \in Slots \ {c} : ~Working(d)'
    BY <1>1, <1>2, <1>3, OthersStay DEF OneWorks, Moves, Gets
  <2>. QED  BY <2>1, <2>2
<1>5. disk' = listed'
  BY <1>1, <1>2 DEF OneWorks
<1>. QED  BY <1>4, <1>5 DEF OneWorks, Working

LEMMA ListedKept ==
  ASSUME EditorTypeInv, ListedInv, [E!Next]_(E!vars)
  PROVE  ListedInv'
<1>1. E!TypeOK
  BY DEF EditorTypeInv
<1>2. ASSUME NEW c \in Slots, NEW fs \in SUBSET Attachments, E!AddFiles(c, fs)
      PROVE  ListedInv'
  <2>1. c \notin E!Going /\ (\A d \in Slots \ {c} : call'[d] = call[d]) /\ ~Working(c)'
    BY <1>1, <1>2, AddBegins, AfterBegin DEF Begins, Gets
  <2>. QED  BY <1>2, <2>1, ListedBeside DEF E!AddFiles, Working, E!At
<1>3. ASSUME NEW c \in Slots, NEW f \in Attachments, E!RemoveFile(c, f)
      PROVE  ListedInv'
  <2>1. c \notin E!Going /\ (\A d \in Slots \ {c} : call'[d] = call[d]) /\ ~Working(c)'
    BY <1>1, <1>3, RemoveBegins, AfterBegin DEF Begins, Gets
  <2>. QED  BY <1>3, <2>1, ListedBeside DEF E!RemoveFile, Working, E!At
<1>4. ASSUME NEW c \in Slots, E!SavePost(c)
      PROVE  ListedInv'
  <2>1. c \notin E!Going /\ (\A d \in Slots \ {c} : call'[d] = call[d]) /\ ~Working(c)'
    BY <1>1, <1>4, SaveBegins, AfterBegin DEF Begins, Gets
  <2>. QED  BY <1>4, <2>1, ListedBeside DEF E!SavePost, Working, E!At
<1>5. ASSUME NEW c \in Slots, E!Read(c) \/ E!File(c) \/ E!Save(c)
      PROVE  ListedInv'
  BY <1>5, ReadKeepsListed, FileKeepsListed, SaveKeepsListed
<1>6. ASSUME NEW c \in Slots, E!Rendered(c)
      PROVE  ListedInv'
  <2>1. Moves(c, "answered", listed) /\ ~Working(c)
    BY <1>1, <1>6, RenderedMoves, AtOne DEF E!Rendered, Working
  <2>2. ~Working(c)' /\ \A d \in Slots \ {c} : call'[d] = call[d]
    BY <2>1, AfterMove DEF Working, Moves, Gets
  <2>. QED  BY <1>6, <2>1, <2>2, ListedBeside DEF E!Rendered
<1>7. ASSUME NEW c \in Slots, E!Added(c) \/ E!Removed(c) \/ E!Saved(c)
      PROVE  ListedInv'
  <2>1. ~Working(c)
    BY <1>7, AtOne DEF E!Added, E!Removed, E!Saved, Working
  <2>2. ~Working(c)' /\ \A d \in Slots \ {c} : call'[d] = call[d]
    <3>1. CASE E!Added(c)
      BY <1>1, <3>1, AddedFollows, AfterBegin, AfterFree DEF Begins, Gets, Frees
    <3>2. CASE E!Removed(c) \/ E!Saved(c)
      BY <1>1, <3>2, Freed, AfterFree DEF E!Removed, E!Saved, Frees
    <3>. QED  BY <1>7, <3>1, <3>2
  <2>3. UNCHANGED <<listed, disk, past>>
    BY <1>7 DEF E!Added, E!Removed, E!Saved
  <2>. QED  BY <2>1, <2>2, <2>3, ListedBeside
<1>8. ASSUME NEW c \in Slots, E!Fails(c)
      PROVE  ListedInv'
  BY <1>1, <1>8, PastAfter DEF ListedInv
<1>9. ASSUME UNCHANGED <<listed, disk, call>>, past'.crossed = past.crossed
      PROVE  ListedInv'
  BY <1>9 DEF ListedInv, OneWorks, Working, E!At, E!Going, E!NewList
<1>10. CASE \/ E!Type \/ E!TimerEnds \/ E!Leave \/ E!Open
            \/ \E n \in previews : E!Previewed(n) \/ E!PreviewFails(n)
  <2>1. UNCHANGED <<listed, disk, call>>
    BY <1>10 DEF E!Type, E!TimerEnds, E!Leave, E!Open, E!Previewed, E!PreviewFails
  <2>2. past'.crossed = past.crossed
    BY <1>1, <1>10, Pasts DEF E!Type, E!TimerEnds, E!Leave, E!Open, E!Previewed, E!PreviewFails
  <2>. QED  BY <1>9, <2>1, <2>2
<1>11. CASE UNCHANGED E!vars
  BY <1>9, <1>11 DEF E!vars
<1>. QED  BY <1>2, <1>3, <1>4, <1>5, <1>6, <1>7, <1>8, <1>10, <1>11 DEF E!Next

-----------------------------------------------------------------------------
(* A slot whose answer is not on its way changes nothing of the others'. *)
LEMMA AnswersBeside ==
  ASSUME AnswerInv, NEW c \in Slots, ~Done(c)', \A d \in Slots \ {c} : call'[d] = call[d],
         UNCHANGED listed, past'.late = past.late
  PROVE  AnswerInv'
<1>1. SUFFICES ASSUME OneAnswers PROVE OneAnswers'
  BY DEF AnswerInv
<1>2. \A d \in Slots :
        Done(d)' => d # c /\ Done(d) /\ call'[d] = call[d] /\ (E!At(d, "answered")' => E!At(d, "answered"))
  BY OthersStay
<1>3. \A d \in Slots : E!At(d, "answered")' => Done(d)'
  BY DEF Done
<1>. QED  BY <1>1, <1>2, <1>3 DEF OneAnswers

LEMMA SaveKeepsAnswers ==
  ASSUME EditorTypeInv, AnswerInv, NEW c \in Slots, E!Save(c)
  PROVE  AnswerInv'
<1>1. SUFFICES ASSUME ~past'.late PROVE OneAnswers'
  BY DEF AnswerInv
<1>2. \A d \in Slots : ~Done(d)
  BY <1>1, PastAfter DEF EditorTypeInv
<1>3. Moves(c, "saved", call[c].copy)
  BY SaveMoves DEF EditorTypeInv
<1>4. \A d \in Slots \ {c} : ~Done(d)'
  BY <1>2, <1>3, OthersStay DEF Moves, Gets
<1>5. ~E!At(c, "answered")'
  BY <1>3, AfterMove
<1>. QED  BY <1>4, <1>5 DEF OneAnswers, Done

LEMMA RenderedKeepsAnswers ==
  ASSUME EditorTypeInv, AnswerInv, NEW c \in Slots, E!Rendered(c)
  PROVE  AnswerInv'
<1>1. past' = past /\ listed' = listed /\ Done(c)
  BY DEF E!Rendered, Done
<1>2. SUFFICES ASSUME OneAnswers PROVE OneAnswers'
  BY <1>1 DEF AnswerInv
<1>3. Moves(c, "answered", listed)
  BY RenderedMoves DEF EditorTypeInv
<1>4. \A d \in Slots \ {c} : ~Done(d)'
  BY <1>1, <1>2, <1>3, OthersStay DEF Moves, Gets, OneAnswers
<1>5. call'[c].copy = listed'
  BY <1>1, <1>3 DEF Moves
<1>. QED  BY <1>4, <1>5 DEF OneAnswers, Done

(* What a step in slot c leaves: it was not, or is no longer, answered. *)
LEMMA SlotSteps ==
  ASSUME E!TypeOK, NEW c \in Slots,
         \/ \E fs \in SUBSET Attachments \ {{}} : E!AddFiles(c, fs)
         \/ \E f \in Attachments : E!RemoveFile(c, f)
         \/ E!SavePost(c) \/ E!Read(c) \/ E!File(c)
         \/ E!Added(c) \/ E!Removed(c) \/ E!Saved(c) \/ E!Fails(c)
  PROVE  ~Done(c)' /\ (\A d \in Slots \ {c} : call'[d] = call[d]) /\ UNCHANGED listed
<1>1. ASSUME NEW fs \in SUBSET Attachments, E!AddFiles(c, fs)
      PROVE  ~Done(c)' /\ \A d \in Slots \ {c} : call'[d] = call[d]
  BY <1>1, AddBegins, AfterBegin DEF Begins, Gets
<1>2. ASSUME NEW f \in Attachments, E!RemoveFile(c, f)
      PROVE  ~Done(c)' /\ \A d \in Slots \ {c} : call'[d] = call[d]
  BY <1>2, RemoveBegins, AfterBegin DEF Begins, Gets
<1>3. CASE E!SavePost(c)
  BY <1>3, SaveBegins, AfterBegin DEF Begins, Gets, E!SavePost
<1>4. CASE E!Read(c)
  BY <1>4, ReadMoves, AfterMove DEF Moves, Gets, Done, E!Read
<1>5. CASE E!File(c)
  BY <1>5, FileMoves, AfterMove DEF Moves, Gets, Done, E!File
<1>6. CASE E!Added(c)
  BY <1>6, AddedFollows, AfterBegin, AfterFree DEF Begins, Gets, Frees, E!Added
<1>7. CASE E!Removed(c) \/ E!Saved(c) \/ E!Fails(c)
  BY <1>7, Freed, AfterFree DEF Frees, E!Removed, E!Saved, E!Fails
<1>8. UNCHANGED listed
  BY DEF E!AddFiles, E!RemoveFile, E!SavePost, E!Read, E!File, E!Added, E!Removed, E!Saved, E!Fails
<1>. QED  BY <1>1, <1>2, <1>3, <1>4, <1>5, <1>6, <1>7, <1>8

LEMMA AnswerKept ==
  ASSUME EditorTypeInv, AnswerInv, [E!Next]_(E!vars)
  PROVE  AnswerInv'
<1>1. E!TypeOK
  BY DEF EditorTypeInv
<1>2. ASSUME NEW c \in Slots,
             \/ \E fs \in SUBSET Attachments \ {{}} : E!AddFiles(c, fs)
             \/ \E f \in Attachments : E!RemoveFile(c, f)
             \/ E!SavePost(c) \/ E!Read(c) \/ E!File(c)
             \/ E!Added(c) \/ E!Removed(c) \/ E!Saved(c) \/ E!Fails(c)
      PROVE  AnswerInv'
  <2>1. past'.late = past.late
    <3>1. CASE E!Read(c) \/ E!Fails(c)
      BY <1>1, <3>1, PastAfter
    <3>2. CASE ~(E!Read(c) \/ E!Fails(c))
      BY <1>2, <3>2 DEF E!AddFiles, E!RemoveFile, E!SavePost, E!File, E!Added, E!Removed, E!Saved
    <3>. QED  BY <3>1, <3>2
  <2>2. ~Done(c)' /\ (\A d \in Slots \ {c} : call'[d] = call[d]) /\ UNCHANGED listed
    BY <1>1, <1>2, SlotSteps
  <2>. QED  BY <2>1, <2>2, AnswersBeside
<1>3. ASSUME NEW c \in Slots, E!Save(c) \/ E!Rendered(c)
      PROVE  AnswerInv'
  BY <1>3, SaveKeepsAnswers, RenderedKeepsAnswers
<1>4. CASE E!Open
  <2>1. \A c \in Slots : ~Done(c)'
    BY <1>4 DEF E!Open, E!Going, Done, E!At
  <2>. QED  BY <2>1 DEF AnswerInv, OneAnswers, Done
<1>5. ASSUME UNCHANGED <<listed, call>>, past'.late = past.late
      PROVE  AnswerInv'
  BY <1>5 DEF AnswerInv, OneAnswers, Done, E!At, E!Going
<1>6. CASE E!Type \/ E!TimerEnds \/ E!Leave \/ \E n \in previews : E!Previewed(n) \/ E!PreviewFails(n)
  <2>1. UNCHANGED <<listed, call>>
    BY <1>6 DEF E!Type, E!TimerEnds, E!Leave, E!Previewed, E!PreviewFails
  <2>2. past'.late = past.late
    BY <1>1, <1>6, Pasts DEF E!Type, E!TimerEnds, E!Leave, E!Previewed, E!PreviewFails
  <2>. QED  BY <1>5, <2>1, <2>2
<1>7. CASE UNCHANGED E!vars
  BY <1>5, <1>7 DEF E!vars
<1>. QED  BY <1>2, <1>3, <1>4, <1>6, <1>7 DEF E!Next

-----------------------------------------------------------------------------
(* The page as it is, but for the text, the preview and the button. *)
SameLists ==
  /\ editor'.open = editor.open
  /\ editor'.attached = editor.attached /\ editor'.shown = editor.shown

LEMMA DrawnKept ==
  ASSUME Drawn, SameLists,
         \A c \in E!Going : call[c].kind = "add" => c \in E!Going' /\ call'[c].kind = "add"
  PROVE  Drawn'
  BY DEF Drawn, SameLists

LEMMA FollowsKept ==
  ASSUME Follows, SameLists, UNCHANGED listed, \A c \in Slots : Done(c)' <=> Done(c),
         \A c \in Slots : Done(c) => call'[c].kind = call[c].kind /\ call'[c].files = call[c].files
  PROVE  Follows'
  BY DEF Follows, SameLists

(* A slot begins a call, or goes on with it, and the page keeps its lists. *)
LEMMA ShownBeside ==
  ASSUME ShownInv, NEW c \in Slots, \A d \in Slots \ {c} : call'[d] = call[d],
         c \in E!Going', E!Going \subseteq Slots,
         E!Going \subseteq E!Going',
         c \in E!Going => call'[c].kind = call[c].kind /\ call'[c].files = call[c].files,
         Done(c)' <=> Done(c), SameLists, UNCHANGED listed,
         past.crossed => past'.crossed, past'.late = past.late
  PROVE  ShownInv'
<1>1. SUFFICES ASSUME editor'.open, ~past'.crossed PROVE Drawn' /\ (~past'.late => Follows')
  BY DEF ShownInv
<1>2. Drawn /\ (~past.late => Follows)
  BY <1>1 DEF ShownInv, SameLists
<1>3. Drawn'
  BY <1>2, DrawnKept
<1>4. ASSUME Follows PROVE Follows'
  <2>1. \A d \in Slots : Done(d) => d \in E!Going
    BY DEF Done, E!At
  <2>2. \A d \in Slots : Done(d)' <=> Done(d)
    BY OthersStay
  <2>. QED  BY <1>4, <2>1, <2>2, FollowsKept
<1>. QED  BY <1>2, <1>3, <1>4

LEMMA BeginKeepsShown ==
  ASSUME EditorTypeInv, ShownInv, NEW c \in Slots,
         \/ \E fs \in SUBSET Attachments \ {{}} : E!AddFiles(c, fs)
         \/ \E f \in Attachments : E!RemoveFile(c, f)
         \/ E!SavePost(c)
  PROVE  ShownInv'
<1>1. E!TypeOK
  BY DEF EditorTypeInv
<1>2. c \notin E!Going /\ \E kind, fs : Begins(c, kind, fs)
  <2>1. ASSUME NEW fs \in SUBSET Attachments, E!AddFiles(c, fs)
        PROVE  c \notin E!Going /\ \E k, gs : Begins(c, k, gs)
    BY <1>1, <2>1, AddBegins
  <2>2. ASSUME NEW f \in Attachments, E!RemoveFile(c, f) PROVE c \notin E!Going /\ Begins(c, "remove", {f})
    BY <1>1, <2>2, RemoveBegins
  <2>3. CASE E!SavePost(c)
    BY <1>1, <2>3, SaveBegins
  <2>. QED  BY <2>1, <2>2, <2>3
<1>3. /\ \A d \in Slots \ {c} : call'[d] = call[d]
      /\ c \in E!Going' /\ E!Going \subseteq Slots /\ E!Going \subseteq E!Going' /\ ~Done(c)'
  BY <1>2, AfterBegin DEF Begins, Gets, E!Going
<1>4. ~Done(c)
  BY <1>2 DEF Done, E!At
<1>5. SameLists
  BY <1>1, Pages DEF SameLists, E!AddFiles, E!RemoveFile, E!SavePost, E!Editor
<1>6. UNCHANGED <<listed, past>>
  BY DEF E!AddFiles, E!RemoveFile, E!SavePost
<1>. QED  BY <1>2, <1>3, <1>4, <1>5, <1>6, ShownBeside

LEMMA WorkKeepsShown ==
  ASSUME EditorTypeInv, ShownInv, NEW c \in Slots, E!Read(c) \/ E!File(c) \/ E!Rendered(c)
  PROVE  ShownInv'
<1>1. E!TypeOK
  BY DEF EditorTypeInv
<1>2. \E where, copy : Moves(c, where, copy)
  BY <1>1, ReadMoves, FileMoves, RenderedMoves
<1>3. /\ \A d \in Slots \ {c} : call'[d] = call[d]
      /\ c \in E!Going' /\ E!Going \subseteq Slots /\ E!Going \subseteq E!Going'
      /\ call'[c].kind = call[c].kind /\ call'[c].files = call[c].files
  BY <1>2 DEF Moves, Gets, E!Going
<1>4. Done(c)' <=> Done(c)
  <2>1. CASE E!Read(c)
    BY <1>1, <2>1, ReadMoves, AfterMove, AtOne DEF E!Read, Done
  <2>2. CASE E!File(c)
    <3>1. Moves(c, "filed", call[c].copy)
      BY <1>1, <2>2, FileMoves
    <3>2. ~Done(c)'
      BY <3>1, AfterMove DEF Done
    <3>3. ~Done(c)
      BY <2>2, AtOne DEF E!File, Done
    <3>. QED  BY <3>2, <3>3
  <2>3. CASE E!Rendered(c)
    <3>1. Done(c)
      BY <2>3 DEF E!Rendered, Done
    <3>2. E!At(c, "answered")'
      BY <1>1, <2>3, RenderedMoves, AfterMove
    <3>. QED  BY <3>1, <3>2 DEF Done
  <2>. QED  BY <2>1, <2>2, <2>3
<1>5. SameLists /\ UNCHANGED listed
  BY DEF SameLists, E!Read, E!File, E!Rendered
<1>6. (past.crossed => past'.crossed) /\ past'.late = past.late
  <2>1. CASE E!Read(c)
    BY <1>1, <2>1, PastAfter
  <2>2. CASE ~E!Read(c)
    BY <2>2 DEF E!File, E!Rendered
  <2>. QED  BY <2>1, <2>2
<1>. QED  BY <1>3, <1>4, <1>5, <1>6, ShownBeside

LEMMA SaveKeepsShown ==
  ASSUME EditorTypeInv, ListedInv, ShownInv, NEW c \in Slots, E!Save(c)
  PROVE  ShownInv'
<1>1. SUFFICES ASSUME editor'.open, ~past'.crossed PROVE Drawn' /\ (~past'.late => Follows')
  BY DEF ShownInv
<1>2. /\ past'.crossed = past.crossed /\ SameLists /\ listed' = E!NewList(call[c])
      /\ Moves(c, "saved", call[c].copy) /\ E!At(c, "filed")
  BY PastAfter, SaveMoves DEF EditorTypeInv, E!Save, SameLists
<1>3. Drawn /\ (~past.late => Follows)
  BY <1>1, <1>2 DEF ShownInv, SameLists
<1>4. Drawn'
  BY <1>2, <1>3, DrawnKept DEF Moves, Gets, E!Going
<1>5. ASSUME ~past'.late PROVE Follows'
  <2>1. Follows /\ \A d \in Slots : ~Done(d)
    BY <1>3, <1>5, PastAfter DEF EditorTypeInv
  <2>2. editor.attached = listed /\ call[c].copy = listed
    BY <1>1, <1>2, <2>1 DEF Follows, ListedInv, OneWorks, Working
  <2>3. \A d \in Slots : Done(d)' <=> d = c
    BY <1>2, <2>1, OthersStay, AfterMove DEF Moves, Gets, Done
  <2>4. call[c].kind = "remove" => listed' = editor'.attached \ call[c].files
    BY <1>2, <2>2 DEF E!NewList, SameLists
  <2>5. call'[c].kind = call[c].kind /\ call'[c].files = call[c].files
    BY <1>2 DEF Moves
  <2>. QED  BY <2>3, <2>4, <2>5 DEF Follows
<1>. QED  BY <1>4, <1>5

LEMMA AddedKeepsShown ==
  ASSUME EditorTypeInv, AnswerInv, ShownInv, NEW c \in Slots, E!Added(c)
  PROVE  ShownInv'
<1>1. E!TypeOK /\ c \in E!Going /\ E!At(c, "answered") /\ Done(c)
  BY DEF EditorTypeInv, E!Added, E!At, Done
<1>2. SUFFICES ASSUME editor'.open, ~past'.crossed PROVE Drawn' /\ (~past'.late => Follows')
  BY DEF ShownInv
<1>3. UNCHANGED <<listed, past>>
  BY DEF E!Added
<1>4. editor.open
  BY <1>1, <1>2, AddedPages, Pages
<1>5. editor'.attached = call[c].copy /\ (call[c].todo = {} => editor'.shown = editor'.attached)
  <2>1. editor' = Taken(c) \/ (editor.text < MaxTexts /\ editor' = E!Typed(Taken(c)))
    BY <1>1, <1>4, AddedPages
  <2>. QED  BY <1>1, <2>1, TakenPage, TypedPage
<1>6. Drawn'
  <2>1. CASE call[c].todo = {}
    BY <1>5, <2>1 DEF Drawn
  <2>2. CASE call[c].todo # {}
    BY <1>1, <2>2, AddedFollows DEF Drawn, Begins, Gets, Frees
  <2>. QED  BY <2>1, <2>2
<1>7. ASSUME ~past'.late PROVE Follows'
  <2>1. OneAnswers
    BY <1>3, <1>7 DEF AnswerInv
  <2>2. \A d \in Slots : ~Done(d)'
    BY <1>1, <2>1, SlotSteps, OthersStay DEF OneAnswers
  <2>3. editor'.attached = listed'
    BY <1>1, <1>3, <1>5, <2>1 DEF OneAnswers
  <2>. QED  BY <2>2, <2>3 DEF Follows
<1>. QED  BY <1>6, <1>7

LEMMA RemovedKeepsShown ==
  ASSUME EditorTypeInv, AnswerInv, ShownInv, NEW c \in Slots, E!Removed(c)
  PROVE  ShownInv'
<1>1. E!TypeOK /\ c \in E!Going /\ E!At(c, "answered") /\ Done(c) /\ call[c].kind = "remove"
  BY DEF EditorTypeInv, E!Removed, E!At, Done
<1>2. SUFFICES ASSUME editor'.open, ~past'.crossed PROVE Drawn' /\ (~past'.late => Follows')
  BY DEF ShownInv
<1>3. UNCHANGED <<listed, past>>
  BY DEF E!Removed
<1>4. editor.open /\ editor'.attached = editor.attached \ call[c].files /\ editor'.shown = editor'.attached
  BY <1>1, <1>2, RemovedPages
<1>5. Drawn'
  BY <1>4 DEF Drawn
<1>6. ASSUME ~past'.late PROVE Follows'
  <2>1. OneAnswers /\ Follows
    BY <1>2, <1>3, <1>4, <1>6 DEF AnswerInv, ShownInv
  <2>2. \A d \in Slots : ~Done(d)'
    BY <1>1, <2>1, SlotSteps, OthersStay DEF OneAnswers
  <2>3. editor'.attached = listed'
    BY <1>1, <1>3, <1>4, <2>1 DEF Follows
  <2>. QED  BY <2>2, <2>3 DEF Follows
<1>. QED  BY <1>5, <1>6

LEMMA ShownKept ==
  ASSUME EditorTypeInv, ListedInv, AnswerInv, ShownInv, [E!Next]_(E!vars)
  PROVE  ShownInv'
<1>1. E!TypeOK
  BY DEF EditorTypeInv
<1>2. ASSUME NEW c \in Slots,
             \/ \E fs \in SUBSET Attachments \ {{}} : E!AddFiles(c, fs)
             \/ \E f \in Attachments : E!RemoveFile(c, f)
             \/ E!SavePost(c)
      PROVE  ShownInv'
  BY <1>2, BeginKeepsShown
<1>3. ASSUME NEW c \in Slots, E!Read(c) \/ E!File(c) \/ E!Rendered(c) PROVE ShownInv'
  BY <1>3, WorkKeepsShown
<1>4. ASSUME NEW c \in Slots, E!Save(c) \/ E!Added(c) \/ E!Removed(c) PROVE ShownInv'
  BY <1>4, SaveKeepsShown, AddedKeepsShown, RemovedKeepsShown
<1>5. ASSUME NEW c \in Slots, E!Fails(c) PROVE ShownInv'
  BY <1>1, <1>5, PastAfter DEF ShownInv
<1>6. CASE E!Leave \/ \E c \in Slots : E!Saved(c)
  BY <1>1, <1>6, Pages DEF ShownInv, E!Leave, E!Saved
<1>7. CASE E!Open
  <2>1. editor'.attached = listed' /\ editor'.shown = listed'
    BY <1>7 DEF E!Open, E!Opened
  <2>2. \A c \in Slots : ~Done(c)'
    BY <1>7 DEF E!Open, E!Going, Done, E!At
  <2>. QED  BY <2>1, <2>2 DEF ShownInv, Drawn, Follows
<1>8. ASSUME SameLists, UNCHANGED <<listed, call>>, past'.crossed = past.crossed, past'.late = past.late
      PROVE  ShownInv'
  <2>1. SUFFICES ASSUME editor'.open, ~past'.crossed PROVE Drawn' /\ (~past'.late => Follows')
    BY DEF ShownInv
  <2>2. Drawn /\ (~past.late => Follows)
    BY <1>8, <2>1 DEF ShownInv, SameLists
  <2>3. Drawn'
    BY <1>8, <2>2, DrawnKept DEF E!Going
  <2>4. \A c \in Slots : Done(c)' <=> Done(c)
    BY <1>8 DEF Done, E!At, E!Going
  <2>. QED  BY <1>8, <2>2, <2>3, <2>4, FollowsKept
<1>9. CASE E!Type \/ E!TimerEnds \/ \E n \in previews : E!Previewed(n) \/ E!PreviewFails(n)
  <2>1. SameLists
    BY <1>1, <1>9, Pages, TypedPage
       DEF SameLists, E!Type, E!TimerEnds, E!Previewed, E!PreviewFails, E!Editor
  <2>2. UNCHANGED <<listed, call>>
    BY <1>9 DEF E!Type, E!TimerEnds, E!Previewed, E!PreviewFails
  <2>3. past'.crossed = past.crossed /\ past'.late = past.late
    BY <1>1, <1>9, Pasts DEF E!Type, E!TimerEnds, E!Previewed, E!PreviewFails
  <2>. QED  BY <1>8, <2>1, <2>2, <2>3
<1>10. CASE UNCHANGED E!vars
  BY <1>8, <1>10 DEF E!vars, SameLists
<1>. QED  BY <1>2, <1>3, <1>4, <1>5, <1>6, <1>7, <1>9, <1>10 DEF E!Next

-----------------------------------------------------------------------------
LEMMA AddedKeepsPreview ==
  ASSUME EditorTypeInv, PreviewInv, NEW c \in Slots, E!Added(c)
  PROVE  PreviewInv'
<1>1. E!TypeOK /\ c \in E!Going /\ UNCHANGED <<previews, past>>
  BY DEF EditorTypeInv, E!Added, E!At
<1>2. CASE ~editor.open
  <2>1. editor' = E!Closed /\ previews = {}
    BY <1>1, <1>2, AddedPages DEF PreviewInv
  <2>. QED  BY <1>1, <2>1 DEF E!Closed, PreviewInv
<1>3. CASE editor.open
  <2>. DEFINE new == Taken(c)
  <2>1. /\ new \in E!Editor /\ new.open = editor.open /\ new.text = editor.text
        /\ new.preview = editor.preview /\ new.due = editor.due
    BY <1>1, TakenPage
  <2>2. editor' = new \/ (editor.text < MaxTexts /\ editor' = E!Typed(new))
    BY <1>1, <1>3, AddedPages
  <2>. HIDE DEF new
  <2>3. CASE editor' = new
    BY <1>1, <1>3, <2>1, <2>3 DEF PreviewInv
  <2>4. CASE editor.text < MaxTexts /\ editor' = E!Typed(new)
    <3>1. /\ editor'.open = editor.open /\ editor'.text = editor.text + 1
          /\ editor'.preview = editor.preview /\ editor'.due
      BY <2>1, <2>4, TypedPage
    <3>2. editor.text \in Nat /\ editor.preview \in Nat /\ \A n \in previews : n \in Nat
      BY <1>1, Pages DEF E!TypeOK
    <3>. QED  BY <1>1, <1>3, <3>1, <3>2 DEF PreviewInv
  <2>. QED  BY <2>2, <2>3, <2>4
<1>. QED  BY <1>2, <1>3

LEMMA TypeKeepsPreview ==
  ASSUME EditorTypeInv, PreviewInv, E!Type
  PROVE  PreviewInv'
<1>1. /\ editor'.open = editor.open /\ editor'.text = editor.text + 1
      /\ editor'.preview = editor.preview /\ editor'.due /\ previews' = previews /\ editor.open
  BY Pages, TypedPage DEF EditorTypeInv, E!Type
<1>2. editor.text \in Nat /\ editor.preview \in Nat /\ \A n \in previews : n \in Nat
  BY Pages DEF EditorTypeInv, E!TypeOK
<1>. QED  BY <1>1, <1>2 DEF PreviewInv

LEMMA TimerKeepsPreview ==
  ASSUME EditorTypeInv, PreviewInv, E!TimerEnds
  PROVE  PreviewInv'
<1>1. /\ editor.open /\ editor'.open = editor.open /\ editor'.text = editor.text
      /\ editor'.preview = editor.preview /\ previews' = previews \cup {editor.text}
  BY Pages DEF EditorTypeInv, E!TimerEnds, E!Fetching, E!Editor
<1>2. editor.text \in Nat
  BY Pages DEF EditorTypeInv
<1>. QED  BY <1>1, <1>2 DEF PreviewInv

(* The preview that comes is as new as the one shown, or it overtook. *)
LEMMA PreviewedKeepsPreview ==
  ASSUME EditorTypeInv, PreviewInv, NEW n \in previews, E!Previewed(n)
  PROVE  PreviewInv'
<1>1. /\ editor'.open = editor.open /\ editor'.text = editor.text /\ editor'.due = editor.due
      /\ editor'.preview = n /\ previews' = previews \ {n}
  BY Pages DEF EditorTypeInv, E!Previewed, E!Editor
<1>2. past'.overtaken <=> past.overtaken \/ n < editor.preview
  <2>. DEFINE over == past.overtaken \/ n < editor.preview
  <2>1. past' = [past EXCEPT !.overtaken = over]
    BY Pasts DEF EditorTypeInv, E!Previewed
  <2>2. past'.overtaken = over
    <3>. HIDE DEF over
    <3>. QED  BY <2>1, Pasts DEF EditorTypeInv
  <2>. QED  BY <2>2
<1>3. /\ editor.text \in Nat /\ editor.preview \in Nat /\ n \in Nat
      /\ n <= editor.text /\ editor.preview <= editor.text
  BY Pages DEF EditorTypeInv, E!TypeOK, PreviewInv
<1>4. ASSUME editor.open, ~editor.due, ~past'.overtaken
      PROVE  n = editor.text \/ editor.text \in previews'
  <2>1. editor.preview = editor.text \/ editor.text \in previews
    BY <1>2, <1>4 DEF PreviewInv
  <2>2. n >= editor.preview
    BY <1>2, <1>3, <1>4
  <2>. QED  BY <1>1, <1>3, <2>1, <2>2
<1>. QED  BY <1>1, <1>3, <1>4 DEF PreviewInv

LEMMA PreviewKept ==
  ASSUME EditorTypeInv, PreviewInv, [E!Next]_(E!vars)
  PROVE  PreviewInv'
<1>1. E!TypeOK
  BY DEF EditorTypeInv
<1>2. ASSUME editor'.open = editor.open, editor'.text = editor.text, editor'.preview = editor.preview,
             editor'.due = editor.due, previews' = previews, past'.overtaken = past.overtaken
      PROVE  PreviewInv'
  BY <1>2 DEF PreviewInv
<1>3. ASSUME NEW c \in Slots,
             \/ \E fs \in SUBSET Attachments \ {{}} : E!AddFiles(c, fs)
             \/ \E f \in Attachments : E!RemoveFile(c, f)
             \/ E!SavePost(c) \/ E!Read(c) \/ E!File(c) \/ E!Save(c) \/ E!Rendered(c)
      PROVE  PreviewInv'
  <2>1. /\ editor'.open = editor.open /\ editor'.text = editor.text
        /\ editor'.preview = editor.preview /\ editor'.due = editor.due /\ previews' = previews
    BY <1>1, <1>3, Pages
       DEF E!AddFiles, E!RemoveFile, E!SavePost, E!Read, E!File, E!Save, E!Rendered, E!Editor
  <2>2. past'.overtaken = past.overtaken
    BY <1>1, <1>3, Pasts DEF E!AddFiles, E!RemoveFile, E!SavePost, E!Read, E!File, E!Save, E!Rendered
  <2>. QED  BY <1>2, <2>1, <2>2
<1>4. ASSUME NEW c \in Slots, E!Added(c) PROVE PreviewInv'
  BY <1>4, AddedKeepsPreview
<1>5. ASSUME NEW c \in Slots, E!Removed(c) PROVE PreviewInv'
  <2>1. c \in E!Going /\ UNCHANGED <<previews, past>>
    BY <1>5 DEF E!Removed, E!At
  <2>. QED  BY <1>1, <1>2, <1>5, <2>1, RemovedPages
<1>6. ASSUME NEW c \in Slots, E!Fails(c) PROVE PreviewInv'
  <2>1. /\ editor'.open = editor.open /\ editor'.text = editor.text
        /\ editor'.preview = editor.preview /\ editor'.due = editor.due /\ previews' = previews
    BY <1>1, <1>6, Pages DEF E!Fails, E!Heard, E!Editor
  <2>2. past'.overtaken = past.overtaken
    BY <1>1, <1>6, Pasts DEF E!Fails
  <2>. QED  BY <1>2, <2>1, <2>2
<1>7. CASE E!Leave \/ \E c \in Slots : E!Saved(c)
  <2>1. editor' = E!Closed /\ previews' = {}
    BY <1>7 DEF E!Leave, E!Saved
  <2>. QED  BY <2>1 DEF E!Closed, PreviewInv
<1>8. CASE E!Open
  <2>1. editor' = E!Opened /\ previews' = {}
    BY <1>8 DEF E!Open, PreviewInv
  <2>. QED  BY <2>1 DEF E!Opened, PreviewInv
<1>9. CASE E!Type \/ E!TimerEnds
  BY <1>9, TypeKeepsPreview, TimerKeepsPreview
<1>10. ASSUME NEW n \in previews, E!Previewed(n) PROVE PreviewInv'
  BY <1>10, PreviewedKeepsPreview
<1>11. ASSUME NEW n \in previews, E!PreviewFails(n) PROVE PreviewInv'
  <2>1. past'.overtaken /\ editor' = editor /\ previews' \subseteq previews
    BY <1>1, <1>11, Pasts DEF E!PreviewFails
  <2>. QED  BY <2>1 DEF PreviewInv
<1>12. CASE UNCHANGED E!vars
  BY <1>2, <1>12 DEF E!vars
<1>. QED  BY <1>3, <1>4, <1>5, <1>6, <1>7, <1>8, <1>9, <1>10, <1>11, <1>12 DEF E!Next

-----------------------------------------------------------------------------
EditorInv == EditorTypeInv /\ ListedInv /\ AnswerInv /\ ShownInv /\ PreviewInv

LEMMA EditorInit == E!Init => EditorInv
<1>. SUFFICES ASSUME E!Init PROVE EditorInv
  OBVIOUS
<1>1. \A c \in Slots, w \in {"read", "filed", "saved", "answered"} : ~E!At(c, w)
  BY DEF E!Init, E!At, E!Going
<1>2. ListedInv /\ AnswerInv
  BY <1>1 DEF E!Init, ListedInv, OneWorks, AnswerInv, OneAnswers, Working, Done
<1>3. ShownInv
  BY <1>1 DEF E!Init, E!Opened, ShownInv, Drawn, Follows, Done
<1>4. PreviewInv
  BY DEF E!Init, E!Opened, PreviewInv
<1>. QED  BY <1>2, <1>3, <1>4, EditorInitTypes DEF EditorInv

LEMMA EditorKept == EditorInv /\ [E!Next]_(E!vars) => EditorInv'
  BY EditorTypesKept, ListedKept, AnswerKept, ShownKept, PreviewKept DEF EditorInv

LEMMA EditorInvariant == E!Spec => []EditorInv
  BY EditorInit, EditorKept, PTL DEF E!Spec

(* Whatever calls go on at a time, on however many files: once none does, the
   files of a post's folder are those it lists, unless calls crossed or failed
   (saveAttachments, DELETE of an attachment). *)
THEOREM ListsItsFolder == E!Spec => []ListedUnlessCrossed
<1>1. EditorInv => ListedUnlessCrossed
  <2>. SUFFICES ASSUME EditorInv, E!Going = {}, ~past.crossed PROVE listed = disk
    BY DEF EditorInv, EditorTypeInv, ListedUnlessCrossed, E!ListedUnlessCrossed
  <2>1. \A c \in Slots : ~E!At(c, "filed")
    BY DEF E!At
  <2>. QED  BY <2>1 DEF EditorInv, ListedInv, OneWorks
<1>. QED  BY <1>1, EditorInvariant, PTL

(* The editor shows the attachments of the post (addFiles, listFiles). *)
THEOREM ShowsTheList == E!Spec => []ShownUnlessLate
<1>1. EditorInv => ShownUnlessLate
  <2>. SUFFICES ASSUME EditorInv, E!Going = {}, editor.open, ~past.crossed, ~past.late
                PROVE  editor.shown = listed
    BY DEF ShownUnlessLate, E!ShownUnlessLate
  <2>1. \A c \in Slots : ~Done(c)
    BY DEF Done, E!At
  <2>. QED  BY <2>1 DEF EditorInv, ShownInv, Drawn, Follows
<1>. QED  BY <1>1, EditorInvariant, PTL

(* The preview shows the text (renderPreview). *)
THEOREM PreviewsTheText == E!Spec => []PreviewUnlessOvertaken
<1>1. EditorInv => PreviewUnlessOvertaken
  BY DEF EditorInv, PreviewInv, PreviewUnlessOvertaken, E!PreviewUnlessOvertaken
<1>. QED  BY <1>1, EditorInvariant, PTL
=============================================================================
