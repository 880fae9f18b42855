----------------------------- MODULE PostEditor -----------------------------
(***************************************************************************)
(* The editor of a post that exists (views.post in web/app.js): its list   *)
(* of attachments, its preview, and the handlers of internal/server/api.go *)
(* behind them.  A handler reads the post, takes the upload or removes the *)
(* file, saves the whole post it read, renders the site and answers with   *)
(* the post as it is by then; handlers hold no lock while they do.         *)
(***************************************************************************)
EXTENDS Naturals, FiniteSets

CONSTANTS
  Files,     \* the names of files that may be attached
  Slots,     \* bound: the calls that go on at a time
  NoCall,
  MaxTexts   \* bound: how often the text changes

VARIABLES
  listed,    \* the attachments of the post, in its file
  disk,      \* the files in its folder
  editor,    \* the page: its copy of the post, what it lists, and its text
  previews,  \* the texts whose previews are on the way
  call,      \* call[c]: the call in slot c, and how far its handler is
  past       \* history: what came between a read and the use of it, or failed

vars == <<listed, disk, editor, previews, call, past>>

Call == [kind : {"add", "remove", "save"}, at : {"sent", "read", "filed", "saved", "answered"},
         files : SUBSET Files, todo : SUBSET Files, copy : SUBSET Files]

EditorAssumption == MaxTexts \in Nat /\ NoCall \notin Call

(* attached: the page's copy of the list; shown: the list as it was drawn;
   preview: the text that the preview shows; due: a preview's timer runs. *)
Editor == [open : BOOLEAN, busy : BOOLEAN, attached : SUBSET Files, shown : SUBSET Files,
           text : 0..MaxTexts, preview : 0..MaxTexts, due : BOOLEAN]

(* The post, the page and the calls have the shapes of app.js and api.go, and
   the page is busy while it saves and only then (submit). *)
TypeOK ==
  /\ listed \subseteq Files /\ disk \subseteq Files
  /\ editor \in Editor
  /\ editor.busy <=> editor.open /\ \E c \in Slots : call[c] # NoCall /\ call[c].kind = "save"
  /\ previews \subseteq 0..MaxTexts
  /\ call \in [Slots -> Call \cup {NoCall}]
  /\ past \in [crossed : BOOLEAN, late : BOOLEAN, overtaken : BOOLEAN]

Opened == [open |-> TRUE, busy |-> FALSE, attached |-> listed, shown |-> listed,
           text |-> 0, preview |-> 0, due |-> FALSE]
Closed == [open |-> FALSE, busy |-> FALSE, attached |-> {}, shown |-> {}, text |-> 0, preview |-> 0, due |-> FALSE]

Init ==
  /\ listed \in SUBSET Files /\ disk = listed
  /\ editor = Opened /\ previews = {}
  /\ call = [c \in Slots |-> NoCall]
  /\ past = [crossed |-> FALSE, late |-> FALSE, overtaken |-> FALSE]

-----------------------------------------------------------------------------
Going == {c \in Slots : call[c] # NoCall}
Free == Slots \ Going
At(c, where) == c \in Going /\ call[c].at = where

Began(kind, files) == [kind |-> kind, at |-> "sent", files |-> files, todo |-> {}, copy |-> {}]

(* addFiles: the files are uploaded one after the other. *)
AddFiles(c, fs) ==
  /\ editor.open /\ c \in Free
  /\ \E f \in fs : call' = [call EXCEPT ![c] = [Began("add", {f}) EXCEPT !.todo = fs \ {f}]]
  /\ UNCHANGED <<listed, disk, editor, previews, past>>

RemoveFile(c, f) ==
  /\ editor.open /\ f \in editor.shown /\ c \in Free
  /\ call' = [call EXCEPT ![c] = Began("remove", {f})]
  /\ UNCHANGED <<listed, disk, editor, previews, past>>

SavePost(c) ==
  /\ editor.open /\ ~editor.busy /\ c \in Free
  /\ editor' = [editor EXCEPT !.busy = TRUE]
  /\ call' = [call EXCEPT ![c] = Began("save", {})]
  /\ UNCHANGED <<listed, disk, previews, past>>

(* The handler reads the post; the upload comes only then. *)
Read(c) ==
  /\ At(c, "sent")
  /\ call' = [call EXCEPT ![c].at = "read", ![c].copy = listed]
  /\ past' = [past EXCEPT !.crossed = @ \/ \E d \in Slots \ {c} : At(d, "read") \/ At(d, "filed")]
  /\ UNCHANGED <<listed, disk, editor, previews>>

(* saveAttachments, or the handler of DELETE: the folder first. *)
File(c) ==
  /\ At(c, "read")
  /\ disk' = CASE call[c].kind = "add" -> disk \cup call[c].files
               [] call[c].kind = "remove" -> disk \ call[c].files
               [] OTHER -> disk
  /\ call' = [call EXCEPT ![c].at = "filed"]
  /\ UNCHANGED <<listed, editor, previews, past>>

(* Mutant of NewList: what is removed stays in the list. *)
NewListAdded(k) == k.copy \cup k.files

NewList(k) == IF k.kind = "remove" THEN k.copy \ k.files ELSE k.copy \cup k.files

(* savePostAndRender: the post that was read is saved whole. *)
Save(c) ==
  /\ At(c, "filed")
  /\ listed' = NewList(call[c])
  /\ call' = [call EXCEPT ![c].at = "saved"]
  /\ past' = [past EXCEPT !.late = @ \/ \E d \in Slots : At(d, "saved") \/ At(d, "answered")]
  /\ UNCHANGED <<disk, editor, previews>>

(* Once the site is rendered the post is read again for the answer. *)
Rendered(c) ==
  /\ At(c, "saved")
  /\ call' = [call EXCEPT ![c].at = "answered", ![c].copy = listed]
  /\ UNCHANGED <<listed, disk, editor, previews, past>>

-----------------------------------------------------------------------------
(* Mutant of Fetching: none is asked for while another is on the way. *)
FetchingOne == IF previews = {} THEN {editor.text} ELSE previews

(* When the timer ends the preview of the text as it is by then is asked for. *)
Fetching == previews \cup {editor.text}

Typed(e) == [e EXCEPT !.text = @ + 1, !.due = TRUE]

Type ==
  /\ editor.open /\ editor.text < MaxTexts
  /\ editor' = Typed(editor)
  /\ UNCHANGED <<listed, disk, previews, call, past>>

TimerEnds ==
  /\ editor.open /\ editor.due
  /\ editor' = [editor EXCEPT !.due = FALSE]
  /\ previews' = Fetching
  /\ UNCHANGED <<listed, disk, call, past>>

(* Previews come in any order, and the last to come is shown. *)
Previewed(n) ==
  /\ n \in previews
  /\ previews' = previews \ {n}
  /\ editor' = [editor EXCEPT !.preview = n]
  /\ past' = [past EXCEPT !.overtaken = @ \/ n < editor.preview]
  /\ UNCHANGED <<listed, disk, call>>

PreviewFails(n) ==
  /\ n \in previews
  /\ previews' = previews \ {n}
  /\ past' = [past EXCEPT !.overtaken = TRUE]
  /\ UNCHANGED <<listed, disk, editor, call>>

-----------------------------------------------------------------------------
(* Mutant of Without: the page's own list is not changed. *)
WithoutNone(fs) == editor.attached

Without(fs) == editor.attached \ fs

(* A file was uploaded: the page takes the list of the answer over, and draws
   it when there is no further file; an image is put into the text. *)
Added(c) ==
  /\ At(c, "answered") /\ call[c].kind = "add"
  /\ LET more == call[c].todo
         new == [editor EXCEPT !.attached = call[c].copy,
                               !.shown = IF more = {} THEN call[c].copy ELSE @]
     IN /\ editor' \in IF ~editor.open THEN {Closed}
                       ELSE {new} \cup IF new.text < MaxTexts THEN {Typed(new)} ELSE {}
        /\ IF more = {} THEN call' = [call EXCEPT ![c] = NoCall]
           ELSE \E f \in more :
                  call' = [call EXCEPT ![c] = [Began("add", {f}) EXCEPT !.todo = more \ {f}]]
  /\ UNCHANGED <<listed, disk, previews, past>>

Removed(c) ==
  /\ At(c, "answered") /\ call[c].kind = "remove"
  /\ editor' = IF editor.open
               THEN [editor EXCEPT !.attached = Without(call[c].files), !.shown = Without(call[c].files)]
               ELSE editor
  /\ call' = [call EXCEPT ![c] = NoCall]
  /\ UNCHANGED <<listed, disk, previews, past>>

(* The page is left, for another view; what it began goes on. *)
Leave ==
  /\ editor.open
  /\ editor' = Closed /\ previews' = {}
  /\ UNCHANGED <<listed, disk, call, past>>

(* The post was saved: the page goes back to the site. *)
Saved(c) ==
  /\ At(c, "answered") /\ call[c].kind = "save"
  /\ editor' = Closed /\ previews' = {}
  /\ call' = [call EXCEPT ![c] = NoCall]
  /\ UNCHANGED <<listed, disk, past>>

(* The page reads the post again.  That it does so while calls of the page
   before go on is left out. *)
Open ==
  /\ ~editor.open /\ Going = {}
  /\ editor' = Opened
  /\ past' = [past EXCEPT !.late = FALSE, !.overtaken = FALSE]
  /\ UNCHANGED <<listed, disk, previews, call>>

Heard(k) == IF k.kind = "save" THEN [editor EXCEPT !.busy = FALSE] ELSE editor

(* A handler ends with an error, or its answer is lost: the files that were to
   follow are not uploaded, the list is not drawn, and a save may be repeated. *)
Fails(c) ==
  /\ c \in Going
  /\ call' = [call EXCEPT ![c] = NoCall]
  /\ editor' = Heard(call[c])
  /\ past' = [past EXCEPT !.crossed = TRUE]
  /\ UNCHANGED <<listed, disk, previews>>

Next ==
  \/ \E c \in Slots :
       \/ \E fs \in SUBSET Files \ {{}} : AddFiles(c, fs)
       \/ \E f \in Files : RemoveFile(c, f)
       \/ SavePost(c)
       \/ Read(c) \/ File(c) \/ Save(c) \/ Rendered(c)
       \/ Added(c) \/ Removed(c) \/ Saved(c) \/ Fails(c)
  \/ Type \/ TimerEnds \/ Leave \/ Open
  \/ \E n \in previews : Previewed(n) \/ PreviewFails(n)

Spec == Init /\ [][Next]_vars

-----------------------------------------------------------------------------
(* When no handler is at work, what the post lists is what its folder holds,
   unless a handler failed half-way, or one read the post before another had
   saved it (modifyPost, DELETE of an attachment). *)
ListedUnlessCrossed == Going = {} /\ ~past.crossed => listed = disk

(* When no call goes on, the editor shows the attachments the post lists,
   unless calls failed or crossed, or one was saved before the answer of
   another had come (addFiles, listFiles). *)
ShownUnlessLate ==
  Going = {} /\ editor.open /\ ~past.crossed /\ ~past.late => editor.shown = listed

(* When no preview is due or on the way, the preview shows the text, unless an
   older one came after it or its call failed (renderPreview). *)
PreviewUnlessOvertaken ==
  editor.open /\ ~editor.due /\ previews = {} /\ ~past.overtaken => editor.preview = editor.text
=============================================================================
