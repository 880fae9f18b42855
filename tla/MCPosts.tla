------------------------------ MODULE MCPosts -------------------------------
(***************************************************************************)
(* Instances of PostFiles and of PostEditor: all that writes the files of  *)
(* a site's posts, and the console's editor of one post with the handlers  *)
(* that keep its attachments.  PostFiles knows a post by its last edit and *)
(* PostEditor looks into one, so that each is explored alone.              *)
(***************************************************************************)
EXTENDS PostFiles, TLC

CONSTANTS Attachments, Slots, NoCall, MaxTexts

VARIABLES
  edits,      \* whether the editor of one post is explored
  listed, disk, editor, previews, call, past

E == INSTANCE PostEditor WITH Files <- Attachments

ASSUME EditorConstants == E!EditorAssumption

editorVars == <<listed, disk, editor, previews, call, past>>

EitherInit ==
  /\ Init /\ E!Init
  /\ edits \in BOOLEAN
  /\ edits => file = None /\ gone = [p \in Posts |-> 0] /\ theirs = None
  /\ ~edits => listed = {}

EitherNext ==
  /\ UNCHANGED edits
  /\ \/ ~edits /\ Next /\ UNCHANGED editorVars
     \/ edits /\ E!Next /\ UNCHANGED vars

EitherSpec == EitherInit /\ [][EitherNext]_<<vars, editorVars, edits>>

(* Bound: once the text was changed only one call goes on at a time. *)
OneCallWhileTyping == editor.text > 0 => Cardinality(E!Going) <= 1

-----------------------------------------------------------------------------
(* The files of a post's folder are those it lists, unless handlers worked on
   it at once or failed (saveAttachments, DELETE of an attachment). *)
ListedUnlessCrossed == E!TypeOK /\ E!ListedUnlessCrossed

(* The editor shows the attachments of the post, unless calls crossed (addFiles,
   listFiles). *)
ShownUnlessLate == E!ShownUnlessLate

(* The preview shows the text, unless an older one came late (renderPreview). *)
PreviewUnlessOvertaken == E!PreviewUnlessOvertaken

EditorSymmetry == Permutations(Attachments) \cup Permutations(Slots)
=============================================================================
