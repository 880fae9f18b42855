----------------------------- MODULE MCPlayers -----------------------------
(***************************************************************************)
(* Instances of Players and Widgets, two sides of one page of the example  *)
(* site: two instruments, a preview card and an opened post's audio        *)
(* player; or cards that draw, type, poll and embed.  Only a card's last   *)
(* frame reaches the media, which the page has already paused, and each    *)
(* side is explored alone.                                                 *)
(***************************************************************************)
EXTENDS Players

CONSTANTS Drawings, Typings, Polls, Embeds, Opened, MaxAsked

VARIABLES
  sounds,   \* whether the page's players are explored, and not its cards
  element, due, asked, embed, ranOn

Cards == INSTANCE Widgets

ASSUME CardConstants == Cards!WidgetsAssumption

cardVars == <<element, due, asked, embed, ranOn>>
playerVars == <<place, transport, context, orders, playing, events, watching, crossed>>

EitherInit == Init /\ Cards!Init /\ sounds \in BOOLEAN

EitherNext ==
  /\ UNCHANGED sounds
  /\ \/ sounds /\ Next /\ UNCHANGED cardVars
     \/ ~sounds /\ Cards!Next /\ UNCHANGED playerVars

EitherSpec ==
  EitherInit /\ [][EitherNext]_<<vars, cardVars, sounds>> /\ Fairness

-----------------------------------------------------------------------------
(* A rhythm that shows itself playing is heard, and none plays in a hidden tab,
   unless it was told to stop while it awaited its context (rhythm.js). *)
HeardOrQuiet == HeardUnlessCrossed /\ QuietWhenHidden

(* When a preview left the page, at most one of its frames or timeouts still
   comes (preview-template.js, wallet.preview.js). *)
OnceMoreAtMost == Cards!OnceMoreAtMost
=============================================================================
