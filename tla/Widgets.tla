------------------------------ MODULE Widgets ------------------------------
(***************************************************************************)
(* What goes on by itself on a page with posts that are programs: the      *)
(* previews of the feed (preview-template.js, which build.py copies into   *)
(* the example site's posts, and examples/widgets), and opened posts that  *)
(* draw, ask a network, or ask another site whether it may be embedded     *)
(* (welcome.js).  Nobody stops them: a card sees for itself, when its next *)
(* callback comes, that its element has left the page.  What is drawn,     *)
(* typed and read is left out.                                             *)
(***************************************************************************)
EXTENDS Naturals

CONSTANTS
  Drawings,   \* cards that draw in every frame
  Typings,    \* cards that type from one timeout to the next
  Polls,      \* cards that ask the network at an interval
  Embeds,     \* posts that would embed another site
  Opened,     \* the cards that are opened posts, and look at nothing
  MaxAsked    \* bound: the readings of a card that are on the way

WidgetsAssumption ==
  /\ Drawings \cap Typings = {} /\ (Drawings \cup Typings) \cap (Polls \cup Embeds) = {}
  /\ Polls \cap Embeds = {} /\ Opened \subseteq Drawings \cup Polls
  /\ MaxAsked \in Nat \ {0}

VARIABLES
  hidden,     \* document.hidden
  element,    \* element[c]: not yet mounted, in the page, or gone from it
  due,        \* due[c]: the callback that the browser owes the card
  asked,      \* asked[c]: the readings on their way to it
  embed,      \* embed[e]: nothing, checking the site's manifest, a link, a frame
  ranOn       \* history: how often (0, 1, more) a callback of c ran after c left the page

vars == <<hidden, element, due, asked, embed, ranOn>>

Cards == Drawings \cup Typings \cup Polls \cup Embeds

TypeOK ==
  /\ hidden \in BOOLEAN
  /\ element \in [Cards -> {"none", "there", "gone"}]
  /\ due \in [Cards -> {"none", "frame", "timeout", "interval"}]
  /\ asked \in [Polls -> 0..MaxAsked]
  /\ embed \in [Embeds -> {"none", "checking", "link", "frame"}]
  /\ ranOn \in [Cards -> 0..2]

Init ==
  /\ hidden = FALSE
  /\ element = [c \in Cards |-> "none"]
  /\ due = [c \in Cards |-> "none"]
  /\ asked = [c \in Polls |-> 0]
  /\ embed = [e \in Embeds |-> "none"]
  /\ ranOn = [c \in Cards |-> 0]

-----------------------------------------------------------------------------
Mount(c) ==
  /\ element[c] = "none"
  /\ element' = [element EXCEPT ![c] = "there"]
  /\ UNCHANGED <<hidden, ranOn>>

(* The first frame is asked for, wherever the card is. *)
MountDrawing(c) ==
  /\ Mount(c)
  /\ due' = [due EXCEPT ![c] = "frame"]
  /\ UNCHANGED <<asked, embed>>

(* The first letters are typed at once. *)
MountTyping(c) ==
  /\ Mount(c)
  /\ due' = [due EXCEPT ![c] = "timeout"]
  /\ UNCHANGED <<asked, embed>>

(* The first reading is asked for at once, also in a hidden tab. *)
MountPoll(c) ==
  /\ Mount(c)
  /\ due' = [due EXCEPT ![c] = "interval"]
  /\ asked' = [asked EXCEPT ![c] = 1]
  /\ UNCHANGED <<embed>>

(* mountCroptopEmbed asks for the site's manifest, and gives it eight seconds. *)
MountEmbed(e) ==
  /\ Mount(e)
  /\ embed' = [embed EXCEPT ![e] = "checking"]
  /\ due' = [due EXCEPT ![e] = "timeout"]
  /\ UNCHANGED <<asked>>

(* Mutant of GoesOn: nothing looks whether the element is in the page. *)
GoesOnAlways(c) == TRUE

(* isConnected; the script of an opened post does not look. *)
GoesOn(c) == element[c] = "there" \/ c \in Opened

Ran(c) ==
  ranOn' = [ranOn EXCEPT ![c] = IF element[c] = "gone" /\ @ < 2 THEN @ + 1 ELSE @]

(* A frame: the browser gives them to a visible tab.  The last one lets go of
   the observers and of the media. *)
Frame(c) ==
  /\ due[c] = "frame" /\ ~hidden
  /\ due' = [due EXCEPT ![c] = IF GoesOn(c) THEN @ ELSE "none"]
  /\ Ran(c)
  /\ UNCHANGED <<hidden, element, asked, embed>>

(* The next letters; a finished address is followed by another. *)
Step(c) ==
  /\ due[c] = "timeout"
  /\ due' = [due EXCEPT ![c] = IF GoesOn(c) THEN @ ELSE "none"]
  /\ Ran(c)
  /\ UNCHANGED <<hidden, element, asked, embed>>

(* An interval asks again, for a preview in a visible tab, although a slow
   network may still owe the last answer.  Nothing ends it. *)
Tick(c) ==
  /\ due[c] = "interval" /\ (~hidden \/ c \in Opened) /\ asked[c] < MaxAsked
  /\ asked' = [asked EXCEPT ![c] = @ + 1]
  /\ Ran(c)
  /\ UNCHANGED <<hidden, element, due, embed>>

(* A reading is shown, or that the network is not reached. *)
Reading(c) ==
  /\ asked[c] > 0
  /\ asked' = [asked EXCEPT ![c] = @ - 1]
  /\ UNCHANGED <<hidden, element, due, embed, ranOn>>

(* The manifest came.  croptopEmbedURL finds in it that this page may embed the
   site, and where, or that it may not. *)
Manifest(e) ==
  /\ embed[e] = "checking"
  /\ \E permitted \in BOOLEAN :
       /\ embed' = [embed EXCEPT ![e] = IF permitted /\ GoesOn(e) THEN "frame" ELSE "link"]
       /\ due' = [due EXCEPT ![e] = "none"]
  /\ UNCHANGED <<hidden, element, asked, ranOn>>

(* The request fails or is aborted: the link stays. *)
Abort(e) ==
  /\ embed[e] = "checking"
  /\ embed' = [embed EXCEPT ![e] = "link"]
  /\ due' = [due EXCEPT ![e] = "none"]
  /\ UNCHANGED <<hidden, element, asked, ranOn>>

Remove(c) ==
  /\ element[c] = "there"
  /\ element' = [element EXCEPT ![c] = "gone"]
  /\ UNCHANGED <<hidden, due, asked, embed, ranOn>>

SwitchTab ==
  /\ hidden' = ~hidden
  /\ UNCHANGED <<element, due, asked, embed, ranOn>>

Next ==
  \/ \E c \in Drawings : MountDrawing(c) \/ Frame(c)
  \/ \E c \in Typings : MountTyping(c) \/ Step(c)
  \/ \E c \in Polls : MountPoll(c) \/ Tick(c) \/ Reading(c)
  \/ \E e \in Embeds : MountEmbed(e) \/ Manifest(e) \/ Abort(e)
  \/ \E c \in Cards : Remove(c)
  \/ SwitchTab

Spec == Init /\ [][Next]_vars

-----------------------------------------------------------------------------
(* When a preview left the page, at most one of its frames or timeouts still
   comes, however the tab was switched meanwhile (animate in
   preview-template.js, step in wallet.preview.js). *)
OnceMoreAtMost ==
  /\ TypeOK
  /\ \A c \in (Drawings \cup Typings) \ Opened : ranOn[c] <= 1

(* Every preview stops when it left the page (docs/widgets.md:147).  Those with
   an interval do not: no run checks it. *)
PreviewsStop == \A c \in Cards \ Opened : ranOn[c] <= 1
=============================================================================
