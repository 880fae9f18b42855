------------------------------ MODULE Players ------------------------------
(***************************************************************************)
(* What sounds on a page of the example site: the rhythm instruments       *)
(* (rhythm.js, which build.py copies into welcome.js and the posts'        *)
(* preview.js), the players of the feed's previews (preview-template.js)   *)
(* and the audio players of opened posts (audio-player.js, made exclusive  *)
(* by welcome.js).  No object owns the sound: a player that starts stops   *)
(* the others through a custom event, through the media elements' queued   *)
(* `play' events and through pause(), while a rhythm waits for its audio   *)
(* context, frames look whether a player can still be seen and the page    *)
(* hides, covers and removes them.                                         *)
(*                                                                         *)
(* A media element's paused flag changes at once and its event is fired    *)
(* later; the orders to an audio context are carried out in order, later.  *)
(* Notes, patterns, tempo, seeking and volume are left out.                *)
(***************************************************************************)
EXTENDS Naturals, Sequences, FiniteSets, SequencesExt

CONSTANTS
  Rhythms,    \* the instruments mounted on the page
  Previews,   \* the media of the feed's preview cards
  Posts,      \* the audio of opened posts, with players of their own
  MaxEvents   \* bound: the user clicks while at most this many events wait

ASSUME PlayersAssumption ==
  /\ Rhythms \cap Previews = {} /\ Rhythms \cap Posts = {}
  /\ Previews \cap Posts = {} /\ IsFiniteSet(Posts)
  /\ MaxEvents \in Nat

VARIABLES
  hidden,     \* document.hidden
  place,      \* place[p]: shown, covered (in the page, without a box), or gone
  transport,  \* transport[r]: idle, starting (awaiting its context), playing
  context,    \* context[r]: the state of its AudioContext
  orders,     \* orders[r]: what its context has been told and not done yet
  playing,    \* playing[m]: a media element that is not paused
  events,     \* the media elements' events that have not fired yet
  watching,   \* watching[m]: the audio player has asked for a frame
  crossed     \* history: r is starting, or plays, although it was told to stop

vars == <<hidden, place, transport, context, orders, playing, events,
          watching, crossed>>

Media == Previews \cup Posts
Players == Rhythms \cup Media
InPage == {p \in Players : place[p] # "gone"}

Event(kind, m) == [kind |-> kind, on |-> m]

TypeOK ==
  /\ hidden \in BOOLEAN
  /\ place \in [Players -> {"shown", "covered", "gone"}]
  /\ transport \in [Rhythms -> {"idle", "starting", "playing"}]
  /\ context \in [Rhythms -> {"none", "suspended", "running", "closed"}]
  /\ \A r \in Rhythms : orders[r] \in Seq({"resume", "suspend"})
  /\ playing \in [Media -> BOOLEAN]
  /\ \A i \in DOMAIN events :
       events[i] \in [kind : {"play"}, on : Media]
                     \cup [kind : {"pause"}, on : Posts]
  /\ watching \in [Posts -> BOOLEAN]
  /\ crossed \in [Rhythms -> BOOLEAN]

Init ==
  /\ hidden = FALSE
  /\ place = [p \in Players |-> "shown"]
  /\ transport = [r \in Rhythms |-> "idle"]
  /\ context = [r \in Rhythms |-> "none"]
  /\ orders = [r \in Rhythms |-> <<>>]
  /\ playing = [m \in Media |-> FALSE]
  /\ events = <<>>
  /\ watching = [m \in Posts |-> FALSE]
  /\ crossed = [r \in Rhythms |-> FALSE]

-----------------------------------------------------------------------------
(* Stopping.                                                               *)

\* isConnected and getClientRects().
Seen(p) == place[p] = "shown"

\* stop() of the rhythms of R: a rhythm that is starting keeps starting.
Halted(R) ==
  [r \in Rhythms |-> IF r \in R /\ transport[r] = "playing"
                     THEN "idle" ELSE transport[r]]

\* A second suspend in a row would change nothing and is not kept.
Suspending(q) ==
  IF q # <<>> /\ Last(q) = "suspend" THEN q ELSE Append(q, "suspend")

\* stop() suspends a context whose state reads running.
Suspended(R) ==
  [r \in Rhythms |-> IF r \in R /\ context[r] = "running"
                     THEN Suspending(orders[r]) ELSE orders[r]]

Crossing(R) ==
  [r \in Rhythms |-> IF r \in R THEN transport[r] = "starting" ELSE crossed[r]]

Stop(R) ==
  /\ transport' = Halted(R)
  /\ orders' = Suspended(R)
  /\ crossed' = Crossing(R)

\* pause() on the elements of M.  Only the audio players act on the event.
Silent(M) == [m \in Media |-> playing[m] /\ m \notin M]

PauseEvents(M) ==
  SetToSeq({Event("pause", m) : m \in {m \in M \cap Posts : playing[m]}})

-----------------------------------------------------------------------------
(* The rhythm instrument.                                                  *)

(* Mutant of Begun: the instrument plays without awaiting its context. *)
BegunAtOnce == "playing"

\* The transport awaits resume() and plays from what follows.
Begun == "starting"

\* Click on Play: the other rhythms and every media element of the page are
\* stopped before resume() is awaited.
Start(r) ==
  LET others == {o \in Rhythms \ {r} : place[o] # "gone"} IN
  /\ Seen(r) /\ ~hidden /\ Len(events) <= MaxEvents
  /\ transport[r] = "idle"
  /\ transport' = [Halted(others) EXCEPT ![r] = Begun]
  /\ context' = [context EXCEPT ![r] = IF @ = "none" THEN "suspended" ELSE @]
  /\ orders' = [Suspended(others) EXCEPT ![r] = Append(@, "resume")]
  /\ crossed' = [Crossing(others) EXCEPT ![r] = FALSE]
  /\ playing' = Silent(InPage)
  /\ events' = events \o PauseEvents(InPage)
  /\ UNCHANGED <<hidden, place, watching>>

\* Click on Stop.
ClickStop(r) ==
  /\ Seen(r) /\ ~hidden
  /\ transport[r] = "playing"
  /\ Stop({r})
  /\ UNCHANGED <<hidden, place, context, playing, events, watching>>

(* Mutant of MayPlay: nothing looks at the tab after the await. *)
MayPlayInHiddenTab(r) == Seen(r)

\* After the await the instrument must still be seen; paint() then looks at
\* the tab before the first frame.
MayPlay(r) == Seen(r) /\ ~hidden

\* The context resumes, and the click that awaits it goes on.
Resumed(r) ==
  /\ orders[r] # <<>> /\ Head(orders[r]) = "resume"
  /\ context' = [context EXCEPT ![r] = "running"]
  /\ transport' = [transport EXCEPT ![r] = IF MayPlay(r) THEN "playing" ELSE "idle"]
  /\ orders' = [orders EXCEPT ![r] = IF MayPlay(r) THEN Tail(@)
                                     ELSE Suspending(Tail(@))]
  /\ crossed' = [crossed EXCEPT ![r] = @ /\ MayPlay(r)]
  /\ UNCHANGED <<hidden, place, playing, events, watching>>

\* resume() rejects: the catch shows the error and stops.
ResumeFails(r) ==
  /\ orders[r] # <<>> /\ Head(orders[r]) = "resume"
  /\ transport' = [transport EXCEPT ![r] = "idle"]
  /\ orders' = [orders EXCEPT ![r] = IF context[r] = "running"
                                     THEN Suspending(Tail(@)) ELSE Tail(@)]
  /\ crossed' = [crossed EXCEPT ![r] = FALSE]
  /\ UNCHANGED <<hidden, place, context, playing, events, watching>>

ContextSuspends(r) ==
  /\ orders[r] # <<>> /\ Head(orders[r]) = "suspend"
  /\ context' = [context EXCEPT ![r] = "suspended"]
  /\ orders' = [orders EXCEPT ![r] = Tail(@)]
  /\ UNCHANGED <<hidden, place, transport, playing, events, watching, crossed>>

(* Mutant of LeftBehind: a player is left behind only when it leaves the page. *)
LeftThePage(p) == place[p] = "gone"

\* What paint() and watchVisibility() look at in every frame.
LeftBehind(p) == ~Seen(p)

\* paint(): the browser gives frames to a visible tab.
Paint(r) ==
  /\ ~hidden /\ transport[r] = "playing" /\ LeftBehind(r)
  /\ Stop({r})
  /\ UNCHANGED <<hidden, place, context, playing, events, watching>>

-----------------------------------------------------------------------------
(* The media elements.                                                     *)

\* The button of a preview or of an audio player: play(), or pause().
ClickPlay(m) ==
  /\ Seen(m) /\ ~hidden /\ Len(events) <= MaxEvents
  /\ ~playing[m]
  /\ playing' = [playing EXCEPT ![m] = TRUE]
  /\ events' = Append(events, Event("play", m))
  /\ UNCHANGED <<hidden, place, transport, context, orders, watching, crossed>>

ClickPause(m) ==
  /\ Seen(m) /\ ~hidden /\ Len(events) <= MaxEvents
  /\ playing[m]
  /\ playing' = Silent({m})
  /\ events' = events \o PauseEvents({m})
  /\ UNCHANGED <<hidden, place, transport, context, orders, watching, crossed>>

\* The element reaches its end and fires `pause' and `ended' itself.
Ends(m) ==
  /\ playing[m]
  /\ playing' = Silent({m})
  /\ watching' = [n \in Posts |-> watching[n] /\ n # m]
  /\ UNCHANGED <<hidden, place, transport, context, orders, events, crossed>>

(* Mutant of Others: only the players of the same kind are paused. *)
OthersOfKind(m) == ((IF m \in Posts THEN Posts ELSE Previews) \cap InPage) \ {m}

\* The media elements an element's `play' handler pauses.
Others(m) == (InPage \cap Media) \ {m}

\* An audio player that starts is watched from now on, if it can be seen.
WatchedAfterPlay(m) ==
  [n \in Posts |-> IF n = m THEN playing[m] /\ Seen(m) ELSE watching[n]]

\* A `play' event reaches the rhythms' capturing listener on the document
\* when its element is in the page, and the element's own listeners.
FirePlay ==
  LET m == Head(events).on
      unseen == IF m \in Posts /\ playing[m] /\ ~Seen(m) THEN {m} ELSE {} IN
  /\ events # <<>> /\ Head(events).kind = "play"
  /\ Stop({r \in Rhythms : place[r] # "gone" /\ place[m] # "gone"})
  /\ playing' = Silent(Others(m) \cup unseen)
  /\ events' = Tail(events) \o PauseEvents(Others(m) \cup unseen)
  /\ watching' = WatchedAfterPlay(m)
  /\ UNCHANGED <<hidden, place, context>>

\* A `pause' event ends the audio player's frames.
FirePause ==
  /\ events # <<>> /\ Head(events).kind = "pause"
  /\ watching' = [watching EXCEPT ![Head(events).on] = FALSE]
  /\ events' = Tail(events)
  /\ UNCHANGED <<hidden, place, transport, context, orders, playing, crossed>>

\* watchVisibility() in a frame that finds the audio paused or out of sight.
WatchFrame(m) ==
  /\ ~hidden /\ watching[m]
  /\ ~playing[m] \/ LeftBehind(m)
  /\ watching' = [watching EXCEPT ![m] = FALSE]
  /\ playing' = Silent({m})
  /\ events' = events \o PauseEvents({m})
  /\ UNCHANGED <<hidden, place, transport, context, orders, crossed>>

-----------------------------------------------------------------------------
(* The page.                                                               *)

\* The tab is hidden, and visibilitychange stops the rhythms of the page.
HideTab ==
  /\ ~hidden
  /\ hidden' = TRUE
  /\ Stop({r \in Rhythms : place[r] # "gone"})
  /\ UNCHANGED <<place, context, playing, events, watching>>

ShowTab ==
  /\ hidden
  /\ hidden' = FALSE
  /\ UNCHANGED <<place, transport, context, orders, playing, events, watching,
                 crossed>>

\* A click of the visitor opens or closes a view over a player, which takes
\* its box away or gives it back.  Nothing asks for the box of a preview card.
Cover(p) ==
  /\ ~hidden
  /\ place[p] \in {"shown", "covered"}
  /\ place' = [place EXCEPT ![p] = IF @ = "shown" THEN "covered" ELSE "shown"]
  /\ UNCHANGED <<hidden, transport, context, orders, playing, events, watching,
                 crossed>>

\* A rhythm leaves the page: its observer stops it, closes the context it may have, which
\* rejects a resume() still awaited, and takes its listeners off.
RemoveRhythm(r) ==
  /\ place[r] # "gone"
  /\ place' = [place EXCEPT ![r] = "gone"]
  /\ transport' = [transport EXCEPT ![r] = "idle"]
  /\ context' = [context EXCEPT ![r] = "closed"]
  /\ orders' = [orders EXCEPT ![r] = <<>>]
  /\ crossed' = [crossed EXCEPT ![r] = FALSE]
  /\ UNCHANGED <<hidden, playing, events, watching>>

\* The browser pauses a media element that leaves its document.
RemoveMedia(m) ==
  /\ place[m] # "gone"
  /\ place' = [place EXCEPT ![m] = "gone"]
  /\ playing' = Silent({m})
  /\ events' = events \o PauseEvents({m})
  /\ UNCHANGED <<hidden, transport, context, orders, watching, crossed>>

-----------------------------------------------------------------------------
Next ==
  \/ \E r \in Rhythms : \/ Start(r) \/ ClickStop(r) \/ Paint(r)
                        \/ Resumed(r) \/ ResumeFails(r) \/ ContextSuspends(r)
                        \/ RemoveRhythm(r)
  \/ \E m \in Media : ClickPlay(m) \/ ClickPause(m) \/ Ends(m) \/ RemoveMedia(m)
  \/ \E m \in Posts : WatchFrame(m)
  \/ \E p \in Rhythms \cup Posts : Cover(p)
  \/ FirePlay \/ FirePause \/ HideTab \/ ShowTab

\* The browser fires the events it has queued and gives frames to a visible
\* tab.  Nothing is assumed of the user, nor of a context that resumes.
Fairness ==
  /\ WF_vars(FirePlay \/ FirePause)
  /\ \A r \in Rhythms : WF_vars(Paint(r))
  /\ \A m \in Posts : WF_vars(WatchFrame(m))

Spec == Init /\ [][Next]_vars /\ Fairness

-----------------------------------------------------------------------------
Sounding == {m \in Media : playing[m]}
            \cup {r \in Rhythms : transport[r] = "playing"}

PlayWaits == \E i \in DOMAIN events : events[i].kind = "play"

\* Once the `play' events have fired, at most one player of the page sounds,
\* whatever was started, stopped, covered or removed in between, unless a
\* rhythm plays that was told to stop while it awaited its context: stop()
\* (rhythm.js:17) does nothing to a rhythm that is only starting.
OneSoundingUnlessCrossed ==
  /\ TypeOK
  /\ \/ PlayWaits
     \/ \E r \in Rhythms : transport[r] = "playing" /\ crossed[r]
     \/ Cardinality(Sounding) <= 1

\* No rhythm plays in a hidden tab, although one may be hidden while it awaits
\* its context and no frame runs there (rhythm.js: visibility and paint).
QuietWhenHidden == hidden => \A r \in Rhythms : transport[r] # "playing"

\* A rhythm that shows itself playing is heard: its context runs and no order
\* to suspend it is on its way, unless it was told to stop while starting.
\* stop() and a new start race through the context's queue of orders.
HeardUnlessCrossed ==
  \A r \in Rhythms : transport[r] = "playing" /\ ~crossed[r] =>
                       context[r] = "running" /\ orders[r] = <<>>

\* A rhythm or a post's audio that sounds where it cannot be seen falls silent,
\* unless it is shown again or the tab hides, where no frame runs.
SilentOnceLeft ==
  \A p \in Rhythms \cup Posts :
    (p \in Sounding /\ ~Seen(p)) ~> (p \notin Sounding \/ Seen(p) \/ hidden)

=============================================================================
