------------------------------ MODULE Console -------------------------------
(***************************************************************************)
(* The console in the browser (web/app.js), with what its server keeps of  *)
(* it: the settings (saveShopAwareSettings, updateShop), the files of the  *)
(* site's template (internal/tpl/tpl.go) and how many posts were           *)
(* made.  One page shows the view its address names; a view asks the       *)
(* server first and replaces the page when the answer comes, whatever the  *)
(* address names by then.  The answers of different calls come in any      *)
(* order, and any call may fail.                                           *)
(***************************************************************************)
EXTENDS Naturals, FiniteSets

CONSTANTS
  Tours,      \* bound: each a set of views between which the person moves
  Paths,      \* the files of the template
  Values,     \* the shop addresses a person may type
  Shop,       \* the address of the shop that is being created
  None,
  MaxForms,   \* bound: how many of these forms are opened
  MaxFails,   \* bound: how many of their calls fail
  MaxLoads,   \* bound: how many views are on the way at a time
  MaxCalls    \* bound: how many calls are, when a button begins another

ASSUME ConstantsAssumption ==
  /\ Shop \notin Values /\ Values # {} /\ None \notin Values \cup Paths \cup {Shop}
  /\ {MaxForms, MaxFails, MaxLoads, MaxCalls} \subseteq Nat

VARIABLES
  tour,       \* the views the person moves between
  hash,       \* the view that the address names
  loads,      \* the views whose data is on the way
  main,       \* what the page shows, with what its handlers keep
  calls,      \* the calls of forms that wait for an answer
  forms,      \* forms[n]: what became of the n-th form that makes a post or a site
  address,    \* the shop address in the settings
  shop,       \* the session that creates the shop
  forked,     \* the template is the site's own copy, and can be edited
  files,      \* files[p]: the text of template file p
  history     \* what the properties ask of the past

vars == <<tour, hash, loads, main, calls, forms, address, shop, forked, files, history>>
pages == <<hash, loads, main, calls>>
posting == forms
setting == <<address, shop>>
template == <<forked, files>>

Views == {"home", "new", "adopt", "follow", "followed", "site", "post", "quick", "settings", "template"}

(* These are on the page before the server is asked anything. *)
Immediate == {"home", "new", "adopt", "follow", "followed"}

(* These are forms that make something: a post, or a site. *)
Making == {"post", "quick", "new", "adopt", "follow"}

Addresses == Values \cup {Shop}

(* A text comes from a file, as it was forked, as upstream has it, or as the
   person wrote it; None is the text of an answer that was an error. *)
Text == [of : Paths \cup {None}, by : {"fork", "theirs", "person"}]
NoText == [of |-> None, by |-> "fork"]

Form == [opened : BOOLEAN, made : Nat, failed : Nat]

(* "create" and then, if there is more, "second": the hero image of a post, the
   publish of a quick post, or the list of sites once one was made; "patch": the
   settings that were changed; the calls of buttons: "publish", forced or not,
   "sync", "refresh" of a followed site, "remove" of a site or of a follow,
   "retire" of the old app; "template" changed the template and waits for its
   answer, and "take" still has some files to take from upstream. *)
Call == [kind : {"create", "second"}, form : 1..MaxForms, more : BOOLEAN, to : {"site", "followed"}]
        \cup [kind : {"patch"}, value : Addresses \cup {None}, typed : BOOLEAN]
        \cup [kind : {"publish"}, force : BOOLEAN]
        \cup [kind : {"sync", "refresh", "remove", "retire", "template"}]
        \cup [kind : {"take"}, paths : SUBSET Paths]

Main == [view : {"home", "site"}]
        \cup [view : {"followed"}, busy : BOOLEAN]
        \cup [view : Making, form : 1..MaxForms, busy : BOOLEAN]
        \cup [view : {"settings"}, busy : BOOLEAN, base : Addresses, input : Addresses,
              typed : BOOLEAN, poll : Addresses \cup {None}]
        \cup [view : {"template"}, forked : BOOLEAN, path : Paths \cup {None}, text : Text, opening : SUBSET Paths,
              listed : BOOLEAN, safe : SUBSET Paths]

Original(p) == [of |-> p, by |-> "fork"]

Home == [view |-> "home"]
SitePage == [view |-> "site"]

History == [mixed : BOOLEAN, asked : SUBSET Paths, since : SUBSET Paths, interrupted : BOOLEAN]

(* The page, the calls and what the server keeps have the shapes of app.js. *)
TypeOK ==
  /\ tour \in Tours /\ hash \in Views /\ loads \subseteq Views \ Immediate
  /\ main \in Main
  /\ calls \subseteq Call
  /\ forms \in [1..MaxForms -> [opened : BOOLEAN, made : 0..(MaxFails + 1), failed : 0..MaxFails]]
  /\ address \in Addresses
  /\ shop \in [previous : Addresses \cup {None}, wrote : BOOLEAN, applied : BOOLEAN]
  /\ forked \in BOOLEAN /\ files \in [Paths -> Text]
  /\ history \in History

Init ==
  /\ tour \in Tours
  /\ hash = "home" /\ loads = {} /\ main = Home /\ calls = {}
  /\ forms = [n \in 1..MaxForms |-> [opened |-> FALSE, made |-> 0, failed |-> 0]]
  /\ address \in Values
  /\ shop = [previous |-> None, wrote |-> FALSE, applied |-> FALSE]
  /\ forked = FALSE /\ files = [p \in Paths |-> Original(p)]
  /\ history = [mixed |-> FALSE, asked |-> {}, since |-> {}, interrupted |-> FALSE]

-----------------------------------------------------------------------------
Shows(v) == main.view = v
Fresh == {n \in 1..MaxForms : ~forms[n].opened}

(* The views as they are when their data came. *)
PostForm(n) == [view |-> "post", form |-> n, busy |-> FALSE]
QuickForm(n) == [view |-> "quick", form |-> n, busy |-> FALSE]
NewForm(n) == [view |-> "new", form |-> n, busy |-> FALSE]
AdoptForm(n) == [view |-> "adopt", form |-> n, busy |-> FALSE]
FollowForm(n) == [view |-> "follow", form |-> n, busy |-> FALSE]
Followed == [view |-> "followed", busy |-> FALSE]

SettingsForm == [view |-> "settings", busy |-> FALSE, base |-> address, input |-> address,
                 typed |-> FALSE, poll |-> None]
TemplateEditor(p) == [view |-> "template", forked |-> forked, path |-> p, text |-> NoText, opening |-> {p},
                      listed |-> FALSE, safe |-> {}]

(* The settings that are sent are those that differ from what the form began
   with, or took over since. *)
Patch(m) == [kind |-> "patch", value |-> IF m.input # m.base THEN m.input ELSE None, typed |-> m.typed]

(* A form that was submitted goes on sending when the page has left it. *)
Left == IF Shows("settings") /\ main.busy THEN {Patch(main)} ELSE {}

(* What was saved since a list of updates was made still counts when files of
   an earlier list are being taken. *)
Taking == \E c \in calls : c.kind = "take"
Since == IF Taking THEN history.since ELSE {}

(* The page shows view v, and forms are what became of the forms until now. *)
Show(v, before) ==
  IF v \in Making
  THEN \E n \in Fresh :
         /\ forms' = [before EXCEPT ![n].opened = TRUE]
         /\ main' \in {f \in {PostForm(n), QuickForm(n), NewForm(n), AdoptForm(n), FollowForm(n)} : f.view = v}
  ELSE /\ forms' = before
       /\ main' \in CASE v = "settings" -> {SettingsForm}
                      [] v = "template" -> {TemplateEditor(p) : p \in Paths}
                      [] v = "followed" -> {Followed}
                      [] v = "site" -> {SitePage}
                      [] OTHER -> {Home}

(* It does now, whatever it showed; calls done were answered. *)
Render(v, done) ==
  /\ calls' = (calls \ done) \cup Left
  /\ Show(v, forms)
  /\ history' = [history EXCEPT !.since = Since]

(* The view begins: at once, or when its data comes. *)
Begin(v, done) ==
  IF v \in Immediate THEN loads' = loads /\ Render(v, done)
  ELSE /\ loads' = loads \cup {v} /\ calls' = calls \ done
       /\ UNCHANGED <<main, forms, history>>

(* route: the view of the address begins; home does, for a site that is no
   longer followed. *)
Route(v, done) ==
  /\ hash' = v
  /\ \E shown \in IF v = "followed" THEN {v, "home"} ELSE {v} : Begin(shown, done)

(* The person follows a link, or edits the address. *)
Go(v) ==
  /\ v \in tour
  /\ Route(v, {}) /\ Cardinality(loads') <= MaxLoads
  /\ UNCHANGED <<tour, setting, template>>

Answer(v) ==
  /\ v \in loads
  /\ loads' = loads \ {v}
  /\ Render(v, {})
  /\ UNCHANGED <<tour, hash, setting, template>>

(* The page stays as it is. *)
LoadFails(v) ==
  /\ v \in loads
  /\ loads' = loads \ {v}
  /\ UNCHANGED <<tour, hash, main, calls, posting, setting, template, history>>

(* "Update": another process takes over, the calls on their way end before or
   after they did their work, and the page is loaded again, with what it asks
   for then.  With no call on its way that is like coming back to the view. *)
Restart ==
  /\ calls # {}
  /\ \E done \in SUBSET {c \in calls : c.kind = "create" /\ forms[c.form].made <= MaxFails} :
       Show(hash, [n \in 1..MaxForms |->
                     [forms[n] EXCEPT !.made = @ + Cardinality({c \in done : c.form = n})]])
  /\ calls' = {} /\ loads' = {}
  /\ history' = [history EXCEPT !.since = {}]
  /\ UNCHANGED <<tour, hash, setting, template>>

-----------------------------------------------------------------------------
(* Making: a form of a new post, of files that were dropped, of a new site, of
   a site to adopt or of one to follow. *)

(* Mutant of MaySubmit: the button stays enabled. *)
MaySubmitAlways == TRUE

MaySubmit == ~main.busy

Failed(n) == forms[n].failed < MaxFails

(* Once a site was made, the list of sites is loaded. *)
MoreAfter(v) == IF v \in {"post", "quick"} THEN BOOLEAN ELSE {TRUE}

After(v) == IF v = "follow" THEN "followed" ELSE "site"

Submit ==
  /\ main.view \in Making
  /\ MaySubmit
  /\ main' = [main EXCEPT !.busy = TRUE]
  /\ \E more \in MoreAfter(main.view) :
       calls' = calls \cup {[kind |-> "create", form |-> main.form, more |-> more, to |-> After(main.view)]}
  /\ UNCHANGED <<tour, hash, loads, posting, setting, template, history>>

(* The form that made call c hears that it failed, if it is still there. *)
TellForm(c) ==
  main' = IF main.view \in Making /\ main.form = c.form
          THEN [main EXCEPT !.busy = FALSE] ELSE main

(* The server makes the post or site, and the answer comes: the second call
   follows, or the page goes to the site. *)
Created(c) ==
  /\ c.kind = "create"
  /\ forms[c.form].made <= MaxFails
  /\ forms' = [forms EXCEPT ![c.form].made = @ + 1]
  /\ IF c.more
     THEN /\ calls' = (calls \ {c}) \cup {[c EXCEPT !.kind = "second"]}
          /\ UNCHANGED <<hash, loads>>
     ELSE /\ calls' = calls \ {c} /\ hash' = "site"
          /\ loads' = loads \cup {"site"}
  /\ UNCHANGED <<tour, main, setting, template, history>>

SecondDone(c) ==
  /\ c.kind = "second"
  /\ Route(c.to, {c})
  /\ UNCHANGED <<tour, setting, template>>

(* The first call fails, before the post was made or after it; or the second
   does.  The form may be submitted again. *)
SubmitFails(c) ==
  /\ c.kind \in {"create", "second"} /\ Failed(c.form)
  /\ forms[c.form].made <= MaxFails
  /\ \E made \in IF c.kind = "create" THEN {0, 1} ELSE {0} :
       forms' = [forms EXCEPT ![c.form].made = @ + made, ![c.form].failed = @ + 1]
  /\ calls' = calls \ {c}
  /\ TellForm(c)
  /\ UNCHANGED <<tour, hash, loads, setting, template, history>>

MayCall == Cardinality(calls) < MaxCalls

(* Publish and sync of the site page go on when it is left.  A publish that is
   refused, for another machine's version or one it cannot reach, is forced if
   the person says so.  When it ends the view of the address begins again, over
   anything that was typed there. *)
Publish ==
  /\ Shows("site")
  /\ MayCall
  /\ calls' = calls \cup {[kind |-> "publish", force |-> FALSE]}
  /\ UNCHANGED <<tour, hash, loads, main, posting, setting, template, history>>

Confirmed(c) ==
  /\ c.kind = "publish" /\ ~c.force
  /\ calls' = (calls \ {c}) \cup {[c EXCEPT !.force = TRUE]}
  /\ UNCHANGED <<tour, hash, loads, main, posting, setting, template, history>>

Published(c) ==
  /\ c.kind \in {"publish", "sync", "refresh", "retire", "template"}
  /\ Route(hash, {c})
  /\ UNCHANGED <<tour, setting, template>>

Sync ==
  /\ Shows("site") \/ Shows("settings")
  /\ MayCall
  /\ calls' = calls \cup {[kind |-> "sync"]}
  /\ UNCHANGED <<tour, hash, loads, main, posting, setting, template, history>>

(* "Check now", of a followed site. *)
Refresh ==
  /\ Shows("followed") /\ ~main.busy
  /\ MayCall
  /\ main' = [main EXCEPT !.busy = TRUE]
  /\ calls' = calls \cup {[kind |-> "refresh"]}
  /\ UNCHANGED <<tour, hash, loads, posting, setting, template, history>>

(* "import and retire", beside every page. *)
Retire ==
  /\ MayCall
  /\ calls' = calls \cup {[kind |-> "retire"]}
  /\ UNCHANGED <<tour, hash, loads, main, posting, setting, template, history>>

(* "Unfollow", and "Delete site from this machine". *)
Remove ==
  /\ Shows("followed") \/ Shows("settings")
  /\ MayCall
  /\ calls' = calls \cup {[kind |-> "remove"]}
  /\ UNCHANGED <<tour, hash, loads, main, posting, setting, template, history>>

Removed(c) ==
  /\ c.kind = "remove"
  /\ Route("home", {c})
  /\ UNCHANGED <<tour, setting, template>>

ButtonFails(c) ==
  /\ c.kind \in {"sync", "refresh", "remove", "retire", "template", "take"}
  /\ calls' = calls \ {c}
  /\ main' = IF c.kind = "refresh" /\ Shows("followed") THEN Followed ELSE main
  /\ UNCHANGED <<tour, hash, loads, posting, setting, template, history>>

-----------------------------------------------------------------------------
(* Settings, and the shop that is created from them in another page. *)

OpenShop ==
  /\ Shows("settings") /\ shop.previous = None
  /\ shop' = [shop EXCEPT !.previous = address]
  /\ UNCHANGED <<tour, pages, posting, address, template, history>>

(* Mutant of MayApply: a shop is applied whenever its page is opened. *)
MayApplyAgain == shop.previous # None /\ address \in {shop.previous, Shop}

(* The shop is applied once, over what the settings were when it was begun. *)
MayApply == shop.previous # None /\ ~shop.applied /\ address \in {shop.previous, Shop}

(* updateShop with a confirmed shop: the settings are saved, then that they
   were, unless that save fails or the server stops between them. *)
Apply ==
  /\ MayApply
  /\ address' = Shop
  /\ \E saved \in BOOLEAN :
       /\ shop' = [shop EXCEPT !.wrote = TRUE, !.applied = @ \/ saved]
       /\ history' = [history EXCEPT !.interrupted = @ \/ ~saved]
  /\ UNCHANGED <<tour, pages, posting, template>>

Type(a) ==
  /\ Shows("settings")
  /\ main' = [main EXCEPT !.input = a, !.typed = TRUE]
  /\ UNCHANGED <<tour, hash, loads, calls, posting, setting, template, history>>

(* refreshShop asks every five seconds; what it is answered may be old when
   it comes. *)
Poll ==
  /\ Shows("settings") /\ main.poll = None
  /\ main' = [main EXCEPT !.poll = address]
  /\ UNCHANGED <<tour, hash, loads, calls, posting, setting, template, history>>

(* Mutant of Merged: the form's own text is not looked at. *)
MergedBase(m) == [m EXCEPT !.base = m.poll]

(* What changed on the server goes into the form, unless the person typed
   there; it is what the form began with from now on. *)
Merged(m) == [m EXCEPT !.base = m.poll, !.input = IF @ = m.base THEN m.poll ELSE @]

Polled ==
  /\ Shows("settings") /\ main.poll # None
  /\ \E m \in {main, Merged(main)} : main' = [m EXCEPT !.poll = None]
  /\ UNCHANGED <<tour, hash, loads, calls, posting, setting, template, history>>

(* The site is saved first (PUT), then the settings that differ (PATCH). *)
SaveSite ==
  /\ Shows("settings") /\ ~main.busy
  /\ main' = [main EXCEPT !.busy = TRUE]
  /\ UNCHANGED <<tour, hash, loads, calls, posting, setting, template, history>>

SendPatch ==
  /\ Shows("settings") /\ main.busy
  /\ calls' = calls \cup {Patch(main)}
  /\ main' = [main EXCEPT !.busy = FALSE]
  /\ UNCHANGED <<tour, hash, loads, posting, setting, template, history>>

(* The server merges them, whatever the page shows by then; it is answered, or
   a later call of the form fails. *)
Patched(c) ==
  /\ c.kind = "patch"
  /\ address' = IF c.value = None THEN address ELSE c.value
  /\ calls' = calls \ {c}
  /\ \/ hash' = "site" /\ loads' = loads \cup {"site"}
     \/ UNCHANGED <<hash, loads>>
  /\ UNCHANGED <<tour, main, posting, shop, template, history>>

PatchFails(c) ==
  /\ c.kind = "patch"
  /\ calls' = calls \ {c}
  /\ UNCHANGED <<tour, hash, loads, main, posting, setting, template, history>>

-----------------------------------------------------------------------------
(* The editor of the template. *)

(* The server changes the template, and its answer is on the way. *)
TemplateCall ==
  /\ Shows("template")
  /\ MayCall
  /\ calls' = calls \cup {[kind |-> "template"]}
  /\ UNCHANGED <<tour, hash, loads, main, posting, setting>>

(* "Fork to edit": the site gets a copy of its template. *)
Fork ==
  /\ TemplateCall
  /\ ~main.forked /\ ~forked
  /\ forked' = TRUE
  /\ UNCHANGED <<files, history>>

(* "Reset to original" drops the copy, whatever was edited in it. *)
Reset ==
  /\ TemplateCall
  /\ main.forked
  /\ forked' = FALSE /\ files' = [p \in Paths |-> Original(p)]
  /\ history' = [history EXCEPT !.asked = {}]

(* Another template is installed, or used: a copy stays in its place. *)
Choose == TemplateCall /\ UNCHANGED <<template, history>>

(* Mutant of Opened: the file that was open stays the one to save. *)
OpenedOnly(p) == [main EXCEPT !.opening = @ \cup {p}]

(* openFile: the file is the current one at once, its text comes later. *)
Opened(p) == [main EXCEPT !.path = p, !.opening = @ \cup {p}]

OpenFile(p) ==
  /\ Shows("template")
  /\ main' = Opened(p)
  /\ history' = [history EXCEPT !.mixed = @ \/ main.opening # {}]
  /\ UNCHANGED <<tour, hash, loads, calls, posting, setting, template>>

(* The text is shown, whichever file is open by then; the answer may be the
   text of an error. *)
FileAnswered(p) ==
  /\ Shows("template") /\ p \in main.opening
  /\ \E x \in {files[p], NoText} :
       /\ main' = [main EXCEPT !.text = x, !.opening = @ \ {p}]
       /\ history' = [history EXCEPT !.mixed = @ \/ x # files[p]]
  /\ UNCHANGED <<tour, hash, loads, calls, posting, setting, template>>

Edit ==
  /\ Shows("template") /\ main.forked /\ main.text.by # "person"
  /\ main' = [main EXCEPT !.text.by = "person"]
  /\ UNCHANGED <<tour, hash, loads, calls, posting, setting, template, history>>

(* The text that is shown is saved as the file that is open, if the server has
   a copy to save it in (WriteFile). *)
SaveFile ==
  /\ Shows("template") /\ main.forked /\ main.path # None
  /\ forked
  /\ files' = [files EXCEPT ![main.path] = main.text]
  /\ history' = [history EXCEPT !.mixed = @ \/ main.opening # {},
                                !.since = @ \cup {main.path}, !.asked = @ \ {main.path}]
  /\ UNCHANGED <<tour, pages, posting, setting, forked>>

(* Mutant of Unedited: the list of changed files is taken whole. *)
UneditedAny == {p \in Paths : files[p].by # "theirs"}

(* The files that upstream changed and that the person did not edit. *)
Unedited == {p \in Paths : files[p].by = "fork"}

ListUpdates ==
  /\ Shows("template") /\ main.forked /\ forked /\ ~main.listed
  /\ main' = [main EXCEPT !.listed = TRUE, !.safe = Unedited]
  /\ history' = [history EXCEPT !.since = Since]
  /\ UNCHANGED <<tour, hash, loads, calls, posting, setting, template>>

Take(ps) ==
  /\ MayCall
  /\ calls' = calls \cup {[kind |-> "take", paths |-> ps]}
  /\ UNCHANGED <<tour, hash, loads, main, posting, setting, template>>

(* "Take theirs", beside the name of a file. *)
TakeOne(p) ==
  /\ Shows("template") /\ main.listed
  /\ Take({p})
  /\ history' = [history EXCEPT !.asked = @ \cup {p}]

(* "Take all you did not edit", as they were when the list was made. *)
TakeAll ==
  /\ Shows("template") /\ main.safe # {}
  /\ Take(main.safe)
  /\ UNCHANGED history

(* One file after the other, upstream's text replaces the copy's. *)
Taken(c, p) ==
  /\ c.kind = "take" /\ p \in c.paths
  /\ forked
  /\ files' = [files EXCEPT ![p] = [of |-> p, by |-> "theirs"]]
  /\ calls' = (calls \ {c}) \cup {IF c.paths = {p} THEN [kind |-> "template"]
                                  ELSE [c EXCEPT !.paths = @ \ {p}]}
  /\ UNCHANGED <<tour, hash, loads, main, posting, setting, forked, history>>

Next ==
  \/ \E v \in Views : Go(v) \/ Answer(v) \/ LoadFails(v)
  \/ Restart \/ Submit \/ Publish \/ Sync \/ Refresh \/ Remove \/ Retire
  \/ \E c \in calls : Created(c) \/ SecondDone(c) \/ SubmitFails(c) \/ Confirmed(c) \/ Published(c)
                      \/ Removed(c) \/ ButtonFails(c) \/ Patched(c) \/ PatchFails(c)
  \/ OpenShop \/ Apply \/ Poll \/ Polled \/ SaveSite \/ SendPatch
  \/ \E a \in Values : Type(a)
  \/ \E p \in Paths : OpenFile(p) \/ FileAnswered(p) \/ TakeOne(p)
                       \/ \E c \in calls : Taken(c, p)
  \/ Fork \/ Reset \/ Choose \/ Edit \/ SaveFile \/ ListUpdates \/ TakeAll

Spec == Init /\ [][Next]_vars

-----------------------------------------------------------------------------
(* A form makes one post or site, and one more for each failure it was told of,
   however its button is pressed and wherever the page goes meanwhile (MaySubmit). *)
PostedOncePerAnswer == TypeOK /\ \A n \in 1..MaxForms : forms[n].made <= 1 + forms[n].failed

(* The address of a shop that was created stays in the settings until a form
   in which the person typed another is saved: no form that was opened before
   puts back what it began with (Patch, Merged). *)
ShopAddressKept ==
  [][address = Shop /\ address' # Shop =>
       \E c \in calls \ calls' : c.kind = "patch" /\ c.typed /\ c.value = address']_vars

(* A shop that was applied is never applied again over what the person saved
   later, unless the server stopped before it noted that it had been
   (updateShop). *)
AppliedOnceUnlessInterrupted ==
  [][shop.wrote /\ address # Shop /\ address' = Shop => history.interrupted]_vars

(* A template file has its own text, edited or not, unless another file was
   opened or saved while one was on the way, or an error came for one
   (openFile, save). *)
OwnTextUnlessMixed == ~history.mixed => \A p \in Paths : files[p].of = p

(* Upstream's text replaces what the person wrote only by the name of the
   file, or if the list of updates is older than the edit (take). *)
EditsTakenByName ==
  [][\A p \in Paths :
       files[p].by = "person" /\ files'[p].by = "theirs" => p \in history'.asked \cup history'.since]_vars
=============================================================================
