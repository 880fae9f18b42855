--------------------------- MODULE Console_proofs ---------------------------
(***************************************************************************)
(* What Console promises for any files, addresses, views and calls: the    *)
(* types of its variables, that a form makes one thing for each answer,    *)
(* that a settings form does not undo a shop, that a template's files keep *)
(* their own text, and that what a person wrote is replaced only by name.  *)
(***************************************************************************)
EXTENDS Console, FiniteSetTheorems, TLAPS

-----------------------------------------------------------------------------
(* The kinds of pages and of calls. *)
PlainPage == [view : {"home", "site"}]
FollowedPage == [view : {"followed"}, busy : BOOLEAN]
MakingPage == [view : Making, form : 1..MaxForms, busy : BOOLEAN]
SettingsPage == [view : {"settings"}, busy : BOOLEAN, base : Addresses, input : Addresses,
                 typed : BOOLEAN, poll : Addresses \cup {None}]
TemplatePage == [view : {"template"}, forked : BOOLEAN, path : Paths \cup {None}, text : Text,
                 opening : SUBSET Paths, listed : BOOLEAN, safe : SUBSET Paths]

MakingCall == [kind : {"create", "second"}, form : 1..MaxForms, more : BOOLEAN, to : {"site", "followed"}]
PatchCall == [kind : {"patch"}, value : Addresses \cup {None}, typed : BOOLEAN]
PublishCall == [kind : {"publish"}, force : BOOLEAN]
ButtonCall == [kind : {"sync", "refresh", "remove", "retire", "template"}]
TakeCall == [kind : {"take"}, paths : SUBSET Paths]

Forms == [1..MaxForms -> [opened : BOOLEAN, made : 0..(MaxFails + 1), failed : 0..MaxFails]]

LEMMA PageIs ==
  ASSUME NEW m \in Main
  PROVE  /\ m.view \in {"home", "site"} => m \in PlainPage
         /\ m.view = "followed" => m \in FollowedPage
         /\ m.view \in Making => m \in MakingPage
         /\ m.view = "settings" => m \in SettingsPage
         /\ m.view = "template" => m \in TemplatePage
<1>1. m \in PlainPage \/ m \in FollowedPage \/ m \in MakingPage \/ m \in SettingsPage \/ m \in TemplatePage
  BY DEF Main, PlainPage, FollowedPage, MakingPage, SettingsPage, TemplatePage
<1> QED
  BY <1>1 DEF PlainPage, FollowedPage, MakingPage, SettingsPage, TemplatePage, Making

LEMMA IsPage ==
  ASSUME NEW m,
         m \in PlainPage \/ m \in FollowedPage \/ m \in MakingPage \/ m \in SettingsPage \/ m \in TemplatePage
  PROVE  m \in Main
  BY DEF Main, PlainPage, FollowedPage, MakingPage, SettingsPage, TemplatePage

LEMMA CallIs ==
  ASSUME NEW c \in Call
  PROVE  /\ c.kind \in {"create", "second"} => c \in MakingCall
         /\ c.kind = "patch" => c \in PatchCall
         /\ c.kind = "publish" => c \in PublishCall
         /\ c.kind = "take" => c \in TakeCall
<1>1. c \in MakingCall \/ c \in PatchCall \/ c \in PublishCall \/ c \in ButtonCall \/ c \in TakeCall
  BY DEF Call, MakingCall, PatchCall, PublishCall, ButtonCall, TakeCall
<1> QED
  BY <1>1 DEF MakingCall, PatchCall, PublishCall, ButtonCall, TakeCall

LEMMA IsCall ==
  ASSUME NEW c,
         c \in MakingCall \/ c \in PatchCall \/ c \in PublishCall \/ c \in ButtonCall \/ c \in TakeCall
  PROVE  c \in Call
  BY DEF Call, MakingCall, PatchCall, PublishCall, ButtonCall, TakeCall

-----------------------------------------------------------------------------
(* What the page shows after a view was rendered, when before is what became
   of the forms until then. *)
Shown(before) ==
  \/ /\ main' \in MakingPage /\ ~main'.busy /\ main'.form \in Fresh
     /\ forms' = [before EXCEPT ![main'.form].opened = TRUE]
  \/ forms' = before /\ main' = SettingsForm
  \/ forms' = before /\ \E p \in Paths : main' = TemplateEditor(p)
  \/ forms' = before /\ main' \in {Followed, SitePage, Home}

LEMMA ShowIs ==
  ASSUME NEW v \in Views, NEW before, Show(v, before)
  PROVE  Shown(before)
<1>1. CASE v \in Making
  <2>1. PICK n \in Fresh :
          /\ forms' = [before EXCEPT ![n].opened = TRUE]
          /\ main' \in {f \in {PostForm(n), QuickForm(n), NewForm(n), AdoptForm(n), FollowForm(n)} : f.view = v}
    BY <1>1 DEF Show
  <2>2. \E w \in Making : main' = [view |-> w, form |-> n, busy |-> FALSE]
    BY <2>1 DEF PostForm, QuickForm, NewForm, AdoptForm, FollowForm, Making
  <2>3. n \in 1..MaxForms
    BY DEF Fresh
  <2>4. main'.form = n /\ ~main'.busy /\ main' \in MakingPage
    BY <2>2, <2>3 DEF MakingPage
  <2> QED
    BY <2>1, <2>4 DEF Shown
<1>2. CASE v \notin Making
  BY <1>2 DEF Show, Shown
<1> QED
  BY <1>1, <1>2

(* A step that answers the calls done, and renders a view or leaves the page
   as it is. *)
PageStep(done) ==
  \/ UNCHANGED <<main, forms, history>> /\ calls' = calls \ done
  \/ /\ Shown(forms)
     /\ calls' = (calls \ done) \cup Left
     /\ history' = [history EXCEPT !.since = Since]

LEMMA RenderIs ==
  ASSUME NEW v \in Views, NEW done, Render(v, done)
  PROVE  PageStep(done)
  BY ShowIs DEF Render, PageStep

LEMMA BeginIs ==
  ASSUME NEW v \in Views, NEW done, loads \subseteq Views \ Immediate, Begin(v, done)
  PROVE  PageStep(done) /\ loads' \subseteq Views \ Immediate
<1>1. CASE v \in Immediate
  BY <1>1, RenderIs DEF Begin
<1>2. CASE v \notin Immediate
  BY <1>2 DEF Begin, PageStep
<1> QED
  BY <1>1, <1>2

LEMMA RouteIs ==
  ASSUME NEW v \in Views, NEW done, loads \subseteq Views \ Immediate, Route(v, done)
  PROVE  PageStep(done) /\ loads' \subseteq Views \ Immediate /\ hash' \in Views
<1>1. PICK shown \in Views : Begin(shown, done)
  BY Zenon DEF Route, Views
<1> QED
  BY <1>1, BeginIs DEF Route

-----------------------------------------------------------------------------
(* Types. *)
LEMMA NewPages ==
  ASSUME TypeOK, NEW before, before \in Forms, Shown(before)
  PROVE  main' \in Main /\ forms' \in Forms
<1>1. CASE main' \in MakingPage /\ main'.form \in Fresh /\ forms' = [before EXCEPT ![main'.form].opened = TRUE]
  BY <1>1, IsPage DEF Forms
<1>2. CASE forms' = before /\ main' = SettingsForm
  <2>1. SettingsForm \in SettingsPage
    BY DEF SettingsForm, SettingsPage, TypeOK
  <2> QED
    BY <1>2, <2>1, IsPage
<1>3. ASSUME forms' = before, NEW p \in Paths, main' = TemplateEditor(p)
      PROVE  main' \in Main /\ forms' \in Forms
  <2>1. TemplateEditor(p) \in TemplatePage
    BY DEF TemplateEditor, TemplatePage, TypeOK, Text, NoText
  <2> QED
    BY <1>3, <2>1, IsPage
<1>4. CASE forms' = before /\ main' \in {Followed, SitePage, Home}
  <2>1. Followed \in FollowedPage /\ SitePage \in PlainPage /\ Home \in PlainPage
    BY DEF Followed, FollowedPage, SitePage, Home, PlainPage
  <2> QED
    BY <1>4, <2>1, IsPage
<1> QED
  BY <1>1, <1>2, <1>3, <1>4 DEF Shown

LEMMA PatchIs ==
  ASSUME TypeOK, Shows("settings")
  PROVE  Patch(main) \in PatchCall /\ Patch(main) \in Call
<1>1. main \in SettingsPage
  BY PageIs DEF TypeOK, Shows
<1>2. Patch(main) \in PatchCall
  BY <1>1 DEF Patch, PatchCall, SettingsPage
<1> QED
  BY <1>2, IsCall

LEMMA SinceIs ==
  ASSUME TypeOK PROVE Since \in SUBSET Paths
  BY DEF Since, TypeOK, History

LEMMA PageStepTypes ==
  ASSUME TypeOK, NEW done, PageStep(done)
  PROVE  main' \in Main /\ forms' \in Forms /\ calls' \subseteq Call /\ history' \in History
<1>1. forms \in Forms
  BY DEF TypeOK, Forms
<1>2. Left \subseteq Call
  BY PatchIs DEF Left
<1>3. [history EXCEPT !.since = Since] \in History
  BY SinceIs DEF TypeOK, History
<1> QED
  BY <1>1, <1>2, <1>3, NewPages DEF PageStep, TypeOK

SettingOK == address \in Addresses /\ shop \in [previous : Addresses \cup {None}, wrote : BOOLEAN, applied : BOOLEAN]
TemplateOK == forked \in BOOLEAN /\ files \in [Paths -> Text]

(* A step of the page that changes nothing the server keeps but the forms. *)
LEMMA ViewTypes ==
  ASSUME TypeOK, NEW done, PageStep(done), loads' \subseteq Views \ Immediate, hash' \in Views,
         UNCHANGED <<tour, setting, template>>
  PROVE  TypeOK'
  BY PageStepTypes DEF TypeOK, setting, template, Forms

(* Of the calls of one form one is on the way at most. *)
Makes(c) == c.kind \in {"create", "second"}
CreatesOf(done, n) == {c \in done : c.form = n}

LEMMA AtMostOne ==
  ASSUME NEW S, \A x, y \in S : x = y
  PROVE  Cardinality(S) \in 0..1 /\ (Cardinality(S) = 1 => \E x \in S : TRUE)
<1>1. CASE S = {}
  BY <1>1, FS_EmptySet
<1>2. CASE S # {}
  <2>1. PICK x \in S : S = {x}
    BY <1>2
  <2> QED
    BY <2>1, FS_Singleton
<1> QED
  BY <1>1, <1>2

(* What becomes of the forms when a restart cuts their calls short: those in
   done did their work. *)
Cut(done) == [n \in 1..MaxForms |-> [forms[n] EXCEPT !.made = @ + Cardinality(CreatesOf(done, n))]]

OneCallEach == \A c, d \in calls : Makes(c) /\ Makes(d) /\ c.form = d.form => c = d

LEMMA CutIs ==
  ASSUME TypeOK, OneCallEach,
         NEW done \in SUBSET {c \in calls : c.kind = "create" /\ forms[c.form].made <= MaxFails}
  PROVE  /\ Cut(done) \in Forms
         /\ \A n \in 1..MaxForms :
              /\ Cut(done)[n].opened = forms[n].opened /\ Cut(done)[n].failed = forms[n].failed
              /\ \/ Cut(done)[n].made = forms[n].made
                 \/ /\ Cut(done)[n].made = forms[n].made + 1
                    /\ \E c \in calls : c.kind = "create" /\ c.form = n
<1> SUFFICES ASSUME NEW n \in 1..MaxForms
             PROVE  /\ Cut(done)[n] \in [opened : BOOLEAN, made : 0..(MaxFails + 1), failed : 0..MaxFails]
                    /\ Cut(done)[n].opened = forms[n].opened /\ Cut(done)[n].failed = forms[n].failed
                    /\ \/ Cut(done)[n].made = forms[n].made
                       \/ /\ Cut(done)[n].made = forms[n].made + 1
                          /\ \E c \in calls : c.kind = "create" /\ c.form = n
  BY DEF Cut, Forms
<1> DEFINE size == Cardinality(CreatesOf(done, n))
<1>1. size \in 0..1 /\ (size = 1 => \E c \in CreatesOf(done, n) : TRUE)
  BY AtMostOne DEF OneCallEach, Makes, CreatesOf
<1>2. size = 1 => forms[n].made <= MaxFails /\ \E c \in calls : c.kind = "create" /\ c.form = n
  BY <1>1 DEF CreatesOf
<1> HIDE DEF size
<1>3. forms[n] \in [opened : BOOLEAN, made : 0..(MaxFails + 1), failed : 0..MaxFails]
  BY DEF TypeOK
<1>4. Cut(done)[n] = [forms[n] EXCEPT !.made = @ + size]
  BY DEF Cut, size
<1> QED
  BY <1>1, <1>2, <1>3, <1>4, ConstantsAssumption

LEMMA RestartIs ==
  ASSUME TypeOK, Restart
  PROVE  \E done \in SUBSET {c \in calls : c.kind = "create" /\ forms[c.form].made <= MaxFails} :
           Shown(Cut(done))
<1>1. PICK done \in SUBSET {c \in calls : c.kind = "create" /\ forms[c.form].made <= MaxFails} :
        Show(hash, Cut(done))
  BY Zenon DEF Restart, Cut, CreatesOf
<1> QED
  BY <1>1, ShowIs DEF TypeOK

LEMMA RestartTypes ==
  ASSUME TypeOK, OneCallEach, Restart
  PROVE  TypeOK'
<1>1. PICK done \in SUBSET {c \in calls : c.kind = "create" /\ forms[c.form].made <= MaxFails} :
        Shown(Cut(done))
  BY RestartIs
<1>2. main' \in Main /\ forms' \in Forms
  BY <1>1, CutIs, NewPages
<1>3. history' \in History
  BY DEF Restart, TypeOK, History
<1> QED
  BY <1>2, <1>3 DEF Restart, TypeOK, setting, template, Forms

(* A page that goes on with other fields. *)
LEMMA MakingTypes ==
  ASSUME TypeOK, main.view \in Making, NEW busy \in BOOLEAN
  PROVE  [main EXCEPT !.busy = busy] \in Main
<1>1. main \in MakingPage
  BY PageIs DEF TypeOK
<1>2. [main EXCEPT !.busy = busy] \in MakingPage
  BY <1>1 DEF MakingPage
<1> QED
  BY <1>2, IsPage

(* A step that changes the page, the calls and the server's forms only. *)
LEMMA CallTypes ==
  ASSUME TypeOK, main' \in Main, calls' \subseteq Call, forms' \in Forms, history' \in History,
         hash' \in Views, loads' \subseteq Views \ Immediate,
         UNCHANGED <<tour, setting, template>>
  PROVE  TypeOK'
  BY DEF TypeOK, setting, template, Forms

LEMMA AddCall ==
  ASSUME TypeOK, NEW c, calls' = calls \cup {c},
         c \in MakingCall \/ c \in PatchCall \/ c \in PublishCall \/ c \in ButtonCall \/ c \in TakeCall
  PROVE  calls' \subseteq Call
  BY IsCall DEF TypeOK

LEMMA SubmitTypes ==
  ASSUME TypeOK, Submit
  PROVE  TypeOK'
<1>1. main' \in Main
  BY MakingTypes DEF Submit
<1>2. main \in MakingPage
  BY PageIs DEF TypeOK, Submit
<1>3. PICK more \in BOOLEAN :
        calls' = calls \cup {[kind |-> "create", form |-> main.form, more |-> more, to |-> After(main.view)]}
  BY DEF Submit, MoreAfter
<1>4. [kind |-> "create", form |-> main.form, more |-> more, to |-> After(main.view)] \in MakingCall
  BY <1>2 DEF MakingPage, MakingCall, After
<1>5. calls' \subseteq Call
  BY <1>3, <1>4, AddCall
<1> QED
  BY <1>1, <1>5, CallTypes DEF Submit, TypeOK, posting, Forms

LEMMA TellTypes ==
  ASSUME TypeOK, NEW c, TellForm(c)
  PROVE  main' \in Main
  BY MakingTypes DEF TellForm, TypeOK

LEMMA CreatedTypes ==
  ASSUME TypeOK, NEW c \in calls, Created(c)
  PROVE  TypeOK'
<1>1. c \in MakingCall
  BY CallIs DEF TypeOK, Created
<1>2. [c EXCEPT !.kind = "second"] \in Call
  BY <1>1, IsCall DEF MakingCall
<1>3. calls' \subseteq Call
  BY <1>2 DEF Created, TypeOK
<1>4. forms' \in Forms
  <2> DEFINE f == c.form
  <2>1. f \in 1..MaxForms
    BY <1>1 DEF MakingCall
  <2>2. forms[f].made <= MaxFails /\ forms' = [forms EXCEPT ![f].made = @ + 1]
    BY DEF Created
  <2> HIDE DEF f
  <2>3. forms[f] \in [opened : BOOLEAN, made : 0..(MaxFails + 1), failed : 0..MaxFails] /\ forms \in Forms
    BY <2>1 DEF TypeOK, Forms
  <2>4. forms[f].made + 1 \in 0..(MaxFails + 1)
    BY <2>2, <2>3, ConstantsAssumption
  <2> QED
    BY <2>1, <2>2, <2>3, <2>4 DEF Forms
<1>5. hash' \in Views /\ loads' \subseteq Views \ Immediate
  BY DEF Created, TypeOK, Views, Immediate
<1> QED
  BY <1>3, <1>4, <1>5, CallTypes DEF Created, TypeOK

LEMMA SubmitFailsTypes ==
  ASSUME TypeOK, NEW c \in calls, SubmitFails(c)
  PROVE  TypeOK'
<1>1. c \in MakingCall
  BY CallIs DEF TypeOK, SubmitFails
<1>2. PICK made \in {0, 1} :
        forms' = [forms EXCEPT ![c.form].made = @ + made, ![c.form].failed = @ + 1]
  BY DEF SubmitFails
<1>3. c.form \in 1..MaxForms /\ forms[c.form].made <= MaxFails /\ forms[c.form].failed < MaxFails
  BY <1>1 DEF SubmitFails, MakingCall, Failed
<1>4. forms' \in Forms
  BY <1>2, <1>3, ConstantsAssumption DEF TypeOK, Forms
<1> QED
  BY <1>4, TellTypes, CallTypes DEF SubmitFails, TypeOK

LEMMA ConfirmedTypes ==
  ASSUME TypeOK, NEW c \in calls, Confirmed(c)
  PROVE  TypeOK'
<1>1. c \in PublishCall
  BY CallIs DEF TypeOK, Confirmed
<1>2. [c EXCEPT !.force = TRUE] \in PublishCall
  BY <1>1 DEF PublishCall
<1>3. [c EXCEPT !.force = TRUE] \in Call
  BY <1>2, IsCall
<1> QED
  BY <1>3, CallTypes DEF Confirmed, TypeOK, posting, Forms

LEMMA ButtonTypes ==
  ASSUME TypeOK, Publish \/ Sync \/ Retire \/ Remove
  PROVE  TypeOK'
<1>1. [kind |-> "publish", force |-> FALSE] \in PublishCall
      /\ \A k \in {"sync", "retire", "remove"} : [kind |-> k] \in ButtonCall
  BY DEF PublishCall, ButtonCall
<1>2. calls' \subseteq Call
  BY <1>1, AddCall DEF Publish, Sync, Retire, Remove
<1> QED
  BY <1>2, CallTypes DEF Publish, Sync, Retire, Remove, TypeOK, posting, Forms

LEMMA RefreshTypes ==
  ASSUME TypeOK, Refresh
  PROVE  TypeOK'
<1>1. main \in FollowedPage
  BY PageIs DEF TypeOK, Refresh, Shows
<1>2. [main EXCEPT !.busy = TRUE] \in Main
  BY <1>1, IsPage DEF FollowedPage
<1>3. calls' \subseteq Call
  BY AddCall DEF Refresh, ButtonCall
<1> QED
  BY <1>2, <1>3, CallTypes DEF Refresh, TypeOK, posting, Forms

LEMMA ButtonFailsTypes ==
  ASSUME TypeOK, NEW c \in calls, ButtonFails(c)
  PROVE  TypeOK'
<1>1. Followed \in Main
  BY IsPage DEF Followed, FollowedPage
<1> QED
  BY <1>1, CallTypes DEF ButtonFails, TypeOK, posting, Forms

-----------------------------------------------------------------------------
(* The settings. *)
LEMMA SettingsIs ==
  ASSUME TypeOK, Shows("settings")
  PROVE  main \in SettingsPage
  BY PageIs DEF TypeOK, Shows

LEMMA FormTypes ==
  ASSUME TypeOK, (\E a \in Values : Type(a)) \/ Poll \/ Polled \/ SaveSite
  PROVE  TypeOK'
<1>1. main \in SettingsPage
  BY SettingsIs DEF Type, Poll, Polled, SaveSite
<1>2. main' \in SettingsPage
  <2>1. ASSUME NEW a \in Values, Type(a)
        PROVE  main' \in SettingsPage
    BY <1>1, <2>1 DEF Type, SettingsPage, Addresses
  <2>2. CASE Poll \/ SaveSite
    BY <1>1, <2>2 DEF Poll, SaveSite, SettingsPage, TypeOK
  <2>3. CASE Polled
    <3>1. main.poll \in Addresses
      BY <1>1, <2>3 DEF Polled, SettingsPage
    <3>2. Merged(main) \in SettingsPage
      BY <1>1, <3>1 DEF Merged, SettingsPage
    <3> QED
      BY <1>1, <2>3, <3>2 DEF Polled, SettingsPage
  <2> QED
    BY <2>1, <2>2, <2>3
<1> QED
  BY <1>2, IsPage, CallTypes DEF Type, Poll, Polled, SaveSite, TypeOK, posting, Forms

LEMMA SendPatchTypes ==
  ASSUME TypeOK, SendPatch
  PROVE  TypeOK'
<1>1. main \in SettingsPage
  BY SettingsIs DEF SendPatch
<1>2. [main EXCEPT !.busy = FALSE] \in Main
  BY <1>1, IsPage DEF SettingsPage
<1>3. calls' \subseteq Call
  BY PatchIs DEF SendPatch, TypeOK
<1> QED
  BY <1>2, <1>3, CallTypes DEF SendPatch, TypeOK, posting, Forms

LEMMA PatchedTypes ==
  ASSUME TypeOK, NEW c \in calls, Patched(c) \/ PatchFails(c)
  PROVE  TypeOK'
<1>1. c \in PatchCall
  BY CallIs DEF TypeOK, Patched, PatchFails
<1>2. address' \in Addresses
  BY <1>1 DEF Patched, PatchFails, PatchCall, TypeOK, setting
<1>3. hash' \in Views /\ loads' \subseteq Views \ Immediate
  BY DEF Patched, PatchFails, TypeOK, Views, Immediate
<1> QED
  BY <1>2, <1>3 DEF Patched, PatchFails, TypeOK, posting, setting, template

LEMMA ShopTypes ==
  ASSUME TypeOK, OpenShop \/ Apply
  PROVE  TypeOK'
<1>1. CASE OpenShop
  BY <1>1 DEF OpenShop, TypeOK, pages, posting, template
<1>2. CASE Apply
  <2>1. PICK saved \in BOOLEAN :
          /\ shop' = [shop EXCEPT !.wrote = TRUE, !.applied = @ \/ saved]
          /\ history' = [history EXCEPT !.interrupted = @ \/ ~saved]
    BY <1>2 DEF Apply
  <2>2. history' \in History
    BY <2>1 DEF TypeOK, History
  <2> QED
    BY <1>2, <2>1, <2>2 DEF Apply, TypeOK, pages, posting, template, Addresses
<1> QED
  BY <1>1, <1>2

-----------------------------------------------------------------------------
(* The template. *)
LEMMA TemplateIs ==
  ASSUME TypeOK, Shows("template")
  PROVE  main \in TemplatePage
  BY PageIs DEF TypeOK, Shows

LEMMA ForkTypes ==
  ASSUME TypeOK, Fork \/ Reset \/ Choose
  PROVE  TypeOK'
<1>1. calls' \subseteq Call
  BY AddCall DEF Fork, Reset, Choose, TemplateCall, ButtonCall
<1>2. files' \in [Paths -> Text] /\ forked' \in BOOLEAN
  <2>1. CASE Fork \/ Choose
    BY <2>1 DEF Fork, Choose, TypeOK, template
  <2>2. CASE Reset
    <3>1. \A p \in Paths : Original(p) \in Text
      BY DEF Original, Text
    <3> QED
      BY <2>2, <3>1 DEF Reset
  <2> QED
    BY <2>1, <2>2
<1>3. history' \in History
  BY DEF Fork, Reset, Choose, TypeOK, History
<1> QED
  BY <1>1, <1>2, <1>3 DEF Fork, Reset, Choose, TemplateCall, TypeOK, posting, setting

LEMMA EditorTypes ==
  ASSUME TypeOK, (\E p \in Paths : OpenFile(p) \/ FileAnswered(p)) \/ Edit \/ ListUpdates
  PROVE  TypeOK'
<1>1. main \in TemplatePage
  BY TemplateIs DEF OpenFile, FileAnswered, Edit, ListUpdates
<1>2. main' \in TemplatePage /\ history' \in History
  <2>1. ASSUME NEW p \in Paths, OpenFile(p)
        PROVE  main' \in TemplatePage /\ history' \in History
    BY <1>1, <2>1 DEF OpenFile, Opened, TemplatePage, TypeOK, History
  <2>2. ASSUME NEW p \in Paths, FileAnswered(p)
        PROVE  main' \in TemplatePage /\ history' \in History
    <3>1. PICK x \in {files[p], NoText} :
            /\ main' = [main EXCEPT !.text = x, !.opening = @ \ {p}]
            /\ history' = [history EXCEPT !.mixed = @ \/ x # files[p]]
      BY <2>2 DEF FileAnswered
    <3>2. x \in Text
      BY DEF TypeOK, NoText, Text
    <3> QED
      BY <1>1, <3>1, <3>2 DEF TemplatePage, TypeOK, History
  <2>3. CASE Edit
    BY <1>1, <2>3 DEF Edit, TemplatePage, Text, TypeOK
  <2>4. CASE ListUpdates
    BY <1>1, <2>4, SinceIs DEF ListUpdates, Unedited, TemplatePage, TypeOK, History
  <2> QED
    BY <2>1, <2>2, <2>3, <2>4
<1> QED
  BY <1>2, IsPage, CallTypes DEF OpenFile, FileAnswered, Edit, ListUpdates, TypeOK, posting, Forms

LEMMA SaveFileTypes ==
  ASSUME TypeOK, SaveFile
  PROVE  TypeOK'
<1>1. main.path \in Paths /\ main.text \in Text
  BY TemplateIs DEF SaveFile, TemplatePage
<1>2. files' \in [Paths -> Text]
  BY <1>1 DEF SaveFile, TypeOK
<1>3. history' \in History
  BY <1>1 DEF SaveFile, TypeOK, History
<1> QED
  BY <1>2, <1>3 DEF SaveFile, TypeOK, pages, posting, setting

LEMMA TakeTypes ==
  ASSUME TypeOK, (\E p \in Paths : TakeOne(p)) \/ TakeAll
  PROVE  TypeOK'
<1>1. ASSUME NEW ps \in SUBSET Paths, Take(ps)
      PROVE  calls' \subseteq Call
  <2>1. [kind |-> "take", paths |-> ps] \in TakeCall
    BY DEF TakeCall
  <2> QED
    BY <1>1, <2>1, AddCall DEF Take
<1>2. calls' \subseteq Call /\ history' \in History
  <2>1. ASSUME NEW p \in Paths, TakeOne(p)
        PROVE  calls' \subseteq Call /\ history' \in History
    BY <1>1, <2>1 DEF TakeOne, TypeOK, History
  <2>2. CASE TakeAll
    <3>1. main.safe \in SUBSET Paths
      BY <2>2, TemplateIs DEF TakeAll, TemplatePage
    <3> QED
      BY <1>1, <2>2, <3>1 DEF TakeAll, TypeOK
  <2> QED
    BY <2>1, <2>2
<1> QED
  BY <1>2, CallTypes DEF TakeOne, TakeAll, Take, TypeOK, posting, Forms

LEMMA TakenTypes ==
  ASSUME TypeOK, NEW c \in calls, NEW p \in Paths, Taken(c, p)
  PROVE  TypeOK'
<1>1. c \in TakeCall
  BY CallIs DEF TypeOK, Taken
<1>2. [kind |-> "template"] \in Call /\ [c EXCEPT !.paths = @ \ {p}] \in Call
  BY <1>1, IsCall DEF ButtonCall, TakeCall
<1>3. calls' \subseteq Call /\ files' \in [Paths -> Text]
  BY <1>2 DEF Taken, TypeOK, Text
<1> QED
  BY <1>3 DEF Taken, TypeOK, posting, setting

LEMMA InitTypes == Init => TypeOK
<1> SUFFICES ASSUME Init PROVE TypeOK
  OBVIOUS
<1>1. main \in Main
  BY IsPage DEF Init, Home, PlainPage
<1>2. files \in [Paths -> Text]
  BY DEF Init, Original, Text
<1>3. forms \in Forms
  BY ConstantsAssumption DEF Init, Forms
<1> QED
  BY <1>1, <1>2, <1>3 DEF Init, TypeOK, Views, History, Addresses, Forms

(* The steps of the page that render a view or leave it. *)
LEMMA GoStep ==
  ASSUME TypeOK, NEW v \in Views, Go(v) \/ Answer(v)
  PROVE  /\ PageStep({}) /\ loads' \subseteq Views \ Immediate /\ hash' \in Views
         /\ UNCHANGED <<tour, setting, template>>
<1>1. CASE Go(v)
  BY <1>1, RouteIs DEF Go, TypeOK
<1>2. CASE Answer(v)
  BY <1>2, RenderIs DEF Answer, TypeOK
<1> QED
  BY <1>1, <1>2

LEMMA AnsweredStep ==
  ASSUME TypeOK, NEW c \in calls, SecondDone(c) \/ Published(c) \/ Removed(c)
  PROVE  /\ PageStep({c}) /\ loads' \subseteq Views \ Immediate /\ hash' \in Views
         /\ UNCHANGED <<tour, setting, template>>
<1>1. CASE SecondDone(c)
  <2>1. c \in MakingCall
    BY <1>1, CallIs DEF SecondDone, TypeOK
  <2>2. c.to \in Views
    BY <2>1 DEF MakingCall, Views
  <2> QED
    BY <1>1, <2>2, RouteIs DEF SecondDone, TypeOK
<1>2. CASE Published(c)
  BY <1>2, RouteIs DEF Published, TypeOK
<1>3. CASE Removed(c)
  BY <1>3, RouteIs DEF Removed, TypeOK, Views
<1> QED
  BY <1>1, <1>2, <1>3

LEMMA NextTypes ==
  ASSUME TypeOK, OneCallEach, [Next]_vars
  PROVE  TypeOK'
<1>1. ASSUME NEW v \in Views, Go(v) \/ Answer(v) \/ LoadFails(v)
      PROVE  TypeOK'
  <2>1. CASE LoadFails(v)
    BY <2>1 DEF LoadFails, TypeOK, posting, setting, template
  <2> QED
    BY <1>1, <2>1, GoStep, ViewTypes
<1>2. ASSUME NEW c \in calls,
             \/ Created(c) \/ SecondDone(c) \/ SubmitFails(c) \/ Confirmed(c) \/ Published(c)
             \/ Removed(c) \/ ButtonFails(c) \/ Patched(c) \/ PatchFails(c)
      PROVE  TypeOK'
  <2>1. CASE SecondDone(c) \/ Published(c) \/ Removed(c)
    BY <2>1, AnsweredStep, ViewTypes
  <2> QED
    BY <1>2, <2>1, CreatedTypes, SubmitFailsTypes, ConfirmedTypes, ButtonFailsTypes, PatchedTypes
<1>3. ASSUME NEW p \in Paths,
             OpenFile(p) \/ FileAnswered(p) \/ TakeOne(p) \/ \E c \in calls : Taken(c, p)
      PROVE  TypeOK'
  BY <1>3, EditorTypes, TakeTypes, TakenTypes
<1>4. CASE UNCHANGED vars
  BY <1>4 DEF vars, TypeOK
<1>5. CASE \/ Restart \/ Submit \/ Publish \/ Sync \/ Refresh \/ Remove \/ Retire
           \/ OpenShop \/ Apply \/ Poll \/ Polled \/ SaveSite \/ SendPatch
           \/ (\E a \in Values : Type(a))
           \/ Fork \/ Reset \/ Choose \/ Edit \/ SaveFile \/ ListUpdates \/ TakeAll
  BY <1>5, RestartTypes, SubmitTypes, ButtonTypes, RefreshTypes, ShopTypes, FormTypes, SendPatchTypes,
     ForkTypes, EditorTypes, SaveFileTypes, TakeTypes
<1> QED
  BY <1>1, <1>2, <1>3, <1>4, <1>5 DEF Next

-----------------------------------------------------------------------------
(* Of the calls of a form one is on the way, and while it is to make something
   nothing was made that no failure answers for; the form that is shown can be
   submitted again only after every call was answered. *)
MakeInv ==
  /\ OneCallEach
  /\ \A c \in calls : Makes(c) =>
       /\ forms[c.form].opened
       /\ c.kind = "create" => forms[c.form].made <= forms[c.form].failed
  /\ main.view \in Making =>
       /\ forms[main.form].opened
       /\ ~main.busy => /\ forms[main.form].made <= forms[main.form].failed
                        /\ \A c \in calls : Makes(c) => c.form # main.form
  /\ \A n \in 1..MaxForms :
       /\ forms[n].made <= 1 + forms[n].failed
       /\ ~forms[n].opened => forms[n].made = 0

(* A form in which nobody typed sends no address, and none sends that of the
   shop; a shop that was applied is noted, unless that was cut off. *)
ShopInv ==
  /\ Shows("settings") => /\ main.input = Shop => main.base = Shop
                          /\ ~main.typed => main.input = main.base
  /\ \A c \in calls : c.kind = "patch" => c.value # Shop /\ (c.value = None \/ c.typed)
  /\ shop.wrote => shop.applied \/ history.interrupted

(* What is shown is the text of the file that is open, or that one is on its
   way. *)
TextInv ==
  /\ OwnTextUnlessMixed
  /\ ~history.mixed /\ Shows("template") =>
       IF main.opening = {} THEN main.text.of = main.path ELSE main.opening = {main.path}

(* Files that wait to be replaced, or that the list offers to replace, and that
   the person wrote, were asked for by name or written since the list. *)
Known == history.asked \cup history.since

EditInv ==
  /\ \A c \in calls : c.kind = "take" => \A p \in c.paths : files[p].by = "person" => p \in Known
  /\ Shows("template") => \A p \in main.safe : files[p].by = "person" => p \in Known

Inv == TypeOK /\ MakeInv /\ ShopInv /\ TextInv /\ EditInv

(* Steps that leave what an invariant is about. *)
MakeFrame ==
  /\ \A c \in calls' : c \in calls \/ ~Makes(c)
  /\ UNCHANGED forms
  /\ main' = main \/ main'.view \notin Making

ShopFrame ==
  /\ \A c \in calls' : c \in calls \/ c.kind # "patch"
  /\ UNCHANGED <<shop, address>> /\ history'.interrupted = history.interrupted
  /\ main' = main \/ main'.view # "settings"

TextFrame ==
  /\ UNCHANGED files /\ history'.mixed = history.mixed
  /\ main' = main \/ main'.view # "template"

EditFrame ==
  /\ \A c \in calls' : c \in calls \/ c.kind # "take"
  /\ UNCHANGED files /\ history'.asked = history.asked /\ history'.since = history.since
  /\ main' = main \/ main'.view # "template"

LEMMA MakeFramed ==
  ASSUME MakeInv, MakeFrame PROVE MakeInv'
  BY DEF MakeInv, MakeFrame, OneCallEach, Makes

LEMMA ShopFramed ==
  ASSUME ShopInv, ShopFrame PROVE ShopInv'
  BY DEF ShopInv, ShopFrame, Shows

LEMMA TextFramed ==
  ASSUME TextInv, TextFrame PROVE TextInv'
  BY DEF TextInv, TextFrame, Shows, OwnTextUnlessMixed

LEMMA EditFramed ==
  ASSUME EditInv, EditFrame PROVE EditInv'
  BY DEF EditInv, EditFrame, Shows, Known

(* The buttons. *)
LEMMA ButtonFrame ==
  ASSUME TypeOK,
         \/ \E v \in Views : LoadFails(v)
         \/ Publish \/ Sync \/ Refresh \/ Remove \/ Retire \/ UNCHANGED vars
         \/ \E c \in calls : Confirmed(c) \/ ButtonFails(c)
  PROVE  MakeFrame /\ ShopFrame /\ TextFrame /\ EditFrame
<1>1. UNCHANGED <<forms, shop, address, files, history>>
  BY DEF LoadFails, Publish, Sync, Refresh, Remove, Retire, vars, Confirmed, ButtonFails, posting, setting, template
<1>2. main' = main \/ main'.view = "followed"
  <2>1. CASE Refresh
    <3>1. main \in FollowedPage
      BY <2>1, PageIs DEF TypeOK, Refresh, Shows
    <3> QED
      BY <2>1, <3>1 DEF Refresh, FollowedPage
  <2> QED
    BY <2>1 DEF LoadFails, Publish, Sync, Remove, Retire, vars, Confirmed, ButtonFails, Followed
<1>3. \A c \in calls' : c \in calls \/ c.kind \in {"publish", "sync", "refresh", "remove", "retire"}
  <2>1. ASSUME NEW c \in calls, Confirmed(c)
        PROVE  [c EXCEPT !.force = TRUE].kind = "publish"
    <3>1. c \in PublishCall
      BY <2>1, CallIs DEF TypeOK, Confirmed
    <3> QED
      BY <3>1 DEF PublishCall
  <2>2. CASE \E c \in calls : Confirmed(c)
    BY <2>1, <2>2 DEF Confirmed
  <2> QED
    BY <2>2 DEF LoadFails, Publish, Sync, Refresh, Remove, Retire, vars, ButtonFails
<1> QED
  BY <1>1, <1>2, <1>3 DEF MakeFrame, ShopFrame, TextFrame, EditFrame, Makes, Making

(* The forms that make something. *)
LEMMA MakingFrame ==
  ASSUME TypeOK, Submit \/ \E c \in calls : Created(c) \/ SubmitFails(c)
  PROVE  ShopFrame /\ TextFrame /\ EditFrame
<1>1. UNCHANGED <<shop, address, files, history>>
  BY DEF Submit, Created, SubmitFails, setting, template
<1>2. main' = main \/ main'.view \in Making
  <2>1. ASSUME NEW busy \in BOOLEAN, main.view \in Making
        PROVE  [main EXCEPT !.busy = busy].view \in Making
    <3>1. main \in MakingPage
      BY <2>1, PageIs DEF TypeOK
    <3> QED
      BY <2>1, <3>1 DEF MakingPage
  <2> QED
    BY <2>1 DEF Submit, Created, SubmitFails, TellForm
<1>3. \A c \in calls' : c \in calls \/ c.kind \in {"create", "second"}
  <2>1. ASSUME NEW c \in calls, Created(c)
        PROVE  [c EXCEPT !.kind = "second"].kind = "second"
    <3>1. c \in MakingCall
      BY <2>1, CallIs DEF TypeOK, Created
    <3> QED
      BY <3>1 DEF MakingCall
  <2>2. CASE \E c \in calls : Created(c)
    BY <2>1, <2>2 DEF Created
  <2> QED
    BY <2>2 DEF Submit, SubmitFails
<1> QED
  BY <1>1, <1>2, <1>3 DEF ShopFrame, TextFrame, EditFrame, Making

(* The settings. *)
LEMMA SettingsFrame ==
  ASSUME TypeOK,
         \/ OpenShop \/ Apply \/ Poll \/ Polled \/ SaveSite \/ SendPatch
         \/ (\E a \in Values : Type(a))
         \/ \E c \in calls : Patched(c) \/ PatchFails(c)
  PROVE  MakeFrame /\ TextFrame /\ EditFrame
<1>1. UNCHANGED <<forms, files>>
  BY DEF OpenShop, Apply, Poll, Polled, SaveSite, SendPatch, Type, Patched, PatchFails, pages, posting, setting, template
<1>2. main' = main \/ main'.view = "settings"
  <2>1. CASE Poll \/ Polled \/ SaveSite \/ SendPatch \/ \E a \in Values : Type(a)
    <3>1. main \in SettingsPage
      BY <2>1, SettingsIs DEF Poll, Polled, SaveSite, SendPatch, Type
    <3>2. CASE Polled
      <4>1. /\ [main EXCEPT !.poll = None].view = "settings"
            /\ [Merged(main) EXCEPT !.poll = None].view = "settings"
        BY <3>1 DEF Merged, SettingsPage
      <4> QED
        BY <3>2, <4>1 DEF Polled
    <3>3. CASE Poll \/ SaveSite \/ SendPatch \/ \E a \in Values : Type(a)
      BY <3>1, <3>3 DEF Poll, SaveSite, SendPatch, Type, SettingsPage
    <3> QED
      BY <2>1, <3>2, <3>3
  <2> QED
    BY <2>1 DEF OpenShop, Apply, Patched, PatchFails, pages
<1>3. \A c \in calls' : c \in calls \/ c.kind = "patch"
  <2>1. CASE SendPatch
    <3>1. Patch(main).kind = "patch"
      BY DEF Patch
    <3> QED
      BY <2>1, <3>1 DEF SendPatch
  <2>2. CASE OpenShop \/ Apply \/ Poll \/ Polled \/ SaveSite \/ \E a \in Values : Type(a)
    <3>1. UNCHANGED calls
      BY <2>2 DEF OpenShop, Apply, Poll, Polled, SaveSite, Type, pages
    <3> QED
      BY <3>1
  <2>3. CASE \E c \in calls : Patched(c) \/ PatchFails(c)
    BY <2>3 DEF Patched, PatchFails
  <2> QED
    BY <2>1, <2>2, <2>3
<1>4. history'.mixed = history.mixed /\ history'.asked = history.asked /\ history'.since = history.since
  BY DEF OpenShop, Apply, Poll, Polled, SaveSite, SendPatch, Type, Patched, PatchFails, TypeOK, History
<1> QED
  BY <1>1, <1>2, <1>3, <1>4 DEF MakeFrame, TextFrame, EditFrame, Makes, Making

(* The template. *)
LEMMA TemplateFrame ==
  ASSUME TypeOK,
         \/ Fork \/ Reset \/ Choose \/ Edit \/ SaveFile \/ ListUpdates \/ TakeAll
         \/ \E p \in Paths : OpenFile(p) \/ FileAnswered(p) \/ TakeOne(p) \/ \E c \in calls : Taken(c, p)
  PROVE  MakeFrame /\ ShopFrame
<1>1. UNCHANGED <<forms, shop, address>>
  BY DEF Fork, Reset, Choose, TemplateCall, Edit, SaveFile, ListUpdates, TakeAll, OpenFile, FileAnswered, TakeOne,
     Take, Taken, posting, setting
<1>2. main' = main \/ main'.view = "template"
  <2>1. CASE Edit \/ ListUpdates \/ \E p \in Paths : OpenFile(p) \/ FileAnswered(p)
    <3>1. main \in TemplatePage
      BY <2>1, TemplateIs DEF Edit, ListUpdates, OpenFile, FileAnswered
    <3> QED
      BY <2>1, <3>1 DEF Edit, ListUpdates, OpenFile, Opened, FileAnswered, TemplatePage
  <2> QED
    BY <2>1 DEF Fork, Reset, Choose, TemplateCall, SaveFile, TakeAll, TakeOne, Take, Taken, pages
<1>3. \A c \in calls' : c \in calls \/ c.kind \in {"template", "take"}
  <2>1. ASSUME NEW p \in Paths, NEW c \in calls, Taken(c, p)
        PROVE  \A d \in calls' : d \in calls \/ d.kind \in {"template", "take"}
    <3> DEFINE next == IF c.paths = {p} THEN [kind |-> "template"] ELSE [c EXCEPT !.paths = @ \ {p}]
    <3>1. c \in TakeCall
      BY <2>1, CallIs DEF TypeOK, Taken
    <3>2. next.kind \in {"template", "take"}
      BY <3>1 DEF TakeCall
    <3>3. calls' = (calls \ {c}) \cup {next}
      BY <2>1 DEF Taken
    <3> HIDE DEF next
    <3> QED
      BY <3>2, <3>3
  <2>2. CASE Fork \/ Reset \/ Choose
    BY <2>2 DEF Fork, Reset, Choose, TemplateCall
  <2>3. CASE TakeAll \/ \E p \in Paths : TakeOne(p)
    BY <2>3 DEF TakeAll, TakeOne, Take
  <2>4. CASE Edit \/ SaveFile \/ ListUpdates \/ \E p \in Paths : OpenFile(p) \/ FileAnswered(p)
    <3>1. UNCHANGED calls
      BY <2>4 DEF Edit, SaveFile, ListUpdates, OpenFile, FileAnswered, pages
    <3> QED
      BY <3>1
  <2> QED
    BY <2>1, <2>2, <2>3, <2>4
<1>4. history'.interrupted = history.interrupted
  BY DEF Fork, Reset, Choose, template, Edit, SaveFile, ListUpdates, TakeAll, OpenFile, FileAnswered,
     TakeOne, Taken, TypeOK, History
<1> QED
  BY <1>1, <1>2, <1>3, <1>4 DEF MakeFrame, ShopFrame, Makes, Making

-----------------------------------------------------------------------------
(* MakeInv. *)
LEMMA MakeShown ==
  ASSUME TypeOK, MakeInv, NEW done, PageStep(done)
  PROVE  MakeInv'
<1>1. CASE UNCHANGED <<main, forms, history>> /\ calls' = calls \ done
  BY <1>1, MakeFramed DEF MakeFrame
<1>2. CASE Shown(forms) /\ calls' = (calls \ done) \cup Left
  <2>1. \A c \in calls' : c \in calls \/ ~Makes(c)
    BY <1>2 DEF Left, Patch, Makes
  <2>2. CASE /\ main' \in MakingPage /\ ~main'.busy /\ main'.form \in Fresh
             /\ forms' = [forms EXCEPT ![main'.form].opened = TRUE]
    <3>1. main'.form \in 1..MaxForms /\ ~forms[main'.form].opened
      BY <2>2 DEF Fresh
    <3>2. \A n \in 1..MaxForms :
            /\ forms'[n].made = forms[n].made /\ forms'[n].failed = forms[n].failed
            /\ forms[n].opened \/ n = main'.form => forms'[n].opened
            /\ n # main'.form => forms'[n].opened = forms[n].opened
      BY <2>2, <3>1 DEF TypeOK
    <3>3. forms[main'.form].made = 0 /\ 0 <= forms[main'.form].failed
      BY <3>1 DEF MakeInv, TypeOK
    <3>4. \A c \in calls : Makes(c) => c.form \in 1..MaxForms /\ c.form # main'.form
      BY <3>1, CallIs DEF MakeInv, TypeOK, Makes, MakingCall
    <3> QED
      BY <2>1, <3>1, <3>2, <3>3, <3>4 DEF MakeInv, OneCallEach, Makes
  <2>3. CASE forms' = forms /\ main'.view \notin Making
    BY <2>1, <2>3, MakeFramed DEF MakeFrame
  <2> QED
    BY <1>2, <2>2, <2>3 DEF Shown, SettingsForm, TemplateEditor, Followed, SitePage, Home, Making
<1> QED
  BY <1>1, <1>2 DEF PageStep

LEMMA MakeRestart ==
  ASSUME TypeOK, MakeInv, Restart
  PROVE  MakeInv'
<1>1. PICK done \in SUBSET {c \in calls : c.kind = "create" /\ forms[c.form].made <= MaxFails} :
        Shown(Cut(done))
  BY RestartIs
<1> DEFINE cut == Cut(done)
<1>2. /\ cut \in Forms
      /\ \A n \in 1..MaxForms :
           /\ cut[n].opened = forms[n].opened /\ cut[n].failed = forms[n].failed
           /\ \/ cut[n].made = forms[n].made
              \/ /\ cut[n].made = forms[n].made + 1
                 /\ \E c \in calls : c.kind = "create" /\ c.form = n
  BY CutIs DEF MakeInv
<1> HIDE DEF cut
<1>3. \A n \in 1..MaxForms : forms[n].made \in Nat /\ forms[n].failed \in Nat
  BY ConstantsAssumption DEF TypeOK
<1>4. \A n \in 1..MaxForms :
        /\ cut[n].made <= 1 + cut[n].failed
        /\ ~cut[n].opened => cut[n].made = 0
  BY <1>2, <1>3 DEF MakeInv, Makes
<1>5. calls' = {}
  BY DEF Restart
<1>6. CASE /\ main' \in MakingPage /\ main'.form \in Fresh
           /\ forms' = [cut EXCEPT ![main'.form].opened = TRUE]
  <2>1. main'.form \in 1..MaxForms /\ ~forms[main'.form].opened
    BY <1>6 DEF Fresh
  <2>2. \A n \in 1..MaxForms :
          /\ forms'[n].made = cut[n].made /\ forms'[n].failed = cut[n].failed
          /\ n = main'.form => forms'[n].opened
          /\ n # main'.form => forms'[n].opened = cut[n].opened
    <3> DEFINE m == main'.form
    <3>1. m \in 1..MaxForms /\ forms' = [cut EXCEPT ![m].opened = TRUE]
      BY <1>6, <2>1
    <3> HIDE DEF m
    <3>2. \A n \in 1..MaxForms : n # m => forms'[n] = cut[n]
      BY <1>2, <3>1 DEF Forms
    <3>3. /\ forms'[m].made = cut[m].made /\ forms'[m].failed = cut[m].failed
          /\ forms'[m].opened
      BY <1>2, <3>1 DEF Forms
    <3>4. \A n \in 1..MaxForms :
            /\ forms'[n].made = cut[n].made /\ forms'[n].failed = cut[n].failed
            /\ n = m => forms'[n].opened
            /\ n # m => forms'[n].opened = cut[n].opened
      BY <3>2, <3>3
    <3> QED
      BY <3>4 DEF m
  <2>3. forms'[main'.form].made <= forms'[main'.form].failed
    BY <1>2, <1>3, <1>4, <2>1, <2>2
  <2> QED
    BY <1>4, <1>5, <2>1, <2>2, <2>3 DEF MakeInv, OneCallEach
<1>7. CASE forms' = cut /\ main'.view \notin Making
  BY <1>4, <1>5, <1>7 DEF MakeInv, OneCallEach
<1> QED
  BY <1>1, <1>6, <1>7 DEF Shown, cut, SettingsForm, TemplateEditor, Followed, SitePage, Home, Making

LEMMA MakeSubmit ==
  ASSUME TypeOK, MakeInv, Submit
  PROVE  MakeInv'
<1>1. PICK more \in BOOLEAN :
        calls' = calls \cup {[kind |-> "create", form |-> main.form, more |-> more, to |-> After(main.view)]}
  BY DEF Submit, MoreAfter
<1> DEFINE new == [kind |-> "create", form |-> main.form, more |-> more, to |-> After(main.view)]
<1>2. Makes(new) /\ new.form = main.form
  BY DEF Makes
<1> HIDE DEF new
<1>3. main'.view = main.view /\ main'.form = main.form /\ main'.busy = TRUE
  <2>1. main \in MakingPage
    BY PageIs DEF TypeOK, Submit
  <2> QED
    BY <2>1 DEF Submit, MakingPage
<1>4. \A c \in calls' : c \in calls \/ c = new
  BY <1>1 DEF new
<1>5. forms' = forms /\ ~main.busy /\ main.view \in Making
  BY DEF Submit, MaySubmit, posting
<1> QED
  BY <1>2, <1>3, <1>4, <1>5 DEF MakeInv, OneCallEach

LEMMA MakeCreated ==
  ASSUME TypeOK, MakeInv, NEW c \in calls, Created(c)
  PROVE  MakeInv'
<1> DEFINE next == [c EXCEPT !.kind = "second"]
<1>1. c \in MakingCall /\ Makes(c) /\ c.form \in 1..MaxForms
  BY CallIs DEF TypeOK, Created, MakingCall, Makes
<1>2. Makes(next) /\ next.form = c.form /\ next.kind # "create"
  BY <1>1 DEF Makes, MakingCall
<1>3. \A d \in calls' : (d \in calls /\ d # c) \/ d = next
  BY DEF Created
<1> HIDE DEF next
<1>4. \A n \in 1..MaxForms :
        /\ forms'[n].opened = forms[n].opened /\ forms'[n].failed = forms[n].failed
        /\ forms'[n].made = IF n = c.form THEN forms[n].made + 1 ELSE forms[n].made
  BY <1>1 DEF Created, TypeOK
<1>5. \A n \in 1..MaxForms : forms[n].made \in Nat /\ forms[n].failed \in Nat
  BY ConstantsAssumption DEF TypeOK
<1>6. forms[c.form].opened /\ forms[c.form].made <= forms[c.form].failed
  BY <1>1 DEF MakeInv, Created
<1>7. \A d \in calls' : Makes(d) => d = next \/ (d \in calls /\ d.form # c.form /\ d.form \in 1..MaxForms)
  BY <1>1, <1>3, CallIs DEF MakeInv, OneCallEach, TypeOK, Makes, MakingCall
<1>8. UNCHANGED main /\ (main.view \in Making => main.form \in 1..MaxForms)
      /\ (main.view \in Making /\ ~main.busy => main.form # c.form)
  BY <1>1, PageIs DEF Created, MakeInv, TypeOK, MakingPage
<1>9. OneCallEach'
  BY <1>2, <1>7 DEF MakeInv, OneCallEach
<1>10. \A n \in 1..MaxForms :
         /\ forms'[n].made <= 1 + forms'[n].failed
         /\ ~forms'[n].opened => forms'[n].made = 0
  BY <1>4, <1>5, <1>6 DEF MakeInv
<1>11. \A d \in calls' : Makes(d) =>
         /\ forms'[d.form].opened
         /\ d.kind = "create" => forms'[d.form].made <= forms'[d.form].failed
  BY <1>1, <1>2, <1>4, <1>6, <1>7 DEF MakeInv
<1>12. main'.view \in Making =>
         /\ forms'[main'.form].opened
         /\ ~main'.busy => /\ forms'[main'.form].made <= forms'[main'.form].failed
                           /\ \A d \in calls' : Makes(d) => d.form # main'.form
  BY <1>2, <1>4, <1>7, <1>8 DEF MakeInv
<1> QED
  BY <1>9, <1>10, <1>11, <1>12 DEF MakeInv

LEMMA OneMore ==
  ASSUME NEW m \in Nat, NEW f \in Nat, NEW k \in {0, 1}, m <= f \/ (k = 0 /\ m <= 1 + f)
  PROVE  m + k <= f + 1 /\ m + k <= 1 + (f + 1)
  OBVIOUS

LEMMA MakeFails ==
  ASSUME TypeOK, MakeInv, NEW c \in calls, SubmitFails(c)
  PROVE  MakeInv'
<1>1. c \in MakingCall /\ Makes(c) /\ c.form \in 1..MaxForms
  BY CallIs DEF TypeOK, SubmitFails, MakingCall, Makes
<1>2. PICK made \in {0, 1} :
        /\ forms' = [forms EXCEPT ![c.form].made = @ + made, ![c.form].failed = @ + 1]
        /\ c.kind = "second" => made = 0
  BY DEF SubmitFails
<1>3. \A n \in 1..MaxForms : forms[n].made \in Nat /\ forms[n].failed \in Nat
  BY ConstantsAssumption DEF TypeOK
<1>4. \A n \in 1..MaxForms :
        /\ forms'[n].opened = forms[n].opened
        /\ n = c.form => /\ forms'[n].made = forms[n].made + made
                         /\ forms'[n].failed = forms[n].failed + 1
        /\ n # c.form => forms'[n].made = forms[n].made /\ forms'[n].failed = forms[n].failed
  BY <1>1, <1>2 DEF TypeOK
<1>5. /\ forms[c.form].opened
      /\ forms'[c.form].made <= forms'[c.form].failed
      /\ forms'[c.form].made <= 1 + forms'[c.form].failed
  <2>1. c.kind = "create" => forms[c.form].made <= forms[c.form].failed
    BY <1>1 DEF MakeInv
  <2>2. forms[c.form].made <= 1 + forms[c.form].failed /\ forms[c.form].opened
    BY <1>1 DEF MakeInv
  <2>3. c.kind \in {"create", "second"}
    BY DEF SubmitFails
  <2>4. LET m == forms[c.form].made
            f == forms[c.form].failed
        IN m \in Nat /\ f \in Nat /\ (m <= f \/ (made = 0 /\ m <= 1 + f))
    BY <1>1, <1>2, <1>3, <2>1, <2>2, <2>3
  <2>5. /\ forms[c.form].made + made <= forms[c.form].failed + 1
        /\ forms[c.form].made + made <= 1 + (forms[c.form].failed + 1)
    BY <2>4, OneMore
  <2> QED
    BY <1>1, <1>4, <2>2, <2>5
<1>6. calls' = calls \ {c}
  BY DEF SubmitFails
<1>7. \A d \in calls' : Makes(d) => d \in calls /\ d.form # c.form /\ d.form \in 1..MaxForms
  BY <1>1, <1>6, CallIs DEF MakeInv, OneCallEach, TypeOK, Makes, MakingCall
<1>8. \/ main.view \in Making /\ main.form = c.form
         /\ main'.view = main.view /\ main'.form = c.form
      \/ ~(main.view \in Making /\ main.form = c.form) /\ UNCHANGED main
  <2>1. CASE main.view \in Making /\ main.form = c.form
    <3>1. main \in MakingPage /\ main' = [main EXCEPT !.busy = FALSE]
      BY <2>1, PageIs DEF SubmitFails, TellForm, TypeOK
    <3> QED
      BY <2>1, <3>1 DEF MakingPage
  <2> QED
    BY <2>1 DEF SubmitFails, TellForm
<1>9. main.view \in Making => main.form \in 1..MaxForms
  BY PageIs DEF TypeOK, MakingPage
<1>10. OneCallEach'
  BY <1>7 DEF MakeInv, OneCallEach
<1>11. \A n \in 1..MaxForms :
         /\ forms'[n].made <= 1 + forms'[n].failed
         /\ ~forms'[n].opened => forms'[n].made = 0
  <2> TAKE n \in 1..MaxForms
  <2>1. CASE n = c.form
    BY <1>4, <1>5, <2>1
  <2>2. CASE n # c.form
    BY <1>4, <2>2 DEF MakeInv
  <2> QED
    BY <2>1, <2>2
<1>12. \A d \in calls' : Makes(d) =>
         /\ forms'[d.form].opened
         /\ d.kind = "create" => forms'[d.form].made <= forms'[d.form].failed
  BY <1>4, <1>7 DEF MakeInv
<1>13. main'.view \in Making =>
         /\ forms'[main'.form].opened
         /\ ~main'.busy => /\ forms'[main'.form].made <= forms'[main'.form].failed
                           /\ \A d \in calls' : Makes(d) => d.form # main'.form
  <2>1. CASE main.view \in Making /\ main.form = c.form /\ main'.view = main.view /\ main'.form = c.form
    BY <1>1, <1>4, <1>5, <1>7, <2>1
  <2>2. CASE ~(main.view \in Making /\ main.form = c.form) /\ UNCHANGED main
    BY <1>4, <1>7, <1>9, <2>2 DEF MakeInv
  <2> QED
    BY <1>8, <2>1, <2>2
<1> QED
  BY <1>10, <1>11, <1>12, <1>13 DEF MakeInv

-----------------------------------------------------------------------------
(* ShopInv. *)
LEMMA PatchOf ==
  ASSUME TypeOK, ShopInv, Shows("settings")
  PROVE  Patch(main).value # Shop /\ (Patch(main).value = None \/ Patch(main).typed)
<1>1. main \in SettingsPage
  BY SettingsIs
<1>2. Shop # None
  BY ConstantsAssumption
<1> QED
  BY <1>1, <1>2 DEF Patch, ShopInv, SettingsPage

LEMMA ShopShown ==
  ASSUME TypeOK, ShopInv, NEW done, PageStep(done), UNCHANGED <<shop, address>>
  PROVE  ShopInv'
<1>1. CASE UNCHANGED <<main, forms, history>> /\ calls' = calls \ done
  BY <1>1, ShopFramed DEF ShopFrame
<1>2. CASE /\ Shown(forms) /\ calls' = (calls \ done) \cup Left
           /\ history' = [history EXCEPT !.since = Since]
  <2>1. \A c \in calls' : c.kind = "patch" => c.value # Shop /\ (c.value = None \/ c.typed)
    <3>1. \A c \in Left : c.value # Shop /\ (c.value = None \/ c.typed)
      BY PatchOf DEF Left
    <3> QED
      BY <1>2, <3>1 DEF ShopInv
  <2>2. history'.interrupted = history.interrupted
    BY <1>2 DEF TypeOK, History
  <2>3. main'.view = "settings" => main' = SettingsForm
    BY <1>2 DEF Shown, MakingPage, Making, TemplateEditor, Followed, SitePage, Home
  <2> QED
    BY <2>1, <2>2, <2>3 DEF ShopInv, Shows, SettingsForm
<1> QED
  BY <1>1, <1>2 DEF PageStep

LEMMA ShopRestart ==
  ASSUME TypeOK, ShopInv, Restart
  PROVE  ShopInv'
<1>1. PICK before : Shown(before)
  BY RestartIs
<1>2. main'.view = "settings" => main' = SettingsForm
  BY <1>1 DEF Shown, MakingPage, Making, TemplateEditor, Followed, SitePage, Home
<1>3. calls' = {} /\ shop' = shop /\ history'.interrupted = history.interrupted
  BY DEF Restart, setting, TypeOK, History
<1> QED
  BY <1>2, <1>3 DEF ShopInv, Shows, SettingsForm

LEMMA ShopSteps ==
  ASSUME TypeOK, ShopInv,
         \/ OpenShop \/ Apply \/ Poll \/ Polled \/ SaveSite \/ SendPatch
         \/ (\E a \in Values : Type(a))
         \/ \E c \in calls : Patched(c) \/ PatchFails(c)
  PROVE  ShopInv'
<1>1. CASE OpenShop \/ Apply
  <2>1. UNCHANGED <<main, calls>>
    BY <1>1 DEF OpenShop, Apply, pages
  <2>2. shop'.wrote => shop'.applied \/ history'.interrupted
    <3>1. CASE OpenShop
      BY <3>1 DEF OpenShop, ShopInv, TypeOK
    <3>2. CASE Apply
      <4>1. PICK saved \in BOOLEAN :
              /\ shop' = [shop EXCEPT !.wrote = TRUE, !.applied = @ \/ saved]
              /\ history' = [history EXCEPT !.interrupted = @ \/ ~saved]
        BY <3>2 DEF Apply
      <4>2. shop'.applied = (shop.applied \/ saved) /\ history'.interrupted = (history.interrupted \/ ~saved)
        BY <4>1 DEF TypeOK, History
      <4> QED
        BY <4>2
    <3> QED
      BY <1>1, <3>1, <3>2
  <2> QED
    BY <2>1, <2>2 DEF ShopInv, Shows
<1>2. CASE \E c \in calls : Patched(c) \/ PatchFails(c)
  BY <1>2 DEF Patched, PatchFails, setting, ShopInv, Shows
<1>3. CASE Poll \/ Polled \/ SaveSite \/ SendPatch \/ \E a \in Values : Type(a)
  <2>1. main \in SettingsPage /\ Shows("settings")
    BY <1>3, SettingsIs DEF Poll, Polled, SaveSite, SendPatch, Type
  <2>2. (main.input = Shop => main.base = Shop) /\ (~main.typed => main.input = main.base)
    BY <2>1 DEF ShopInv
  <2>3. (main'.input = Shop => main'.base = Shop) /\ (~main'.typed => main'.input = main'.base)
    <3>1. ASSUME NEW a \in Values, Type(a)
          PROVE  main'.typed /\ main'.input # Shop
      BY <2>1, <3>1, ConstantsAssumption DEF Type, SettingsPage
    <3>2. CASE Poll \/ SaveSite \/ SendPatch
      <4>1. main'.input = main.input /\ main'.base = main.base /\ main'.typed = main.typed
        BY <2>1, <3>2 DEF Poll, SaveSite, SendPatch, SettingsPage
      <4> QED
        BY <2>2, <4>1
    <3>3. CASE Polled
      <4>1. PICK m \in {main, Merged(main)} : main' = [m EXCEPT !.poll = None]
        BY <3>3 DEF Polled
      <4>2. CASE m = main
        <5>1. main'.input = main.input /\ main'.base = main.base /\ main'.typed = main.typed
          BY <2>1, <4>1, <4>2 DEF SettingsPage
        <5> QED
          BY <2>2, <5>1
      <4>3. CASE m = Merged(main)
        <5>1. /\ main'.base = main.poll /\ main'.typed = main.typed
              /\ main'.input = IF main.input = main.base THEN main.poll ELSE main.input
          BY <2>1, <4>1, <4>3 DEF Merged, SettingsPage
        <5>2. main.input # main.base => main.input # Shop /\ main.typed
          BY <2>1, <2>2 DEF SettingsPage
        <5> QED
          BY <2>1, <5>1, <5>2 DEF SettingsPage
      <4> QED
        BY <4>1, <4>2, <4>3
    <3> QED
      BY <1>3, <3>1, <3>2, <3>3
  <2>4. \A c \in calls' : c.kind = "patch" => c.value # Shop /\ (c.value = None \/ c.typed)
    <3>1. CASE SendPatch
      BY <2>1, <3>1, PatchOf DEF SendPatch, ShopInv
    <3>2. CASE Poll \/ Polled \/ SaveSite \/ \E a \in Values : Type(a)
      <4>1. UNCHANGED calls
        BY <3>2 DEF Poll, Polled, SaveSite, Type
      <4> QED
        BY <4>1 DEF ShopInv
    <3> QED
      BY <1>3, <3>1, <3>2
  <2>5. UNCHANGED <<shop, history>>
    BY <1>3 DEF Poll, Polled, SaveSite, SendPatch, Type, setting
  <2> QED
    BY <2>3, <2>4, <2>5 DEF ShopInv
<1> QED
  BY <1>1, <1>2, <1>3

-----------------------------------------------------------------------------
(* TextInv and EditInv. *)
LEMMA TextShown ==
  ASSUME TypeOK, TextInv, NEW before, Shown(before), UNCHANGED files, history'.mixed = history.mixed
  PROVE  TextInv'
<1>1. main'.view = "template" => \E p \in Paths : main' = TemplateEditor(p)
  BY DEF Shown, MakingPage, Making, SettingsForm, Followed, SitePage, Home
<1>2. Shows("template")' => main'.opening = {main'.path}
  BY <1>1 DEF Shows, TemplateEditor
<1> QED
  BY <1>2 DEF TextInv, OwnTextUnlessMixed

LEMMA TextPage ==
  ASSUME TypeOK, TextInv, (\E done : PageStep(done)) \/ Restart, UNCHANGED files
  PROVE  TextInv'
<1>1. ASSUME NEW done, PageStep(done)
      PROVE  TextInv'
  <2>1. CASE UNCHANGED <<main, history>>
    BY <2>1, TextFramed DEF TextFrame
  <2>2. CASE Shown(forms) /\ history' = [history EXCEPT !.since = Since]
    <3>1. history'.mixed = history.mixed
      BY <2>2 DEF TypeOK, History
    <3> QED
      BY <2>2, <3>1, TextShown
  <2> QED
    BY <1>1, <2>1, <2>2 DEF PageStep
<1>2. CASE Restart
  <2>1. history'.mixed = history.mixed
    BY <1>2 DEF Restart, TypeOK, History
  <2> QED
    BY <1>2, <2>1, RestartIs, TextShown
<1> QED
  BY <1>1, <1>2

LEMMA EditShown ==
  ASSUME NEW before, Shown(before), Shows("template")'
  PROVE  main'.safe = {}
  BY DEF Shown, MakingPage, Making, SettingsForm, TemplateEditor, Followed, SitePage, Home, Shows

(* While files of an earlier list are being taken, what was written since
   counts. *)
LEMMA SinceKept ==
  ASSUME EditInv, NEW c \in calls, c.kind = "take"
  PROVE  Since = history.since
  BY DEF Since, Taking

LEMMA EditPage ==
  ASSUME TypeOK, EditInv, (\E done : PageStep(done)) \/ Restart, UNCHANGED files
  PROVE  EditInv'
<1>1. ASSUME NEW done, PageStep(done)
      PROVE  EditInv'
  <2>1. CASE UNCHANGED <<main, history>> /\ calls' = calls \ done
    BY <2>1, EditFramed DEF EditFrame
  <2>2. CASE /\ Shown(forms) /\ calls' = (calls \ done) \cup Left
             /\ history' = [history EXCEPT !.since = Since]
    <3>1. history'.since = Since /\ history'.asked = history.asked
      BY <2>2 DEF TypeOK, History
    <3>2. \A c \in calls' : c.kind = "take" => c \in calls
      BY <2>2 DEF Left, Patch
    <3>3. \A c \in calls' : c.kind = "take" => \A p \in c.paths : files'[p].by = "person" => p \in Known'
      BY <3>1, <3>2, SinceKept DEF EditInv, Known
    <3>4. Shows("template")' => main'.safe = {}
      BY <2>2, EditShown
    <3> QED
      BY <3>3, <3>4 DEF EditInv
  <2> QED
    BY <1>1, <2>1, <2>2 DEF PageStep
<1>2. CASE Restart
  <2>1. calls' = {}
    BY <1>2 DEF Restart
  <2>2. Shows("template")' => main'.safe = {}
    BY <1>2, RestartIs, EditShown
  <2> QED
    BY <2>1, <2>2 DEF EditInv
<1> QED
  BY <1>1, <1>2

LEMMA TextSteps ==
  ASSUME TypeOK, TextInv,
         \/ Fork \/ Reset \/ Choose \/ Edit \/ SaveFile \/ ListUpdates \/ TakeAll
         \/ \E p \in Paths : OpenFile(p) \/ FileAnswered(p) \/ TakeOne(p) \/ \E c \in calls : Taken(c, p)
  PROVE  TextInv'
<1>1. CASE Fork \/ Choose \/ TakeAll \/ \E p \in Paths : TakeOne(p)
  <2>1. UNCHANGED <<main, files>> /\ history'.mixed = history.mixed
    BY <1>1 DEF Fork, Choose, TemplateCall, TakeAll, TakeOne, Take, template, TypeOK, History
  <2> QED
    BY <2>1, TextFramed DEF TextFrame
<1>2. CASE Reset
  <2>1. UNCHANGED main /\ history'.mixed = history.mixed /\ \A p \in Paths : files'[p].of = p
    BY <1>2 DEF Reset, TemplateCall, Original, TypeOK, History
  <2> QED
    BY <2>1 DEF TextInv, OwnTextUnlessMixed, Shows
<1>3. CASE SaveFile
  <2>1. /\ UNCHANGED main /\ main.path \in Paths
        /\ history'.mixed = (history.mixed \/ main.opening # {})
        /\ files' = [files EXCEPT ![main.path] = main.text]
    BY <1>3, TemplateIs DEF SaveFile, pages, TypeOK, History, TemplatePage
  <2>2. ~history'.mixed => \A p \in Paths : files'[p].of = p
    <3> SUFFICES ASSUME ~history'.mixed, NEW p \in Paths
                 PROVE  files'[p].of = p
      OBVIOUS
    <3>1. ~history.mixed /\ main.opening = {} /\ main.text.of = main.path
      BY <1>3, <2>1 DEF TextInv, SaveFile
    <3>2. files[p].of = p
      BY <3>1 DEF TextInv, OwnTextUnlessMixed
    <3> QED
      BY <2>1, <3>1, <3>2 DEF TypeOK
  <2> QED
    BY <2>1, <2>2 DEF TextInv, OwnTextUnlessMixed, Shows
<1>4. ASSUME NEW p \in Paths, NEW c \in calls, Taken(c, p)
      PROVE  TextInv'
  <2>1. UNCHANGED <<main, history>> /\ files' = [files EXCEPT ![p] = [of |-> p, by |-> "theirs"]]
    BY <1>4 DEF Taken
  <2>2. ~history.mixed => \A q \in Paths : files'[q].of = q
    BY <2>1 DEF TextInv, OwnTextUnlessMixed, TypeOK
  <2> QED
    BY <2>1, <2>2 DEF TextInv, OwnTextUnlessMixed, Shows
<1>5. ASSUME NEW p \in Paths, OpenFile(p)
      PROVE  TextInv'
  <2>1. main \in TemplatePage /\ Shows("template") /\ UNCHANGED files
    BY <1>5, TemplateIs DEF OpenFile, template
  <2>2. /\ main'.path = p /\ main'.opening = main.opening \cup {p}
        /\ history'.mixed = (history.mixed \/ main.opening # {})
    BY <1>5, <2>1 DEF OpenFile, Opened, TemplatePage, TypeOK, History
  <2> QED
    BY <2>1, <2>2 DEF TextInv, OwnTextUnlessMixed
<1>6. ASSUME NEW p \in Paths, FileAnswered(p)
      PROVE  TextInv'
  <2>1. main \in TemplatePage /\ Shows("template") /\ UNCHANGED files /\ p \in main.opening
    BY <1>6, TemplateIs DEF FileAnswered, template
  <2>2. PICK x \in {files[p], NoText} :
          /\ main' = [main EXCEPT !.text = x, !.opening = @ \ {p}]
          /\ history' = [history EXCEPT !.mixed = @ \/ x # files[p]]
    BY <1>6 DEF FileAnswered
  <2>3. main'.text = x /\ main'.path = main.path /\ main'.opening = main.opening \ {p}
    BY <2>1, <2>2 DEF TemplatePage
  <2>4. history'.mixed = (history.mixed \/ x # files[p])
    BY <2>2 DEF TypeOK, History
  <2>5. ~history'.mixed => main'.opening = {} /\ main'.text.of = main'.path
    BY <2>1, <2>3, <2>4 DEF TextInv, OwnTextUnlessMixed
  <2> QED
    BY <2>1, <2>4, <2>5 DEF TextInv, OwnTextUnlessMixed
<1>7. CASE Edit \/ ListUpdates
  <2>1. main \in TemplatePage /\ Shows("template") /\ UNCHANGED files
    BY <1>7, TemplateIs DEF Edit, ListUpdates, template
  <2>2. /\ main'.text.of = main.text.of /\ main'.path = main.path /\ main'.opening = main.opening
        /\ history'.mixed = history.mixed
    <3>1. CASE Edit
      <4>1. main.text \in Text /\ history' = history /\ main' = [main EXCEPT !.text.by = "person"]
        BY <2>1, <3>1 DEF Edit, TemplatePage
      <4>2. main'.text = [main.text EXCEPT !.by = "person"] /\ main'.path = main.path /\ main'.opening = main.opening
        BY <2>1, <4>1 DEF TemplatePage
      <4> QED
        BY <4>1, <4>2 DEF Text
    <3>2. CASE ListUpdates
      BY <2>1, <3>2 DEF ListUpdates, TemplatePage, TypeOK, History
    <3> QED
      BY <1>7, <3>1, <3>2
  <2> QED
    BY <2>1, <2>2 DEF TextInv, OwnTextUnlessMixed
<1> QED
  BY <1>1, <1>2, <1>3, <1>4, <1>5, <1>6, <1>7

LEMMA EditSteps ==
  ASSUME TypeOK, EditInv,
         \/ Fork \/ Reset \/ Choose \/ Edit \/ SaveFile \/ ListUpdates \/ TakeAll
         \/ \E p \in Paths : OpenFile(p) \/ FileAnswered(p) \/ TakeOne(p) \/ \E c \in calls : Taken(c, p)
  PROVE  EditInv'
<1>1. CASE Fork \/ Choose
  <2>1. UNCHANGED <<main, files, history>> /\ \A c \in calls' : c \in calls \/ c.kind = "template"
    BY <1>1 DEF Fork, Choose, TemplateCall, template
  <2> QED
    BY <2>1, EditFramed DEF EditFrame
<1>2. CASE Reset
  <2>1. \A p \in Paths : files'[p].by = "fork"
    BY <1>2 DEF Reset, Original
  <2>2. UNCHANGED main /\ \A c \in calls' : c.kind = "take" => c \in calls
    BY <1>2 DEF Reset, TemplateCall
  <2>3. \A c \in calls : c.kind = "take" => c.paths \subseteq Paths
    BY CallIs DEF TypeOK, TakeCall
  <2>4. Shows("template") => main.safe \subseteq Paths
    BY TemplateIs DEF TemplatePage
  <2> QED
    BY <2>1, <2>2, <2>3, <2>4 DEF EditInv, Shows
<1>3. CASE SaveFile
  <2>1. /\ UNCHANGED <<main, calls>> /\ main.path \in Paths
        /\ files' = [files EXCEPT ![main.path] = main.text]
        /\ history'.since = history.since \cup {main.path}
        /\ history'.asked = history.asked \ {main.path}
    BY <1>3, TemplateIs DEF SaveFile, pages, TypeOK, History, TemplatePage
  <2>2. /\ \A q \in Paths : q = main.path \/ files'[q] = files[q]
        /\ Known' = Known \cup {main.path}
    BY <2>1 DEF TypeOK, Known
  <2>3. \A c \in calls : c.kind = "take" => c.paths \subseteq Paths
    BY CallIs DEF TypeOK, TakeCall
  <2>4. Shows("template") => main.safe \subseteq Paths
    BY TemplateIs DEF TemplatePage
  <2> QED
    BY <2>1, <2>2, <2>3, <2>4 DEF EditInv, Shows
<1>4. ASSUME NEW p \in Paths, NEW c \in calls, Taken(c, p)
      PROVE  EditInv'
  <2> DEFINE next == IF c.paths = {p} THEN [kind |-> "template"] ELSE [c EXCEPT !.paths = @ \ {p}]
  <2>1. c \in TakeCall /\ c.kind = "take" /\ p \in c.paths
    BY <1>4, CallIs DEF TypeOK, Taken
  <2>2. next.kind = "take" => next.paths \subseteq c.paths
    BY <2>1 DEF TakeCall
  <2>3. /\ UNCHANGED <<main, history>>
        /\ \A d \in calls' : d \in calls \/ d = next
        /\ files' = [files EXCEPT ![p] = [of |-> p, by |-> "theirs"]]
    BY <1>4 DEF Taken
  <2> HIDE DEF next
  <2>4. \A q \in Paths : files'[q].by = "person" => files[q].by = "person"
    BY <2>3 DEF TypeOK
  <2>5. \A d \in calls : d.kind = "take" => d.paths \subseteq Paths
    BY CallIs DEF TypeOK, TakeCall
  <2>6. Shows("template") => main.safe \subseteq Paths
    BY TemplateIs DEF TemplatePage
  <2>7. \A d \in calls' : d.kind = "take" => \E e \in calls : e.kind = "take" /\ d.paths \subseteq e.paths
    BY <2>1, <2>2, <2>3
  <2> QED
    BY <2>3, <2>4, <2>5, <2>6, <2>7 DEF EditInv, Known, Shows
<1>5. ASSUME NEW p \in Paths, OpenFile(p) \/ FileAnswered(p)
      PROVE  EditInv'
  <2>1. main \in TemplatePage /\ Shows("template") /\ UNCHANGED <<files, calls>>
    BY <1>5, TemplateIs DEF OpenFile, FileAnswered, template
  <2>2. /\ main'.safe = main.safe
        /\ history'.asked = history.asked /\ history'.since = history.since
    BY <1>5, <2>1 DEF OpenFile, Opened, FileAnswered, TemplatePage, TypeOK, History
  <2> QED
    BY <2>1, <2>2 DEF EditInv, Known
<1>6. CASE Edit
  <2>1. main \in TemplatePage /\ Shows("template") /\ UNCHANGED <<files, calls, history>>
    BY <1>6, TemplateIs DEF Edit, template
  <2>2. main'.safe = main.safe
    BY <1>6, <2>1 DEF Edit, TemplatePage
  <2> QED
    BY <2>1, <2>2 DEF EditInv, Known
<1>7. CASE ListUpdates
  <2>1. main \in TemplatePage /\ UNCHANGED <<files, calls>>
    BY <1>7, TemplateIs DEF ListUpdates, template
  <2>2. main'.safe = Unedited /\ history'.asked = history.asked /\ history'.since = Since
    BY <1>7, <2>1 DEF ListUpdates, TemplatePage, TypeOK, History
  <2>3. \A p \in main'.safe : files'[p].by # "person"
    BY <2>1, <2>2 DEF Unedited
  <2>4. \A c \in calls : c.kind = "take" => Since = history.since
    BY SinceKept
  <2> QED
    BY <2>1, <2>2, <2>3, <2>4 DEF EditInv, Known
<1>8. CASE TakeAll
  <2>1. /\ Shows("template") /\ UNCHANGED <<main, files, history>>
        /\ calls' = calls \cup {[kind |-> "take", paths |-> main.safe]}
    BY <1>8 DEF TakeAll, Take, template
  <2> QED
    BY <2>1 DEF EditInv, Known, Shows
<1>9. ASSUME NEW p \in Paths, TakeOne(p)
      PROVE  EditInv'
  <2>1. /\ UNCHANGED <<main, files>>
        /\ calls' = calls \cup {[kind |-> "take", paths |-> {p}]}
        /\ history'.asked = history.asked \cup {p} /\ history'.since = history.since
    BY <1>9 DEF TakeOne, Take, template, TypeOK, History
  <2> QED
    BY <2>1 DEF EditInv, Known, Shows
<1> QED
  BY <1>1, <1>2, <1>3, <1>4, <1>5, <1>6, <1>7, <1>8, <1>9

-----------------------------------------------------------------------------
LEMMA InitInv == Init => Inv
<1> SUFFICES ASSUME Init PROVE Inv
  OBVIOUS
<1>1. TypeOK
  BY InitTypes
<1>2. MakeInv /\ ShopInv
  BY ConstantsAssumption DEF Init, MakeInv, OneCallEach, ShopInv, Home, Making, Shows
<1>3. \A p \in Paths : files[p].of = p /\ files[p].by = "fork"
  BY DEF Init, Original
<1>4. TextInv /\ EditInv
  BY <1>3 DEF Init, TextInv, OwnTextUnlessMixed, EditInv, Home, Shows
<1> QED
  BY <1>1, <1>2, <1>4 DEF Inv

(* The steps, by what they change. *)
LEMMA StepIs ==
  ASSUME TypeOK, [Next]_vars
  PROVE  \/ (\E done : PageStep(done)) /\ UNCHANGED <<setting, template>>
         \/ Restart
         \/ Submit \/ \E c \in calls : Created(c) \/ SubmitFails(c)
         \/ \/ \E v \in Views : LoadFails(v)
            \/ Publish \/ Sync \/ Refresh \/ Remove \/ Retire \/ UNCHANGED vars
            \/ \E c \in calls : Confirmed(c) \/ ButtonFails(c)
         \/ \/ OpenShop \/ Apply \/ Poll \/ Polled \/ SaveSite \/ SendPatch
            \/ (\E a \in Values : Type(a))
            \/ \E c \in calls : Patched(c) \/ PatchFails(c)
         \/ \/ Fork \/ Reset \/ Choose \/ Edit \/ SaveFile \/ ListUpdates \/ TakeAll
            \/ \E p \in Paths : OpenFile(p) \/ FileAnswered(p) \/ TakeOne(p) \/ \E c \in calls : Taken(c, p)
<1>1. ASSUME NEW v \in Views, Go(v) \/ Answer(v)
      PROVE  (\E done : PageStep(done)) /\ UNCHANGED <<setting, template>>
  BY <1>1, GoStep
<1>2. ASSUME NEW c \in calls, SecondDone(c) \/ Published(c) \/ Removed(c)
      PROVE  (\E done : PageStep(done)) /\ UNCHANGED <<setting, template>>
  BY <1>2, AnsweredStep
<1> QED
  BY <1>1, <1>2, Zenon DEF Next

LEMMA NextInv ==
  ASSUME Inv, [Next]_vars
  PROVE  Inv'
<1> USE DEF Inv
<1>1. TypeOK'
  BY NextTypes DEF MakeInv
<1>2. CASE (\E done : PageStep(done)) /\ UNCHANGED <<setting, template>>
  <2>1. UNCHANGED <<shop, address, files>>
    BY <1>2 DEF setting, template
  <2> QED
    BY <1>1, <1>2, <2>1, MakeShown, ShopShown, TextPage, EditPage
<1>3. CASE Restart
  <2>1. UNCHANGED files
    BY <1>3 DEF Restart, template
  <2> QED
    BY <1>1, <1>3, <2>1, MakeRestart, ShopRestart, TextPage, EditPage
<1>4. CASE Submit \/ \E c \in calls : Created(c) \/ SubmitFails(c)
  <2>1. ShopFrame /\ TextFrame /\ EditFrame
    BY <1>4, MakingFrame
  <2>2. MakeInv'
    BY <1>4, MakeSubmit, MakeCreated, MakeFails
  <2> QED
    BY <1>1, <2>1, <2>2, ShopFramed, TextFramed, EditFramed
<1>5. CASE \/ \E v \in Views : LoadFails(v)
           \/ Publish \/ Sync \/ Refresh \/ Remove \/ Retire \/ UNCHANGED vars
           \/ \E c \in calls : Confirmed(c) \/ ButtonFails(c)
  <2>1. MakeFrame /\ ShopFrame /\ TextFrame /\ EditFrame
    BY <1>5, ButtonFrame
  <2> QED
    BY <1>1, <2>1, MakeFramed, ShopFramed, TextFramed, EditFramed
<1>6. CASE \/ OpenShop \/ Apply \/ Poll \/ Polled \/ SaveSite \/ SendPatch
           \/ (\E a \in Values : Type(a))
           \/ \E c \in calls : Patched(c) \/ PatchFails(c)
  <2>1. MakeFrame /\ TextFrame /\ EditFrame
    BY <1>6, SettingsFrame
  <2>2. ShopInv'
    BY <1>6, ShopSteps
  <2> QED
    BY <1>1, <2>1, <2>2, MakeFramed, TextFramed, EditFramed
<1>7. CASE \/ Fork \/ Reset \/ Choose \/ Edit \/ SaveFile \/ ListUpdates \/ TakeAll
           \/ \E p \in Paths : OpenFile(p) \/ FileAnswered(p) \/ TakeOne(p) \/ \E c \in calls : Taken(c, p)
  <2>1. MakeFrame /\ ShopFrame
    BY <1>7, TemplateFrame
  <2>2. TextInv' /\ EditInv'
    BY <1>7, TextSteps, EditSteps
  <2> QED
    BY <1>1, <2>1, <2>2, MakeFramed, ShopFramed
<1> QED
  BY <1>2, <1>3, <1>4, <1>5, <1>6, <1>7, StepIs

LEMMA InvKept == Spec => []Inv
  BY InitInv, NextInv, PTL DEF Spec

-----------------------------------------------------------------------------
(* A form makes one post or site, and one more for each failure it was told of
   (MaySubmit), for any number of forms, failures and views on the way. *)
THEOREM PostedOnce == Spec => []PostedOncePerAnswer
<1>1. Inv => PostedOncePerAnswer
  BY DEF Inv, MakeInv, PostedOncePerAnswer
<1> QED
  BY <1>1, InvKept, PTL

(* A template file has its own text, unless another file was opened or saved
   while one was on the way, or an error came for one (openFile, save). *)
THEOREM OwnText == Spec => []OwnTextUnlessMixed
<1>1. Inv => OwnTextUnlessMixed
  BY DEF Inv, TextInv
<1> QED
  BY <1>1, InvKept, PTL

(* The shop address changes when a shop is applied and when a form is saved,
   and then the form's call was on the way. *)
LEMMA AddressBy ==
  ASSUME TypeOK, [Next]_vars, address' # address
  PROVE  \/ Apply
         \/ \E c \in calls : /\ c.kind = "patch" /\ c.value # None /\ address' = c.value
                             /\ c \notin calls'
<1>1. CASE (\E done : PageStep(done)) /\ UNCHANGED <<setting, template>>
  BY <1>1 DEF setting
<1>2. CASE Restart
  BY <1>2 DEF Restart, setting
<1>3. CASE Submit \/ \E c \in calls : Created(c) \/ SubmitFails(c)
  BY <1>3, MakingFrame DEF ShopFrame
<1>4. CASE \/ \E v \in Views : LoadFails(v)
           \/ Publish \/ Sync \/ Refresh \/ Remove \/ Retire \/ UNCHANGED vars
           \/ \E c \in calls : Confirmed(c) \/ ButtonFails(c)
  BY <1>4, ButtonFrame DEF ShopFrame
<1>5. CASE \/ OpenShop \/ Apply \/ Poll \/ Polled \/ SaveSite \/ SendPatch
           \/ (\E a \in Values : Type(a))
           \/ \E c \in calls : Patched(c) \/ PatchFails(c)
  BY <1>5 DEF OpenShop, Poll, Polled, SaveSite, SendPatch, Type, Patched, PatchFails, setting
<1>6. CASE \/ Fork \/ Reset \/ Choose \/ Edit \/ SaveFile \/ ListUpdates \/ TakeAll
           \/ \E p \in Paths : OpenFile(p) \/ FileAnswered(p) \/ TakeOne(p) \/ \E c \in calls : Taken(c, p)
  BY <1>6, TemplateFrame DEF ShopFrame
<1> QED
  BY <1>1, <1>2, <1>3, <1>4, <1>5, <1>6, StepIs

(* The address of a shop that was created stays in the settings until a form
   in which the person typed another is saved (Patch, Merged). *)
THEOREM ShopAddressStays == Spec => ShopAddressKept
<1>1. Inv /\ [Next]_vars =>
        [address = Shop /\ address' # Shop =>
           \E c \in calls \ calls' : c.kind = "patch" /\ c.typed /\ c.value = address']_vars
  <2> SUFFICES ASSUME Inv, [Next]_vars, address = Shop, address' # Shop
               PROVE  \E c \in calls \ calls' : c.kind = "patch" /\ c.typed /\ c.value = address'
    OBVIOUS
  <2>1. ~Apply
    BY DEF Apply
  <2> QED
    BY <2>1, AddressBy DEF Inv, ShopInv
<1> QED
  BY <1>1, InvKept, PTL DEF Spec, ShopAddressKept

(* A shop that was applied is never applied again over what the person saved
   later, unless the server stopped before it noted that it had been
   (updateShop). *)
THEOREM AppliedOnce == Spec => AppliedOnceUnlessInterrupted
<1>1. Inv /\ [Next]_vars =>
        [shop.wrote /\ address # Shop /\ address' = Shop => history.interrupted]_vars
  <2> SUFFICES ASSUME Inv, [Next]_vars, shop.wrote, address # Shop, address' = Shop
               PROVE  history.interrupted
    OBVIOUS
  <2>1. Apply
    BY AddressBy DEF Inv, ShopInv
  <2> QED
    BY <2>1 DEF Apply, MayApply, Inv, ShopInv
<1> QED
  BY <1>1, InvKept, PTL DEF Spec, AppliedOnceUnlessInterrupted

(* Only a file that is taken, or saved, becomes upstream's. *)
LEMMA TheirsBy ==
  ASSUME TypeOK, [Next]_vars, NEW p \in Paths, files[p].by = "person", files'[p].by = "theirs"
  PROVE  (\E c \in calls : Taken(c, p)) \/ (SaveFile /\ p = main.path)
<1>1. files' # files
  OBVIOUS
<1>2. CASE \/ Fork \/ Reset \/ Choose \/ Edit \/ SaveFile \/ ListUpdates \/ TakeAll
           \/ \E q \in Paths : OpenFile(q) \/ FileAnswered(q) \/ TakeOne(q) \/ \E c \in calls : Taken(c, q)
  <2>1. CASE Fork \/ Choose \/ Edit \/ ListUpdates \/ TakeAll \/ \E q \in Paths : OpenFile(q) \/ FileAnswered(q) \/ TakeOne(q)
    BY <1>1, <2>1 DEF Fork, Choose, Edit, ListUpdates, TakeAll, OpenFile, FileAnswered, TakeOne, Take, template
  <2>2. CASE Reset
    BY <2>2 DEF Reset, Original
  <2>3. CASE SaveFile
    BY <2>3 DEF SaveFile, TypeOK
  <2>4. ASSUME NEW q \in Paths, NEW c \in calls, Taken(c, q)
        PROVE  \E d \in calls : Taken(d, p)
    <3>1. q = p
      BY <2>4 DEF Taken, TypeOK
    <3> QED
      BY <2>4, <3>1
  <2> QED
    BY <1>2, <2>1, <2>2, <2>3, <2>4
<1>3. CASE (\E done : PageStep(done)) /\ UNCHANGED <<setting, template>>
  BY <1>1, <1>3 DEF template
<1>4. CASE Restart
  BY <1>1, <1>4 DEF Restart, template
<1>5. CASE Submit \/ \E c \in calls : Created(c) \/ SubmitFails(c)
  BY <1>1, <1>5, MakingFrame DEF TextFrame
<1>6. CASE \/ \E v \in Views : LoadFails(v)
           \/ Publish \/ Sync \/ Refresh \/ Remove \/ Retire \/ UNCHANGED vars
           \/ \E c \in calls : Confirmed(c) \/ ButtonFails(c)
  BY <1>1, <1>6, ButtonFrame DEF TextFrame
<1>7. CASE \/ OpenShop \/ Apply \/ Poll \/ Polled \/ SaveSite \/ SendPatch
           \/ (\E a \in Values : Type(a))
           \/ \E c \in calls : Patched(c) \/ PatchFails(c)
  BY <1>1, <1>7, SettingsFrame DEF TextFrame
<1> QED
  BY <1>2, <1>3, <1>4, <1>5, <1>6, <1>7, StepIs

(* Upstream's text replaces what the person wrote only by the name of the
   file, or if the list of updates is older than the edit (take). *)
THEOREM EditsKept == Spec => EditsTakenByName
<1>1. Inv /\ [Next]_vars =>
        [\A p \in Paths :
           files[p].by = "person" /\ files'[p].by = "theirs" => p \in history'.asked \cup history'.since]_vars
  <2> SUFFICES ASSUME Inv, [Next]_vars, NEW p \in Paths, files[p].by = "person", files'[p].by = "theirs"
               PROVE  p \in history'.asked \cup history'.since
    OBVIOUS
  <2>1. CASE SaveFile /\ p = main.path
    <3>1. history'.since = history.since \cup {main.path}
      BY <2>1 DEF SaveFile, Inv, TypeOK, History
    <3> QED
      BY <2>1, <3>1
  <2>2. ASSUME NEW c \in calls, Taken(c, p)
        PROVE  p \in history'.asked \cup history'.since
    BY <2>2 DEF Taken, Inv, EditInv, Known
  <2> QED
    BY <2>1, <2>2, TheirsBy DEF Inv
<1> QED
  BY <1>1, InvKept, PTL DEF Spec, EditsTakenByName
=============================================================================
