# Croptop, specified

TLA+ specifications of the parts of Croptop in which the order of things
matters: which version of a site the world sees (the host on a node, the host
that runs as a Cloudflare Worker, and the publisher on a laptop or of an
agent), the post files that everything on a laptop writes, the shops a site
sells its posts through, and the pages in the browser that drive all this
(the console, the shop's pages, and the players and previews of the example
site).

## The system

| Component | State | Operations | Talks to |
| --- | --- | --- | --- |
| Host (`internal/host`) | the registry: an entry (version, sequence, record, name) per key, and the names, in memory and in `registry.json`; a staging directory per version; the node's blocks | push (in parts), pull, claim, lookups, start | laptops and agents by HTTP; the Worker's node by pull; the network |
| Worker (`worker/src/index.js`) | KV entries, names, caches, upload states; R2 heads, owners, files, carried paths | the host's API a second time, without memory or lock; resolving | node, laptops, gateways, routers |
| Publisher (`internal/publish`) | per site: last version, sequence, the list of own versions, the "published elsewhere" flag; the background upload's queue | Publish, Sync, Keepalive (10 min), CatchUp (1 min), Post, Adopt, Claim, import | host, network, store, renderer |
| Site store (`internal/store`) | the site file, post files, deletions | whole-file reads and writes | everything on a laptop |
| Engine (`internal/ipfs`) | blocks, keys, signed records | AddDir, AddOver, Rebuild, record put and get | DHT, peers |
| Console server (`internal/server`) | the console's lock | posts, attachments, settings, templates, publish, sync, the shops' journals | publisher, store, JSON-RPC of the networks |
| Web console (`web/app.js`) | the view that is shown, its form, the calls on the way | views, forms, buttons, the post and template editors | console server |
| Shop (`internal/shop`, `web/shop*.js`) | a journal per site and network of what a wallet was asked to sign | creating a shop, connecting one, setting up posting on all networks | wallet, networks, a relay |
| Templates (`internal/tpl`) | a site's copy of a template, upstream's | fork, edit, reset, take updates, install | console |
| Example site (`examples`) | audio contexts, media elements, frames, timers | players, previews, widgets, embeds | the visitor's page |
| Collaboration, following | copies of other sites | refresh, mirror | network, store |
| Rendering (`internal/render`) | one render at a time | render, which reads all posts and saves some back | store |
| Gateway, update, macOS app, installers | | | see `PROJECT.json`, not modelled |

What is hard in it:

* two writers (a laptop and an agent, two laptops) that each choose the next
  sequence without the other, and a push that runs for minutes between the
  host's first look at the head and its second;
* an answer that is lost although the push committed, and a commit that goes on
  after its client has left (`host.go:756-759`);
* a host without a lock, whose head and entry are in two stores, and whose
  requests may stop after any call;
* three loops on a laptop that publish, renew and catch up, one background
  upload beside them, and a console that saves posts without a lock;
* a laptop that stops between telling the network and saving the site;
* sequences that do not order versions: renewals raise a laptop's without the
  host (`publish.go:670-676`), so lineage is kept in a list of own versions;
* wallets that broadcast and never answer, blocks that leave the chain, and
  pages that are closed at any point, where a mistake is paid for;
* pages whose views await the server: an answer comes after the view has gone,
  or in another order than it was asked for;
* sound that no object owns: players stop one another by events that fire
  later, while one awaits a context that is suspended by another.

What makes each correct: a host replaces a version only by the rule, keeps
what it confirmed, serves only whole versions, and gives a name to one key; a
laptop never lets a post the host accepted fall out of the site, never lowers
its sequence, delivers what it published and takes in what others posted; a
shop is created once and paid for once, and only what is final is recorded; a
form makes one thing, and no page puts back what another changed; one player
sounds, and what has left the page falls silent.

## Modules

| Module | Models | Rests on |
| --- | --- | --- |
| `HeadRule` | when one version may take the place of another (`conflict`, `pushConflict`) | |
| `SiteHead` | the abstract host: offers are made, dropped, or taken in one step by the rule | `HeadRule` |
| `HostRegistry` | the node's host in detail: both phases of push and pull, staging, manifests, names, saves, crashes | `SiteHead` by refinement |
| `WorkerHost` | the Worker's host: pushes and claims, call by call over R2 and KV | `SiteHead` by refinement |
| `WorkerResolve` | how the Worker finds the version of a name, with its caches | |
| `Worker` | the two side by side: requests that push or claim, and requests that resolve | `WorkerHost`, `WorkerResolve` |
| `WorkerChunks` | one big file sent to the Worker in chunks | |
| `Lineage` | own versions and the next sequence (`versions.go`, `sequence.go`, the verdicts of `pushVersion`), pure operators | `HeadRule` |
| `Publisher` | laptops and agents against one host and the network | `Lineage`, `HeadRule` |
| `PostFiles` | the posts of a site as files on one laptop: the console's edits and deletions, renders and take-ins beside one another | |
| `PostEditor` | one post in the console's editor: attachments, previews, the handlers behind them | |
| `Console` | the console's views, forms and buttons, the settings form beside a shop, the template editor | |
| `ShopDeploy`, `ShopConnect`, `ShopSetup` | creating a shop, connecting one, setting up posting on every network | |
| `Players`, `Widgets` | what sounds, and what goes on by itself, on a page of the example site | |
| `MC...` | the instances that are checked | |
| `..._proofs` | theorems about `HostRegistry`, `Worker`, `Publisher`, `MCShop` (`Shop_proofs`: `ShopDeploy`, `ShopConnect`), `ShopSetup`, `MCPosts` (`Posts_proofs`: `PostFiles`, `PostEditor`), `Console` and `MCPlayers` (`Players_proofs`: `Players`, `Widgets`) | the module they are about |

`Publisher` takes the host's decision in one step, by `HeadRule`; that this is
sound is what the refinements of `SiteHead` show, `HostRegistry`'s for the node
and `WorkerHost`'s for the Worker. `MCShop`, `MCPosts` and `MCPlayers` hold two
specifications each, of which a behaviour takes one, chosen at the start: the
two have no state in common, and exploring their product would show nothing more.
`Worker` is of the same kind, with a specification for each side (`HostSpec`,
`ResolveSpec`): resolving writes nothing that a push or a claim reads, and what
it reads of them is one site's sequence (`known`), which may rise at any time.

### HostRegistry and the code

A version is the set of its files: content is addressed by its hash, so two
versions are equal exactly if their files are. A file stands for a top-level
entry, the grain at which `AddOver` replaces; carried paths have the same grain.

| Specification | Code |
| --- | --- |
| `reg`, `names`, `disk` | `registry`, `registry.json` |
| `staged`, `blocks` | `host/staging/<cid>`, the blockstore |
| `BeginPush` | signature, first `conflict` (push), first sequence check (pull) |
| `Receive`, `BreakOff`, `Received` | `saveMultipart`, `saveChunk`, a part that is not the last |
| `Build`, `BuildFails` | `Rebuild` / `AddOver` / `AddDir`, the comparison with the signed CID, the fetch of the rest, the 500 that keeps the staged files |
| `Commit` | the second `conflict` (or the pull's sequence check), the entry, the save, in one hold of the mutex |
| `claim` | `claim` |
| `Crash`, `Start` | the process ends; `Start`, with the sweep of old staging directories |

A save that fails leaves the old file, or a file cut short (`Torn`): `save`
writes in place. A host cannot start from a torn file, which is why deadlock is
not checked. Staging directories are shared by every request for one version,
as in the code. `confirmed` and `owner` are history: what a writer has been told.

### The Worker and the code

Every `await` on a store is an action. A read of KV that is behind is a request
that read earlier, so it has no state of its own; R2's conditional put compares
the head's content, which is what its etag stands for.

| Specification | Code (`worker/src/index.js`) |
| --- | --- |
| `entry`, `names`, `pushed` | KV `key:`, `name:`, `pushed:` |
| `heads`, `owners`, `stored`, `maps` | R2 `heads/`, `owners/`, `sites/`, `carry/` |
| `BeginPush`, `ReadHead`, `ReadOwner`, `PutOwner`, `StoreFile`, `FilesStored`, `SaveCarry`, `MoveHead`, `CheckAgain`, `SaveEntry`, `MarkPushed`, `NotifyNode` | `push`, one store call after the other |
| `BeginClaim`, `ReadEntry`, `FreeName`, `PutName`, `SaveName` | `claim` |
| `Fails` | a call fails, the client hangs up, the Worker is stopped |
| `behind`, `loose` | history: a site whose entry was left to disagree with its head, or with a name, because requests crossed or stopped |
| `PushesAssumption` | what the client signs: a version has one file at a path (a directory), a push without a parent sends all of its files, and one with a parent is what it sends and what the list, or the rest of the parent, carries over |
| `WorkerResolve.cache`, `LookUp`, `Keep`, `Aged` | `cached`, and the KV entries' time to live |
| `WorkerResolve.Fetched`, `NotFetched`, `NoneLeft` | `resolveKey`, `resolveENS`, `rootsOf`: the sources one after the other |
| `Hears`, `Publish`, `Push`, `Republish`, `MoveLink` | the sources, the owner, `republishAll`, the ENS record |
| `WorkerChunks.state`, `uploads`, `file` | KV `upload:`, R2's open uploads and the object they are joined to |
| `SendChunk`, `GiveUp`, `Again` | `pushDir`, `sendWatched`, `skipHeld` of the client |

### Publisher and the code

A version is the posts in it and the posts its index lists: a laptop renders
everything, an agent adds only its folder and the feeds to the version it found.

| Specification | Code |
| --- | --- |
| `site` | the site file and post files; `versions` is `croptopVersions` |
| `op` | whoever holds `Publisher.mu`: a publish, a renewal, a take-in |
| `upload` | `pending` / `pushing` and where `runPushes` is |
| `call`, `orphans` | a push in flight; one whose client has left |
| `announced` | the records the DHT was given, any of which it may answer with |
| `BeginPublish` ... `PublishAnnounce` | `Publish`, `publishOnce`, `publishChanges`, `published` |
| `TakeIn`, `Merged` | `takeIn`, `pull`, `mergePosts` |
| `Keepalive`, `Renew`, `CatchUp` | the same |
| `TakeJob`, `ChooseUpload`, `UploadAnswer` | `runPushes`, `pushVersion`, `pushChangesOrAll` |
| `Overtaken`, `Republish` | `overtaken`, `rendersTo` |
| `AgentPost` | `Post` |
| `Crash` | the app quits: `op` and `upload` are gone, the site file stays, pushes under way may still commit |

Simplifications, each of them a step the code could also take: `latestRecord`
reads the host and the network one after the other, the model both in one step,
and so do the two looks of `pushVersion` and `pushChangesOrAll`; posts are added
and deleted, not edited, and the take-in saves all posts and the site in one
step (`PostFiles` has them apart); a retry may come at any moment; an upload
goes whole over a version the host holds only where `CanWhole` allows it (an
older host, refused changes). Import from Planet and `Claim` are not in it.

### PostFiles, PostEditor and the code

In `PostFiles` a post is known by its last edit: `edit` is when it was made,
`at` is the time it carries (`LastChanged`), by which `mergePosts` decides.
Nothing but a rename protects a post file, so each reader that writes back has
its reading and its writing as steps of their own.

| Specification | Code |
| --- | --- |
| `file`, `gone` | `Articles/<id>.json`, `deleted.json` |
| `theirs` | the posts of the version another machine published last |
| `BeginEdit`, `SaveEdit`, `AbandonEdit` | `modifyPost`: the post is read, the upload is parsed, the post is saved |
| `RemoveFile`, `ReadDeleted`, `RecordDeleted`, `DeleteFails` | `DeletePost` |
| `BeginPull`, `ReadPosts`, `Compare`, `Save`, `Finish`, `Fail` | `pull`, for the loop and for `Sync` (which calls it without `mu`) |
| `BeginRender`, `Save` | `Render`, and the save at the end of `renderPost` |
| `Changed` | `mergePosts` |
| `TheyEdit`, `TheyTakeIn` | the other machine edits, and merges what this one published |
| `MayStart` | the console's lock, `Publisher.mu` and `Renderer.mu` together |

Which posts a render saves depends on generated fields; in the model it may be
any of them. Posts are not added after the start: a new post has a name of its
own, which nothing else has read. What this laptop published is merged by the
other one as one step.

`PostEditor` looks into one post: the list of attachments in its file, its
folder, and the page's copy of the list. A handler reads the post (`Read`),
puts or removes the file (`File`), saves the whole post (`Save`) and answers
after a render with the post as it is by then (`Rendered`). Previews are
fetched a quarter of a second after the last key, and shown when they come.

### Console and the code

One page shows one view. `Route` is `route()`: a view asks the server and
replaces the page when the answer comes, whatever the address names by then
(`Answer`). The state of a view that its handlers close over is in `main`; a
call that a form or a button began is in `calls` until it is answered, whether
or not its view is still there.

| Specification | Code (`web/app.js`, with its server) |
| --- | --- |
| `loads`, `main` | views on the way; what `#main` shows |
| `Submit`, `Created`, `SecondDone`, `SubmitFails` | the forms of a post, a quick post, a new, adopted or followed site, with their second calls |
| `Publish`, `Published`, `Sync`, `Retire`, `Refresh`, `Remove` | the buttons |
| `SaveSite`, `SendPatch`, `Patched` | the settings form: PUT, then PATCH of what differs |
| `Poll`, `Merged` | `refreshShop`, every five seconds |
| `OpenShop`, `Apply` | a shop that is created in another page, and `updateShop`'s save of the settings and then of the session |
| `OpenFile`, `FileAnswered`, `Edit`, `SaveFile` | the template's editor |
| `ListUpdates`, `Take`, `TakeAll` | updates of the template and `take` |
| `Restart` | "Update": the process is replaced and the page loaded again |

### The shop and the code

A slot is a sender and its nonce; the network takes one transaction for each.
A plan is the transaction's content. Everything the wallet, the network and the
relay do is an action of its own, marked external in the map.

| Specification | Code |
| --- | --- |
| `ShopDeploy.attempts`, `ShopConnect.session`, `ShopSetup.bundle` | the journals the server saves |
| `page` | each page, with the session it was last answered with |
| `Load` | the page is opened, or closed and opened again, whatever it did |
| `Review`, `Reprice`, `Send`, `Broadcast`, `Uncertain`, `Reject`, `Submitted`, `Verify` | `shop.js` and `updateShop` |
| `ReviewSaved`, `Approve`, `Finish`, `PlanConnection`, `NextSetup`, `SameShop` | `shop-connect.js`, `shopConnection`, `connect.go` |
| `MakePlan`, `SignRequest`, `SaveSignature`, `Quote`, `Pay`, `Check` | `shop-setup.js`, `shopBundle`, `bundle.go` |
| `Verdict`, `Connected`, `SetUp` | what is read from the network, and at which block |
| `Free` | one page of a browser at a time (`navigator.locks`) |

### The example site and the code

A media element's paused flag changes at once and its event is fired later
(`events`); orders to an audio context are carried out in order, later
(`orders`). `place` is where a player is: shown, covered, or gone. `Widgets`
has the callbacks of cards: frames, timeouts, intervals and readings that are
due, and how many of them ran after their card had left the page.

## Runs

`PROJECT.json` has each run with its properties and a mutant of the code for
each property, which breaks it.

| Run | Instance | States | Shows |
| --- | --- | --- | --- |
| `HostPushes` | 1 key, 2 requests at once, 6 pushes (first version, agent's, laptop's with a manifest, a part, two bad manifests) | 1.4 M | `TypeOK`; `HeadsAreWhole`; `KeepsPromise`: the host implements `SiteHead` |
| `HostPullsAndNames` | 2 keys, 2 names, 2 requests, 2 pushes and 2 pulls | 2.3 M | `ConfirmedSurvives`, `SequenceNeverGoesDown`, `NamesMatchKeys`, `ClaimsLast` |
| `PubAnything` | 1 laptop (fresh, published or adopted; deletions, forced and whole publishes), 1 agent, 1 publish, 1 renewal, 1 fault of any kind, sequences to 4 | 1.2 M | `TypeOK`, `LaptopSequenceNeverGoesDown` |
| `PubArrives` | 1 laptop (fresh or published), 1 agent, 2 faults, fairness | 68 k | `PostsRecoverable`, `AgentPostsArrive`, `PublishedAloneArrives` |
| `PostFiles` | 1 post, 2 take-ins and a render, 1 deletion at a time, 4 edits or deletions; or the editor with 2 files, 2 calls and 2 texts | 1.8 M | `TakenInWhole`, `UndoneOnlyIfCrossed`; `ListedUnlessCrossed`, `ShownUnlessLate`, `PreviewUnlessOvertaken` |
| `WorkerHost` | 2 sites, 2 names, 2 requests, 7 pushes; two pushes, two claims, or a claim and a push meet (`OneScene`) | 1.4 M | `HeadsAreWhole`, `ServesHeadUnlessCrossed`, `NamesMatchUnlessCrossed`, `KeepsPromise`: the Worker implements `SiteHead` |
| `WorkerResolve` | 2 readers, a router, a gateway, 2 versions, a cache of one tick | 3.8 M | `FreshEnough` |
| `Shop` | 2 pages, 2 slots, 1 configuration with 2 fees, 2 attempts; or 2 prices and 1 change from elsewhere or by a block that leaves the chain | 1 M | `DeployedOnceUnlessCrossed`, `NothingLost`, `RecordedIsDeployed`; `ConnectionFound`, `ConnectedStays`, `KeepsTheRest` |
| `ShopSetup` | 2 browsers, 2 networks, 2 prices, 2 slots, 2 plans, time to 2 | 1.7 M | `PaidOnceUnlessTryRejected`, `CompletedIsSetUp`, `OldPlansNeverRun` |
| `Console` | four tours of views that meet, 2 forms, 2 views and 1 button's call on the way, 1 failure | 1.7 M | `PostedOncePerAnswer`, `ShopAddressKept`, `AppliedOnceUnlessInterrupted`, `OwnTextUnlessMixed`, `EditsTakenByName` |
| `Players` | 2 rhythms, a preview, a post's audio; or 5 cards | 0.3 M | `OneSoundingUnlessCrossed`, `HeardOrQuiet`, `SilentOnceLeft`; `OnceMoreAtMost` |
| `WorkerChunks` | a file of 3 chunks, 2 requests, 3 uploads | | a disagreement, see below |

Why these bounds. Two requests are what a conflict takes: each look of a push,
and every step between, meets the other request at every point, and a request
may serve any push again after a break. Six pushes are the kinds of push there
are; sequences beyond 2 or 3 add nothing, as only their order counts. A laptop
that publishes has an upload under way while an agent overtakes it; two faults
let a retry fail, or a crash follow a lost answer. `MaxVersions` stays at the
code's 64, which no run fills. Posts meet one another only in `deleted.json`,
so one post and one deletion at a time show what `PostFiles` promises; four
changes are an edit and a deletion here and two edits elsewhere, in any order.

`OneScene` leaves out what has nothing in common: pushes of the site that is
shared with an agent touch the entry's version and the head, claims the entry's
name and the names; where they meet, in the entry, a claim crosses the push of
a page. `OneCallWhileTyping` keeps previews and attachment calls, which share
only the text, from multiplying. Two pages, two slots and two attempts are a
shop's smallest double spending: a second page, or the same one opened again,
takes another nonce. Two networks let one be done and the other not. A tour of
`Console` is a set of views whose handlers touch the same state; every view is
in one, and two views on the way are enough for an older one to come last. In
`WorkerResolve` a tick is both the cache's life and the longest a request takes;
the bound in `FreshEnough` is exact: with a tick less TLC finds an answer beyond
it. Where a property ends in `UnlessCrossed` or a like word, the excuse is a
history variable that the step which crosses sets, and the run fails without it.

`PostsRecoverable` is what a publisher promises of posts, whatever crosses:
one the host has held is in the version it holds or in a laptop's copy, unless
its owner deleted it or went over it with `--force`. It is proved, for sites that
are fresh or up and uploads that go as changes, in instances of any size (see
below). Beyond the run TLC finds no violation with `MaxPublishes = 2`
(408 k states), nor with two laptops that may force, `Faults = {"answer"}`,
`MaxFaults = 1`, `MaxRenewals = 0` and `MaxSeq = 3` (2.4 M states). The stronger
`NoPostLost`, that only the host's version counts, holds up to two faults
with one publish and one fault with two, and then fails (see below).

**Fairness.** `PubArrives`: what a publish, the upload and the
host have begun they go on with (weak fairness of `PublishStep`, `UploadStep`,
`HostAnswers`): each is a goroutine or a handler with bounded waits. The loop
runs `CatchUp` every minute and `Keepalive` every ten (`RunKeepalive`), but
competes for `mu` with the console and the upload, so they are strongly fair.
The owner and the agent owe nothing, and faults are bounded: an unending
outage would refute any promise. `PubArrives` leaves out failed downloads, since
a failed take-in waits for a renewal and renewals are bounded in the model, and
failed announcements, for the reason given below. `Players`: the browser fires
the events it has queued and gives frames to a visible tab (weak fairness of
each event's and each player's frame); nothing is assumed of the visitor, nor of
a context that resumes. Every other run checks safety alone.

**Deadlock** is not checked where a system may stop: a host that cannot start,
requests and faults that are used up, an editor that is left.

### Disagreements

`WorkerChunks` finds what `push.go:457` ("the host reassembles them") and
`index.js:619-620` do not say: the Worker keeps which upload a file's chunks
belong to in one KV entry, which a chunk reads before its part is stored and
puts after it. A first chunk that stalls is given up, and the client begins
anew; when the stalled one goes on, its put replaces the entry of the new
upload. The last chunk is then sent to the old upload, which is joined from the
first and the last part, and the client commits a version whose file has a hole
in it. `X-Croptop-Upload`, which the client sends back for this, is not read.

The models show more, in statements that TLC refutes and no run checks. The
constants below are those of `PubAnything` without faults, deletions, forced or
whole uploads and renewals, with `Starts = {"published"}` and `MaxSeq = 6`, and
those of `PostFiles` with `Pulls = {"sync"}` and `MaxTime = 2`, changed as given.

| Statement | Constants | What happens |
| --- | --- | --- |
| `AgentPostsKept` (Publisher) | `Starts = {"adopted"}` | `Adopt` leaves sequence 0 when the record cannot be read; the first `Keepalive` makes the version it finds the last one (`publish.go:610-615`) without reading its posts, and the next publish drops an agent's |
| `EditsWaitForTheOwner` | as they are | the console saves posts without its lock (`api.go:554-568`): one saved after `rendersTo` and before the render of `overtaken`'s publish goes up, against "Edits saved since are never published by themselves" (`publish.go:339-340`) |
| `NeverRepublishesAlone` | `Agents = {}`, `CanDelete = TRUE`, `MaxPublishes = 2` | `rememberVersion` leaves a known version where it is in the list (`versions.go:34`), so a site put back to an earlier version looks overtaken by the one it replaced, and `overtaken` publishes it again |
| `PublishedPostsArrive` | `PubArrives`, without faults and renewals | the minute's `CatchUp` takes the other machine's version in first, `rendersTo` sees a change nobody saved, and what the owner published stays on the laptop until the next publish, against `publish.go:337-339` |
| `TakeInUndoesNothing` (PostFiles) | `Deleters = {}` | `pull` compares the posts it read, downloads, and saves over an edit made meanwhile, which carries a later time, against "newest edit per post wins" (`sync.go:44`) |
| `AgentPostsKept` | `Faults = {"announce"}`, `MaxFaults = 1`, `MaxRenewals = 1` | `NamePublish` fails after the network took the record: the laptop takes its own version in as news, and `CatchUp` uploads it over the agent's |
| `AgentPostsKept` | `CanWhole = TRUE`, `MaxRenewals = 1` | a whole upload names no parent and goes over what landed after the host was asked |
| `PostsRecoverable` (Publisher) | those of `PubArrives` with `Starts = {"fresh"}`, `Faults = {"network", "answer"}`, `MaxPublishes = 3` and `MaxRenewals = 0` | the first upload of a new site names no parent; sent again after its answer was lost, it is on its way while an agent posts on what the first try left there. The network gives the agent an older record, so its sequence (`post.go:78-86`) is below that upload's, which goes over the post |
| `NoPostLost` | `Faults = {"crash"}`, `MaxFaults = 2`, `MaxPublishes = 2`, `MaxRenewals = 1` | a version that reached the host before a crash is taken in as news after a newer one was published, and uploaded over it |
| `UndoneOnlyIfCrossed`, `TakenInWhole` | `Deleters = {d1, d2}`, two posts (the second with `MaxTime = 3`) | two deletions read `deleted.json` before either writes it: one is forgotten, and its post comes back, or a take-in that left it out as deleted finds it is not |
| `UndoneOnlyIfCrossed` | `Dates = {0, 5}` | a post with a date in the future looks newer than every edit and deletion until then |
| `PreviewsStop` (Widgets) | `Players` | `docs/widgets.md:146-148` says that previews have one timer and stop when `el.isConnected` is false; those with an interval never clear it (`gas.preview.js:31`, `budget.preview.js:14`, `timeline.preview.js:21`, `countdown.preview.js:11`) and go on in a page they have left |

With a renewal and no fault `NoPostLost` fails for two laptops, as one that took
in a version which was only announced so far uploads on top of the other's, and
the next upload mends it.

The excuses in the properties name what else was met on the way:

* `DeployedOnceUnlessCrossed`: `shop.js` has the wallet sign the plan its page
  knows; another page may have taken it back and planned another one.
* `PaidOnceUnlessTryRejected`: a rejection clears the payment that is saved, as
  evidence that nothing was sent, although a try of it in another browser may
  have been.
* `AppliedOnceUnlessInterrupted`: `updateShop` saves the settings and then that
  it did; stopped between them it applies the shop again over later settings.
* `OwnTextUnlessMixed`: `openFile` sets the file's name at once and its text when
  it comes, without looking at `r.ok` or at which file is open by then, so the
  text of one file, or of an error, can be saved as another.
* `HeardOrQuiet`, `OneSoundingUnlessCrossed`: `stop()` does nothing to a rhythm
  that awaits its context (`rhythm.js:17`), which then plays beside another.
* `PreviewUnlessOvertaken`, `ShownUnlessLate`: answers are shown in the order in
  which they come.
* `ServesHeadUnlessCrossed`, `NamesMatchUnlessCrossed`: the Worker's `saveEntry`
  puts back the whole entry it read when its request began. A push that
  finds the head moved on when it puts its entry, to another version or only to
  another sequence of its own, has crossed.

And beside them, from reading the code: `route`'s `try` does not see the
rejections of views that are `async`, since it returns their promises unawaited
(`app.js:781-795`); a publish or sync that ends late shows the view again over
text that was not saved (`app.js:319`, `329`); a cancelled setup transaction
whose shop changed can neither be signed again nor planned anew, until something else
takes its nonce (`shop_connect.go:196`, `connect.go:282-284`); the wait for an updated process compares its version
with `state.status`, which the 15 s timer may have refreshed from that process
already (`app.js:69`, `798`), and then says that the console did not come back;
an exception in one entry ends the Worker's cron pass (`index.js:673-687`).

## Proofs

Each `..._proofs` module proves its theorems for any values of the constants
that the module's named assumptions admit. Those say what the code's data is:
versions are sets of files, sequences and clocks are numbers, the values that
stand for nothing are not among the things they are missing from, pushes are
what the client signs. The bounds of the runs (how many publishes, faults,
requests, attempts) are any numbers here. TLC checks every assumption on the
instances, and checked every strengthening below as an invariant before it was
proved. Every leaf is found within a fifth of tlapm's default time, but for two
about long records that name Zenon with more. A theorem has the same shape
everywhere: an invariant that is inductive, a lemma for each group of actions,
and the property from it.

### The host (`HostRegistry_proofs`)

| Theorem | Argument |
| --- | --- |
| `TypeCorrect` | inductive as it stands, one step per action |
| `SequenceMonotone` | only `Commit` changes a sequence while the host runs, and what is not refused is not behind |
| `ConfirmedPushesSurvive` | inductive with types: every write of `disk` is the old one, a torn one, or the memory it confirms |
| `NamesMatch` | inductive: `claim` changes both maps and frees the old name |
| `ClaimsAreKept` | from `NamesMatch`: no one else's claim touches a name that is taken |
| `HeadsWhole` | needs `WholeInv`: a request's parent is whole from the moment it begins, and what it is about to commit is whole. The parent was the head when the push began, so it was whole then, and blocks are never removed |
| `HostKeepsPromise` | every step maps to one of `SiteHead`'s or to a stutter; a restart is a `FallBack`, which needs `ConfirmedSurvives`; a host that is down has nothing in flight (`DownIsIdle`) |

### The Worker (`Worker_proofs`)

| Theorem | Argument |
| --- | --- |
| `TypeCorrect` | each request carries the fields of the step it is at |
| `ServesHead` | inductive with types: whoever puts an entry over a head it did not read is recorded in `behind` at that step |
| `WorkerKeepsPromise` | needs `EtagInv`: between reading the head and the conditional put, a request has compared its push with exactly what its etag names. So a put that succeeds is the rule applied to the head there is, although there is no lock, and the refinement takes place in that one step; everything else stutters |
| `NamesMatch` | needs `NamesInv`: for a key no claim has left in disagreement, one claim at most is between its two puts, the name that is being given up leads elsewhere already, and the new one leads to the key |
| `HeadsWhole` | needs `WholeInv`: every map that is kept of a version is sound (what it names is stored) and complete (what is not stored with the version is named), whichever of two pushes of one version saved it. Hence `FoundIsTheVersion`: through any map an isolate may have cached, the host finds the version's files and nothing else. This is where `PushesAssumption` is needed: with two files at one path a map may hide one |
| `AnswersAreFresh` | needs `FreshInv`, which gives each answer the time it may have waited where it is (with a source, in the cache, with the reader that took it from the cache), and `LinkInv`: only the DNSLink step yields the site's key. A tick moves all three bounds together |

The proof of `ServesHead` corrected the model: `behind` had compared only the
versions, and a request that puts an entry with its own version and an old
sequence slipped through. A run now has the push that shows it (`SamePage`).

### The publisher (`Publisher_proofs`)

| Theorem | Argument |
| --- | --- |
| `TypeCorrect` | needs `TypeInv`: an operation past its render has a version, a take-in has one to take in, which it does twice at most; and `HeldInv`: who waits for the answer to changes has seen that the host holds a version |
| `SequenceMonotone` | needs `AheadInv`: the sequence an operation chose is above every one this laptop has used, as nothing that changes it runs beside the operation |
| `PostsStayRecoverable` | `RecoverInv`, for sites that are up or were never published (`Starts \subseteq {"fresh", "published"}`), the latter under a network that gives the newest record (`"network" \notin Faults`), and uploads that go as changes (`CanWhole = FALSE`) |

`RecoverInv` follows a post through five places. A laptop has the posts of
every version it takes for its own, or has deleted them, or went over them
(`KnownInv`), under sequences that were announced or exceeded by one that was
(`StandInv`); it has what it is publishing, and the posts of the version that
is built on (`BuiltInv`), and what it has queued (`JobInv`); of every push on
its way, also one whose client has gone, some laptop has what it drops of its
parent, and what it adds too, unless it is above every whole push (`PushInv`);
so what the host ever held is in its version or accounted for elsewhere
(`HostInv`). The set of the last, `Kept`, only grows. `PushInv` is the heart: the
host takes a push only over the parent it names, and the laptop named that
parent because it is one of its own versions or was just merged.

A push that names no parent is the exception: the first upload of a new site, and
every retry of it that asked before the first one landed, go over any version
with a lower sequence. They drop nothing, for two reasons. A laptop sends them
while the host holds no version, so all that is under way then are laptops' own
posts. And an agent posts above the newest announced sequence, while a whole push
was announced before it was queued (`JobInv`), so a post is above all of them
(`Late`): the host refuses a whole push from then on.

Each hypothesis is needed, and TLC refutes `PostsRecoverable` without it: an
adopted site's first renewal takes a version as its own that it never read, a
whole upload to a site that is up names no parent, and an agent that is given an
older record may post below a new site's first upload (see the table above).

### The shop (`Shop_proofs`, `ShopSetup_proofs`)

| Theorem | Argument |
| --- | --- |
| `Found` | `FoundInv`: what was sent, or is in a wallet's hands, has its slot in the journal and, until another transaction has taken that slot for good, in its last attempt; an attempt is ended only when one has |
| `Recorded` | `RecordedInv`: a session with attempts keeps its plan, and an address is only known where a final transaction deployed that plan |
| `DeployedOnce` | `OnceInv`: unless a page had a replaced plan signed, the attempt whose slot deployed is the current one for ever, since whatever may still be mined in it is the plan |
| `ConnectionsFound` | `ConnectFoundInv`: of what was broadcast or is in a page's hands, only the saved transaction in its attempt's slot may still be mined; an attempt is confirmed, ended or planned over only when its slot is final |
| `ConnectionStays` | needs `PlanInv` (the saved transaction is for the planned rules) and `AgreedInv`: finish may succeed from a page whose copy is old while a transaction is open, but that one leads to the rules that were agreed |
| `ConnectingKeepsTheRest` | `FitsInv`: since the last signing the network changed the shop, or what is open fits what is there |
| `PaidOnce` | `PaidInv`: the payments of a plan that were or may be sent have one nonce, that of the attempt; without an attempt none was sent and no page holds one, and a first try is in one page's hands |
| `CompletedStaysSetUp` | needs `PlansOK`: a network runs the saved plan's request at most once, and later plans are empty |
| `OldPlansAreLate` | `LateInv`: a plan is replaced only when a final block was past its deadline on each of its networks, and blocks do not go back in time |

### The console (`Console_proofs`)

| Theorem | Argument |
| --- | --- |
| `PostedOnce` | `MakeInv`: of a form's calls one is on the way, and while it is to make something nothing was made that no failure answers for; the form that is shown can be submitted only when none is. Forms that were left keep their calls, and a restart ends them with or without their work |
| `ShopAddressStays`, `AppliedOnce` | `ShopInv`: a form in which nobody typed sends no address and none sends the shop's, whatever it was polled with; a shop that was written is noted, unless that was cut off |
| `OwnText` | `TextInv`: the text shown is that of the open file, or exactly that file is on its way |
| `EditsKept` | `EditInv`: what waits to be replaced, or is offered, and has the person's text was asked for by name or written since the list was made |

### The posts (`Posts_proofs`)

| Theorem | Argument |
| --- | --- |
| `TypeCorrect` | needs `TypeInv`: a deletion that goes on is of a post |
| `TakesInAll` | `WorkInv`, for one deletion at a time (`OneDeletion`) |
| `UndoesNothingUncrossed` | `WorkInv` and `TimesInv`, for one deletion at a time and `Dates \subseteq {0}` |
| `ListsItsFolder` | `ListedInv`: unless one crossed another, one handler at a time is between its read of the post and its save, its copy is the list in the file, and the folder is ahead of the list by exactly its change |
| `ShowsTheList` | needs `ListedInv`, and `AnswerInv`: unless one was saved before the other's answer came, one answer at a time is on its way, with the list as it is. Then `ShownInv`: the page's copy is the list but for that answer, and is drawn but for uploads that go on |
| `PreviewsTheText` | `PreviewInv`: the text as it is now is shown, due, or on its way |

`WorkInv` says what a take-in or render knows of a post that nobody else wrote
since it read: between reading and comparing, that its copy is the file; after
comparing, that a post left to save is new here or as new as the file, and that
any other one has been taken in or was deleted since. Two lemmas carry it over
all the other steps: a step changes nothing that matters, or it writes one post
and every other job that has read knows (`WrittenBeside`). For the record of
deletions that takes `EraseInv`: what `DeletePost` read of it is what is there
when it writes, so it adds one post and drops none. That is false with two
deletions, and so are both properties (see the table above). A save undoes
nothing because it is decided by the copies' times and judged by their edits,
and `TimesInv` has these equal; a date ahead sets them apart, and then TLC
refutes it.

The proof also found that `TypeOK` was weaker than meant: a conjunct in the
wrong column made it an implication.

### The example site (`Players_proofs`)

| Theorem | Argument |
| --- | --- |
| `PlayingIsHeard` | `RhythmInv`: while a rhythm starts its context has one resume() at most to carry out, the last of its orders unless the rhythm was told to stop; when it plays no order is left |
| `OneSounds` | needs `RhythmInv` and `SoundInv`: at most one rhythm that was not told to stop plays or is starting, and unless a `play` event waits at most one media element plays, and none beside that rhythm. An element that was started last silences the others when its event fires, and `GoneInv` is why one that was removed meanwhile does not matter |
| `StopsAfterOneMore` | `CardsInv`: a frame or timeout that finds its card gone leaves nothing due |

`Posts` is assumed finite, as the posts of a page are: an opened post's player
asks each of the others to pause, one event for each.

### What is not proved

Liveness (`AgentPostsArrive`, `PublishedAloneArrives`, `SilentOnceLeft`) stays
with TLC, since fairness is beyond the provers; every other property of a passing
run is a theorem. `NoPostLost` is none: with crashes it is false, and
`PostsRecoverable` is what remains true. What `WorkerChunks` states is refuted.
The pure operators of `Lineage` and `HeadRule` are sets and comparisons that the
proofs expand where they need them.

## Not modelled

* The node's resolve cache, its routing slots and its joining of chunks; whole-site
  saves of a stale copy (`modifySite`, `Claim`, collaboration); mirrors and
  followed sites; import from Planet.
* Of the Worker: ranges, content types, error pages, the node's health.
* Of the shop: amounts and addresses beyond what tells two apart, the encoding of
  calls, the fallback between RPC endpoints, more than one network for a creation.
* Of the pages: layout, drawing, notes and patterns, files dropped on a new post,
  the polls that wait for an updated process.
* The pages a render writes, the gateway, configuration, the updater, the apps,
  the installers and the scripts that build the example site: no state of theirs
  is shared, or they are output.

## Plan

What would come next: the site file with its writers beside one another
(`modifySite`, `Claim`, collaboration), and the node's joining of chunks.
