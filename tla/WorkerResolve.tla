--------------------------- MODULE WorkerResolve ---------------------------
(***************************************************************************)
(* How the Worker (worker/src/index.js) finds the version a name stands    *)
(* for, when the site may be claimed here or only known elsewhere: the     *)
(* registry's entry, else the IPNS record of the node and of the public    *)
(* router, else what the gateways say; an ENS name goes through its        *)
(* DNSLink first.  What was found elsewhere is kept for RESOLVE_TTL, under *)
(* a key of its own for each step, while requests overlap, sources fail or *)
(* lag behind, and the owner publishes, pushes here and moves the DNSLink. *)
(*                                                                         *)
(* One site, with one IPNS key and one ENS name.  A version is its number. *)
(***************************************************************************)
EXTENDS Naturals, Sequences, FiniteSets, SequencesExt

CONSTANTS
  Requests,    \* slots for requests that overlap
  Routers,     \* who serves and takes IPNS records: the node, then the public one
  Gateways,    \* the upstream gateways, in their order
  Ttl,         \* RESOLVE_TTL, in ticks
  MaxWait,     \* bound: a request lives at most this many ticks
  MaxVersion   \* bound: versions the owner publishes

WorkerResolveAssumption ==
  /\ Ttl \in Nat \ {0} /\ MaxWait \in Nat /\ MaxVersion \in Nat \ {0}
  /\ Routers \in Seq(Range(Routers)) /\ Gateways \in Seq(Range(Gateways))
  /\ Range(Routers) \cap Range(Gateways) = {}
  /\ "dns" \notin Range(Routers) \cup Range(Gateways)

VARIABLES
  published,  \* the owner's latest version
  entry,      \* the registry's version of the site, 0 when not claimed here
  at,         \* at[s]: the version source s would answer with, 0 for none
  link,       \* the ENS name's DNSLink: none, the site's key, or a version
  cache,      \* cache[k]: what is kept for step k, and for how long
  req,        \* req[q]: a request on its way through the steps
  since       \* history: since[v] ticks ago somebody last stood for version v

vars == <<published, entry, at, link, cache, req, since>>

Sources == Range(Routers) \cup Range(Gateways)
VersionNumbers == 1..MaxVersion
None == 0
Key == MaxVersion + 1        \* a DNSLink to /ipns/<key>

Steps == {"dnslink", "ipns", "ens"}
Idle == [pc |-> "idle", what |-> "key", step |-> "ipns", left |-> <<>>,
         val |-> None, age |-> 0]

\* How long after a version was last current anywhere it may still be given:
\* as long as one request fetched it, the cache kept it, another passed it on.
Bound == (MaxWait + Ttl - 1) + MaxWait

Request == [pc : {"idle", "entry", "look", "fetch", "keep", "done"}, what : {"key", "ens"},
            step : Steps, left : Seq(Sources \cup {"dns"}), val : 0..Key, age : 0..MaxWait]

TypeOK ==
  /\ published \in 0..MaxVersion /\ entry \in 0..published
  /\ at \in [Sources -> 0..MaxVersion]
  /\ link \in 0..Key
  /\ cache \in [Steps -> [val : 0..Key, left : 0..Ttl]]
  /\ req \in [Requests -> Request]
  /\ since \in [VersionNumbers -> 0..(Bound + 1)]

Init ==
  /\ published = 1
  /\ entry = 0
  /\ at = [s \in Sources |-> 0]
  /\ link = None
  /\ cache = [k \in Steps |-> [val |-> None, left |-> 0]]
  /\ req = [q \in Requests |-> Idle]
  /\ since = [v \in VersionNumbers |-> Bound + 1]

\* Who stands for version v now.
Current(v) == v = entry \/ v = link \/ \E s \in Sources : at[s] = v

Noted(d) ==
  since' = [v \in VersionNumbers |->
              IF Current(v) THEN 0
              ELSE IF since[v] + d > Bound THEN Bound + 1 ELSE since[v] + d]

-----------------------------------------------------------------------------
(* The site's owner and the sources.                                       *)

Publish ==
  /\ published < MaxVersion
  /\ published' = published + 1
  /\ UNCHANGED <<entry, at, link, cache, req, since>>

\* A push to this host is saved in the registry.
Push ==
  /\ entry < published
  /\ entry' = published
  /\ Noted(0)
  /\ UNCHANGED <<published, at, link, cache, req>>

\* A source hears of a newer version from the owner's own node.
Hears(s) ==
  /\ \E v \in (at[s] + 1)..published : at' = [at EXCEPT ![s] = v]
  /\ Noted(0)
  /\ UNCHANGED <<published, entry, link, cache, req>>

\* The cron pass puts the entry's record to a router, which keeps the newest.
Republish(s) ==
  /\ s \in Range(Routers) /\ at[s] < entry
  /\ at' = [at EXCEPT ![s] = entry]
  /\ Noted(0)
  /\ UNCHANGED <<published, entry, link, cache, req>>

MoveLink ==
  /\ \E l \in (1..published) \cup {Key} : link' = l
  /\ link' # link
  /\ Noted(0)
  /\ UNCHANGED <<published, entry, at, cache, req>>

-----------------------------------------------------------------------------
(* Resolving.                                                              *)

Ask(q, what) ==
  /\ req[q].pc = "idle"
  /\ req' = [req EXCEPT ![q] =
       IF what = "key" THEN [Idle EXCEPT !.pc = "entry"]
       ELSE [Idle EXCEPT !.pc = "look", !.what = "ens", !.step = "dnslink"]]
  /\ UNCHANGED <<published, entry, at, link, cache, since>>

Done(r, v) == [r EXCEPT !.pc = "done", !.val = v, !.left = <<>>]
LookFor(r, step) == [r EXCEPT !.pc = "look", !.step = step, !.val = None, !.left = <<>>]

\* What resolveKey and resolveENS do with what the step has found.
After(r, v) ==
  IF r.step = "dnslink"
  THEN IF v = Key THEN [r EXCEPT !.pc = "entry", !.val = None, !.left = <<>>]
       ELSE IF v = None THEN LookFor(r, "ens")
       ELSE Done(r, v)
  ELSE IF r.step = "ipns" /\ r.what = "ens" /\ v = None THEN LookFor(r, "ens")
       ELSE Done(r, v)

\* resolveKey: a site claimed here is answered from the registry.
ReadEntry(q) ==
  /\ req[q].pc = "entry"
  /\ req' = [req EXCEPT ![q] = IF entry # 0 THEN Done(@, entry) ELSE LookFor(@, "ipns")]
  /\ UNCHANGED <<published, entry, at, link, cache, since>>

\* Who is asked for a step, in this order.
Chain(step) ==
  CASE step = "dnslink" -> <<"dns">>
    [] step = "ipns" -> Routers \o Gateways
    [] step = "ens" -> Gateways

\* cached(): what is kept is used until it expires.
LookUp(q) ==
  LET k == req[q].step IN
  /\ req[q].pc = "look"
  /\ req' = [req EXCEPT ![q] =
       IF cache[k].left > 0 THEN After(@, cache[k].val)
       ELSE [@ EXCEPT !.pc = "fetch", !.left = Chain(k)]]
  /\ UNCHANGED <<published, entry, at, link, cache, since>>

Answer(s) == IF s = "dns" THEN link ELSE at[s]

\* The source asked answers with what it has, ...
Fetched(q) ==
  /\ req[q].pc = "fetch" /\ req[q].left # <<>>
  /\ Answer(Head(req[q].left)) # None
  /\ req' = [req EXCEPT ![q].pc = "keep", ![q].left = <<>>,
                        ![q].val = Answer(Head(req[q].left))]
  /\ UNCHANGED <<published, entry, at, link, cache, since>>

\* ... or has nothing, fails or times out, and the next one is asked.
NotFetched(q) ==
  /\ req[q].pc = "fetch" /\ req[q].left # <<>>
  /\ req' = [req EXCEPT ![q].left = Tail(@)]
  /\ UNCHANGED <<published, entry, at, link, cache, since>>

\* Nothing found is not kept.
NoneLeft(q) ==
  /\ req[q].pc = "fetch" /\ req[q].left = <<>>
  /\ req' = [req EXCEPT ![q] = After(@, None)]
  /\ UNCHANGED <<published, entry, at, link, cache, since>>

Kept(v) == [val |-> v, left |-> Ttl]

Keep(q) ==
  /\ req[q].pc = "keep"
  /\ cache' = [cache EXCEPT ![req[q].step] = Kept(req[q].val)]
  /\ req' = [req EXCEPT ![q] = After(@, req[q].val)]
  /\ UNCHANGED <<published, entry, at, link, since>>

\* The request goes on to serve the version, or ends with a 502.
Answered(q) ==
  /\ req[q].pc = "done"
  /\ req' = [req EXCEPT ![q] = Idle]
  /\ UNCHANGED <<published, entry, at, link, cache, since>>

-----------------------------------------------------------------------------
(* Mutant of Aged: the value is put without a time to live. *)
AgedNever(e) == e

\* An entry of the cache that has expired is as if it had never been.
Aged(e) == IF e.left > 1 THEN [e EXCEPT !.left = @ - 1] ELSE [val |-> None, left |-> 0]

Tick ==
  /\ \A q \in Requests : req[q].age < MaxWait
  /\ cache' = [k \in Steps |-> Aged(cache[k])]
  /\ req' = [q \in Requests |->
               IF req[q].pc = "idle" THEN Idle ELSE [req[q] EXCEPT !.age = @ + 1]]
  /\ Noted(1)
  /\ UNCHANGED <<published, entry, at, link>>

Next ==
  \/ Publish \/ Push \/ MoveLink \/ Tick
  \/ \E s \in Sources : Hears(s) \/ Republish(s)
  \/ \E q \in Requests :
       \/ Ask(q, "key") \/ Ask(q, "ens")
       \/ ReadEntry(q) \/ LookUp(q) \/ Fetched(q) \/ NotFetched(q)
       \/ NoneLeft(q) \/ Keep(q) \/ Answered(q)

Spec == Init /\ [][Next]_vars

(***************************************************************************)
(* A visitor is never given a version that everybody, the registry, the    *)
(* sources and the DNSLink, had left behind for longer than one request    *)
(* took to fetch it, RESOLVE_TTL, and one request took to pass it on.  The *)
(* steps of an ENS name are kept one by one and requests overlap, so a     *)
(* version kept late, or a link kept next to the key it leads to, could    *)
(* otherwise live on (cached, index.js:149).  The bound is exact: with one *)
(* tick less TLC finds an answer beyond it.                                *)
(***************************************************************************)
FreshEnough ==
  /\ TypeOK
  /\ \A q \in Requests :
       req[q].pc = "done" /\ req[q].val # None =>
         Current(req[q].val) \/ since[req[q].val] <= Bound
=============================================================================
