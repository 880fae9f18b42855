------------------------ MODULE HostRegistry_proofs ------------------------
(***************************************************************************)
(* Proofs about HostRegistry, for any number of keys, names, files,        *)
(* versions, requests and pushes.                                          *)
(***************************************************************************)
EXTENDS HostRegistry, TLAPS

(* What a step may do to the saved registry. *)
DiskStep == disk' \in {disk, Torn, [reg |-> reg', names |-> names']}

-----------------------------------------------------------------------------
(* A push in Pushes has every field of its type. *)
LEMMA PushFields ==
  ASSUME NEW p \in Pushes
  PROVE  /\ p.key \in Keys /\ p.cid \in Versions /\ p.seq \in Seqs
         /\ p.parent \in Versions \cup {NoVersion}
         /\ p.files \in SUBSET Files
         /\ p.manifest \in BOOLEAN /\ p.last \in BOOLEAN /\ p.mirror \in BOOLEAN
         /\ p.rec \in Versions \cup {NoVersion}
         /\ p.mirror => p.parent = NoVersion
  BY ConstantsAssumption DEF PushType

(* A request that is not idle serves one of the pushes. *)
LEMMA ActiveRequest ==
  ASSUME TypeOK, NEW r \in Requests, NEW pc, At(r, pc), pc # "idle"
  PROVE  req[r] \in Active
  BY DEF TypeOK, At, Active, Idle

(* What replaces an entry is an entry, with the same name and never a lower
   sequence. *)
LEMMA SupersedeEntry ==
  ASSUME NEW e \in Entry, NEW p \in Pushes
  PROVE  /\ Supersede(e, p) \in Entry
         /\ Supersede(e, p).cid = p.cid
         /\ Supersede(e, p).seq = p.seq
         /\ Supersede(e, p).name = e.name
  BY PushFields DEF Supersede, Entry

(* The host only takes what is not behind the entry it replaces. *)
LEMMA NotRefused ==
  ASSUME NEW e \in Entry, NEW p \in Pushes, ~Refused(e, p)
  PROVE  p.seq >= e.seq
<1>1. p.seq \in Nat /\ e.seq \in Nat
  BY PushFields, ConstantsAssumption DEF Entry
<1>2. ~(p.seq < e.seq)
  BY DEF Refused, conflict
<1> QED
  BY <1>1, <1>2

(* A file that lands in a staging directory leaves a set of files there. *)
LEMMA OverlayFiles ==
  ASSUME NEW base \in SUBSET Files, NEW top \in SUBSET Files
  PROVE  Overlay(base, top) \in SUBSET Files
  BY DEF Overlay
-----------------------------------------------------------------------------
(* Every variable keeps its type (host.go's registry, staging directories
   and requests). *)
THEOREM TypeCorrect == Spec => []TypeOK
<1>1. Init => TypeOK
  BY ConstantsAssumption DEF Init, TypeOK, NoEntry, Entry, Registry, Idle
<1>2. TypeOK /\ [Next]_vars => TypeOK'
  <2> SUFFICES ASSUME TypeOK, [Next]_vars PROVE TypeOK'
    OBVIOUS
  <2> USE DEF TypeOK
  <2>1. ASSUME NEW r \in Requests, NEW p \in Pushes, BeginPush(r, p) PROVE TypeOK'
    <3>1. [pc |-> "receive", push |-> p, left |-> p.files] \in Active
      BY PushFields DEF Active
    <3>2. req' \in [Requests -> Active \cup {Idle}]
      BY <2>1, <3>1 DEF BeginPush
    <3> QED
      BY <2>1, <3>2 DEF BeginPush
  <2>2. ASSUME NEW r \in Requests, NEW f \in Files, Receive(r, f) PROVE TypeOK'
    <3>1. req[r] \in Active
      BY <2>2, ActiveRequest DEF Receive
    <3>2. [req[r] EXCEPT !.left = @ \ {f}] \in Active
      BY <3>1 DEF Active
    <3>3. req[r].push.cid \in Versions
      BY <3>1, PushFields DEF Active
    <3>4. Overlay(staged[req[r].push.cid], {f}) \in SUBSET Files
      BY <3>3, OverlayFiles
    <3> QED
      BY <2>2, <3>2, <3>3, <3>4 DEF Receive
  <2>3. ASSUME NEW r \in Requests, BreakOff(r) PROVE TypeOK'
    <3>1. req[r] \in Active
      BY <2>3, ActiveRequest DEF BreakOff
    <3>2. staged' \in [Versions -> SUBSET Files]
      BY <2>3, <3>1, PushFields DEF BreakOff, Unstage, Active
    <3> QED
      BY <2>3, <3>2 DEF BreakOff, Finish
  <2>4. ASSUME NEW r \in Requests, Received(r) PROVE TypeOK'
    <3>1. req[r] \in Active
      BY <2>4, ActiveRequest DEF Received
    <3>2. [req[r] EXCEPT !.pc = "build"] \in Active
      BY <3>1 DEF Active
    <3> QED
      BY <2>4, <3>2 DEF Received, Finish, Advance
  <2>5. ASSUME NEW r \in Requests, BuildFails(r) PROVE TypeOK'
    <3>1. req[r] \in Active
      BY <2>5, ActiveRequest DEF BuildFails
    <3>2. staged' \in [Versions -> SUBSET Files]
      BY <2>5, <3>1, PushFields DEF BuildFails, Unstage, Active
    <3> QED
      BY <2>5, <3>2 DEF BuildFails, Finish
  <2>6. ASSUME NEW r \in Requests, Build(r) PROVE TypeOK'
    <3>1. req[r] \in Active
      BY <2>6, ActiveRequest DEF Build
    <3>2. [req[r] EXCEPT !.pc = "commit"] \in Active
      BY <3>1 DEF Active
    <3>3. req[r].push.cid \in Versions /\ req[r].push.cid \in SUBSET Files
      BY <3>1, PushFields, ConstantsAssumption DEF Active
    <3>4. staged' \in [Versions -> SUBSET Files] /\ blocks' \in SUBSET Files
      BY <2>6, <3>3 DEF Build, Unstage
    <3>5. req' \in [Requests -> Active \cup {Idle}]
      BY <2>6, <3>2 DEF Build, Finish, Advance
    <3> QED
      BY <2>6, <3>4, <3>5 DEF Build
  <2>7. ASSUME NEW r \in Requests, Commit(r) PROVE TypeOK'
    <3> DEFINE p == req[r].push
    <3>1. p \in Pushes
      BY <2>7, ActiveRequest DEF Commit, Active
    <3>2. Supersede(reg[p.key], p) \in Entry
      BY <3>1, PushFields, SupersedeEntry
    <3>3. reg' \in [Keys -> Entry] /\ names' \in [Names -> Keys \cup {NoKey}]
      BY <2>7, <3>2 DEF Commit
    <3>4. disk' \in Registry \cup {Torn}
      BY <2>7, <3>3 DEF Commit, Saved, SaveFails, Registry
    <3>5. confirmed' \in [Keys -> Seqs]
      BY <2>7, <3>1, PushFields DEF Commit
    <3>6. staged' \in [Versions -> SUBSET Files]
      BY <2>7, <3>1, PushFields DEF Commit, Unstage
    <3> QED
      BY <2>7, <3>3, <3>4, <3>5, <3>6 DEF Commit, Finish
  <2>8. ASSUME NEW k \in Keys, NEW n \in Names, claim(k, n) PROVE TypeOK'
    <3>1. reg' \in [Keys -> Entry] /\ names' \in [Names -> Keys \cup {NoKey}]
      <4>1. [reg[k] EXCEPT !.name = n] \in Entry
        BY <2>8 DEF Entry
      <4>2. reg' = [reg EXCEPT ![k] = [reg[k] EXCEPT !.name = n]]
        BY <2>8 DEF claim
      <4>3. names' \in [Names -> Keys \cup {NoKey}]
        BY <2>8 DEF claim
      <4> QED
        BY <4>1, <4>2, <4>3
    <3>2. disk' \in Registry \cup {Torn}
      BY <2>8, <3>1 DEF claim, Saved, SaveFails, Registry
    <3>3. owner' \in [Names -> Keys \cup {NoKey}]
      BY <2>8 DEF claim
    <3> QED
      BY <2>8, <3>1, <3>2, <3>3 DEF claim
  <2>9. CASE Crash
    BY <2>9 DEF Crash
  <2>10. CASE Start
    BY <2>10 DEF Start, Registry
  <2>11. CASE UNCHANGED vars
    BY <2>11 DEF vars
  <2> QED
    BY <2>1, <2>2, <2>3, <2>4, <2>5, <2>6, <2>7, <2>8, <2>9, <2>10, <2>11 DEF Next
<1> QED
  BY <1>1, <1>2, PTL DEF Spec

-----------------------------------------------------------------------------
(* The steps of a request touch neither the registry nor what is claimed or
   confirmed, until it commits. *)
LEMMA Elsewhere ==
  ASSUME [Next]_vars,
         ~ \E r \in Requests : Commit(r),
         ~ \E k \in Keys, n \in Names : claim(k, n),
         ~ Start
  PROVE  UNCHANGED <<reg, names, disk, confirmed, owner>>
<1>1. CASE UNCHANGED vars
  BY <1>1 DEF vars
<1>2. CASE Next
  <2>1. ASSUME NEW r \in Requests, NEW p \in Pushes, BeginPush(r, p)
        PROVE  UNCHANGED <<reg, names, disk, confirmed, owner>>
    BY <2>1 DEF BeginPush
  <2>2. ASSUME NEW r \in Requests, NEW f \in Files, Receive(r, f)
        PROVE  UNCHANGED <<reg, names, disk, confirmed, owner>>
    BY <2>2 DEF Receive
  <2>3. ASSUME NEW r \in Requests, BreakOff(r) \/ Received(r) \/ BuildFails(r) \/ Build(r)
        PROVE  UNCHANGED <<reg, names, disk, confirmed, owner>>
    BY <2>3 DEF BreakOff, Received, BuildFails, Build
  <2>4. CASE Crash
    BY <2>4 DEF Crash
  <2> QED
    BY <1>2, <2>1, <2>2, <2>3, <2>4 DEF Next
<1> QED
  BY <1>1, <1>2

(* What a commit does to the registry: nothing, or the entry of the push's
   key is replaced by one that is not behind it. *)
LEMMA CommitStep ==
  ASSUME TypeOK, NEW r \in Requests, Commit(r)
  PROVE  /\ req[r].push \in Pushes
         /\ \/ reg' = reg /\ confirmed' = confirmed
            \/ LET p == req[r].push IN
               /\ p.seq >= reg[p.key].seq
               /\ reg' = [reg EXCEPT ![p.key] = Supersede(reg[p.key], p)]
               /\ \/ confirmed' = confirmed
                  \/ /\ disk' = [reg |-> reg', names |-> names']
                     /\ confirmed' = [confirmed EXCEPT ![p.key] = p.seq]
         /\ DiskStep
         /\ UNCHANGED <<names, owner>>
<1> DEFINE p == req[r].push
<1>1. p \in Pushes
  BY ActiveRequest DEF Commit, Active
<1>2. reg[p.key] \in Entry
  BY <1>1, PushFields DEF TypeOK
<1>3. ~Refused(reg[p.key], p) => p.seq >= reg[p.key].seq
  BY <1>1, <1>2, NotRefused
<1> QED
  BY <1>1, <1>3 DEF Commit, Saved, SaveFails, DiskStep

-----------------------------------------------------------------------------
(* While the host runs, the sequence it holds for a key never goes down:
   conflict and mirror check it again under the mutex (push, mirror). *)
THEOREM SequenceMonotone == Spec => SequenceNeverGoesDown
<1> DEFINE A == up /\ up' => \A k \in Keys : reg'[k].seq >= reg[k].seq
<1>1. TypeOK /\ [Next]_vars => [A]_vars
  <2> SUFFICES ASSUME TypeOK, [Next]_vars, up, up', NEW k \in Keys
               PROVE  reg'[k].seq >= reg[k].seq
    OBVIOUS
  <2>1. reg[k].seq \in Nat
    BY ConstantsAssumption DEF TypeOK, Entry
  <2>2. ASSUME NEW r \in Requests, Commit(r) PROVE reg'[k].seq >= reg[k].seq
    <3> DEFINE p == req[r].push
    <3>1. reg' = reg \/ (reg' = [reg EXCEPT ![p.key] = Supersede(reg[p.key], p)]
                          /\ p.seq >= reg[p.key].seq /\ p \in Pushes)
      BY <2>2, CommitStep
    <3>2. CASE reg' = reg
      BY <2>1, <3>2
    <3>3. CASE /\ reg' = [reg EXCEPT ![p.key] = Supersede(reg[p.key], p)]
               /\ p.seq >= reg[p.key].seq /\ p \in Pushes
      <4>1. p.key \in Keys /\ Supersede(reg[p.key], p).seq = p.seq
        BY <3>3, PushFields, SupersedeEntry DEF TypeOK
      <4> QED
        BY <2>1, <3>3, <4>1 DEF TypeOK
    <3> QED
      BY <3>1, <3>2, <3>3
  <2>3. ASSUME NEW j \in Keys, NEW n \in Names, claim(j, n) PROVE reg'[k].seq >= reg[k].seq
    BY <2>1, <2>3 DEF claim, TypeOK, Entry
  <2>4. ~Start
    BY DEF Start
  <2> QED
    BY <2>1, <2>2, <2>3, <2>4, Elsewhere
<1> QED
  BY <1>1, TypeCorrect, PTL DEF Spec, SequenceNeverGoesDown

-----------------------------------------------------------------------------
(* A push that was confirmed is never undone by an earlier one, in memory or
   on disk: the confirmed sequence is what is saved (push). *)
THEOREM ConfirmedPushesSurvive == Spec => []ConfirmedSurvives
<1>1. Init => ConfirmedSurvives
  <2> SUFFICES ASSUME Init, NEW k \in Keys
               PROVE  reg[k].seq >= confirmed[k] /\ disk.reg[k].seq >= confirmed[k]
    BY DEF ConfirmedSurvives
  <2>1. reg[k].seq = 0 /\ confirmed[k] = 0 /\ disk.reg[k].seq = 0
    BY DEF Init, NoEntry
  <2> QED
    BY <2>1
<1>2. TypeOK /\ ConfirmedSurvives /\ [Next]_vars => ConfirmedSurvives'
  <2> SUFFICES ASSUME TypeOK, ConfirmedSurvives, [Next]_vars PROVE ConfirmedSurvives'
    OBVIOUS
  <2>1. ASSUME NEW r \in Requests, Commit(r) PROVE ConfirmedSurvives'
    <3> DEFINE p == req[r].push
    <3> SUFFICES ASSUME NEW k \in Keys
                 PROVE  /\ reg'[k].seq >= confirmed'[k]
                        /\ disk' # Torn => disk'.reg[k].seq >= confirmed'[k]
      BY DEF ConfirmedSurvives
    <3>1. /\ reg[k].seq \in Nat /\ confirmed[k] \in Nat
          /\ reg[k].seq >= confirmed[k]
          /\ disk # Torn => disk.reg[k].seq >= confirmed[k]
      BY ConstantsAssumption DEF TypeOK, Entry, ConfirmedSurvives
    <3>2. CASE reg' = reg /\ confirmed' = confirmed
      BY <2>1, <3>1, <3>2, CommitStep DEF DiskStep
    <3>3. CASE /\ p.seq >= reg[p.key].seq
               /\ reg' = [reg EXCEPT ![p.key] = Supersede(reg[p.key], p)]
               /\ \/ confirmed' = confirmed
                  \/ /\ disk' = [reg |-> reg', names |-> names']
                     /\ confirmed' = [confirmed EXCEPT ![p.key] = p.seq]
      <4>1. p.key \in Keys /\ p.seq \in Nat /\ Supersede(reg[p.key], p).seq = p.seq
        BY <2>1, CommitStep, PushFields, SupersedeEntry, ConstantsAssumption DEF TypeOK
      <4>2. reg'[k].seq >= reg[k].seq /\ reg'[k].seq \in Nat
        BY <3>1, <3>3, <4>1 DEF TypeOK
      <4>3. CASE confirmed' = confirmed
        BY <2>1, <3>1, <4>2, <4>3, CommitStep DEF DiskStep
      <4>4. CASE /\ disk' = [reg |-> reg', names |-> names']
                 /\ confirmed' = [confirmed EXCEPT ![p.key] = p.seq]
        <5>1. reg'[k].seq >= confirmed'[k]
          BY <3>1, <3>3, <4>1, <4>2, <4>4 DEF TypeOK
        <5> QED
          BY <4>4, <5>1
      <4> QED
        BY <3>3, <4>3, <4>4
    <3> QED
      BY <2>1, <3>2, <3>3, CommitStep
  <2>2. ASSUME NEW j \in Keys, NEW n \in Names, claim(j, n) PROVE ConfirmedSurvives'
    <3>1. \A k \in Keys : reg'[k].seq = reg[k].seq
      BY <2>2 DEF claim, TypeOK, Entry
    <3>2. DiskStep /\ confirmed' = confirmed
      BY <2>2 DEF claim, Saved, SaveFails, DiskStep
    <3> QED
      BY <3>1, <3>2 DEF ConfirmedSurvives, DiskStep
  <2>3. CASE Start
    BY <2>3 DEF Start, ConfirmedSurvives
  <2> QED
    BY <2>1, <2>2, <2>3, Elsewhere DEF ConfirmedSurvives
<1> QED
  BY <1>1, <1>2, TypeCorrect, PTL DEF Spec

-----------------------------------------------------------------------------
(* Claiming a name leaves the names and the entries matching. *)
LEMMA ClaimMatches ==
  ASSUME TypeOK, NamesMatchKeys, NEW j \in Keys, NEW m \in Names, claim(j, m)
  PROVE  Mirrored(reg', names')
<1> SUFFICES ASSUME NEW k \in Keys, NEW n \in Names
             PROVE  names'[n] = k <=> reg'[k].name = n
  BY DEF Mirrored
<1>1. /\ reg[j] \in Entry /\ reg[k] \in Entry /\ names[m] \in {j, NoKey}
      /\ j # NoKey /\ k # NoKey /\ NoName # n /\ NoName # m
  BY ConstantsAssumption DEF TypeOK, claim, Available
<1>2. reg'[j].name = m /\ (k # j => reg'[k] = reg[k])
  BY <1>1 DEF claim, TypeOK, Entry
<1>3. names'[n] = IF n = m THEN j ELSE IF n = reg[j].name THEN NoKey ELSE names[n]
  BY DEF claim, Freed
<1>4. /\ names[n] = k <=> reg[k].name = n
      /\ names[n] = j <=> reg[j].name = n
  BY DEF NamesMatchKeys, Mirrored
<1> QED
  BY <1>1, <1>2, <1>3, <1>4

(* Names and entries match, in memory and on disk, through claims, failed
   saves and restarts (claim). *)
THEOREM NamesMatch == Spec => []NamesMatchKeys
<1>1. Init => NamesMatchKeys
  BY ConstantsAssumption DEF Init, NamesMatchKeys, Mirrored, NoEntry
<1>2. TypeOK /\ NamesMatchKeys /\ [Next]_vars => NamesMatchKeys'
  <2> SUFFICES ASSUME TypeOK, NamesMatchKeys, [Next]_vars PROVE NamesMatchKeys'
    OBVIOUS
  <2>1. ASSUME NEW r \in Requests, Commit(r) PROVE NamesMatchKeys'
    <3> DEFINE p == req[r].push
    <3>1. \A k \in Keys : reg'[k].name = reg[k].name
      <4>1. p \in Pushes /\ (reg' = reg \/ reg' = [reg EXCEPT ![p.key] = Supersede(reg[p.key], p)])
        BY <2>1, CommitStep
      <4>2. p.key \in Keys /\ Supersede(reg[p.key], p).name = reg[p.key].name
        BY <4>1, PushFields, SupersedeEntry DEF TypeOK
      <4> QED
        BY <4>1, <4>2 DEF TypeOK
    <3>2. Mirrored(reg', names')
      BY <2>1, <3>1, CommitStep DEF NamesMatchKeys, Mirrored
    <3> QED
      BY <2>1, <3>2, CommitStep DEF NamesMatchKeys, DiskStep
  <2>2. ASSUME NEW j \in Keys, NEW m \in Names, claim(j, m) PROVE NamesMatchKeys'
    <3>1. DiskStep
      BY <2>2 DEF claim, Saved, SaveFails, DiskStep
    <3> QED
      BY <2>2, <3>1, ClaimMatches DEF NamesMatchKeys, DiskStep
  <2>3. CASE Start
    BY <2>3 DEF Start, NamesMatchKeys
  <2> QED
    BY <2>1, <2>2, <2>3, Elsewhere DEF NamesMatchKeys
<1> QED
  BY <1>1, <1>2, TypeCorrect, PTL DEF Spec

(* A key that was told it holds a name holds it until it asks for another
   one (claim).  That others cannot take it rests on the names and entries
   matching. *)
THEOREM ClaimsAreKept == Spec => []ClaimsLast
<1>1. Init => ClaimsLast
  BY DEF Init, ClaimsLast
<1>2. TypeOK /\ NamesMatchKeys /\ ClaimsLast /\ [Next]_vars => ClaimsLast'
  <2> SUFFICES ASSUME TypeOK, NamesMatchKeys, ClaimsLast, [Next]_vars PROVE ClaimsLast'
    OBVIOUS
  <2>1. ASSUME NEW r \in Requests, Commit(r) PROVE ClaimsLast'
    BY <2>1, CommitStep DEF ClaimsLast, DiskStep
  <2>2. ASSUME NEW j \in Keys, NEW m \in Names, claim(j, m) PROVE ClaimsLast'
    <3> SUFFICES ASSUME NEW n \in Names, owner'[n] # NoKey
                 PROVE  names'[n] = owner'[n] /\ (disk' # Torn => disk'.names[n] = owner'[n])
      BY DEF ClaimsLast
    <3>1. /\ j # NoKey /\ names[m] \in {j, NoKey}
          /\ names'[n] = IF n = m THEN j ELSE IF n = reg[j].name THEN NoKey ELSE names[n]
          /\ owner[n] \in Keys \cup {NoKey}
      BY <2>2, ConstantsAssumption DEF claim, Available, Freed, TypeOK
    <3>2. owner[n] # NoKey => names[n] = owner[n] /\ (disk # Torn => disk.names[n] = owner[n])
      BY DEF ClaimsLast
    <3>3. names[n] = j <=> reg[j].name = n
      BY DEF NamesMatchKeys, Mirrored
    <3>4. CASE Saved /\ owner'[n] = (IF n = m THEN j ELSE IF owner[n] = j THEN NoKey ELSE owner[n])
      BY <3>1, <3>2, <3>3, <3>4 DEF Saved
    <3>5. CASE SaveFails /\ owner'[n] = (IF owner[n] = j /\ n # m THEN NoKey ELSE owner[n])
      BY <3>1, <3>2, <3>3, <3>5 DEF SaveFails
    <3> QED
      BY <2>2, <3>4, <3>5 DEF claim
  <2>3. CASE Start
    BY <2>3 DEF Start, ClaimsLast
  <2> QED
    BY <2>1, <2>2, <2>3, Elsewhere DEF ClaimsLast
<1> QED
  BY <1>1, <1>2, TypeCorrect, NamesMatch, PTL DEF Spec

-----------------------------------------------------------------------------
(* What a request builds on is whole, and so is what it is about to commit:
   the strengthening that makes HeadsAreWhole inductive.  The parent was the
   version held when the push began, and blocks are never removed. *)
RequestsAreWhole ==
  \A r \in Requests : req[r].pc # "idle" =>
    LET p == req[r].push IN
    /\ p.parent # NoVersion => p.parent \subseteq blocks
    /\ req[r].pc \in {"build", "commit"} => (p.manifest => p.parent # NoVersion)
    /\ req[r].pc = "commit" => p.cid \subseteq blocks

WholeInv == HeadsAreWhole /\ RequestsAreWhole

(* Building on a whole parent makes a whole version: what is not carried over
   from it was staged (Rebuild, AddOver, AddDir). *)
LEMMA BuiltIsWhole ==
  ASSUME NEW p \in Pushes, NEW b,
         p.parent # NoVersion => p.parent \subseteq b,
         p.manifest => p.parent # NoVersion
  PROVE  Got(p) \subseteq b \cup staged[p.cid]
  BY DEF Got, Carried, Overlay

(* A push that is not refused builds on the version the host holds. *)
LEMMA ParentIsHeld ==
  ASSUME NEW p \in Pushes, NEW e \in Entry, ~Refused(e, p), p.parent # NoVersion
  PROVE  e.cid = p.parent
<1>1. ~p.mirror
  BY PushFields
<1> QED
  BY <1>1 DEF Refused, conflict

(* The host has every file of every version it names, now and after a
   restart (push, mirror, Rebuild). *)
THEOREM HeadsWhole == Spec => []HeadsAreWhole
<1>1. Init => WholeInv
  <2> SUFFICES ASSUME Init PROVE WholeInv
    OBVIOUS
  <2>1. \A k \in Keys : reg[k].cid = NoVersion /\ disk.reg[k].cid = NoVersion
    BY DEF Init, NoEntry
  <2>2. \A r \in Requests : req[r].pc = "idle"
    BY DEF Init, Idle
  <2> QED
    BY <2>1, <2>2 DEF WholeInv, HeadsAreWhole, RequestsAreWhole
<1>2. TypeOK /\ WholeInv /\ [Next]_vars => WholeInv'
  <2> SUFFICES ASSUME TypeOK, WholeInv, [Next]_vars PROVE WholeInv'
    OBVIOUS
  <2>0. ASSUME UNCHANGED <<reg, disk>>, blocks \subseteq blocks' PROVE HeadsAreWhole'
    BY <2>0 DEF WholeInv, HeadsAreWhole
  <2>1. ASSUME NEW r \in Requests, NEW p \in Pushes, BeginPush(r, p) PROVE WholeInv'
    <3>1. p.parent # NoVersion => p.parent \subseteq blocks
      <4>1. reg[p.key] \in Entry /\ p.key \in Keys
        BY PushFields DEF TypeOK
      <4>2. p.parent # NoVersion => reg[p.key].cid = p.parent
        BY <2>1, <4>1, ParentIsHeld DEF BeginPush
      <4> QED
        BY <4>1, <4>2 DEF WholeInv, HeadsAreWhole
    <3>2. RequestsAreWhole'
      BY <2>1, <3>1 DEF BeginPush, WholeInv, RequestsAreWhole, TypeOK
    <3> QED
      BY <2>0, <2>1, <3>2 DEF BeginPush, WholeInv
  <2>2. ASSUME NEW r \in Requests, NEW f \in Files, Receive(r, f) PROVE WholeInv'
    <3>1. req[r] \in Active
      BY <2>2, ActiveRequest DEF Receive
    <3>2. req'[r].pc = "receive" /\ req'[r].push = req[r].push
      BY <2>2, <3>1 DEF Receive, TypeOK, Active, At
    <3>3. \A q \in Requests : q # r => req'[q] = req[q]
      BY <2>2 DEF Receive, TypeOK
    <3>4. RequestsAreWhole'
      BY <2>2, <3>2, <3>3 DEF Receive, At, WholeInv, RequestsAreWhole
    <3> QED
      BY <2>0, <2>2, <3>4 DEF Receive, WholeInv
  <2>3. ASSUME NEW r \in Requests, BreakOff(r) \/ BuildFails(r) PROVE WholeInv'
    BY <2>0, <2>3 DEF BreakOff, BuildFails, Finish, WholeInv, RequestsAreWhole, TypeOK, Idle
  <2>4. ASSUME NEW r \in Requests, Received(r) PROVE WholeInv'
    <3>1. req[r] \in Active
      BY <2>4, ActiveRequest DEF Received
    <3>2. \A q \in Requests : q # r => req'[q] = req[q]
      BY <2>4 DEF Received, Finish, Advance, TypeOK
    <3>3. \/ req'[r].pc = "idle"
          \/ /\ req'[r].pc = "build" /\ req'[r].push = req[r].push
             /\ req[r].push.manifest => req[r].push.parent # NoVersion
      BY <2>4, <3>1 DEF Received, Finish, Advance, TypeOK, Active, Idle
    <3>4. RequestsAreWhole'
      BY <2>4, <3>2, <3>3 DEF Received, At, WholeInv, RequestsAreWhole
    <3> QED
      BY <2>0, <2>4, <3>4 DEF Received, WholeInv
  <2>5. ASSUME NEW r \in Requests, Build(r) PROVE WholeInv'
    <3> DEFINE p == req[r].push
    <3>1. req[r] \in Active /\ p \in Pushes
      BY <2>5, ActiveRequest DEF Build, Active
    <3>2. blocks \subseteq blocks' /\ UNCHANGED <<reg, disk>>
      BY <2>5 DEF Build
    <3>3. \A q \in Requests : q # r => req'[q] = req[q]
      BY <2>5 DEF Build, Finish, Advance, TypeOK
    <3>4. /\ p.parent # NoVersion => p.parent \subseteq blocks
          /\ p.manifest => p.parent # NoVersion
      BY <2>5 DEF Build, At, WholeInv, RequestsAreWhole
    <3>5. \/ req'[r].pc = "idle"
          \/ req'[r].pc = "commit" /\ req'[r].push = p /\ p.cid \subseteq blocks'
      <4>1. Got(p) \subseteq blocks \cup staged[p.cid]
        BY <3>1, <3>4, BuiltIsWhole
      <4> QED
        BY <2>5, <3>1, <4>1 DEF Build, Finish, Advance, TypeOK, Active, Idle
    <3>6. RequestsAreWhole'
      BY <3>2, <3>3, <3>4, <3>5 DEF WholeInv, RequestsAreWhole
    <3> QED
      BY <2>0, <3>2, <3>6 DEF WholeInv
  <2>6. ASSUME NEW r \in Requests, Commit(r) PROVE WholeInv'
    <3> DEFINE p == req[r].push
    <3>1. p \in Pushes /\ p.cid \subseteq blocks
      BY <2>6, CommitStep DEF Commit, At, WholeInv, RequestsAreWhole
    <3>2. p.key \in Keys /\ Supersede(reg[p.key], p).cid = p.cid
      BY <3>1, PushFields, SupersedeEntry DEF TypeOK
    <3>3. \A k \in Keys : reg'[k].cid # NoVersion => reg'[k].cid \subseteq blocks
      BY <2>6, <3>1, <3>2, CommitStep DEF WholeInv, HeadsAreWhole, TypeOK
    <3>4. HeadsAreWhole'
      <4>1. UNCHANGED blocks
        BY <2>6 DEF Commit
      <4>2. disk' \in {disk, Torn} \/ disk'.reg = reg'
        BY <2>6, CommitStep DEF DiskStep
      <4> QED
        BY <3>3, <4>1, <4>2 DEF WholeInv, HeadsAreWhole
    <3>5. RequestsAreWhole'
      <4>1. req'[r].pc = "idle" /\ (\A q \in Requests : q # r => req'[q] = req[q]) /\ UNCHANGED blocks
        BY <2>6 DEF Commit, Finish, TypeOK, Idle
      <4> QED
        BY <4>1 DEF WholeInv, RequestsAreWhole
    <3> QED
      BY <3>4, <3>5 DEF WholeInv
  <2>7. ASSUME NEW j \in Keys, NEW n \in Names, claim(j, n) PROVE WholeInv'
    <3>1. \A k \in Keys : reg'[k].cid = reg[k].cid
      BY <2>7 DEF claim, TypeOK, Entry
    <3>2. DiskStep /\ UNCHANGED <<req, blocks>>
      BY <2>7 DEF claim, Saved, SaveFails, DiskStep
    <3> QED
      BY <3>1, <3>2 DEF DiskStep, WholeInv, HeadsAreWhole, RequestsAreWhole
  <2>8. CASE Crash
    BY <2>8 DEF Crash, WholeInv, HeadsAreWhole, RequestsAreWhole, Idle
  <2>9. CASE Start
    BY <2>9 DEF Start, WholeInv, HeadsAreWhole, RequestsAreWhole
  <2>10. CASE UNCHANGED vars
    BY <2>10 DEF vars, WholeInv, HeadsAreWhole, RequestsAreWhole
  <2> QED
    BY <2>1, <2>2, <2>3, <2>4, <2>5, <2>6, <2>7, <2>8, <2>9, <2>10 DEF Next
<1>3. WholeInv => HeadsAreWhole
  BY DEF WholeInv
<1> QED
  BY <1>1, <1>2, <1>3, TypeCorrect, PTL DEF Spec

-----------------------------------------------------------------------------
(* An offer the host does not refuse may take the place of its head: the
   check under the mutex is the abstract rule (conflict, mirror). *)
LEMMA TakenIsAllowed ==
  ASSUME NEW p \in Pushes, NEW e \in Entry, ~Refused(e, p), NEW o, NEW h,
         o.mirror = p.mirror, o.parent = p.parent, o.seq = p.seq, o.cid = p.cid,
         h.cid = e.cid, h.seq = e.seq
  PROVE  Promise!Supersedes(o, h)
<1>1. p.seq \in Nat /\ e.seq \in Nat /\ p.seq >= e.seq
  BY PushFields, NotRefused, ConstantsAssumption DEF Entry
<1>2. CASE p.mirror
  BY <1>1, <1>2 DEF Promise!Supersedes
<1>3. CASE ~p.mirror /\ p.parent # NoVersion
  <2>1. e.cid = p.parent
    BY <1>3, ParentIsHeld
  <2> QED
    BY <1>1, <1>3, <2>1 DEF Promise!Supersedes
<1>4. CASE ~p.mirror /\ p.parent = NoVersion
  <2>1. p.seq = e.seq => e.cid \in {NoVersion, p.cid}
    BY <1>4 DEF Refused, conflict
  <2> QED
    BY <1>1, <1>4, <2>1 DEF Promise!Supersedes
<1> QED
  BY PushFields, <1>2, <1>3, <1>4

HeadsOf(entries) == [k \in Keys |-> [cid |-> entries[k].cid, seq |-> entries[k].seq]]
OffersNow == [r \in Requests |-> OfferOf(r)]

(* A request that stays the same, or only moves on, keeps its offer; one that
   ends has none. *)
LEMMA OfferKept ==
  ASSUME NEW r \in Requests, req \in [Requests -> Active \cup {Idle}],
         req' \in [Requests -> Active \cup {Idle}],
         \A q \in Requests : q # r => req'[q] = req[q],
         req[r].pc # "idle", req'[r].pc # "idle", req'[r].push = req[r].push
  PROVE  OffersNow' = OffersNow
  BY DEF OffersNow, OfferOf

LEMMA OfferDropped ==
  ASSUME NEW r \in Requests, req \in [Requests -> Active \cup {Idle}], Finish(r)
  PROVE  OffersNow' = [OffersNow EXCEPT ![r] = Idle]
  BY DEF OffersNow, OfferOf, Finish, Idle

LEMMA NoOfferIsIdle ==
  ASSUME NEW r \in Requests, req[r] \in Active
  PROVE  OffersNow[r] # Idle /\ OffersNow[r].mirror = req[r].push.mirror
  BY DEF OffersNow, OfferOf, Active, Idle

(* A host that is down serves nothing: what was in flight ended with it. *)
DownIsIdle == ~up => req = [r \in Requests |-> Idle]

LEMMA NothingInFlightWhenDown == Spec => []DownIsIdle
<1>1. Init => DownIsIdle
  BY DEF Init, DownIsIdle
<1>2. DownIsIdle /\ [Next]_vars => DownIsIdle'
  <2> SUFFICES ASSUME DownIsIdle, [Next]_vars PROVE DownIsIdle'
    OBVIOUS
  <2> DEFINE Busy == up /\ up' = up
  <2>1. Busy => DownIsIdle'
    BY DEF DownIsIdle
  <2>2. ASSUME NEW r \in Requests, NEW p \in Pushes, BeginPush(r, p) PROVE Busy
    BY <2>2 DEF BeginPush, At
  <2>3. ASSUME NEW r \in Requests, NEW f \in Files, Receive(r, f) PROVE Busy
    BY <2>3 DEF Receive, At
  <2>4. ASSUME NEW r \in Requests,
               BreakOff(r) \/ Received(r) \/ BuildFails(r) \/ Build(r) \/ Commit(r)
        PROVE  Busy
    BY <2>4 DEF BreakOff, Received, BuildFails, Build, Commit, At
  <2>5. ASSUME NEW k \in Keys, NEW n \in Names, claim(k, n) PROVE Busy
    BY <2>5 DEF claim
  <2>6. CASE Crash \/ Start \/ UNCHANGED vars
    BY <2>6 DEF Crash, Start, vars, DownIsIdle
  <2> QED
    BY <2>1, <2>2, <2>3, <2>4, <2>5, <2>6 DEF Next
<1> QED
  BY <1>1, <1>2, PTL DEF Spec

(* The host implements its promise: every step takes one offer by the rule,
   drops offers, falls back on what is saved, or changes nothing a writer can
   see (SiteHead).  Falling back rests on the confirmed pushes surviving. *)
THEOREM HostKeepsPromise == Spec => KeepsPromise
<1> DEFINE Step == [Promise!HNext]_(Promise!headVars)
           Same == HeadsOf(reg)' = HeadsOf(reg) /\ confirmed' = confirmed
<1>1. Init => Promise!HInit
  BY DEF Init, NoEntry, OfferOf, Idle, Promise!HInit
<1>2. TypeOK /\ TypeOK' /\ ConfirmedSurvives /\ ConfirmedSurvives' /\ DownIsIdle /\ [Next]_vars => Step
  <2> SUFFICES ASSUME TypeOK, TypeOK', ConfirmedSurvives, ConfirmedSurvives', DownIsIdle, [Next]_vars
               PROVE  Step
    OBVIOUS
  <2>0. ASSUME Same, OffersNow' = OffersNow PROVE Step
    BY <2>0 DEF HeadsOf, OffersNow, Promise!headVars
  <2>00. ASSUME NEW r \in Requests, Same, Finish(r) PROVE Step
    <3>1. OffersNow' = [OffersNow EXCEPT ![r] = Idle]
      BY <2>00, OfferDropped DEF TypeOK
    <3>2. Promise!DropOffer(r)
      BY <2>00, <3>1 DEF HeadsOf, OffersNow, Promise!DropOffer
    <3> QED
      BY <3>2 DEF Promise!HNext
  <2>1. ASSUME NEW r \in Requests, NEW p \in Pushes, BeginPush(r, p) PROVE Step
    <3> DEFINE o == [key |-> p.key, cid |-> p.cid, seq |-> p.seq, parent |-> p.parent,
                     mirror |-> p.mirror]
    <3>1. OffersNow[r] = Idle
      BY <2>1 DEF BeginPush, At, OffersNow, OfferOf
    <3>2. OffersNow' = [OffersNow EXCEPT ![r] = o]
      BY <2>1 DEF BeginPush, OffersNow, OfferOf, TypeOK
    <3>3. OffersNow'[r] = o /\ o \in Promise!Offers
      BY <3>2, PushFields DEF Promise!Offers, OffersNow
    <3>4. Promise!MakeOffer(r)
      BY <2>1, <3>1, <3>2, <3>3 DEF BeginPush, HeadsOf, OffersNow, Promise!MakeOffer
    <3> QED
      BY <3>4 DEF Promise!HNext
  <2>2. ASSUME NEW r \in Requests, NEW f \in Files, Receive(r, f) PROVE Step
    <3>1. req[r] \in Active
      BY <2>2, ActiveRequest DEF Receive
    <3>2. /\ req[r].pc # "idle" /\ req'[r].pc # "idle" /\ req'[r].push = req[r].push
          /\ \A q \in Requests : q # r => req'[q] = req[q]
      BY <2>2, <3>1 DEF Receive, TypeOK, Active, At
    <3>3. OffersNow' = OffersNow
      BY <3>2, OfferKept DEF TypeOK
    <3> QED
      BY <2>0, <2>2, <3>3 DEF Receive, HeadsOf
  <2>3. ASSUME NEW r \in Requests, BreakOff(r) \/ BuildFails(r) PROVE Step
    BY <2>00, <2>3 DEF BreakOff, BuildFails, HeadsOf
  <2>4. ASSUME NEW r \in Requests, NEW pc \in {"build", "commit"},
               At(r, "receive") \/ At(r, "build"), Advance(r, pc), Same
        PROVE  Step
    <3>1. req[r] \in Active
      BY <2>4, ActiveRequest
    <3>2. /\ req[r].pc # "idle" /\ req'[r].pc # "idle" /\ req'[r].push = req[r].push
          /\ \A q \in Requests : q # r => req'[q] = req[q]
      BY <2>4, <3>1 DEF Advance, TypeOK, Active, At
    <3>3. OffersNow' = OffersNow
      BY <3>2, OfferKept DEF TypeOK
    <3> QED
      BY <2>0, <2>4, <3>3
  <2>5. ASSUME NEW r \in Requests, Received(r) \/ Build(r) PROVE Step
    <3>1. /\ At(r, "receive") \/ At(r, "build")
          /\ Advance(r, "build") \/ Advance(r, "commit") \/ Finish(r)
          /\ Same
      BY <2>5 DEF Received, Build, HeadsOf
    <3> QED
      BY <2>00, <2>4, <3>1
  <2>6. ASSUME NEW r \in Requests, Commit(r) PROVE Step
    <3> DEFINE p == req[r].push
               e == reg[p.key]
    <3>1. req[r] \in Active /\ p \in Pushes /\ Finish(r)
      BY <2>6, ActiveRequest DEF Commit, Active
    <3>2. CASE reg' = reg /\ confirmed' = confirmed
      BY <2>00, <3>1, <3>2 DEF HeadsOf
    <3>3. CASE /\ ~Refused(e, p)
               /\ reg' = [reg EXCEPT ![p.key] = Supersede(e, p)]
               /\ confirmed' \in {confirmed, [confirmed EXCEPT ![p.key] = p.seq]}
      <4> DEFINE o == OffersNow[r]
      <4>1. p.key \in Keys /\ e \in Entry
        BY <3>1, PushFields DEF TypeOK
      <4>2. /\ o # Idle /\ o.key = p.key /\ o.cid = p.cid /\ o.seq = p.seq
            /\ o.parent = p.parent /\ o.mirror = p.mirror
        BY <2>6, <3>1, NoOfferIsIdle DEF Commit, At, OffersNow, OfferOf
      <4>3. Promise!Supersedes(o, HeadsOf(reg)[p.key])
        BY <3>1, <3>3, <4>1, <4>2, TakenIsAllowed DEF HeadsOf
      <4>4. HeadsOf(reg)' = [HeadsOf(reg) EXCEPT ![p.key] = [cid |-> p.cid, seq |-> p.seq]]
        <5>1. reg'[p.key] = Supersede(e, p) /\ \A k \in Keys \ {p.key} : reg'[k] = reg[k]
          BY <3>3, <4>1 DEF TypeOK
        <5>2. Supersede(e, p).cid = p.cid /\ Supersede(e, p).seq = p.seq
          BY <3>1, <4>1, SupersedeEntry
        <5> QED
          BY <4>1, <5>1, <5>2 DEF HeadsOf
      <4>5. OffersNow' = [OffersNow EXCEPT ![r] = Idle]
        BY <3>1, OfferDropped DEF TypeOK
      <4>6. Promise!TakeOffer(r)
        BY <3>3, <4>2, <4>3, <4>4, <4>5 DEF Promise!TakeOffer, HeadsOf, OffersNow
      <4> QED
        BY <4>6 DEF Promise!HNext
    <3> QED
      BY <2>6, <3>2, <3>3 DEF Commit, Refused
  <2>7. ASSUME NEW k \in Keys, NEW n \in Names, claim(k, n) PROVE Step
    <3>1. \A j \in Keys : reg'[j].cid = reg[j].cid /\ reg'[j].seq = reg[j].seq
      BY <2>7 DEF claim, TypeOK, Entry
    <3>2. HeadsOf(reg)' = HeadsOf(reg)
      BY <3>1 DEF HeadsOf
    <3>3. OffersNow' = OffersNow /\ confirmed' = confirmed
      BY <2>7 DEF claim, OffersNow, OfferOf
    <3> QED
      BY <2>0, <3>2, <3>3
  <2>8. CASE Crash
    <3>1. OffersNow' = [r \in Requests |-> Idle]
      BY <2>8 DEF Crash, OffersNow, OfferOf, Idle
    <3>2. HeadsOf(reg)' \in [Keys -> Promise!Heads]
      BY DEF TypeOK, HeadsOf, Entry, Promise!Heads
    <3>3. \A k \in Keys : HeadsOf(reg)'[k].seq >= confirmed[k]
      BY <2>8 DEF Crash, HeadsOf, ConfirmedSurvives
    <3>4. Promise!FallBack
      BY <2>8, <3>1, <3>2, <3>3 DEF Crash, Promise!FallBack, HeadsOf, OffersNow
    <3> QED
      BY <3>4 DEF Promise!HNext
  <2>9. CASE Start
    <3>1. OffersNow' = [r \in Requests |-> Idle]
      BY <2>9 DEF Start, DownIsIdle, OffersNow, OfferOf, Idle
    <3>2. HeadsOf(reg)' \in [Keys -> Promise!Heads]
      BY DEF TypeOK, HeadsOf, Entry, Promise!Heads
    <3>3. \A k \in Keys : HeadsOf(reg)'[k].seq >= confirmed[k]
      BY <2>9 DEF Start, HeadsOf, ConfirmedSurvives
    <3>4. Promise!FallBack
      BY <2>9, <3>1, <3>2, <3>3 DEF Start, Promise!FallBack, HeadsOf, OffersNow
    <3> QED
      BY <3>4 DEF Promise!HNext
  <2>10. CASE UNCHANGED vars
    BY <2>0, <2>10 DEF vars, HeadsOf, OffersNow, OfferOf
  <2> QED
    BY <2>1, <2>2, <2>3, <2>5, <2>6, <2>7, <2>8, <2>9, <2>10 DEF Next
<1> QED
  BY <1>1, <1>2, TypeCorrect, ConfirmedPushesSurvive, NothingInFlightWhenDown, PTL DEF Spec, KeepsPromise, Promise!HSpec
=============================================================================
